----------------------------- MODULE FileFormats ----------------------------
(***************************************************************************)
(* What is written to be read back: CSV files, and the buffers of the      *)
(* binary reader and writer.                                               *)
(***************************************************************************)
EXTENDS Naturals, Sequences, SequencesExt

(***************************************************************************)
(* CsvWriter and CsvReader (base/csv_writer.cpp, base/csv_reader.cpp) over *)
(* one file: rows are written cell by cell, then read cell by cell.        *)
(*                                                                         *)
(* A character stands for its class: a delimiter, the quote, a carriage    *)
(* return, a line feed, the byte-order mark, or any other.  The caller     *)
(* reads each row to its end before the next.                              *)
(***************************************************************************)
CONSTANTS
  CellTexts,    \* texts of cells
  Signatures,   \* first cells that a reader may expect; <<>> for none
  MaxCells      \* bound: cells written to a file

Quote == "quote"
CR == "cr"
LF == "lf"
Bom == "bom"

VARIABLES
  file,         \* the characters of the stream
  dialect,      \* the writer's bom and delimiter, the reader's signature
  writer,       \* CsvWriter: bom_written_, skip_start_, start_of_line_
  written,      \* the rows given to the writer
  csv,          \* CsvReader: the rest of the stream, line_, line_pos_, has_cells_
  separator_,   \* CsvReader: the delimiter it reads
  read,         \* the rows taken from the reader
  csvPhase      \* "write", "read" or "end"

csvvars == <<file, dialect, writer, written, csv, separator_, read, csvPhase>>

CsvInit ==
  /\ file = <<>>
  /\ dialect \in [bom : {<<>>, <<Bom>>}, delimiter : {",", ";"}, signature : Signatures]
  /\ writer = [bom_written_ |-> FALSE, skip_start_ |-> TRUE,
               start_of_line_ |-> TRUE]
  /\ written = <<>> /\ read = <<>> /\ csvPhase = "write" /\ separator_ = ","
  /\ csv = [rest |-> <<>>, line_ |-> <<>>, line_pos_ |-> 1, has_cells_ |-> FALSE]

-----------------------------------------------------------------------------
(* Helpers of base/string_util.cpp *)

\* Position of the first c in s from position i on, 0 when there is none.
FindText(s, c, i) ==
  LET at == {j \in i..Len(s) : s[j] = c}
  IN IF at = {} THEN 0 ELSE CHOOSE j \in at : \A k \in at : j <= k

From(s, i) == SubSeq(s, i, Len(s))

\* ReplaceSubstringsAfterOffset of a single character.
ReplaceEach(s, c, by) == FlattenSeq([i \in DOMAIN s |-> IF s[i] = c THEN by ELSE <<s[i]>>])

\* ReplaceSubstringsAfterOffset of CR LF by LF.
OneLineFeed(s) ==
  FlattenSeq([i \in DOMAIN s |->
    IF s[i] = CR /\ i < Len(s) /\ s[i + 1] = LF THEN <<>> ELSE <<s[i]>>])

-----------------------------------------------------------------------------
(* CsvWriter *)

StringToCsv(raw) ==
  IF \E c \in {CR, LF, dialect.delimiter, Quote} : Contains(raw, c)
  THEN <<Quote>> \o ReplaceEach(raw, Quote, <<Quote, Quote>>) \o <<Quote>>
  ELSE raw

WriteBom == IF writer.bom_written_ THEN <<>> ELSE dialect.bom

CellsWritten == Len(FlattenSeq(written))

StartRow ==
  /\ csvPhase = "write" /\ Len(written) <= CellsWritten
  /\ file' = file \o WriteBom \o (IF writer.skip_start_ THEN <<>> ELSE <<CR, LF>>)
  /\ writer' = [bom_written_ |-> TRUE, skip_start_ |-> FALSE,
                start_of_line_ |-> writer.start_of_line_ \/ ~writer.skip_start_]
  /\ written' = Append(written, <<>>)
  /\ UNCHANGED <<dialect, csv, separator_, read, csvPhase>>

WriteCell ==
  /\ csvPhase = "write" /\ written # <<>> /\ CellsWritten < MaxCells
  /\ \E text \in CellTexts :
       /\ file' = file \o WriteBom
                       \o (IF writer.start_of_line_ THEN <<>> ELSE <<dialect.delimiter>>)
                       \o StringToCsv(text)
       /\ writer' = [writer EXCEPT !.bom_written_ = TRUE, !.start_of_line_ = FALSE]
       /\ written' = [written EXCEPT ![Len(written)] = Append(@, text)]
  /\ UNCHANGED <<dialect, csv, separator_, read, csvPhase>>

-----------------------------------------------------------------------------
(* CsvReader *)

WithoutLastCR(s) == IF s # <<>> /\ Last(s) = CR THEN Front(s) ELSE s

\* ReadPhysicalLine: the line and the rest of the stream, or nothing at its end.
ReadPhysicalLine(stream) ==
  LET end == FindText(stream, LF, 1)
      line == IF end = 0 THEN stream ELSE SubSeq(stream, 1, end - 1)
  IN IF stream = <<>> THEN <<>>
     ELSE <<[rest |-> IF end = 0 THEN <<>> ELSE From(stream, end + 1),
             line_ |-> OneLineFeed(WithoutLastCR(line)),
             line_pos_ |-> 1, has_cells_ |-> TRUE]>>

OpenReader ==
  /\ csvPhase = "write" /\ csvPhase' = "read"
  /\ csv' = [csv EXCEPT !.rest = file]
  /\ UNCHANGED <<file, dialect, writer, written, separator_, read>>

\* The character after the signature is the separator of the file.
CsvSeparator(line) ==
  LET n == Len(dialect.signature)
  IN IF n > 0 /\ Len(line) > n /\ SubSeq(line, 1, n) = dialect.signature
     THEN line[n + 1] ELSE separator_

\* Only the first row is compared with the signature.
NextRow ==
  /\ csvPhase = "read" /\ ~csv.has_cells_
  /\ LET line == ReadPhysicalLine(csv.rest)
     IN \/ /\ line = <<>> /\ csvPhase' = "end"
           /\ UNCHANGED <<csv, separator_, read>>
        \/ /\ line # <<>> /\ csv' = line[1] /\ read' = Append(read, <<>>)
           /\ separator_' = IF read = <<>> THEN CsvSeparator(line[1].line_) ELSE separator_
           /\ UNCHANGED csvPhase
  /\ UNCHANGED <<file, dialect, writer, written>>

\* The cell up to the next delimiter, after what was read of it before.
UpToDelimiter(r, str) ==
  LET sep == FindText(r.line_, separator_, r.line_pos_)
  IN IF sep = 0
     THEN [ok |-> TRUE, str |-> str \o From(r.line_, r.line_pos_),
           csv |-> [r EXCEPT !.has_cells_ = FALSE]]
     ELSE [ok |-> TRUE, str |-> str \o SubSeq(r.line_, r.line_pos_, sep - 1),
           csv |-> [r EXCEPT !.line_pos_ = sep + 1]]

\* A quoted cell: a line that ends inside it goes on in the next one, and two
\* quotes are one.  A cell still open at the end of the input is refused.
RECURSIVE QuotedCell(_, _)
QuotedCell(r, str) ==
  LET p == FindText(r.line_, Quote, r.line_pos_)
      next == ReadPhysicalLine(r.rest)
      cell == str \o SubSeq(r.line_, r.line_pos_, p - 1)
      after == [r EXCEPT !.line_pos_ = p + 1]
  IN CASE p = 0 /\ next = <<>> ->
            [ok |-> FALSE, str |-> <<>>, csv |-> [r EXCEPT !.has_cells_ = FALSE]]
       [] p = 0 /\ next # <<>> ->
            QuotedCell(next[1], Append(str \o From(r.line_, r.line_pos_), LF))
       [] p # 0 /\ p < Len(r.line_) /\ r.line_[p + 1] = Quote ->
            QuotedCell([r EXCEPT !.line_pos_ = p + 2], Append(cell, Quote))
       [] OTHER -> UpToDelimiter(after, cell)

NextCell ==
  /\ csvPhase = "read" /\ csv.has_cells_
  /\ LET quoted == /\ csv.line_pos_ <= Len(csv.line_)
                   /\ csv.line_[csv.line_pos_] = Quote
         cell == IF quoted
                 THEN QuotedCell([csv EXCEPT !.line_pos_ = @ + 1], <<>>)
                 ELSE UpToDelimiter(csv, <<>>)
     IN /\ csv' = cell.csv
        /\ read' = IF cell.ok THEN [read EXCEPT ![Len(read)] = Append(@, cell.str)]
                   ELSE read
  /\ UNCHANGED <<file, dialect, writer, written, separator_, csvPhase>>

CsvNext == StartRow \/ WriteCell \/ OpenReader \/ NextRow \/ NextCell

-----------------------------------------------------------------------------
\* A row without cells is read as one empty cell; a line break in a cell as LF.
AsRead(row) ==
  IF row = <<>> THEN <<<<>>>> ELSE [i \in DOMAIN row |-> OneLineFeed(row[i])]

\* A last row without text leaves nothing in the file to be read.
Readable(rows) ==
  IF rows # <<>> /\ AsRead(Last(rows)) = <<<<>>>> THEN Front(rows) ELSE rows

\* The reader finds out the delimiter: it is the comma and the first row does
\* not begin like the signature, or the first cell is the signature and others
\* follow it.
DelimiterIsKnown(rows) ==
  LET signature == dialect.signature
      first == IF rows = <<>> \/ rows[1] = <<>> THEN <<>> ELSE StringToCsv(rows[1][1])
  IN \/ /\ dialect.delimiter = ","
        /\ signature # <<>> => ~IsPrefix(signature, first)
     \/ signature # <<>> /\ first = signature /\ Len(rows[1]) > 1

\* What CsvWriter writes without a byte-order mark CsvReader reads back, row by
\* row and cell by cell, whatever delimiters, quotes and line breaks it holds.
CsvReadsBack ==
  csvPhase = "end" /\ dialect.bom = <<>> /\ DelimiterIsKnown(written) =>
    LET rows == Readable(written) IN read = [i \in DOMAIN rows |-> AsRead(rows[i])]

-----------------------------------------------------------------------------
(***************************************************************************)
(* BinaryWriter and BinaryReader (base/binary_writer.h,                    *)
(* base/binary_reader.h) over a buffer of fixed size, and Pickle           *)
(* (base/pickle.h) over one that grows: fields are written, and read in    *)
(* the same order.  A byte has ByteRadix values.  A field that does not    *)
(* fit throws; the caller gives the buffer up.                             *)
(***************************************************************************)
CONSTANTS
  ByteRadix,      \* values of a byte
  Capacities,     \* sizes of the fixed buffer; Pickle has none
  Strings,        \* strings that are written: sequences of bytes
  MaxFields       \* bound: fields written to a buffer

VARIABLES
  capacity,       \* <<n>>, or <<>> for a Pickle
  buffer,         \* the bytes written: written(), or Pickle::data_
  fields,         \* the fields that were written: kind and value
  pos_,           \* bytes read so far
  taken,          \* the fields read so far
  bufferState     \* "write", "thrown", "read" or "refused"

bvars == <<capacity, buffer, fields, pos_, taken, bufferState>>

BInit ==
  /\ capacity \in {<<>>} \cup {<<n>> : n \in Capacities}
  /\ buffer = <<>> /\ fields = <<>> /\ pos_ = 0 /\ taken = <<>>
  /\ bufferState = "write"

-----------------------------------------------------------------------------
(* Byte order: the machine's is little-endian *)

Native(value) == <<value % ByteRadix, value \div ByteRadix>>

ToBigEndian(value) == <<value \div ByteRadix, value % ByteRadix>>

FromNative(bytes) == bytes[1] + ByteRadix * bytes[2]

FromBigEndian(bytes) == bytes[2] + ByteRadix * bytes[1]

Words == 0..(ByteRadix^2 - 1)

BufferField(kind, value) == [kind |-> kind, value |-> value]

AllFields ==
  {BufferField("U8", <<v>>) : v \in 0..(ByteRadix - 1)}
  \cup {BufferField(k, <<v>>) : k \in {"U16", "U16Be"}, v \in Words}
  \cup {BufferField("String8", s) : s \in Strings}

\* The parts of a field, written one after the other.
Parts(field) ==
  CASE field.kind = "U8" -> <<field.value>>
    [] field.kind = "U16" -> <<Native(field.value[1])>>
    [] field.kind = "U16Be" -> <<ToBigEndian(field.value[1])>>
    [] field.kind = "String8" -> <<<<Len(field.value)>>, field.value>>

-----------------------------------------------------------------------------
(* BinaryWriter, Pickle *)

\* Require: size more bytes fit in the buffer.  A Pickle grows.
Fits(size, position) == capacity = <<>> \/ size <= capacity[1] - position

\* The parts of a field that fit, up to the first that does not.
FittingParts(parts) ==
  LET fits(n) == \A k \in 1..n :
        Fits(Len(parts[k]), Len(buffer) + Len(FlattenSeq(SubSeq(parts, 1, k - 1))))
  IN CHOOSE n \in 0..Len(parts) : fits(n) /\ \A m \in (n + 1)..Len(parts) : ~fits(m)

\* WriteString8 refuses a string whose length is no byte; a Pickle takes it.
TooLong(field) ==
  capacity # <<>> /\ field.kind = "String8" /\ Len(field.value) >= ByteRadix

\* A field whose second part does not fit leaves its first part behind.
WriteField ==
  /\ bufferState = "write" /\ Len(fields) < MaxFields
  /\ \E field \in AllFields :
       LET parts == Parts(field)
           n == IF TooLong(field) THEN 0 ELSE FittingParts(parts)
       IN /\ buffer' = buffer \o FlattenSeq(SubSeq(parts, 1, n))
          /\ \/ n < Len(parts) /\ bufferState' = "thrown" /\ UNCHANGED fields
             \/ /\ n = Len(parts) /\ fields' = Append(fields, field)
                /\ UNCHANGED bufferState
  /\ UNCHANGED <<capacity, pos_, taken>>

StartReading ==
  /\ bufferState = "write" /\ bufferState' = "read"
  /\ UNCHANGED <<capacity, buffer, fields, pos_, taken>>

\* A buffer that arrives shorter than it was written.
Shorten ==
  /\ bufferState = "write" /\ buffer # <<>>
  /\ bufferState' = "read"
  /\ \E n \in 0..(Len(buffer) - 1) : buffer' = SubSeq(buffer, 1, n)
  /\ UNCHANGED <<capacity, fields, pos_, taken>>

-----------------------------------------------------------------------------
(* BinaryReader, PickleIterator *)

\* Require, and the checks of PickleIterator: size more bytes are there.
Require(size, at) == size <= Len(buffer) - at

Bytes(at, size) == SubSeq(buffer, at + 1, at + size)

Refused(size) == bufferState' = "refused" /\ pos_' = pos_ + size /\ UNCHANGED taken

TakenBytes(kind, value, size) ==
  /\ taken' = Append(taken, BufferField(kind, value))
  /\ pos_' = pos_ + size /\ UNCHANGED bufferState

ReadT(kind, size) ==
  \/ ~Require(size, pos_) /\ Refused(0)
  \/ /\ Require(size, pos_)
     /\ TakenBytes(kind, CASE kind = "U8" -> Bytes(pos_, 1)
                      [] kind = "U16" -> <<FromNative(Bytes(pos_, 2))>>
                      [] kind = "U16Be" -> <<FromBigEndian(Bytes(pos_, 2))>>, size)

\* ReadString8 and PickleIterator::ReadString: a length, then as many bytes.  The
\* length is read even when the bytes are not there.
ReadString8 ==
  \/ ~Require(1, pos_) /\ Refused(0)
  \/ /\ Require(1, pos_) /\ ~Require(Bytes(pos_, 1)[1], pos_ + 1) /\ Refused(1)
  \/ /\ Require(1, pos_) /\ Require(Bytes(pos_, 1)[1], pos_ + 1)
     /\ TakenBytes("String8", Bytes(pos_ + 1, Bytes(pos_, 1)[1]), 1 + Bytes(pos_, 1)[1])

ReadField ==
  /\ bufferState = "read" /\ Len(taken) < Len(fields)
  /\ LET kind == fields[Len(taken) + 1].kind
     IN \/ kind = "U8" /\ ReadT(kind, 1)
        \/ kind \in {"U16", "U16Be"} /\ ReadT(kind, 2)
        \/ kind = "String8" /\ ReadString8
  /\ UNCHANGED <<capacity, buffer, fields>>

BNext == WriteField \/ StartReading \/ Shorten \/ ReadField

-----------------------------------------------------------------------------
\* Fields are read as they were written, in either byte order, as far as the
\* buffer goes; nothing is written past its capacity or read past its end, and
\* a whole buffer is read whole.
FieldsReadBack ==
  /\ capacity # <<>> => Len(buffer) <= capacity[1]
  /\ pos_ <= Len(buffer)
  /\ IsPrefix(taken, fields)
  /\ bufferState = "refused" => Len(buffer) < Len(FlattenSeq([i \in DOMAIN fields |->
                                  FlattenSeq(Parts(fields[i]))]))
=============================================================================
