----------------------------- MODULE TextUtils -----------------------------
(***************************************************************************)
(* Pure text functions of base/: split, join, trim and the ASCII check     *)
(* (string_util.cpp), URL escapes (uri.cpp), quoted strings                *)
(* (struct_format.h), numbers as text (format.cpp), and the typed keys of  *)
(* JSON settings (value_util.h).                                           *)
(*                                                                         *)
(* A character is its code.  Integer types keep their order of widths,     *)
(* scaled down to Bits.  Each step converts one input there and back.      *)
(***************************************************************************)
EXTENDS Integers, Sequences, SequencesExt, TLC

CONSTANTS
  Codes,        \* characters of texts
  MaxText,      \* bound: length of a text
  Word, Batch,  \* characters in a machine word, words in a batch
  MaxAscii,     \* bound: length of a text that is checked to be ASCII
  IntBits       \* width of each type: int8, int16, int32, int64

VARIABLES
  source,       \* what was converted, and how
  restored      \* what it came back as

xvars == <<source, restored>>

XInit == source = [op |-> "none"] /\ restored = <<>>

SomeTexts == BoundedSeq(Codes, MaxText)

-----------------------------------------------------------------------------
(* string_util.cpp *)

\* Positions where find would stop: the delimiter starts there.
StartsAt(str, delimiter, i) ==
  /\ i + Len(delimiter) - 1 <= Len(str)
  /\ SubSeq(str, i, i + Len(delimiter) - 1) = delimiter

RECURSIVE SplitParts(_, _)
SplitParts(str, delimiter) ==
  LET at == {i \in DOMAIN str : StartsAt(str, delimiter, i)}
      p == CHOOSE i \in at : \A j \in at : i <= j
  IN IF at = {} THEN <<str>>
     ELSE <<SubSeq(str, 1, p - 1)>>
          \o SplitParts(SubSeq(str, p + Len(delimiter), Len(str)), delimiter)

SplitString(str, delimiter) ==
  IF str = <<>> THEN <<>> ELSE SplitParts(str, delimiter)

JoinStrings(strings, delimiter) ==
  FlattenSeq([i \in DOMAIN strings |->
    IF i = 1 THEN strings[1] ELSE delimiter \o strings[i]])

Space == {9, 10, 13, 32}

TrimAsciiWhitespace(str) ==
  LET text == {i \in DOMAIN str : str[i] \notin Space}
  IN IF text = {} THEN <<>>
     ELSE SubSeq(str, CHOOSE i \in text : \A j \in text : i <= j,
                      CHOOSE i \in text : \A j \in text : i >= j)

Lower(c) == IF c \in 65..90 THEN c + 32 ELSE c

IEqualsAscii(left, right) ==
  /\ Len(left) = Len(right)
  /\ \A i \in DOMAIN left : Lower(left[i]) = Lower(right[i])

\* DoIsStringASCII reads single characters up to a word boundary, then Batch
\* words at a time, then words, then characters; start is the address of the
\* text in a word, and high the positions of characters above 127.
Aligned(start, i) == (start + i) % Word = 0

RECURSIVE Prologue(_, _, _)
Prologue(start, length, i) ==
  IF Aligned(start, i) \/ i >= length THEN i ELSE Prologue(start, length, i + 1)

CharsAfter(length, i) == i..(length - 1)

RECURSIVE WordsAreAscii(_, _, _)
WordsAreAscii(length, i, high) ==
  CASE i + Batch * Word <= length ->
         /\ (i..(i + Batch * Word - 1)) \cap high = {}
         /\ WordsAreAscii(length, i + Batch * Word, high)
    [] i + Batch * Word > length /\ i + Word <= length ->
         /\ (i..(i + Word - 1)) \cap high = {}
         /\ WordsAreAscii(length, i + Word, high)
    [] OTHER -> CharsAfter(length, i) \cap high = {}

IsStringASCII(start, length, high) ==
  LET i == Prologue(start, length, 0)
  IN length = 0 \/ ((0..(i - 1)) \cap high = {} /\ WordsAreAscii(length, i, high))

-----------------------------------------------------------------------------
(* uri.cpp: a Charmap is the set of characters that are escaped *)

kQueryCharmap ==
  0..32 \cup 34..38 \cup {43, 44, 47} \cup 58..64 \cup 91..94 \cup {96}
  \cup 123..125 \cup 127..255

kPathCharmap ==
  0..32 \cup {34, 35, 37, 58, 60, 62, 63} \cup 91..94 \cup {96}
  \cup 123..125 \cup 127..255

Percent == 37

IntToHex(i) == IF i < 10 THEN 48 + i ELSE 55 + i

HexToInt(c) ==
  CASE c \in 48..57 -> c - 48
    [] c \in 65..70 -> c - 55
    [] c \in 97..102 -> c - 87
    [] OTHER -> -1

Escape(text, charmap, use_plus) ==
  FlattenSeq([i \in DOMAIN text |->
    CASE use_plus /\ text[i] = 32 -> <<43>>
      [] ~(use_plus /\ text[i] = 32) /\ text[i] \in charmap ->
           <<Percent, IntToHex(text[i] \div 16), IntToHex(text[i] % 16)>>
      [] OTHER -> <<text[i]>>])

EscapeFits(text, i) == text[i] = Percent /\ i + 2 <= Len(text)

\* UnescapeRule: SPACES, PATH_SEPARATORS.
Unescapes(c, rules) ==
  /\ c = 32 => "SPACES" \in rules
  /\ c \in {47, 92} => "PATH_SEPARATORS" \in rules

RECURSIVE UnescapeFrom(_, _, _)
UnescapeFrom(text, i, rules) ==
  IF i > Len(text) THEN <<>>
  ELSE LET high == IF EscapeFits(text, i) THEN HexToInt(text[i + 1]) ELSE -1
           low == IF EscapeFits(text, i) THEN HexToInt(text[i + 2]) ELSE -1
           c == 16 * high + low
       IN IF high >= 0 /\ low >= 0 /\ Unescapes(c, rules)
          THEN <<c>> \o UnescapeFrom(text, i + 3, rules)
          ELSE <<text[i]>> \o UnescapeFrom(text, i + 1, rules)

UnescapeURLComponent(text, rules) == UnescapeFrom(text, 1, rules)

-----------------------------------------------------------------------------
(* struct_format.h *)

Backslash == 92
DoubleQuote == 34

\* AppendQuoted: quotes, backslashes and control characters get a backslash.
AppendQuoted(value) ==
  <<DoubleQuote>>
  \o FlattenSeq([i \in DOMAIN value |->
       CASE value[i] = 10 -> <<Backslash, 110>>
         [] value[i] = 13 -> <<Backslash, 114>>
         [] value[i] = 9 -> <<Backslash, 116>>
         [] value[i] \in {DoubleQuote, Backslash} -> <<Backslash, value[i]>>
         [] OTHER -> <<value[i]>>])
  \o <<DoubleQuote>>

-----------------------------------------------------------------------------
(* format.cpp: a number as text is its sign and magnitude, and whether other *)
(* characters follow                                                         *)

Unsigned == {"uint8", "uint16", "uint32", "uint64"}
Signed == {"int8", "int16", "int32", "int64"}

Width(type) ==
  CASE type \in {"int8", "uint8"} -> IntBits[1]
    [] type \in {"int16", "uint16"} -> IntBits[2]
    [] type \in {"int32", "uint32"} -> IntBits[3]
    [] type \in {"int64", "uint64"} -> IntBits[4]

Range_(type) ==
  IF type \in Unsigned THEN 0..(2^Width(type) - 1)
  ELSE -(2^(Width(type) - 1))..(2^(Width(type) - 1) - 1)

Format(value) ==
  [minus |-> value < 0, mag |-> IF value < 0 THEN -value ELSE value, rest |-> FALSE]

\* std::from_chars on the whole text: no sign for an unsigned type, and a
\* number out of range is an error.
FromChars(text, type) ==
  LET value == IF text.minus THEN -text.mag ELSE text.mag
  IN IF text.rest \/ value \notin Range_(type) \/ (text.minus /\ type \in Unsigned)
     THEN <<>> ELSE <<value>>

\* static_cast to a narrower type.
CastInt(value, type) ==
  LET low == value % 2^Width(type)
  IN IF type \in Signed /\ low >= 2^(Width(type) - 1) THEN low - 2^Width(type)
     ELSE low

\* A type narrower than int is read as int or unsigned, and must be unchanged
\* by the cast.
Narrow(wide, type) ==
  IF wide = <<>> \/ CastInt(wide[1], type) # wide[1] THEN <<>> ELSE wide

Parse(text, type) ==
  CASE type \in {"int8", "int16"} -> Narrow(FromChars(text, "int32"), type)
    [] type \in {"uint8", "uint16"} -> Narrow(FromChars(text, "uint32"), type)
    [] OTHER -> FromChars(text, type)

\* A bool is an int other than 0.
ParseBool(text) ==
  LET number == Parse(text, "int32")
  IN IF number = <<>> THEN <<>> ELSE <<IF number[1] # 0 THEN 1 ELSE 0>>

-----------------------------------------------------------------------------
(* value_util.h: a JSON value is a kind and a payload; an object maps keys *)

Json(kind, payload) == [kind |-> kind, payload |-> payload]

JsonNull == Json("null", <<>>)

\* if_contains.
Key(value, key) ==
  IF value.kind = "object" /\ key \in DOMAIN value.payload
  THEN <<value.payload[key]>> ELSE <<>>

\* GetBool, GetInt, GetString, FindDict, GetList and GetKey: the value of the key
\* if it has the kind.  An int64 is cast to int.
GetTyped(value, key, kind, default) ==
  LET k == Key(value, key)
  IN CASE k = <<>> \/ (k # <<>> /\ k[1].kind # kind) -> default
       [] k # <<>> /\ k[1].kind = kind /\ kind = "int64" ->
            Json("int64", CastInt(k[1].payload, "int32"))
       [] OTHER -> k[1]

\* SetKey overwrites the key of an object.
SetKey(value, key, new) ==
  Json("object", [k \in DOMAIN value.payload \cup {key} |->
                    IF k = key THEN new ELSE value.payload[k]])

-----------------------------------------------------------------------------
(* Steps *)

IsDone == source.op # "none"

SplitAndJoin ==
  /\ ~IsDone
  /\ \E text \in SomeTexts, delimiter \in {<<c>> : c \in Codes} \cup {<<58, 58>>} :
       /\ source' = [op |-> "split", text |-> text, delimiter |-> delimiter]
       /\ restored' = SplitString(text, delimiter)

EscapeAndUnescape ==
  /\ ~IsDone
  /\ \E text \in SomeTexts, charmap \in {kQueryCharmap, kPathCharmap} :
       /\ source' = [op |-> "escape", text |-> text,
                     escaped |-> Escape(text, charmap, FALSE)]
       /\ restored' = UnescapeURLComponent(Escape(text, charmap, FALSE),
                                         {"SPACES", "PATH_SEPARATORS"})

QuoteText ==
  /\ ~IsDone
  /\ \E text \in SomeTexts :
       source' = [op |-> "quote", text |-> text] /\ restored' = AppendQuoted(text)

TrimText ==
  /\ ~IsDone
  /\ \E text \in SomeTexts :
       source' = [op |-> "trim", text |-> text] /\ restored' = TrimAsciiWhitespace(text)

CheckAscii ==
  /\ ~IsDone
  /\ \E start \in 0..(Word - 1), length \in 0..MaxAscii :
       \E high \in {{}} \cup {{i} : i \in 0..(length - 1)} :
         /\ source' = [op |-> "ascii", high |-> high]
         /\ restored' = <<IsStringASCII(start, length, high)>>

CompareTexts ==
  /\ ~IsDone
  /\ \E text \in SomeTexts :
       \E other \in {text, [i \in DOMAIN text |-> Lower(text[i])], Append(text, 32)} :
         /\ source' = [op |-> "equals", text |-> text, other |-> other]
         /\ restored' = <<IEqualsAscii(text, other)>>

ParseFlag ==
  /\ ~IsDone
  /\ \E minus, rest \in BOOLEAN, mag \in 0..2^IntBits[4] :
       LET text == [minus |-> minus, mag |-> mag, rest |-> rest]
       IN /\ source' = [op |-> "flag", text |-> text, number |-> Parse(text, "int32")]
          /\ restored' = ParseBool(text)

ParseNumber ==
  /\ ~IsDone
  /\ \E type \in Signed \cup Unsigned, minus, rest \in BOOLEAN,
        mag \in 0..2^IntBits[4] :
       LET text == [minus |-> minus, mag |-> mag, rest |-> rest]
       IN source' = [op |-> "parse", text |-> text, type |-> type]
          /\ restored' = Parse(text, type)

FormatNumber ==
  /\ ~IsDone
  /\ \E type \in Signed \cup Unsigned :
       \E value \in Range_(type) :
         /\ source' = [op |-> "format", value |-> value]
         /\ restored' = Parse(Format(value), type)

LookUpKey ==
  /\ ~IsDone
  /\ \E old, new \in {JsonNull, Json("bool", TRUE), Json("string", "s"),
                      Json("array", <<>>)}
                     \cup {Json("int64", i) : i \in Range_("int64")},
        kind \in {"bool", "int64", "string", "object", "array"}, key \in {"a", "b"} :
       LET set == SetKey(Json("object", "a" :> old), key, new)
       IN /\ source' = [op |-> "key", key |-> key, kind |-> kind, old |-> old,
                        new |-> new]
          /\ restored' = <<GetTyped(set, key, kind, JsonNull),
                         GetTyped(set, "a", kind, JsonNull),
                         GetTyped(new, "a", kind, JsonNull)>>

XNext ==
  \/ SplitAndJoin \/ TrimText \/ CompareTexts \/ CheckAscii
  \/ EscapeAndUnescape \/ QuoteText
  \/ ParseNumber \/ ParseFlag \/ FormatNumber \/ LookUpKey

-----------------------------------------------------------------------------
\* What a reader takes from a quoted text: it stops at the first quote that has
\* no backslash in front.
RECURSIVE Unquoted(_, _)
Unquoted(quoted, i) ==
  CASE quoted[i] = DoubleQuote -> <<>>
    [] quoted[i] = Backslash ->
         <<CASE quoted[i + 1] = 110 -> 10 [] quoted[i + 1] = 114 -> 13
             [] quoted[i + 1] = 116 -> 9 [] OTHER -> quoted[i + 1]>>
         \o Unquoted(quoted, i + 2)
    [] OTHER -> <<quoted[i]>> \o Unquoted(quoted, i + 1)

AllSpace(str) == \A i \in DOMAIN str : str[i] \in Space

\* A text that was split is joined again by the same delimiter, and none of its
\* parts contains it; an escaped URL is restored, and holds no character that
\* the escape is for; a quoted text is read back whole; trimming takes spaces
\* off the ends only; the ASCII check misses no character, and equality ignores
\* case alone.
TextIsRestored ==
  /\ source.op = "split" =>
       /\ JoinStrings(restored, source.delimiter) = source.text
       /\ \A p \in DOMAIN restored :
            \A i \in DOMAIN restored[p] : ~StartsAt(restored[p], source.delimiter, i)
  /\ source.op = "escape" =>
       /\ restored = source.text
       /\ \A i \in DOMAIN source.escaped : source.escaped[i] \notin Space
  /\ source.op = "quote" => Unquoted(restored, 2) = source.text
  /\ source.op = "trim" =>
       /\ \E i \in 0..Len(source.text) :
            /\ AllSpace(SubSeq(source.text, 1, i))
            /\ IsPrefix(restored, SubSeq(source.text, i + 1, Len(source.text)))
            /\ AllSpace(SubSeq(source.text, i + Len(restored) + 1, Len(source.text)))
       /\ restored # <<>> => Head(restored) \notin Space /\ Last(restored) \notin Space
  /\ source.op = "ascii" => restored = <<source.high = {}>>
  /\ source.op = "equals" => restored = <<Len(source.text) = Len(source.other)>>

\* What a typed getter may return for a value: the value itself if it has the
\* kind, and fits in an int if it is a number.
Typed(value, kind, result) ==
  IF value.kind # kind THEN result = JsonNull
  ELSE \/ result = value
       \/ /\ kind = "int64" /\ value.payload \notin Range_("int32")
          /\ result.kind = kind /\ result.payload \in Range_("int32")

\* A text is parsed as an integer exactly when it is one that the type can
\* hold, and what a type holds is parsed back from its text.  A key that was set
\* is read back by the getter of its kind and by no other, and the other keys
\* are as they were.
NumberIsExact ==
  /\ source.op = "key" =>
       /\ Typed(source.new, source.kind, restored[1])
       /\ Typed(IF source.key = "a" THEN source.new ELSE source.old, source.kind, restored[2])
       /\ restored[3] = JsonNull
  /\ source.op = "format" => restored = <<source.value>>
  /\ source.op = "flag" =>
       /\ (restored = <<>>) <=> (source.number = <<>>)
       /\ restored # <<>> => (restored[1] = 0) <=> (source.text.mag = 0)
  /\ source.op = "parse" =>
       LET value == IF source.text.minus THEN -source.text.mag ELSE source.text.mag
       IN restored = IF /\ ~source.text.rest /\ value \in Range_(source.type)
                        /\ source.text.minus => source.type \in Signed
                     THEN <<value>> ELSE <<>>

=============================================================================
