----------------------------- MODULE ScadaValues ----------------------------
(***************************************************************************)
(* The values of the information model (src/scada): variants, qualifiers   *)
(* and status codes, the names of statuses, and the attributes of a node.  *)
(***************************************************************************)
EXTENDS Integers, Sequences, TLC

(***************************************************************************)
(* The values the system exchanges: node ids (scada/node_id), texts,       *)
(* variants and their conversions (scada/variant), times on the wire       *)
(* (base/time/time_wire_codec.h).  Pure definitions; WireValues.tla puts   *)
(* them to work.                                                           *)
(*                                                                         *)
(* The integer widths are constants, so that every boundary of every width *)
(* fits a small instance: UINT8 has W8 bits, and so on.  A DOUBLE is       *)
(* counted in halves (3 is 1.5), enough to tell truncation from identity.  *)
(* A conversion that may fail returns <<>> for failure and <<x>> for x.    *)
(***************************************************************************)
CONSTANTS
    W8, W16, W32, W64,  \* bits of the integer types
    Epoch               \* kTimeTToMicrosecondsOffset, scaled

ASSUME WidthsGrow == 1 < W8 /\ W8 < W16 /\ W16 < W32 /\ W32 < W64

-----------------------------------------------------------------------------
(* Node ids.  The identifier of a numeric id is a number written as text,  *)
(* "0" for zero; "" is the empty string or the empty byte string.          *)

NodeId(ns, type, id) == [ns |-> ns, type |-> type, id |-> id]
NullNodeId == NodeId(0, "Numeric", "0")
is_null(n) == n = NullNodeId

\* The text of a node id: "ns=1;" (left out for 0), a letter and the identifier.
NodeIdToString(n) ==
    [ns  |-> IF n.ns = 0 THEN <<>> ELSE <<n.ns>>,
     tag |-> CASE n.type = "Numeric" -> "i" [] n.type = "String" -> "s"
               [] n.type = "Opaque" -> "b",
     body |-> n.id]

\* Only "i=" and "s=" are read; any other text is a string id as it stands.
NodeIdFromString(t) ==
    LET ns == IF t.ns = <<>> THEN 0 ELSE t.ns[1]
    IN  CASE t.tag = "i" -> NodeId(ns, "Numeric", t.body)
          [] t.tag = "s" -> NodeId(ns, "String", t.body)
          [] OTHER       -> NodeId(ns, "String", t.tag \o "=" \o t.body)

-----------------------------------------------------------------------------
(* Integers of the C++ types.                                              *)

SignedTypes == {"INT8", "INT16", "INT32", "INT64"}
UnsignedTypes == {"UINT8", "UINT16", "UINT32", "UINT64"}
IntTypes == SignedTypes \cup UnsignedTypes

Bits(t) == CASE t \in {"INT8", "UINT8"}   -> W8
             [] t \in {"INT16", "UINT16"} -> W16
             [] t \in {"INT32", "UINT32"} -> W32
             [] t \in {"INT64", "UINT64"} -> W64

IntRange(t) == IF t \in SignedTypes
               THEN -(2 ^ (Bits(t) - 1)) .. (2 ^ (Bits(t) - 1) - 1)
               ELSE 0 .. (2 ^ Bits(t) - 1)

\* static_cast to an integer type: the value modulo 2^bits, in the type's range.
Cast(t, n) ==
    LET r == n % (2 ^ Bits(t))
    IN  IF t \in SignedTypes /\ r >= 2 ^ (Bits(t) - 1) THEN r - 2 ^ Bits(t) ELSE r

\* static_cast of a double (in halves): towards zero; undefined out of range.
TruncateHalves(h) ==
    LET n == IF h >= 0 THEN h \div 2 ELSE -((-h) \div 2)
    IN  IF n \in IntRange("INT64") THEN {n} ELSE IntRange("INT64")

-----------------------------------------------------------------------------
(* Variants: a type, whether it is an array, and the value (or sequence).  *)

TypeNames ==
    <<"EMPTY", "BOOL", "INT8", "UINT8", "INT16", "UINT16", "INT32", "UINT32",
      "INT64", "UINT64", "DOUBLE", "BYTE_STRING", "STRING", "QUALIFIED_NAME",
      "LOCALIZED_TEXT", "NODE_ID", "EXPANDED_NODE_ID", "EXTENSION_OBJECT",
      "DATE_TIME">>
VariantTypes == {TypeNames[i] : i \in DOMAIN TypeNames}

\* kBuiltInDataTypeNodeIds: EMPTY and EXTENSION_OBJECT have none.
TypeNodeIds == <<0, 1, 2, 3, 4, 5, 6, 7, 8, 9, 11, 15, 12, 20, 21, 17, 18, 0, 13>>

ToNodeId(type) ==
    NodeId(0, "Numeric",
           ToString(TypeNodeIds[CHOOSE i \in DOMAIN TypeNames : TypeNames[i] = type]))

\* std::ranges::find: the first entry of the table.
ToBuiltInDataType(n) ==
    LET found == {i \in DOMAIN TypeNodeIds : ToString(TypeNodeIds[i]) = n.id}
    IN  IF n.ns # 0 \/ n.type # "Numeric" \/ found = {} THEN "COUNT"
        ELSE TypeNames[CHOOSE i \in found : \A j \in found : i <= j]

Variant(type, val) == [type |-> type, array |-> FALSE, val |-> val]
ArrayVariant(type, vals) == [type |-> type, array |-> TRUE, val |-> vals]
NullVariant == Variant("EMPTY", 0)

QualifiedName(name, ns) == [name |-> name, ns |-> ns]
LocalizedText(locale, text) == [locale |-> locale, text |-> text]

\* Variant::get(Int64&): the set of possible outcomes.
GetInt64(v) ==
    IF v.array THEN {<<>>}
    ELSE CASE v.type = "BOOL"     -> {<<IF v.val THEN 1 ELSE 0>>}
           [] v.type \in IntTypes -> {<<Cast("INT64", v.val)>>}
           [] v.type = "DOUBLE"   -> {<<n>> : n \in TruncateHalves(v.val)}
           [] OTHER               -> {<<>>}

\* A get_int that forgets to compare the cast with the value it came from.
UncheckedGetInt(t, v) ==
    {IF o # <<>> THEN <<Cast(t, o[1])>> ELSE <<>> : o \in GetInt64(v)}

\* Variant::get_int<T>: the cast must give back the same Int64.
GetInt(t, v) ==
    {IF o # <<>> /\ Cast("INT64", Cast(t, o[1])) = o[1]
     THEN <<Cast(t, o[1])>> ELSE <<>> : o \in GetInt64(v)}

GetBool(v) ==
    IF ~v.array /\ v.type = "BOOL" THEN {<<v.val>>}
    ELSE {IF o = <<>> THEN <<>> ELSE <<o[1] # 0>> : o \in GetInt64(v)}

GetDouble(v) ==
    IF ~v.array /\ v.type = "DOUBLE" THEN {<<v.val>>}
    ELSE {IF o = <<>> THEN <<>> ELSE <<2 * o[1]>> : o \in GetInt64(v)}

\* Variant::ToStringHelper, the text alone.  A boolean is "1"/"0" as a String
\* and a label as a LocalizedText; integers go through Int64.
Rendered(target, v) ==
    IF v.array THEN {<<>>}
    ELSE CASE v.type = "EMPTY"  -> {<<"">>}
           [] v.type = "BOOL"   ->
                {<<IF target = "STRING" THEN (IF v.val THEN "1" ELSE "0")
                   ELSE (IF v.val THEN "true" ELSE "false")>>}
           [] v.type = "DOUBLE" -> {<<ToString(v.val) \o " halves">>}
           [] v.type = "STRING" -> {<<v.val>>}
           [] v.type = "QUALIFIED_NAME" -> {<<v.val.name>>}
           [] v.type = "LOCALIZED_TEXT" -> {<<v.val.text>>}
           [] v.type = "NODE_ID" -> {<<ToString(NodeIdToString(v.val))>>}
           [] v.type = "DATE_TIME" -> {<<"time " \o ToString(v.val)>>}
           [] OTHER -> {IF o = <<>> THEN <<>> ELSE <<ToString(o[1])>>
                        : o \in GetInt64(v)}

GetLocalizedText(v) ==
    IF ~v.array /\ v.type = "LOCALIZED_TEXT" THEN {<<v.val>>}
    ELSE {IF o = <<>> THEN <<>> ELSE <<LocalizedText("", o[1])>>
          : o \in Rendered("LOCALIZED_TEXT", v)}

\* Variant::get<T> for a type with no conversion: the exact alternative only.
GetExact(t, v) == {IF ~v.array /\ v.type = t THEN <<v.val>> ELSE <<>>}

\* Variant::get(T&), by target type.
Get(t, v) ==
    CASE t \in IntTypes        -> GetInt(t, v)
      [] t = "BOOL"            -> GetBool(v)
      [] t = "DOUBLE"          -> GetDouble(v)
      [] t = "STRING"          -> Rendered("STRING", v)
      [] t = "LOCALIZED_TEXT"  -> GetLocalizedText(v)
      [] OTHER                 -> GetExact(t, v)

ChangeTypeTargets ==
    IntTypes \cup {"BOOL", "DOUBLE", "STRING", "QUALIFIED_NAME",
                   "LOCALIZED_TEXT", "NODE_ID"}

\* Variant::ChangeType panics for a target it has no case for.
ChangeTypePanics(v, t) ==
    \/ t = "EMPTY"
    \/ ~v.array /\ v.type # t /\ t \notin ChangeTypeTargets

\* The outcomes of ChangeType: a failed conversion leaves the variant alone.
ChangeTypeResults(v, t) ==
    IF v.array \/ v.type = t THEN {v}
    ELSE {IF o = <<>> THEN v ELSE Variant(t, o[1]) : o \in Get(t, v)}

-----------------------------------------------------------------------------
(* Absolute times, in ticks since the Unix epoch, and their wire form in   *)
(* ticks since 1601.                                                       *)

kNullTime == -Epoch
kMaxTime == 2 ^ (W64 - 1) - 1
kMinTime == -(2 ^ (W64 - 1))

EncodeWireMicroseconds(time) ==
    IF time \in {kMaxTime, kMinTime} THEN time ELSE Cast("INT64", time - kNullTime)

DecodeWireTime(wire) ==
    IF wire \in {kMaxTime, kMinTime} THEN wire ELSE Cast("INT64", kNullTime + wire)

-----------------------------------------------------------------------------
(***************************************************************************)
(* Status codes (scada/status), quality flags (scada/qualifier) and data   *)
(* values (scada/data_value.h).  A qualifier is the set of the bit         *)
(* positions that are set; `|`, `&` and `~` are set operations on it.      *)
(***************************************************************************)
MakeStatusCode(severity, sub_code) == severity * 2 ^ 14 + sub_code
GetSeverity(code) == code \div 2 ^ 14
GetSubCode(code) == code % 2 ^ 14
IsGood(code) == GetSeverity(code) = 0
IsBad(code) == GetSeverity(code) = 2

Good == 0
Good_Sporadic == 2
Good_Backup == 3
Good_Manual == 4
Good_Simulated == 5
Uncertain == MakeStatusCode(1, 0)
Uncertain_DeviceFlag == Uncertain + 1
Uncertain_Misconfigured == Uncertain + 2
Uncertain_Disconnected == Uncertain + 3
Uncertain_NotUpdated == Uncertain + 4
Bad == MakeStatusCode(2, 0)
Bad_WrongNodeId == Bad + 5
Bad_WaitingForInitialData == Bad + 51

\* A Status is the 32-bit full code: the code in the high half, the limit in
\* the two lowest bits.
Status(code) == [code |-> code % 2 ^ 16, low |-> 0]
set_limit(status, l) == [status EXCEPT !.low = @ - (@ % 4) + l]

-----------------------------------------------------------------------------
BAD == 0
MANUAL == 1
BACKUP == 3
OFFLINE == 5
FAILED == 6
STALE == 7
SIMULATED == 8
MISCONFIGURED == 9
SPORADIC == 10
LIMIT_MASK == {12, 13, 14}
GENERAL_BAD == {BAD, FAILED, MISCONFIGURED, OFFLINE, STALE}

QualifierBits == {BAD, MANUAL, BACKUP, SIMULATED, SPORADIC} \cup GENERAL_BAD

\* Qualifier::Limit in bits 12..14: LO 1, HI 2, LOLO 3, HIHI 4.
LimitBits(l) == {12 + b : b \in {b \in 0..2 : (l \div 2 ^ b) % 2 = 1}}
LIMIT_LOLO == 3
LIMIT_HIHI == 4

UpdateQualifier(q, remove, add) == (q \ remove) \cup add
set_qualifier_limit(q, l) == UpdateQualifier(q, LIMIT_MASK, LimitBits(l))
general_bad(q) == q \cap GENERAL_BAD
QualifierLimit(q) == CHOOSE l \in 0..7 : LimitBits(l) = q \cap LIMIT_MASK

\* Qualifier::ToStatus: the first flag of the list decides the code.
ToStatus(q) ==
    LET code == CASE FAILED \in q        -> Bad
                  [] FAILED \notin q /\ BAD \in q -> Uncertain_DeviceFlag
                  [] {FAILED, BAD} \cap q = {} /\ OFFLINE \in q
                       -> Uncertain_Disconnected
                  [] {FAILED, BAD, OFFLINE} \cap q = {} /\ STALE \in q
                       -> Uncertain_NotUpdated
                  [] general_bad(q) = {MISCONFIGURED} -> Uncertain_Misconfigured
                  [] general_bad(q) = {} ->
                       IF MANUAL \in q THEN Good_Manual
                       ELSE IF BACKUP \in q THEN Good_Backup
                       ELSE IF SIMULATED \in q THEN Good_Simulated
                       ELSE IF SPORADIC \in q THEN Good_Sporadic ELSE Good
    IN  CASE QualifierLimit(q) = LIMIT_LOLO -> set_limit(Status(code), 1)
          [] QualifierLimit(q) = LIMIT_HIHI -> set_limit(Status(code), 2)
          [] OTHER -> Status(code)

\* kFlags of qualifier.cpp: each flag that is shown, in the order of the letters.
kFlags ==
    <<[bit |-> BAD, letter |-> "B"], [bit |-> BACKUP, letter |-> "R"],
      [bit |-> OFFLINE, letter |-> "O"], [bit |-> MANUAL, letter |-> "M"],
      [bit |-> MISCONFIGURED, letter |-> "C"], [bit |-> SIMULATED, letter |-> "E"],
      [bit |-> SPORADIC, letter |-> "S"], [bit |-> STALE, letter |-> "T"],
      [bit |-> FAILED, letter |-> "F"]>>

RaisedFlags(q) == SelectSeq(kFlags, LAMBDA flag : flag.bit \in q)
QualifierLetters(q) ==
    [i \in DOMAIN RaisedFlags(q) |-> RaisedFlags(q)[i].letter]

-----------------------------------------------------------------------------
DataValue(value, qualifier, source_timestamp, server_timestamp, status_code) ==
    [value |-> value, qualifier |-> qualifier,
     source_timestamp |-> source_timestamp,
     server_timestamp |-> server_timestamp, status_code |-> status_code]

\* The constructor from a value: a failed qualifier makes the status Bad.
ValueOf(value, qualifier, source_timestamp, server_timestamp) ==
    DataValue(value, qualifier, source_timestamp, server_timestamp,
              IF FAILED \in qualifier THEN Bad ELSE Good)

ReportedStatusCode(dv) ==
    CASE ~IsGood(dv.status_code) -> dv.status_code
      [] IsGood(dv.status_code) /\ dv.value.type = "EMPTY"
           -> Bad_WaitingForInitialData
      [] IsGood(dv.status_code) /\ dv.value.type # "EMPTY"
           -> ToStatus(dv.qualifier).code

-----------------------------------------------------------------------------
(***************************************************************************)
(* The status codes of scada/status.h, the Status that carries one with a  *)
(* limit, and the names status.cpp gives them.  A code is its severity and *)
(* its place in the enumeration.  What a log or a display shows of a       *)
(* status is its name, or what the text provider of the user interface     *)
(* makes of the code.                                                      *)
(***************************************************************************)
VARIABLES
  status,      \* a Status: its code and, in the low bits, the limit
  provider,    \* GetStatusTextProvider: <<>>, or the text function installed
  shownText        \* the text ToString16 gave last, <<>> before

stvars == <<status, provider, shownText>>

-----------------------------------------------------------------------------
(* The enumeration: the sub code of a name is its place, from 0. *)

GoodNames ==
  <<"Good", "Good_Pending", "Good_Sporadic", "Good_Backup", "Good_Manual",
    "Good_Simulated">>
UncertainNames ==
  <<"Uncertain", "Uncertain_DeviceFlag", "Uncertain_Misconfigured",
    "Uncertain_Disconnected", "Uncertain_NotUpdated",
    "Uncertain_StateWasNotChanged">>
BadLegacyNames ==
  <<"Bad", "Bad_WrongLoginCredentials", "Bad_UserIsAlreadyLoggedOn",
    "Bad_UnsupportedProtocolVersion", "Bad_ObjectIsBusy", "Bad_WrongNodeId",
    "Bad_WrongDeviceId", "Bad_Disconnected", "Bad_SessionForcedLogoff",
    "Bad_Timeout", "Bad_CantDeleteDependentNode", "Bad_ServerWasShutDown",
    "Bad_WrongMethodId", "Bad_CantDeleteOwnUser", "Bad_DuplicateNodeId",
    "Bad_UnsupportedFileVersion", "Bad_WrongTypeId", "Bad_WrongParentId",
    "Bad_SessionIsLoggedOff", "Bad_WrongSubscriptionId", "Bad_WrongIndex",
    "Bad_Iec60870UnknownType", "Bad_Iec60870UnknownCot",
    "Bad_Iec60870UnknownDevice", "Bad_Iec60870UnknownAddress",
    "Bad_Iec60870UnknownError", "Bad_WrongCallArguments",
    "Bad_CantParseString", "Bad_TooLongString", "Bad_WrongPropertyId",
    "Bad_WrongReferenceId", "Bad_WrongNodeClass", "Bad_WrongAttributeId",
    "Bad_Iec61850Error", "Bad_NothingToDo", "Bad_BrowseNameInvalid",
    "Bad_WrongTargetId", "Bad_MonitoredItemIdInvalid",
    "Bad_MessageNotAvailable">>
BadServiceNames ==
  <<"Bad_ApplicationSignatureInvalid", "Bad_TooManyOperations",
    "Bad_TooManyMonitoredItems", "Bad_SequenceNumberUnknown",
    "Bad_NoContinuationPoints", "Bad_TimestampsToReturnInvalid",
    "Bad_ViewIdUnknown", "Bad_HistoryOperationInvalid", "Bad_NoSubscription",
    "Bad_UserAccessDenied", "Bad_NotSupported", "Bad_LicenseExpired",
    "Bad_WaitingForInitialData", "Bad_OutOfRange", "Bad_NotWritable",
    "Bad_ResponseTooLarge", "Bad_InvalidState", "Bad_NotReadable",
    "Bad_TooManySessions", "Bad_TooManySubscriptions",
    "Bad_TooManyPublishRequests", "Bad_CertificateHostNameInvalid",
    "Bad_CertificateUriInvalid", "Bad_CertificateUntrusted",
    "Bad_CertificateInvalid", "Bad_CertificateTimeInvalid",
    "Bad_SecurityModeInsufficient">>

StatusNames == <<GoodNames, UncertainNames, BadLegacyNames \o BadServiceNames>>

StatusSeverity == [Good |-> 0, Uncertain |-> 1, Bad |-> 2, Reserved |-> 3]

EnumCodes ==
  UNION {{MakeStatusCode(severity, sub) : sub \in 0..Len(StatusNames[severity + 1]) - 1} :
           severity \in 0..2}
EnumSpelling(code) == StatusNames[GetSeverity(code) + 1][GetSubCode(code) + 1]

-----------------------------------------------------------------------------
(* Status *)

severity(s) == s.code \div 2 ^ 14
uncertain(s) == severity(s) = StatusSeverity.Uncertain
bad(s) == severity(s) = StatusSeverity.Bad
limit(s) == s.low % 4

\* The full code carried elsewhere and back: the two halves of 32 bits.
full_code(s) == <<s.code, s.low>>
FromFullCode(full) == [Status(Bad) EXCEPT !.code = full[1], !.low = full[2]]

-----------------------------------------------------------------------------
(* The table of names *)

NotInTable ==
  {"Good_Sporadic", "Good_Backup", "Good_Manual", "Good_Simulated", "Uncertain",
   "Uncertain_DeviceFlag", "Uncertain_Misconfigured", "Uncertain_Disconnected",
   "Uncertain_NotUpdated"}

\* The codes of IEC 60870 are spelled shorter than in the enumeration.
ErrorString(spelling) ==
  CASE spelling = "Bad_Iec60870UnknownType" -> "Bad_IecUnknownType"
    [] spelling = "Bad_Iec60870UnknownCot" -> "Bad_IecUnknownCot"
    [] spelling = "Bad_Iec60870UnknownDevice" -> "Bad_IecUnknownDevice"
    [] spelling = "Bad_Iec60870UnknownAddress" -> "Bad_IecUnknownAddress"
    [] spelling = "Bad_Iec60870UnknownError" -> "Bad_IecUnknownError"
    [] OTHER -> spelling

kEntries ==
  {[code |-> code, error_string |-> ErrorString(EnumSpelling(code))] :
     code \in {c \in EnumCodes : EnumSpelling(c) \notin NotInTable}}

FindEntry(code) == {entry \in kEntries : entry.code = code}

ToCString(code) ==
  IF FindEntry(code) # {} THEN (CHOOSE entry \in FindEntry(code) : TRUE).error_string
  ELSE IF IsGood(code) THEN "OK" ELSE "Error"

ToStatusText(s) == ToCString(s.code)

ToString16(code) ==
  IF provider = <<>> THEN <<"name", ToCString(code)>>
  ELSE <<provider[1], code>>

-----------------------------------------------------------------------------
StInit ==
  /\ \E code \in EnumCodes, l \in 0..3 : status = set_limit(Status(code), l)
  /\ provider = <<>> /\ shownText = <<>>

SetStatusTextProvider ==
  /\ provider' \in {<<>>, <<"catalog">>}
  /\ UNCHANGED <<status, shownText>>

ShowStatus ==
  /\ shownText' = ToString16(status.code)
  /\ UNCHANGED <<status, provider>>

StNext == SetStatusTextProvider \/ ShowStatus

-----------------------------------------------------------------------------
(* Properties *)

\* A name in a log is enough to tell which failure it was: no two bad codes
\* have the same name and none is the fallback, with any limit set on the
\* status and through the full code (status.cpp, kEntries and ToCString).
NameTellsTheFailure ==
  LET s == FromFullCode(full_code(status)) IN
  bad(s) => /\ ToStatusText(s) # "Error"
            /\ \A code \in EnumCodes : ToCString(code) = ToStatusText(s)
                                          => code = status.code
            /\ s = status /\ IsBad(s.code) /\ ~uncertain(s)
            /\ set_limit(s, limit(s)) = s

-----------------------------------------------------------------------------
(***************************************************************************)
(* The NodeAttributes of a node that is to be added or was read: typed     *)
(* attributes that are set, read and updated one by one.                   *)
(***************************************************************************)
VARIABLES
  attributes,    \* NodeAttributes
  status_code,   \* what the last Set answered
  last           \* ghost: the last operation and the attributes it met

navars == <<attributes, status_code, last>>

-----------------------------------------------------------------------------
OfType(type, value) == [type |-> type, value |-> value]
NodeVariants ==
  {OfType(type, value) : type \in {"QualifiedName", "LocalizedText", "NodeId", "Int32"},
                        value \in {0, 1}}

\* The attributes that are stored, and the type each takes; 0 is the empty
\* value of a type.  A value of any type is stored, or none.
AttributeTypes ==
  [BrowseName |-> "QualifiedName", DisplayName |-> "LocalizedText",
   InverseName |-> "LocalizedText", DataType |-> "NodeId"]
Stored == DOMAIN AttributeTypes \cup {"Value"}
AttributeIds == Stored \cup {"NodeClass"}
NoVariant == OfType("none", 0)

EmptyAttributes ==
  [id \in Stored |-> IF id = "Value" THEN NoVariant ELSE OfType(AttributeTypes[id], 0)]

\* NodeAttributes::Get: no answer for an attribute that is not stored, an empty
\* variant for a value that is not set.
GetAttribute(a, id) ==
  IF id \notin Stored THEN {}
  ELSE {IF a[id] = NoVariant THEN OfType("EMPTY", 0) ELSE a[id]}

\* NodeAttributes::Set.
SetAttribute(a, id, value) ==
  IF id \notin Stored THEN [code |-> "Bad_WrongAttributeId", attributes |-> a]
  ELSE IF id # "Value" /\ value.type # AttributeTypes[id]
  THEN [code |-> "Bad", attributes |-> a]
  ELSE [code |-> "Good", attributes |-> [a EXCEPT ![id] = value]]

\* NodeAttributes::Update: what is not empty; the inverse name is not taken.
UpdateAttributes(a, updated) ==
  [id \in Stored |->
     IF id = "InverseName" \/ updated[id] = EmptyAttributes[id] THEN a[id] ELSE updated[id]]

-----------------------------------------------------------------------------
NaInit ==
  /\ attributes = EmptyAttributes /\ status_code = "Good"
  /\ last = [op |-> "none", id |-> "NodeClass", value |-> NoVariant, before |-> EmptyAttributes]

SetOne(id, value) ==
  LET result == SetAttribute(attributes, id, value) IN
  /\ attributes' = result.attributes /\ status_code' = result.code
  /\ last' = [op |-> "Set", id |-> id, value |-> value, before |-> attributes]

UpdateOne(id, value) ==
  /\ attributes' = UpdateAttributes(attributes, SetAttribute(EmptyAttributes, id, value).attributes)
  /\ last' = [op |-> "Update", id |-> id, value |-> value, before |-> attributes]
  /\ status_code' = "Good"

NaNext ==
  \E id \in AttributeIds, value \in NodeVariants : SetOne(id, value) \/ UpdateOne(id, value)

-----------------------------------------------------------------------------
(* Properties *)

\* A Set that answers Good is what Get returns and changes no other attribute;
\* one that fails changes nothing; an update never takes an attribute away
\* (NodeAttributes::Set, Get and Update).
SetReadsBack ==
  /\ last.op = "Set" =>
       /\ status_code = "Good" => GetAttribute(attributes, last.id) = {last.value}
       /\ status_code # "Good" => attributes = last.before
       /\ \A id \in Stored \ {last.id} : attributes[id] = last.before[id]
  /\ last.op = "Update" =>
       \A id \in Stored : attributes[id] = EmptyAttributes[id] => last.before[id] = attributes[id]
=============================================================================
