----------------------------- MODULE WireValues -----------------------------
(***************************************************************************)
(* A value on its way from one process to another: it may be converted by  *)
(* Variant::ChangeType first, then one side writes it in some encoding     *)
(* (the protobuf message, the vector of event fields, the text of a node   *)
(* id, the bytes of an event id) and the other side reads it back.         *)
(***************************************************************************)
EXTENDS WireCodec

VARIABLES
    kind,    \* what the value is, and so which Convert overloads apply
    item,    \* the value, as the sending side holds it
    origin,  \* the value before any ChangeType
    stage,   \* "held", "sent", "read", "dropped" or "panic"
    wire,    \* the encoded form, once sent
    out,     \* the value as the receiving side reads it
    hops     \* how often an aggregating server has passed it on

wvvars == <<kind, item, origin, stage, wire, out, hops>>

MaxHops == 1

-----------------------------------------------------------------------------
(* The values that are sent: for every kind a set that holds its special   *)
(* cases (null and empty members, both ends of every integer range, the    *)
(* time sentinels, members the message does not carry).                    *)

NodeIds == {NodeId(ns, "Numeric", id) : ns \in 0..1, id \in {"0", "7"}}
             \cup {NodeId(ns, t, id) : ns \in 0..1, t \in {"String", "Opaque"},
                                       id \in {"", "a"}}
SomeNodeIds == {NullNodeId, NodeId(1, "Numeric", "0"), NodeId(1, "Opaque", "a")}
Texts == {LocalizedText(l, t) : l \in {"", "en"}, t \in {"", "x"}}
Names == {QualifiedName(n, ns) : n \in {"", "x"}, ns \in 0..1}
Times == {kMinTime, kNullTime, 0, 1, kMaxTime}
ExpandedNodeIds == {ExpandedNodeId(n, u, s) : n \in SomeNodeIds, u \in {"", "urn"},
                                              s \in 0..1}
Payloads == CarriedPayloads \cup {"other", "none"}
ExtensionObjects ==
    {ExtensionObject(t, p, v) : t \in ExpandedNodeIds, p \in Payloads, v \in {<<>>, <<1>>}}
Doubles == {-3, -1, 0, 1, 2, 5, 2 ^ (W64 + 1)}

ValuesOf(type) ==
    CASE type = "EMPTY"            -> {0}
      [] type = "BOOL"             -> BOOLEAN
      [] type \in IntTypes         -> IntRange(type)
      [] type = "DOUBLE"           -> Doubles
      [] type \in {"BYTE_STRING", "STRING"} -> {"", "x"}
      [] type = "QUALIFIED_NAME"   -> Names
      [] type = "LOCALIZED_TEXT"   -> Texts
      [] type = "NODE_ID"          -> NodeIds
      [] type = "EXPANDED_NODE_ID" -> ExpandedNodeIds
      [] type = "EXTENSION_OBJECT" -> ExtensionObjects
      [] type = "DATE_TIME"        -> Times

\* Two ends of a set of values: enough for the elements of an array.
Ends(type) == IF type \in IntTypes
              THEN {n \in IntRange(type) : {n - 1, n + 1} \ IntRange(type) # {}}
              ELSE ValuesOf(type)

\* There is no array of DATE_TIME.
ArrayTypes == VariantTypes \ {"DATE_TIME"}

SomeVariants == {Variant("INT64", n) : n \in {kMinTime, 1}} \cup {Variant("UINT64", 2 ^ W64 - 1)}

EventTypes == {SystemEventType, GeneralModelChangeEventType, NullNodeId}

Events ==
    {[DefaultEvent EXCEPT !.event_type_id = type, !.event_id = id, !.time = time,
         !.receive_time = received, !.change_mask = mask, !.source_node_id = source,
         !.source_name = name, !.message = text, !.acked = acked,
         !.acknowledged_time = at, !.value = value, !.qualifier = q,
         !.acknowledged_user_id = IF acked THEN source ELSE NullNodeId]
     : type \in EventTypes, id \in {0, 1, 2 ^ W64 - 1}, time \in {kNullTime, 0},
       received \in {kNullTime, 1}, mask \in {0, 2}, source \in SomeNodeIds,
       name \in {LocalizedText("", ""), LocalizedText("en", "x")}, text \in Texts,
       acked \in BOOLEAN, at \in {kNullTime, 1},
       value \in {Variant("UINT64", 2 ^ W64 - 1)}, q \in {{}, {FAILED}}}

Frames == {[DefaultFrame EXCEPT !.raw_data = d, !.format = f, !.type_id = t]
           : d \in {"", "x"}, f \in {"", "I"}, t \in IntRange("INT32")}

ModelChanges ==
    {[node_id |-> n, type_definition_id |-> t, verb |-> v]
     : n \in SomeNodeIds, t \in SomeNodeIds,
       v \in SUBSET (VerbsOnWire \cup {"DataTypeChanged"})}

DataValues ==
    {ValueOf(v, q, s, r) : v \in SomeVariants, s \in {kNullTime, 1},
                           r \in {kNullTime, kMaxTime},
                           q \in {set_qualifier_limit(f, l)
                                  : f \in SUBSET QualifierBits, l \in {0, 3, 4}}}

EmptyValues ==
    {DataValue(NullVariant, q, kNullTime, r, c)
     : q \in SUBSET GENERAL_BAD, r \in Times, c \in {Good, Uncertain, Bad_WrongNodeId}}

EventFilters == {[types |-> t, of_type |-> o, child_of |-> c]
                 : t \in SUBSET {"ACKED", "UNACKED"},
                   o \in {<<>>, <<NodeId(1, "Numeric", "7"), NullNodeId>>},
                   c \in {<<>>, <<NodeId(0, "Opaque", "a")>>}}
AggregateFilters == {[start_time |-> s, interval |-> i, aggregate_type |-> n]
                     : s \in Times, i \in {-1, 0, 1}, n \in SomeNodeIds}

Attributes ==
    {[browse_name |-> b, display_name |-> d, inverse_name |-> i, data_type |-> t, value |-> v]
     : b \in Names, d \in Texts, i \in {LocalizedText("", ""), LocalizedText("", "x")},
       t \in SomeNodeIds, v \in {<<>>, <<Variant("INT64", 1)>>}}

References == {[reference_type_id |-> r, forward |-> f, node_id |-> n]
               : r \in SomeNodeIds, f \in BOOLEAN, n \in SomeNodeIds}
PathElements == {[reference_type_id |-> r, inverse |-> i, include_subtypes |-> s,
                  target_name |-> n]
                 : r \in SomeNodeIds, i \in BOOLEAN, s \in BOOLEAN, n \in Names}

\* The members of a request or a result, for the kinds that are records.
RecordsOf(k) ==
    CASE k = "NodeId"           -> NodeIds
      [] k = "NodeIdText"       -> NodeIds
      [] k = "DataType"         -> VariantTypes
      [] k = "QualifierText"    -> {q \cup LimitBits(3) : q \in SUBSET QualifierBits}
      [] k = "EventId"          -> IntRange("UINT64")
      [] k = "DataValue"        -> DataValues
      [] k = "EmptyValue"       -> EmptyValues
      [] k = "Status"           -> {set_limit(Status(MakeStatusCode(s, c)), l)
                                    : s \in 0..3, c \in {0, 1, 2 ^ 14 - 1}, l \in 0..3}
      [] k \in {"Event", "EventFields"} -> Events
      [] k = "FrameFields"      -> {[base |-> [DefaultEvent EXCEPT !.event_id = i], frame |-> f]
                                    : i \in {1, 2 ^ W64 - 1}, f \in Frames}
      [] k \in {"ModelChange", "ModelChangeFields"} -> ModelChanges
      [] k = "SemanticChangeFields" -> {[node_id |-> n] : n \in NodeIds}
      [] k = "EventFilter"      -> EventFilters
      [] k = "Attributes"       -> Attributes
      [] k = "AddNode"          -> {[node_class |-> "Object", requested_id |-> n, parent_id |-> p,
                                     type_definition_id |-> n, attributes |-> a]
                                    : n \in SomeNodeIds, p \in SomeNodeIds, a \in Attributes}
      [] k = "AddNodeResult"    -> {[status_code |-> c, added_node_id |-> n]
                                    : c \in {Good, Bad}, n \in SomeNodeIds}
      [] k = "DeleteNode"       -> {[node_id |-> n, delete_target_references |-> d]
                                    : n \in SomeNodeIds, d \in BOOLEAN}
      [] k = "AddReference"     -> {[source_node_id |-> n, reference_type_id |-> r, forward |-> f,
                                     target_node_id |-> t, target_server_uri |-> u,
                                     target_node_class |-> "Variable"]
                                    : n \in SomeNodeIds, r \in SomeNodeIds, f \in BOOLEAN,
                                      t \in ExpandedNodeIds, u \in {"", "urn"}}
      [] k = "DeleteReference"  -> {[source_node_id |-> n, reference_type_id |-> r, forward |-> f,
                                     target_node_id |-> t, delete_bidirectional |-> b]
                                    : n \in SomeNodeIds, r \in SomeNodeIds, f \in BOOLEAN,
                                      t \in ExpandedNodeIds, b \in BOOLEAN}
      [] k = "ReadValueId"      -> {[node_id |-> n, attribute_id |-> a]
                                    : n \in SomeNodeIds, a \in {"Value", "EventNotifier"}}
      [] k = "Write"            -> {[node_id |-> n, attribute_id |-> "Value", value |-> v, flags |-> f]
                                    : n \in SomeNodeIds, v \in SomeVariants,
                                      f \in SUBSET {"SELECT", "PARAM"}}
      [] k = "BrowseDescription" -> {[node_id |-> n, direction |-> d, reference_type_id |-> r,
                                      include_subtypes |-> s]
                                     : n \in SomeNodeIds, d \in {"Forward", "Inverse", "Both"},
                                       r \in SomeNodeIds, s \in BOOLEAN}
      [] k = "BrowseResult"     -> {[status_code |-> c, references |-> r]
                                    : c \in {Good, Bad}, r \in {<<>>} \cup {<<x, y>> : x, y \in References}}
      [] k = "BrowsePath"       -> {[node_id |-> n, relative_path |-> p]
                                    : n \in SomeNodeIds, p \in {<<>>} \cup {<<x>> : x \in PathElements}}
      [] k = "PathResult"       -> {[status_code |-> c,
                                     targets |-> <<[target_id |-> t, remaining_path_index |-> i]>>]
                                    : c \in {Good, Bad}, t \in ExpandedNodeIds, i \in 0..2}

RecordKinds ==
    {"NodeId", "NodeIdText", "DataType", "QualifierText", "EventId", "DataValue",
     "EmptyValue", "Status", "Event", "EventFields", "FrameFields", "ModelChange", "ModelChangeFields",
     "SemanticChangeFields", "EventFilter", "Attributes", "AddNode", "AddNodeResult",
     "DeleteNode", "AddReference", "DeleteReference", "ReadValueId", "Write",
     "BrowseDescription", "BrowseResult", "BrowsePath", "PathResult"}

MonitoringInit(params) ==
    \/ params = [kind |-> "none", sampling_interval |-> <<1>>, queue_size |-> <<2>>,
                 filter |-> <<>>]
    \/ \E f \in EventFilters :
         params = [kind |-> "event", sampling_interval |-> <<>>, queue_size |-> <<2>>,
                   filter |-> <<f>>]
    \/ \E f \in AggregateFilters :
         params = [kind |-> "aggregate", sampling_interval |-> <<1>>, queue_size |-> <<>>,
                   filter |-> <<f>>]

WvInit ==
    /\ \/ kind \in RecordKinds /\ item \in RecordsOf(kind)
       \/ kind = "Variant" /\ \E t \in VariantTypes : \E x \in ValuesOf(t) : item = Variant(t, x)
       \/ kind = "Variant" /\ \E t \in ArrayTypes : \E x, y \in Ends(t) :
            item \in {ArrayVariant(t, <<>>), ArrayVariant(t, <<x, y>>)}
       \/ kind = "MonitoringParameters" /\ MonitoringInit(item)
    /\ origin = item /\ stage = "held" /\ wire = <<>> /\ out = <<>>
    /\ hops = 0

-----------------------------------------------------------------------------
(* The Convert overload, Disassemble or text function of each kind.        *)

Panics ==
    CASE kind = "Variant"    -> VariantPanics(item)
      [] kind = "Event"      -> EventPanics(item)
      [] kind = "ModelChange" -> ~ModelChangeIsValid(item)
      [] kind = "PathResult" -> \E i \in DOMAIN item.targets : PathTargetPanics(item.targets[i])
      [] OTHER               -> FALSE

Encoded ==
    CASE kind = "NodeId"      -> NodeIdToWire(item)
      [] kind = "NodeIdText"  -> NodeIdToString(item)
      [] kind = "DataType"    -> ToNodeId(item)
      [] kind = "QualifierText" -> QualifierLetters(item)
      [] kind = "EventId"     -> EncodeEventIdByteString(item)
      [] kind = "Variant"     -> VariantToWire(item)
      [] kind \in {"DataValue", "EmptyValue"} -> DataValueToWire(item)
      [] kind = "Status"      -> StatusToWire(item)
      [] kind = "Event"       -> EventToWire(item)
      [] kind = "EventFields" -> DisassembleEvent(item)
      [] kind = "FrameFields" -> DisassembleFrameEvent(item)
      [] kind = "ModelChange" -> ModelChangeToWire(item)
      [] kind = "ModelChangeFields" -> DisassembleModelChange(item)
      [] kind = "SemanticChangeFields" -> DisassembleSemanticChange(item)
      [] kind = "EventFilter" -> EventFilterToWire(item)
      [] kind = "MonitoringParameters" -> MonitoringToWire(item)
      [] kind = "Attributes"  -> AttributesToWire(item)
      [] kind = "AddNode"     -> AddNodeToWire(item)
      [] kind = "AddNodeResult" -> AddNodeResultToWire(item)
      [] kind = "DeleteNode"  -> DeleteNodeToWire(item)
      [] kind = "AddReference" -> AddReferenceToWire(item)
      [] kind = "DeleteReference" -> DeleteReferenceToWire(item)
      [] kind = "ReadValueId" -> ReadValueIdToWire(item)
      [] kind = "Write"       -> WriteToWire(item)
      [] kind = "BrowseDescription" -> BrowseDescriptionToWire(item)
      [] kind = "BrowseResult" -> BrowseResultToWire(item)
      [] kind = "BrowsePath"  -> BrowsePathToWire(item)
      [] kind = "PathResult"  -> PathResultToWire(item)

\* What a reader of the letters takes them for.
FlagsOf(letters) ==
    {q \in SUBSET QualifierBits : QualifierLetters(q) = letters}

Decoded ==
    CASE kind = "NodeId"      -> NodeIdFromWire(wire)
      [] kind = "NodeIdText"  -> NodeIdFromString(wire)
      [] kind = "DataType"    -> ToBuiltInDataType(wire)
      [] kind = "QualifierText" -> FlagsOf(wire)
      [] kind = "EventId"     -> DecodeEventIdByteString(wire)
      [] kind = "Variant"     -> VariantFromWire(wire)
      [] kind \in {"DataValue", "EmptyValue"} -> DataValueFromWire(wire)
      [] kind = "Status"      -> StatusFromWire(wire)
      [] kind = "Event"       -> EventFromWire(wire, SystemEventType)
      [] kind \in {"EventFields", "FrameFields", "ModelChangeFields", "SemanticChangeFields"} ->
           AssembleEvent(wire)
      [] kind = "ModelChange" -> ModelChangeFromWire(wire)
      [] kind = "EventFilter" -> EventFilterFromWire(wire)
      [] kind = "MonitoringParameters" -> MonitoringFromWire(wire)
      [] kind = "Attributes"  -> AttributesFromWire(wire)
      [] kind = "AddNode"     -> AddNodeFromWire(wire)
      [] kind = "AddNodeResult" -> AddNodeResultFromWire(wire)
      [] kind = "DeleteNode"  -> DeleteNodeFromWire(wire)
      [] kind = "AddReference" -> AddReferenceFromWire(wire)
      [] kind = "DeleteReference" -> DeleteReferenceFromWire(wire)
      [] kind = "ReadValueId" -> ReadValueIdFromWire(wire)
      [] kind = "Write"       -> WriteFromWire(wire)
      [] kind = "BrowseDescription" -> BrowseDescriptionFromWire(wire)
      [] kind = "BrowseResult" -> BrowseResultFromWire(wire)
      [] kind = "BrowsePath"  -> BrowsePathFromWire(wire)
      [] kind = "PathResult"  -> PathResultFromWire(wire)

-----------------------------------------------------------------------------
\* SubscriptionStub::OnEvent drops an event without an id before it converts it.
Screened == kind = "Event" /\ item.event_id = 0

\* The sending side converts the value and sends the message.
Send ==
    /\ stage = "held"
    /\ stage' = (IF Screened THEN "dropped" ELSE IF Panics THEN "panic" ELSE "sent")
    /\ wire' = (IF stage' = "sent" THEN Encoded ELSE wire)
    /\ UNCHANGED <<kind, item, origin, out, hops>>

\* The receiving side converts the message back.
Receive ==
    /\ stage = "sent"
    /\ stage' = "read" /\ out' = Decoded
    /\ UNCHANGED <<kind, item, origin, wire, hops>>

\* An aggregating server passes the events of a server below on to its clients.
Relay ==
    /\ stage = "read" /\ kind \in {"Event", "ModelChange", "DataValue"} /\ hops < MaxHops
    /\ stage' = "held" /\ item' = out /\ hops' = hops + 1
    /\ wire' = <<>> /\ out' = <<>>
    /\ UNCHANGED <<kind, origin>>

\* A caller converts a variant it holds to another type.
ChangeType(t) ==
    /\ stage = "held" /\ kind = "Variant"
    /\ IF ChangeTypePanics(item, t) THEN stage' = "panic" /\ UNCHANGED item
       ELSE item' \in ChangeTypeResults(item, t) /\ UNCHANGED stage
    /\ UNCHANGED <<kind, origin, wire, out, hops>>

WvNext == Send \/ Receive \/ Relay \/ \E t \in VariantTypes : ChangeType(t)

WvSpec == WvInit /\ [][WvNext]_wvvars

-----------------------------------------------------------------------------
(* Properties.                                                             *)

\* An identifier that is the empty string or no bytes is not told apart from 0.
HasIdentifier(n) == n.type = "Numeric" \/ n.id # ""

SameElement(type, x, y) ==
    CASE type = "QUALIFIED_NAME"   -> y.name = x.name
      [] type = "LOCALIZED_TEXT"   -> y.text = x.text
      [] type = "NODE_ID"          -> HasIdentifier(x) => y = x
      [] type = "EXTENSION_OBJECT" -> /\ y.type.node = x.type.node
                                      /\ x.payload \in CarriedPayloads =>
                                           y.payload = x.payload /\ y.value = x.value
      [] OTHER                     -> y = x

SameVariant(v, o) ==
    v.type # "EMPTY" =>
      /\ o.type = v.type /\ o.array = v.array
      /\ IF v.array
         THEN /\ Len(o.val) = Len(v.val)
              /\ \A i \in DOMAIN v.val : SameElement(v.type, v.val[i], o.val[i])
         ELSE SameElement(v.type, v.val, o.val)

NotOnWire == {"event_type_id", "receive_time", "change_mask", "source_name", "value"}

SameAttributes(a, b) ==
    /\ b.browse_name.name = a.browse_name.name /\ b.display_name.text = a.display_name.text
    /\ b.data_type = a.data_type /\ b.value = a.value

Same(v, o) ==
    CASE kind = "NodeId"      -> HasIdentifier(v) => o = v
      [] kind = "NodeIdText"  -> v.type # "Opaque" => o = v
      [] kind = "DataType"    -> v # "EXTENSION_OBJECT" => o = v
      [] kind = "QualifierText" -> o = {v \ LIMIT_MASK}
      [] kind = "EventId"     -> o = <<v>>
      [] kind = "Variant"     -> SameVariant(v, o)
      [] kind = "Status"      -> o.code = v.code
      [] kind = "Event"       -> /\ \A m \in DOMAIN v \ NotOnWire : o[m] = v[m]
                                 /\ o.source_name.text = v.source_name.text
                                 /\ SameVariant(v.value, o.value)
      [] kind = "EventFields" -> IF is_null(v.event_type_id) THEN o = <<>> ELSE o = v
      [] kind = "ModelChange" -> /\ o.node_id = v.node_id
                                 /\ o.type_definition_id = v.type_definition_id
                                 /\ o.verb = v.verb \cap VerbsOnWire
      [] kind = "MonitoringParameters" -> o.kind = v.kind /\ o.filter = v.filter
      [] kind = "Attributes"  -> SameAttributes(v, o)
      [] kind = "AddNode"     -> /\ \A m \in DOMAIN v \ {"attributes"} : o[m] = v[m]
                                 /\ SameAttributes(v.attributes, o.attributes)
      [] kind \in {"AddReference", "DeleteReference"} ->
           /\ \A m \in DOMAIN v \ {"target_node_id"} : o[m] = v[m]
           /\ o.target_node_id.node = v.target_node_id.node
      [] kind = "Write"       -> /\ \A m \in DOMAIN v \ {"flags"} : o[m] = v[m]
                                 /\ "SELECT" \in o.flags <=> "SELECT" \in v.flags
      [] kind = "BrowsePath"  ->
           /\ o.node_id = v.node_id /\ Len(o.relative_path) = Len(v.relative_path)
           /\ \A i \in DOMAIN v.relative_path :
                o.relative_path[i] = [v.relative_path[i] EXCEPT !.target_name.ns = 0]
      [] OTHER                -> o = v

(***************************************************************************)
(* What is read is what was sent, for every value, in every encoding and   *)
(* over an aggregating server: the largest unsigned ids through the signed *)
(* field, the time sentinels, null members, empty arrays; and the letters  *)
(* of a qualifier name its flags and no others.  The exceptions            *)
(* are the members that the messages of remote/scada*.proto have no field  *)
(* for: locale and namespace index of names, most of a node's expanded id, *)
(* extension payloads other than four, an event's type, change mask and    *)
(* receive time, a DataTypeChanged verb (remote/protocol_utils.cpp).       *)
(***************************************************************************)
KeepsContent ==
    stage = "read" => Same(IF kind = "Variant" THEN item ELSE origin, out)

(***************************************************************************)
(* A chain of successful Variant::ChangeType calls never makes one integer *)
(* into another: an integer that comes out is the first one modulo 2^64,   *)
(* or its truth value if the chain went through BOOL (get_int compares     *)
(* each cast with the Int64 it came from, variant.h:266).                  *)
(***************************************************************************)
NumberIsKept ==
    kind = "Variant" /\ ~item.array /\ item.type \in IntTypes /\ origin.type \in IntTypes
      => \/ (item.val - origin.val) % 2 ^ W64 = 0
         \/ item.val = (IF origin.val = 0 THEN 0 ELSE 1)

(***************************************************************************)
(* A value is reported to a client as good only if there is a value and no *)
(* quality flag says that it is bad, and the receiving server, or one that *)
(* relays it, reports the same code (ReportedStatusCode, data_value.h:94;  *)
(* Qualifier::ToStatus, qualifier.h:150).                                  *)
(***************************************************************************)
GoodIsUsable ==
    stage = "read" /\ kind \in {"DataValue", "EmptyValue"} =>
      /\ ReportedStatusCode(out) = ReportedStatusCode(origin)
      /\ IsGood(ReportedStatusCode(out)) =>
           out.value.type # "EMPTY" /\ general_bad(out.qualifier) = {}
      /\ FAILED \in out.qualifier /\ kind = "DataValue" => IsBad(ReportedStatusCode(out))

(***************************************************************************)
(* "The payload may have crossed a tier boundary ... so it is external     *)
(* input and must never panic this process" (subscription_stub.cpp:196):   *)
(* passing on what was read never fails a check of the encoder.            *)
(***************************************************************************)
RelayNeverPanics == stage = "panic" => hops = 0
=============================================================================
