------------------------------ MODULE WireCodec -----------------------------
(***************************************************************************)
(* What protocol_utils puts on the wire and reads from it: values, the     *)
(* requests and answers of the services, and the fields of events.         *)
(***************************************************************************)
EXTENDS ScadaValues, SequencesExt

(***************************************************************************)
(* The Convert pairs of remote/protocol_utils.cpp, between the values of   *)
(* the program and the protobuf messages, and the event layouts of         *)
(* scada/event_util.cpp.  XToWire writes a message, XFromWire reads it.    *)
(*                                                                         *)
(* A protobuf message is a record.  A message-typed field that may be      *)
(* absent is a sequence: <<>> when it is not set, <<m>> when it is; a      *)
(* scalar field that is not set reads as its default.                      *)
(***************************************************************************)
Field(set, m) == IF set THEN <<m>> ELSE <<>>

\* ConvertToRepeated and ConvertFromRepeated: element by element, in order.
Each(F(_), s) == [i \in DOMAIN s |-> F(s[i])]

NodeIdToWire(n) ==
    [ns         |-> n.ns,
     numeric_id |-> IF n.type = "Numeric" THEN n.id ELSE "0",
     string_id  |-> IF n.type = "String" THEN n.id ELSE "",
     opaque_id  |-> IF n.type = "Opaque" THEN n.id ELSE ""]

\* The first non-empty field decides the type.
NodeIdFromWire(w) ==
    CASE w.string_id # "" -> NodeId(w.ns, "String", w.string_id)
      [] w.string_id = "" /\ w.opaque_id # "" -> NodeId(w.ns, "Opaque", w.opaque_id)
      [] w.string_id = "" /\ w.opaque_id = "" -> NodeId(w.ns, "Numeric", w.numeric_id)

ExpandedNodeId(node, uri, server) == [node |-> node, uri |-> uri, server |-> server]
ExpandedNodeIdToWire(e) == [node_id |-> NodeIdToWire(e.node)]
ExpandedNodeIdFromWire(w) == ExpandedNodeId(NodeIdFromWire(w.node_id), "", 0)

\* The payload of an extension object is a std::any; four types are carried.
CarriedPayloads == {"RolePermissionType", "IdentityMappingRule",
                    "UserManagementDataType", "Range"}
ExtensionObject(type, payload, value) ==
    [type |-> type, payload |-> payload, value |-> value]

ExtensionObjectToWire(x) ==
    [type_id |-> NodeIdToWire(x.type.node),
     payload |-> IF x.payload \in CarriedPayloads THEN x.payload ELSE "none",
     value   |-> IF x.payload \in CarriedPayloads THEN x.value ELSE <<>>]

ExtensionObjectFromWire(w) ==
    ExtensionObject(ExpandedNodeId(NodeIdFromWire(w.type_id), "", 0),
                    w.payload, w.value)

-----------------------------------------------------------------------------
(* Variants.  All integers travel in one int64 field.                      *)

ScalarOnWire == VariantTypes \ {"EXPANDED_NODE_ID"}
ArrayOnWire == IntTypes \cup {"BOOL", "DOUBLE", "STRING", "LOCALIZED_TEXT",
                              "EXTENSION_OBJECT"}

\* NotReached in the encoder: the types it has no case for.
VariantPanics(v) ==
    /\ v.type # "EMPTY"
    /\ v.type \notin (IF v.array THEN ArrayOnWire ELSE ScalarOnWire)

ElementToWire(type, x) ==
    CASE type \in IntTypes          -> Cast("INT64", x)
      [] type = "QUALIFIED_NAME"    -> x.name
      [] type = "LOCALIZED_TEXT"    -> x.text
      [] type = "NODE_ID"           -> NodeIdToWire(x)
      [] type = "DATE_TIME"         -> EncodeWireMicroseconds(x)
      [] type = "EXTENSION_OBJECT"  -> ExtensionObjectToWire(x)
      [] OTHER                      -> x

ElementFromWire(type, w) ==
    CASE type \in IntTypes          -> Cast(type, w)
      [] type = "QUALIFIED_NAME"    -> QualifiedName(w, 0)
      [] type = "LOCALIZED_TEXT"    -> LocalizedText("", w)
      [] type = "NODE_ID"           -> NodeIdFromWire(w)
      [] type = "DATE_TIME"         -> DecodeWireTime(w)
      [] type = "EXTENSION_OBJECT"  -> ExtensionObjectFromWire(w)
      [] OTHER                      -> w

VariantToWire(v) ==
    IF v.type = "EMPTY" THEN [data_type |-> "EMPTY", rank |-> 0, value |-> 0]
    ELSE [data_type |-> v.type, rank |-> IF v.array THEN 1 ELSE 0,
          value |-> IF v.array
                    THEN [i \in DOMAIN v.val |-> ElementToWire(v.type, v.val[i])]
                    ELSE ElementToWire(v.type, v.val)]

\* A type or rank the decoder does not know becomes the null variant.
VariantFromWire(w) ==
    CASE w.rank = 0 /\ w.data_type \in ScalarOnWire \ {"EMPTY"} ->
           Variant(w.data_type, ElementFromWire(w.data_type, w.value))
      [] w.rank = 1 /\ w.data_type \in ArrayOnWire ->
           ArrayVariant(w.data_type,
              [i \in DOMAIN w.value |-> ElementFromWire(w.data_type, w.value[i])])
      [] OTHER -> NullVariant

-----------------------------------------------------------------------------
DataValueToWire(dv) ==
    [server_time |-> EncodeWireMicroseconds(dv.server_timestamp),
     source_time |-> EncodeWireMicroseconds(dv.source_timestamp),
     value       |-> Field(dv.value.type # "EMPTY", VariantToWire(dv.value)),
     qualifier   |-> dv.qualifier,
     status_code |-> dv.status_code]

\* A time of 0 is the default and leaves the null time in place.
TimeFromWire(wire) == IF wire = 0 THEN kNullTime ELSE DecodeWireTime(wire)

DataValueFromWire(w) ==
    DataValue(IF w.value = <<>> THEN NullVariant ELSE VariantFromWire(w.value[1]),
              w.qualifier, TimeFromWire(w.source_time), TimeFromWire(w.server_time),
              w.status_code)

StatusToWire(st) ==
    [severity |-> GetSeverity(st.code), sub_code |-> GetSubCode(st.code)]
StatusFromWire(w) == Status(MakeStatusCode(w.severity, w.sub_code))

-----------------------------------------------------------------------------
(* Events.  Convert checks that the event has its id.                      *)

EventPanics(e) == e.event_id = 0 \/ VariantPanics(e.value)

EventToWire(e) ==
    [event_id       |-> e.event_id,
     time           |-> EncodeWireMicroseconds(e.time),
     severity       |-> e.severity,
     source_node_id |-> Field(~is_null(e.source_node_id), NodeIdToWire(e.source_node_id)),
     source_name    |-> e.source_name.text,
     user_node_id   |-> Field(~is_null(e.user_id), NodeIdToWire(e.user_id)),
     value          |-> Field(e.value.type # "EMPTY", VariantToWire(e.value)),
     qualifier      |-> e.qualifier,
     message        |-> e.message.text,
     message_locale |-> e.message.locale,
     acknowledged   |-> e.acked,
     acknowledge_time    |-> IF e.acknowledged_time = kNullTime THEN 0
                             ELSE EncodeWireMicroseconds(e.acknowledged_time),
     acknowledge_user_id |-> Field(~is_null(e.acknowledged_user_id),
                                   NodeIdToWire(e.acknowledged_user_id))]

NodeIdField(f) == IF f = <<>> THEN NullNodeId ELSE NodeIdFromWire(f[1])

\* The fields the message does not carry keep the values of a new Event.
EventFromWire(w, SystemEventType) ==
    [event_type_id  |-> SystemEventType,
     event_id       |-> w.event_id,
     time           |-> DecodeWireTime(w.time),
     receive_time   |-> kNullTime,
     change_mask    |-> 0,
     severity       |-> w.severity,
     source_node_id |-> NodeIdField(w.source_node_id),
     source_name    |-> LocalizedText("", w.source_name),
     user_id        |-> NodeIdField(w.user_node_id),
     value          |-> IF w.value = <<>> THEN NullVariant ELSE VariantFromWire(w.value[1]),
     qualifier      |-> w.qualifier,
     message        |-> LocalizedText(w.message_locale, w.message),
     acked          |-> w.acknowledged,
     acknowledged_time    |-> TimeFromWire(w.acknowledge_time),
     acknowledged_user_id |-> NodeIdField(w.acknowledge_user_id)]

\* IsValid(ModelChangeEvent).  A verb is the set of its flags.
ModelChangeIsValid(e) ==
    /\ ~is_null(e.node_id) /\ e.verb # {}
    /\ "NodeAdded" \in e.verb => ~is_null(e.type_definition_id)
    /\ "NodeDeleted" \in e.verb => e.verb = {"NodeDeleted"}

VerbsOnWire == {"NodeAdded", "NodeDeleted", "ReferenceAdded", "ReferenceDeleted"}

ModelChangeToWire(e) ==
    [node_id |-> Field(~is_null(e.node_id), NodeIdToWire(e.node_id)),
     type_definition_id |-> Field(~is_null(e.type_definition_id),
                                  NodeIdToWire(e.type_definition_id)),
     verbs   |-> e.verb \cap VerbsOnWire]

ModelChangeFromWire(w) ==
    [node_id |-> NodeIdField(w.node_id),
     type_definition_id |-> NodeIdField(w.type_definition_id), verb |-> w.verbs]

-----------------------------------------------------------------------------
(* Filters and monitoring parameters.                                      *)

EventFilterToWire(f) ==
    [acked |-> "ACKED" \in f.types, unacked |-> "UNACKED" \in f.types,
     of_type |-> Each(NodeIdToWire, f.of_type),
     child_of |-> Each(NodeIdToWire, f.child_of)]

EventFilterFromWire(w) ==
    [types |-> (IF w.acked THEN {"ACKED"} ELSE {})
                 \cup (IF w.unacked THEN {"UNACKED"} ELSE {}),
     of_type |-> Each(NodeIdFromWire, w.of_type),
     child_of |-> Each(NodeIdFromWire, w.child_of)]

AggregateFilterToWire(f) ==
    [start_time |-> EncodeWireMicroseconds(f.start_time), interval |-> f.interval,
     aggregate_type |-> NodeIdToWire(f.aggregate_type)]

AggregateFilterFromWire(w) ==
    [start_time |-> DecodeWireTime(w.start_time), interval |-> w.interval,
     aggregate_type |-> NodeIdFromWire(w.aggregate_type)]

\* p.filter is a one-element sequence of the kind p.kind names ("none": <<>>).
MonitoringToWire(p) ==
    [aggregate_filter |-> IF p.kind = "aggregate"
                          THEN <<AggregateFilterToWire(p.filter[1])>> ELSE <<>>,
     event_filter     |-> IF p.kind = "event"
                          THEN <<EventFilterToWire(p.filter[1])>> ELSE <<>>]

MonitoringFromWire(w) ==
    CASE w.aggregate_filter # <<>> ->
           [kind |-> "aggregate", sampling_interval |-> <<>>, queue_size |-> <<>>,
            filter |-> <<AggregateFilterFromWire(w.aggregate_filter[1])>>]
      [] w.aggregate_filter = <<>> /\ w.event_filter # <<>> ->
           [kind |-> "event", sampling_interval |-> <<>>, queue_size |-> <<>>,
            filter |-> <<EventFilterFromWire(w.event_filter[1])>>]
      [] OTHER -> [kind |-> "none", sampling_interval |-> <<>>, queue_size |-> <<>>,
                   filter |-> <<>>]

-----------------------------------------------------------------------------
(***************************************************************************)
(* The Convert pairs of remote/protocol_utils.cpp for the items of service *)
(* requests and results: attributes, reads, writes, browsing, node and     *)
(* reference management.  See WireCodec.tla for the conventions.           *)
(***************************************************************************)
\* NodeAttributes::empty.  An unset value is <<>>, a set one <<variant>>.
AttributesEmpty(a) ==
    /\ a.browse_name = QualifiedName("", 0) /\ a.display_name = LocalizedText("", "")
    /\ a.inverse_name = LocalizedText("", "") /\ is_null(a.data_type)
    /\ a.value = <<>>

NoAttributes ==
    [browse_name |-> QualifiedName("", 0), display_name |-> LocalizedText("", ""),
     inverse_name |-> LocalizedText("", ""), data_type |-> NullNodeId, value |-> <<>>]

AttributesToWire(a) ==
    [browse_name |-> a.browse_name.name, display_name |-> a.display_name.text,
     data_type_id |-> Field(~is_null(a.data_type), NodeIdToWire(a.data_type)),
     value |-> Each(VariantToWire, a.value)]

AttributesFromWire(w) ==
    [browse_name |-> QualifiedName(w.browse_name, 0),
     display_name |-> LocalizedText("", w.display_name),
     inverse_name |-> LocalizedText("", ""),
     data_type |-> NodeIdField(w.data_type_id),
     value |-> Each(VariantFromWire, w.value)]

ReadValueIdToWire(r) == [node_id |-> NodeIdToWire(r.node_id), attribute_id |-> r.attribute_id]
ReadValueIdFromWire(w) == [node_id |-> NodeIdFromWire(w.node_id), attribute_id |-> w.attribute_id]

\* Of the write flags only SELECT is carried.
WriteToWire(v) ==
    [node_id |-> NodeIdToWire(v.node_id), attribute_id |-> v.attribute_id,
     value |-> VariantToWire(v.value), select |-> "SELECT" \in v.flags]
WriteFromWire(w) ==
    [node_id |-> NodeIdFromWire(w.node_id), attribute_id |-> w.attribute_id,
     value |-> VariantFromWire(w.value),
     flags |-> IF w.select THEN {"SELECT"} ELSE {}]

-----------------------------------------------------------------------------
BrowseDescriptionToWire(b) ==
    [node_id |-> NodeIdToWire(b.node_id), direction |-> b.direction,
     reference_type_id |-> NodeIdToWire(b.reference_type_id),
     include_subtypes |-> b.include_subtypes]
BrowseDescriptionFromWire(w) ==
    [node_id |-> NodeIdFromWire(w.node_id), direction |-> w.direction,
     reference_type_id |-> NodeIdFromWire(w.reference_type_id),
     include_subtypes |-> w.include_subtypes]

ReferenceToWire(r) ==
    [reference_type_id |-> NodeIdToWire(r.reference_type_id),
     forward |-> r.forward, node_id |-> NodeIdToWire(r.node_id)]
ReferenceFromWire(w) ==
    [reference_type_id |-> NodeIdFromWire(w.reference_type_id),
     forward |-> w.forward, node_id |-> NodeIdFromWire(w.node_id)]

BrowseResultToWire(b) ==
    [status_code |-> b.status_code, references |-> Each(ReferenceToWire, b.references)]
BrowseResultFromWire(w) ==
    [status_code |-> w.status_code, references |-> Each(ReferenceFromWire, w.references)]

PathElementToWire(p) ==
    [reference_type_id |-> NodeIdToWire(p.reference_type_id),
     inverse |-> p.inverse, include_subtypes |-> p.include_subtypes,
     target_name |-> p.target_name.name]
PathElementFromWire(w) ==
    [reference_type_id |-> NodeIdFromWire(w.reference_type_id),
     inverse |-> w.inverse, include_subtypes |-> w.include_subtypes,
     target_name |-> QualifiedName(w.target_name, 0)]

BrowsePathToWire(p) ==
    [node_id |-> NodeIdToWire(p.node_id),
     relative_path_element |-> Each(PathElementToWire, p.relative_path)]
BrowsePathFromWire(w) ==
    [node_id |-> NodeIdFromWire(w.node_id),
     relative_path |-> Each(PathElementFromWire, w.relative_path_element)]

\* Convert checks that a path target is a node of this server.
PathTargetPanics(t) == t.target_id.server # 0 \/ t.target_id.uri # ""

PathTargetToWire(t) ==
    [target_id |-> NodeIdToWire(t.target_id.node), index |-> t.remaining_path_index]
PathTargetFromWire(w) ==
    [target_id |-> ExpandedNodeId(NodeIdFromWire(w.target_id), "", 0),
     remaining_path_index |-> w.index]

PathResultToWire(r) ==
    [status_code |-> r.status_code, target |-> Each(PathTargetToWire, r.targets)]
PathResultFromWire(w) ==
    [status_code |-> w.status_code, targets |-> Each(PathTargetFromWire, w.target)]

-----------------------------------------------------------------------------
AddNodeToWire(n) ==
    [node_class |-> n.node_class,
     requested_node_id |-> Field(~is_null(n.requested_id), NodeIdToWire(n.requested_id)),
     parent_id |-> NodeIdToWire(n.parent_id),
     type_definition_id |-> NodeIdToWire(n.type_definition_id),
     attributes |-> Field(~AttributesEmpty(n.attributes), AttributesToWire(n.attributes))]
AddNodeFromWire(w) ==
    [node_class |-> w.node_class, requested_id |-> NodeIdField(w.requested_node_id),
     parent_id |-> NodeIdFromWire(w.parent_id),
     type_definition_id |-> NodeIdFromWire(w.type_definition_id),
     attributes |-> IF w.attributes = <<>> THEN NoAttributes
                    ELSE AttributesFromWire(w.attributes[1])]

AddNodeResultToWire(r) ==
    [status_code |-> r.status_code,
     added_node_id |-> Field(~is_null(r.added_node_id), NodeIdToWire(r.added_node_id))]
AddNodeResultFromWire(w) ==
    [status_code |-> w.status_code, added_node_id |-> NodeIdField(w.added_node_id)]

DeleteNodeToWire(d) ==
    [node_id |-> NodeIdToWire(d.node_id),
     delete_target_references |-> d.delete_target_references]
DeleteNodeFromWire(w) ==
    [node_id |-> NodeIdFromWire(w.node_id),
     delete_target_references |-> w.delete_target_references]

AddReferenceToWire(r) ==
    [source_node_id |-> NodeIdToWire(r.source_node_id),
     reference_type_id |-> NodeIdToWire(r.reference_type_id), forward |-> r.forward,
     target_node_id |-> ExpandedNodeIdToWire(r.target_node_id),
     target_server_uri |-> r.target_server_uri,
     target_node_class |-> r.target_node_class]
AddReferenceFromWire(w) ==
    [source_node_id |-> NodeIdFromWire(w.source_node_id),
     reference_type_id |-> NodeIdFromWire(w.reference_type_id), forward |-> w.forward,
     target_node_id |-> ExpandedNodeIdFromWire(w.target_node_id),
     target_server_uri |-> w.target_server_uri,
     target_node_class |-> w.target_node_class]

DeleteReferenceToWire(r) ==
    [source_node_id |-> NodeIdToWire(r.source_node_id),
     reference_type_id |-> NodeIdToWire(r.reference_type_id), forward |-> r.forward,
     target_node_id |-> ExpandedNodeIdToWire(r.target_node_id),
     delete_bidirectional |-> r.delete_bidirectional]
DeleteReferenceFromWire(w) ==
    [source_node_id |-> NodeIdFromWire(w.source_node_id),
     reference_type_id |-> NodeIdFromWire(w.reference_type_id), forward |-> w.forward,
     target_node_id |-> ExpandedNodeIdFromWire(w.target_node_id),
     delete_bidirectional |-> w.delete_bidirectional]

-----------------------------------------------------------------------------
(***************************************************************************)
(* The event layouts of scada/event_util.cpp: an event taken apart into a  *)
(* vector of variants, and put together again from the type id at field 0  *)
(* and the number of fields; and the byte form of an event id              *)
(* (scada/event_id_codec.h).                                               *)
(***************************************************************************)
CONSTANTS
    SystemEventType,             \* the type of an event by default
    GeneralModelChangeEventType,
    SemanticChangeEventType      \* node ids

kEventFieldCount == 15
kEventFieldCountV1 == 14
kDeviceFrameFieldCount == kEventFieldCount + 8

\* A new Event.
DefaultEvent ==
    [event_type_id |-> SystemEventType, event_id |-> 0, time |-> kNullTime,
     receive_time |-> kNullTime, change_mask |-> 0, severity |-> 1,
     source_node_id |-> NullNodeId, source_name |-> LocalizedText("", ""),
     user_id |-> NullNodeId, value |-> NullVariant, qualifier |-> {},
     message |-> LocalizedText("", ""), acked |-> FALSE,
     acknowledged_time |-> kNullTime, acknowledged_user_id |-> NullNodeId]

DefaultFrame ==
    [direction |-> 0, raw_data |-> "", format |-> "", type_id |-> 0, cause |-> 0,
     object_address |-> 0, send_sequence |-> 0, receive_sequence |-> 0]

\* The raw qualifier bits as an UINT32 variant, and back.
RawQualifier(q) == Variant("UINT32", q)

\* DisassembleEvent(Event): the names and types of the fields, in order.
EventLayout ==
    << <<"event_type_id", "NODE_ID">>, <<"event_id", "UINT64">>, <<"time", "DATE_TIME">>,
       <<"change_mask", "UINT32">>, <<"severity", "UINT32">>,
       <<"source_node_id", "NODE_ID">>, <<"user_id", "NODE_ID">>, <<"value", "value">>,
       <<"qualifier", "qualifier">>, <<"message", "LOCALIZED_TEXT">>, <<"acked", "BOOL">>,
       <<"acknowledged_time", "DATE_TIME">>, <<"acknowledged_user_id", "NODE_ID">>,
       <<"receive_time", "DATE_TIME">>, <<"source_name", "LOCALIZED_TEXT">> >>

FrameLayout ==
    << <<"direction", "INT32">>, <<"raw_data", "BYTE_STRING">>, <<"format", "STRING">>,
       <<"type_id", "INT32">>, <<"cause", "INT32">>, <<"object_address", "INT32">>,
       <<"send_sequence", "INT32">>, <<"receive_sequence", "INT32">> >>

FieldOf(x, entry) ==
    CASE entry[2] = "value"     -> x[entry[1]]
      [] entry[2] = "qualifier" -> RawQualifier(x[entry[1]])
      [] OTHER                  -> Variant(entry[2], x[entry[1]])

Disassembled(x, layout) == [i \in DOMAIN layout |-> FieldOf(x, layout[i])]

DisassembleEvent(e) == Disassembled(e, EventLayout)

DisassembleFrameEvent(e) == DisassembleEvent(e.base) \o Disassembled(e.frame, FrameLayout)

\* A model change verb is an UINT8 of flags.
DisassembleModelChange(e) ==
    << Variant("NODE_ID", GeneralModelChangeEventType), Variant("NODE_ID", e.node_id),
       Variant("NODE_ID", e.type_definition_id), Variant("UINT8", e.verb) >>

DisassembleSemanticChange(e) ==
    << Variant("NODE_ID", SemanticChangeEventType), Variant("NODE_ID", e.node_id) >>

\* fields[i].get(x): the value when the field has the type, else x is kept.  The
\* fields come from Disassemble, so a number or text has exactly its own type.
Assigned(field, type, kept) ==
    CASE type = "value"     -> field
      [] type = "qualifier" -> IF field.type = "UINT32" THEN field.val ELSE {}
      [] OTHER              -> IF ~field.array /\ field.type = type THEN field.val ELSE kept

\* x with the members named in layout read from the fields at offset + 1 on.
Assembled(x, layout, fields, offset) ==
    [m \in DOMAIN x |->
       LET at == {i \in DOMAIN layout : layout[i][1] = m /\ offset + i \in DOMAIN fields}
       IN  IF at = {} THEN x[m]
           ELSE LET i == CHOOSE i \in at : TRUE
                IN  Assigned(fields[offset + i], layout[i][2], x[m])]

AssembleBaseEvent(fields) == Assembled(DefaultEvent, EventLayout, fields, 0)

AssembleFrameEvent(fields) ==
    [base  |-> AssembleBaseEvent(SubSeq(fields, 1, kEventFieldCount)),
     frame |-> Assembled(DefaultFrame, FrameLayout, fields, kEventFieldCount)]

AssembleModelChange(fields) ==
    [node_id |-> Assigned(fields[2], "NODE_ID", NullNodeId),
     type_definition_id |-> Assigned(fields[3], "NODE_ID", NullNodeId),
     verb |-> Assigned(fields[4], "UINT8", {})]

AssembleSemanticChange(fields) == [node_id |-> Assigned(fields[2], "NODE_ID", NullNodeId)]

\* AssembleEvent: what the fields are, by type id and count ("none": no event).
AssembledKind(fields) ==
    LET type == Assigned(fields[1], "NODE_ID", NullNodeId)
        n == Len(fields)
    IN  CASE type = GeneralModelChangeEventType /\ n = 4 -> "model_change"
          [] type = SemanticChangeEventType /\ n = 2 -> "semantic_change"
          [] ~is_null(type) /\ n = kDeviceFrameFieldCount -> "frame"
          [] ~is_null(type) /\ n \in {kEventFieldCount, kEventFieldCountV1} -> "event"
          [] OTHER -> "none"

AssembleEvent(fields) ==
    LET kind == AssembledKind(fields)
    IN  CASE kind = "model_change"    -> AssembleModelChange(fields)
          [] kind = "semantic_change" -> AssembleSemanticChange(fields)
          [] kind = "frame"           -> AssembleFrameEvent(fields)
          [] kind = "event"           -> AssembleBaseEvent(fields)
          [] kind = "none"            -> <<>>

-----------------------------------------------------------------------------
(* Event ids as byte strings, most significant byte first.  A byte has W8  *)
(* bits here, as everywhere in the model, and an id W64 bits.              *)

IdBytes == W64 \div W8

EncodeEventIdByteString(event_id) ==
    [i \in 1..IdBytes |-> (event_id \div 2 ^ (W8 * (IdBytes - i))) % 2 ^ W8]

\* <<>> when the payload has another length.
DecodeEventIdByteString(bytes) ==
    IF Len(bytes) # IdBytes THEN <<>>
    ELSE <<FoldLeft(LAMBDA id, b : Cast("UINT64", id * 2 ^ W8 + b), 0, bytes)>>
=============================================================================
