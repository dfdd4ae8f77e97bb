------------------------- MODULE NamespaceRemapping -------------------------
(***************************************************************************)
(* Node ids across servers that number their namespaces differently: the   *)
(* mapping of indexes, and the services that apply it to what crosses.     *)
(***************************************************************************)
EXTENDS Integers, Sequences, FiniteSets, TLC, SequencesExt, Functions

(***************************************************************************)
(* Namespace translation between a proxy and one downstream server         *)
(* (scada/proxy_namespace_table.cpp, scada/namespace_remapper.cpp).  A     *)
(* namespace table is a sequence of URIs, its indexes counted from zero.   *)
(* A NodeId, a QualifiedName or an ExpandedNodeId is an identifier with a  *)
(* namespace index and, for the last, possibly a URI of its own.  A value  *)
(* is a type and the identifiers it holds: one, or those of an array.      *)
(***************************************************************************)
\* static_cast<NamespaceIndex>
AsIndex(n) == n % 2 ^ 16
IdentifierTypes == {"NodeId", "ExpandedNodeId", "QualifiedName"}
Identifier(ns, name, uri) == [ns |-> ns, name |-> name, uri |-> uri]
Value(type, ids) == [type |-> type, ids |-> ids]

-----------------------------------------------------------------------------
(* ProxyNamespaceTable.                                                    *)

Find(table, uri) ==
    IF \E i \in DOMAIN table : table[i] = uri
    THEN <<AsIndex(SelectInSeq(table, LAMBDA u : u = uri) - 1)>>
    ELSE <<>>

\* A table that answers with its size after the addition.
GetOrAddFromOne(table, uri) ==
    LET existing == Find(table, uri)
    IN  IF existing # <<>> THEN [table |-> table, index |-> existing[1]]
        ELSE [table |-> Append(table, uri), index |-> AsIndex(Len(table) + 1)]

GetOrAdd(table, uri) ==
    LET existing == Find(table, uri)
    IN  IF existing # <<>> THEN [table |-> table, index |-> existing[1]]
        ELSE [table |-> Append(table, uri), index |-> AsIndex(Len(table))]

-----------------------------------------------------------------------------
(* NamespaceRemapper: to_proxy is an array, to_downstream a map to which   *)
(* emplace adds only a new key.                                            *)

EmptyRemapper == [to_proxy |-> <<>>, to_downstream |-> <<>>]

Emplace(map, key, value) ==
    IF key \in DOMAIN map THEN map
    ELSE [k \in DOMAIN map \cup {key} |-> IF k = key THEN value ELSE map[k]]

Build(downstream_uris, table) ==
    LET Slot(acc, i) ==
            IF downstream_uris[i] = ""
            THEN [acc EXCEPT !.to_proxy = Append(@, AsIndex(i - 1))]
            ELSE LET added == GetOrAdd(acc.table, downstream_uris[i])
                 IN  [table |-> added.table,
                      to_proxy |-> Append(acc.to_proxy, added.index),
                      to_downstream |-> Emplace(acc.to_downstream, added.index,
                                                AsIndex(i - 1))]
    IN  FoldLeft(Slot, [table |-> table, to_proxy |-> <<>>,
                        to_downstream |-> <<>>],
                 [i \in DOMAIN downstream_uris |-> i])

\* A pair is <<downstream index, proxy index>>.
BuildFromPairs(pairs) ==
    LET last == CHOOSE m \in {0} \cup {pairs[i][1] : i \in DOMAIN pairs} :
                    \A i \in DOMAIN pairs : pairs[i][1] <= m
        Pair(acc, pair) ==
            [to_proxy |-> [acc.to_proxy EXCEPT ![pair[1] + 1] = pair[2]],
             to_downstream |-> Emplace(acc.to_downstream, pair[2], pair[1])]
    IN  FoldLeft(Pair, [to_proxy |-> [i \in 1 .. last + 1 |-> AsIndex(i - 1)],
                        to_downstream |-> <<>>], pairs)

BuildByUri(local_uris, remote_uris) ==
    LET Known(i) == remote_uris[i] # "" /\ Find(local_uris, remote_uris[i]) # <<>>
        known == SelectSeq([i \in DOMAIN remote_uris |-> i], Known)
    IN  BuildFromPairs([k \in DOMAIN known |->
            <<AsIndex(known[k] - 1), Find(local_uris, remote_uris[known[k]])[1]>>])

MapToProxy(remapper, downstream_index) ==
    IF downstream_index < Len(remapper.to_proxy)
    THEN remapper.to_proxy[downstream_index + 1] ELSE downstream_index

MapToDownstream(remapper, proxy_index) ==
    IF proxy_index \in DOMAIN remapper.to_downstream
    THEN remapper.to_downstream[proxy_index] ELSE proxy_index

\* A URI of its own names the namespace, so the index is left alone.
IdToProxy(remapper, id) ==
    IF id.uri # "" THEN id ELSE [id EXCEPT !.ns = MapToProxy(remapper, @)]
IdToDownstream(remapper, id) ==
    IF id.uri # "" THEN id ELSE [id EXCEPT !.ns = MapToDownstream(remapper, @)]

\* RemapVariant: the identifiers of a value are replaced by remapped ones; a
\* value of any other type is returned unchanged.
RemapVariant(v, remapped) ==
    IF v.type \in IdentifierTypes THEN [v EXCEPT !.ids = remapped] ELSE v
ToProxy(remapper, v) ==
    RemapVariant(v, [i \in DOMAIN v.ids |-> IdToProxy(remapper, v.ids[i])])
ToDownstream(remapper, v) ==
    RemapVariant(v, [i \in DOMAIN v.ids |-> IdToDownstream(remapper, v.ids[i])])

-----------------------------------------------------------------------------
(***************************************************************************)
(* The namespace-remapping decorators (scada/remapping_services.cpp) in    *)
(* front of downstream servers that join one after the other and share the *)
(* proxy's namespace table.  A message is the function from its            *)
(* identifier-carrying fields to their values; the code loops over the     *)
(* elements of a batch, the model follows one element, in which one field  *)
(* holds the identifier of interest.  The downstream servers are external: *)
(* they answer with any identifier of their own index space.               *)
(***************************************************************************)
CONSTANTS Downstreams,      \* downstream servers
          NamespaceArrays,  \* the NamespaceArrays a server may publish
          Indexes           \* namespace indexes an identifier may carry

VARIABLES table,    \* ProxyNamespaceTable::uris_
          servers,  \* per downstream: its NamespaceArray, the remapper built
                    \* from it and the table that remapper was built against
          call      \* the call in progress and what it crosses with

rvars == <<table, servers, call>>

kOpcUaNamespaceUri == "opc"
NoServer == [uris |-> <<>>, seen |-> <<>>, remapper |-> EmptyRemapper]
NoCall == [op |-> "none", to |-> "none", phase |-> "idle",
           before |-> <<>>, after |-> <<>>]

-----------------------------------------------------------------------------
(* Messages: the types each field may hold.                                *)

Id(names) == [f \in names |-> {"NodeId"}]
Expanded(names) == [f \in names |-> {"ExpandedNodeId"}]
Name(names) == [f \in names |-> {"QualifiedName"}]
AnyOf(names) == [f \in names |-> IdentifierTypes \cup {"other"}]
Nothing == <<>>

FieldValues(type) ==
    {Value(type, <<Identifier(ns, "x", uri)>> \o more) :
        ns \in Indexes,
        uri \in IF type = "ExpandedNodeId" THEN {"", "opc"} ELSE {""},
        more \in {<<>>, <<Identifier(1, "y", "")>>}}

Messages(types) ==
    IF DOMAIN types = {} THEN {<<>>}
    ELSE UNION {{[g \in DOMAIN types |->
                     IF g = f THEN v
                     ELSE Value("NodeId", <<Identifier(0, "z", "")>>)] :
                 v \in UNION {FieldValues(t) : t \in types[f]}} :
                f \in DOMAIN types}

\* An operation: its request and the fields translated in it, its answer and
\* the fields translated in that.
Operation(request, down, answer, home) ==
    [request |-> request, down |-> down, answer |-> answer, home |-> home]

-----------------------------------------------------------------------------
(* The operations.                                                         *)

\* NamespaceRemapper::ToProxy(ReferenceDescription).
ReferenceFields == {"reference_type_id", "node_id", "browse_name",
                    "type_definition"}
Browse ==
    Operation(Id({"node_id", "reference_type_id"}),
              {"node_id", "reference_type_id"},
              Id({"reference_type_id", "node_id", "type_definition"})
                  @@ Name({"browse_name"}),
              ReferenceFields)

\* MountViewService forwards the request and the paths as they are, and keeps
\* the references outside namespace 0.
MountBrowse ==
    Operation(Id({"node_id", "reference_type_id"}), {},
              Id({"reference_type_id", "node_id"}), {})
Mounted(op, a) ==
    IF op = "MountBrowse" /\ a.node_id.ids[1].ns = 0 THEN <<>> ELSE a

TranslateBrowsePaths ==
    Operation(Id({"node_id", "reference_type_id"}) @@ Name({"target_name"}),
              {"node_id", "reference_type_id", "target_name"},
              Expanded({"target_id"}), {"target_id"})

Read == Operation(Id({"node_id"}), {"node_id"}, AnyOf({"value"}), {"value"})

Write == Operation(Id({"node_id"}) @@ AnyOf({"value"}), {"node_id", "value"},
                   Nothing, {})

HistoryReadRaw ==
    Operation(Id({"node_id"}), {"node_id"}, AnyOf({"value"}), {"value"})

HistoryReadEvents ==
    Operation(Id({"node_id", "of_type", "child_of"}), {"node_id"},
              Id({"source_node_id"}), {})

HistoryUpdateData ==
    Operation(Id({"node_id"}) @@ AnyOf({"value"}), {"node_id", "value"},
              Nothing, {})

HistoryUpdateEvent ==
    Operation(Id({"node_id", "source_node_id"}), {"node_id"}, Nothing, {})

Call ==
    Operation(Id({"node_id", "method_id"}) @@ AnyOf({"argument"}),
              {"node_id", "method_id", "argument"},
              AnyOf({"output_argument"}), {"output_argument"})

AddNodes ==
    LET all == {"requested_id", "parent_id", "type_definition_id",
                "browse_name", "data_type", "value"}
    IN  Operation(Id({"requested_id", "parent_id", "type_definition_id",
                      "data_type"})
                      @@ Name({"browse_name"}) @@ AnyOf({"value"}),
                  all, Id({"added_node_id"}), {"added_node_id"})

DeleteNodes == Operation(Id({"node_id"}), {"node_id"}, Nothing, {})

AddReferences ==
    Operation(Id({"source_node_id", "reference_type_id"})
                  @@ Expanded({"target_node_id"}),
              {"source_node_id", "reference_type_id", "target_node_id"},
              Nothing, {})

DeleteReferences ==
    Operation(Id({"source_node_id", "reference_type_id"})
                  @@ Expanded({"target_node_id"}),
              {"source_node_id", "reference_type_id", "target_node_id"},
              Nothing, {})

AddItems ==
    Operation(Id({"node_id", "of_type", "child_of"}),
              {"node_id", "of_type", "child_of"}, Nothing, {})

\* What ReadNext delivers: a data change or one of the event payloads, of
\* which DeviceFrameEvent is unknown to RemapEventPayloadToProxy.
DataChange == Operation(Nothing, {}, AnyOf({"value"}), {"value"})
EventPayload ==
    Operation(Nothing, {},
              Id({"event_type_id", "source_node_id", "user_id",
                  "acknowledged_user_id"}) @@ AnyOf({"value"}),
              {"event_type_id", "source_node_id", "user_id",
               "acknowledged_user_id", "value"})
ModelChangeEvent ==
    Operation(Nothing, {}, Id({"node_id", "type_definition_id"}),
              {"node_id", "type_definition_id"})
SemanticChangeEvent ==
    Operation(Nothing, {}, Id({"node_id"}), {"node_id"})
DeviceFrameEvent == Operation(Nothing, {}, Id({"source_node_id"}), {})

Operations ==
    [Browse |-> Browse, MountBrowse |-> MountBrowse,
     TranslateBrowsePaths |-> TranslateBrowsePaths,
     Read |-> Read, Write |-> Write, HistoryReadRaw |-> HistoryReadRaw,
     HistoryReadEvents |-> HistoryReadEvents,
     HistoryUpdateData |-> HistoryUpdateData,
     HistoryUpdateEvent |-> HistoryUpdateEvent, Call |-> Call,
     AddNodes |-> AddNodes, DeleteNodes |-> DeleteNodes,
     AddReferences |-> AddReferences, DeleteReferences |-> DeleteReferences,
     AddItems |-> AddItems, DataChange |-> DataChange,
     EventPayload |-> EventPayload, ModelChangeEvent |-> ModelChangeEvent,
     SemanticChangeEvent |-> SemanticChangeEvent,
     DeviceFrameEvent |-> DeviceFrameEvent]

-----------------------------------------------------------------------------
(* The proxy.                                                              *)

RInit ==
    /\ table = <<kOpcUaNamespaceUri>>
    /\ servers = [d \in Downstreams |-> NoServer]
    /\ call = NoCall

\* A downstream joins: its namespaces are merged into the proxy's table.
Join(d) == \E uris \in NamespaceArrays :
    LET built == Build(uris, table) IN
    /\ servers[d] = NoServer
    /\ table' = built.table
    /\ servers' = [servers EXCEPT ![d] =
                      [uris |-> uris, seen |-> built.table,
                       remapper |-> [to_proxy |-> built.to_proxy,
                                     to_downstream |-> built.to_downstream]]]
    /\ UNCHANGED call

\* A client maps a server's namespaces onto the ones it knows.
JoinByUri(d) == \E uris \in NamespaceArrays :
    /\ servers[d] = NoServer
    /\ servers' = [servers EXCEPT ![d] =
                      [uris |-> uris, seen |-> table,
                       remapper |-> BuildByUri(table, uris)]]
    /\ UNCHANGED <<table, call>>

Request(d, op) ==
    /\ servers[d] # NoServer /\ call = NoCall
    /\ \E q \in Messages(Operations[op].request) :
          call' = [op |-> op, to |-> d, phase |-> "asked", before |-> q,
                   after |-> [f \in DOMAIN q |->
                                 IF f \in Operations[op].down
                                 THEN ToDownstream(servers[d].remapper, q[f])
                                 ELSE q[f]]]
    /\ UNCHANGED <<table, servers>>

Respond ==
    /\ call.phase = "asked"
    /\ \E a \in Messages(Operations[call.op].answer) :
          call' = [call EXCEPT !.phase = "answered", !.before = a,
                      !.after = Mounted(call.op, [f \in DOMAIN a |->
                         IF f \in Operations[call.op].home
                         THEN ToProxy(servers[call.to].remapper, a[f])
                         ELSE a[f]])]
    /\ UNCHANGED <<table, servers>>

\* The caller has its answer and may call again.
Return == call.phase = "answered" /\ call' = NoCall /\ UNCHANGED <<table, servers>>

RNext ==
    \/ \E d \in Downstreams :
          Join(d) \/ JoinByUri(d) \/ \E op \in DOMAIN Operations : Request(d, op)
    \/ Respond \/ Return
RSpec == RInit /\ [][RNext]_rvars

-----------------------------------------------------------------------------
(* Properties.                                                             *)

UriAt(uris, ns) == IF ns < Len(uris) THEN uris[ns + 1] ELSE ""

\* An identifier keeps its namespace, by URI, when both sides know the URI.
SameNamespace(from, from_uris, to, to_uris) ==
    LET uri == UriAt(from_uris, from.ns)
    IN  from.uri = "" /\ uri # "" /\ uri \in Range(to_uris)
            => UriAt(to_uris, to.ns) = uri

\* The fields the code and its comments leave untranslated: what a mount
\* passes on, the payloads of historical events, and the frame events.
Untranslated ==
    {<<"MountBrowse", f>> : f \in {"node_id", "reference_type_id"}}
    \cup {<<"HistoryUpdateEvent", "source_node_id">>,
          <<"HistoryReadEvents", "source_node_id">>,
          <<"DeviceFrameEvent", "source_node_id">>}
HistoryFilter == {<<"HistoryReadEvents", "of_type">>,
                  <<"HistoryReadEvents", "child_of">>}

FieldIsKept(f) ==
    LET server == servers[call.to]
        from_uris == IF call.phase = "asked" THEN server.seen ELSE server.uris
        to_uris == IF call.phase = "asked" THEN server.uris ELSE server.seen
    IN  call.before[f].type \in IdentifierTypes
            => \A i \in DOMAIN call.before[f].ids :
                  SameNamespace(call.before[f].ids[i], from_uris,
                                call.after[f].ids[i], to_uris)

\* A node keeps its namespace on the way to a downstream server and back,
\* whichever servers joined before or joined while the call was waiting: the
\* index a client sends, or is handed, names the same namespace URI in the
\* proxy's table as in the NamespaceArray of the server that is asked
\* (NamespaceRemapper::Build, ToProxy and ToDownstream).
NodesKeepTheirNamespace ==
    \A f \in DOMAIN call.after :
        <<call.op, f>> \notin Untranslated \cup HistoryFilter => FieldIsKept(f)

\* The event filter of a historical read selects by type and ancestor ids,
\* which must cross in the downstream's indexes, as AddItems has it.
HistoryFilterCrosses ==
    \A f \in DOMAIN call.after :
        <<call.op, f>> \in HistoryFilter => FieldIsKept(f)
=============================================================================
