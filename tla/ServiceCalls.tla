---------------------------- MODULE ServiceCalls ----------------------------
(***************************************************************************)
(* Service calls over one client session: the proxies of the client        *)
(* (session_proxy.cpp, view_service_proxy.cpp, node_management_proxy.cpp,  *)
(* history_proxy.cpp) number a request, register the handler of its answer *)
(* and send it; SessionStub and its view, node management and history      *)
(* stubs answer at once or start a coroutine that calls the service behind *)
(* them.  Services answer in any order.  The transport, the client or the  *)
(* server may end the session at any moment; the client may log on again.  *)
(*                                                                         *)
(* Payloads are sets of nodes.  Logon is in RemoteSessions, the connect    *)
(* loop and pings are in SessionProxy, monitored items in MonitoredItems.  *)
(***************************************************************************)
EXTENDS Integers, Sequences, FiniteSets, SequencesExt, Functions

CONSTANTS
  Callers,        \* coroutines of the client that make calls, one at a time
  Workloads,      \* the requests each of them may make, one way or another
  MaxRequestId,   \* std::numeric_limits<int>::max(), scaled down
  Points,         \* continuation points the historian may hand out
  OwnUser,        \* the node of the session's own user
  Offers,         \* the sets of services a server may be assembled with
  MaxCalls,       \* bound: calls made in a behaviour
  MaxSessions     \* bound: logons in a behaviour

ASSUME CallsAssumption ==
  /\ MaxRequestId \in Nat \ {0, 1} /\ MaxCalls \in Nat /\ MaxSessions \in Nat

VARIABLES
  menu,                   \* the workload of this behaviour
  services_,              \* the services the server was assembled with
  call,                   \* what each caller waits for, or got
  calls,                  \* the number of calls made
  next_request_id_,
  requests_,              \* request id -> the caller its handler resumes
  session_created_,       \* the client's view of the session
  session,                \* the number of the current logon
  link,                   \* the transport still carries messages
  to_server, to_client,   \* messages under way
  alive,                  \* SessionStubs the session manager holds
  connection_,            \* SessionStubs with a connection
  running,                \* coroutines of the stubs, waiting for a service
  continuation_points_,   \* per HistoryStub: point and stored details
  historian               \* the points the history service holds

vars == <<menu, services_, call, calls, next_request_id_, requests_,
          session_created_, session, link, to_server, to_client, alive,
          connection_, running, continuation_points_, historian>>

client == <<call, calls, next_request_id_, requests_, session_created_>>
server == <<alive, connection_, running, continuation_points_, historian>>

Sessions == 1..MaxSessions

-----------------------------------------------------------------------------
(* Requests *)

\* Times as the wire counts them: 0 is kNullTime, the default-constructed
\* Time is the Unix epoch.
NullTime == 0
UnixEpoch == 1
IsNull(time) == time = NullTime

\* A ByteString of a continuation point: empty, or the point.
NoPoint == <<>>

NoDetails == [from |-> NullTime, to |-> NullTime, point |-> NoPoint,
              release |-> FALSE]

\* A protocol request: the fields that are present, and what they carry.
Message(fields, nodes, details) ==
  [fields |-> fields, nodes |-> nodes, details |-> details]

\* A repeated field without elements is not there.
Repeated(field, nodes) ==
  Message(IF nodes = {} THEN {} ELSE {field}, nodes, NoDetails)

Read(inputs) == Message({"read"}, inputs, NoDetails)
Write(inputs) == Repeated("write", inputs)
CallMethod(node) == Message({"call"}, {node}, NoDetails)
Browse(nodes) == Message({"browse"}, nodes, NoDetails)
TranslateBrowsePaths(paths) == Repeated("browse_path", paths)
AddNodes(inputs) == Repeated("add_node", inputs)
DeleteNodes(inputs) == Repeated("delete_node", inputs)
AddReferences(inputs) == Repeated("add_reference", inputs)
DeleteReferences(inputs) == Repeated("delete_reference", inputs)

\* A null time leaves its field unset, which is read as 0.
WireTime(time) == IF ~IsNull(time) THEN time ELSE 0

HistoryReadRaw(node, details) ==
  Message({"history_read_raw"}, {node},
          [details EXCEPT !.from = WireTime(@), !.to = WireTime(@)])

HistoryReadEvents(node, from, to) ==
  Message({"history_read_events"}, {node},
          [NoDetails EXCEPT !.from = WireTime(from), !.to = WireTime(to)])

Fields == {"read", "write", "call", "browse", "browse_path", "add_node",
           "delete_node", "add_reference", "delete_reference",
           "history_read_raw", "history_read_events"}

-----------------------------------------------------------------------------
(* State *)

Idle == [state |-> "idle", number |-> 0, request |-> Message({}, {}, NoDetails),
         since |-> 0, answer |-> 0, status |-> "none", point |-> NoPoint]

Response(request, status, nodes, point) ==
  [id |-> request.id, number |-> request.number, status |-> status,
   nodes |-> nodes, point |-> point]

Init ==
  /\ menu \in Workloads /\ services_ \in Offers
  /\ call = [c \in Callers |-> Idle] /\ calls = 0
  /\ next_request_id_ = 1 /\ requests_ = <<>>
  /\ session_created_ = FALSE /\ session = 0 /\ link = FALSE
  /\ to_server = <<>> /\ to_client = <<>>
  /\ alive = {} /\ connection_ = {} /\ running = {}
  /\ continuation_points_ = [s \in Sessions |-> {}] /\ historian = {}

TypeOK ==
  /\ next_request_id_ \in 1..MaxRequestId
  /\ DOMAIN requests_ \subseteq 1..MaxRequestId
  /\ Range(requests_) \subseteq Callers
  /\ \A c \in Callers : call[c].state \in {"idle", "waiting", "returned"}
  /\ connection_ \subseteq alive /\ alive \subseteq Sessions
  /\ \A f \in running : f.stub \in Sessions /\ f.field \in Fields \cup {"release"}
  /\ historian \subseteq Points

-----------------------------------------------------------------------------
(* The client *)

Returned(c, number, status, point) ==
  [call[c] EXCEPT !.state = "returned", !.answer = number, !.status = status,
                  !.point = point, !.since = 0]

\* Mutant: the ids wrap one step early.
WrapsEarly(id) == IF id >= MaxRequestId - 1 THEN 1 ELSE id + 1

\* The wrap of next_request_id_.
NextRequestId(id) == IF id = MaxRequestId THEN 1 ELSE id + 1

\* SessionProxy::Request: the handler takes the place of one that waits under
\* the same id.
Request(c, message) ==
  /\ next_request_id_' = NextRequestId(next_request_id_)
  /\ requests_' = (next_request_id_ :> c) @@ requests_
  /\ call' = [d \in Callers |->
       IF d = c THEN [Idle EXCEPT !.state = "waiting", !.number = calls + 1,
                                  !.request = message]
       ELSE IF call[d].state = "waiting" THEN [call[d] EXCEPT !.since = @ + 1]
       ELSE call[d]]
  /\ to_server' = IF link
                  THEN Append(to_server,
                              message @@ [id |-> next_request_id_,
                                          number |-> calls + 1])
                  ELSE to_server

\* A client does not send MaxRequestId requests while one of them waits.
FewRequestsAhead ==
  \A c \in Callers : call[c].state = "waiting" => call[c].since + 1 < MaxRequestId

Disconnected(c) ==
  /\ call' = [call EXCEPT ![c] =
       [Idle EXCEPT !.state = "returned", !.number = calls + 1,
                    !.answer = calls + 1, !.status = "Bad_Disconnected"]]
  /\ UNCHANGED <<next_request_id_, requests_, to_server>>

\* A proxy answers by itself without a session.
Start(c, message) ==
  /\ call[c].state # "waiting"
  /\ calls < MaxCalls /\ FewRequestsAhead
  /\ calls' = calls + 1
  /\ IF session_created_ THEN Request(c, message) ELSE Disconnected(c)
  /\ UNCHANGED <<menu, services_, session_created_, session, link, to_client, server>>

\* A caller that holds a continuation point may read on, or release it.
Continue(c) ==
  /\ call[c].point # NoPoint
  /\ \E release \in BOOLEAN :
       Start(c, HistoryReadRaw("node",
         [NoDetails EXCEPT !.point = call[c].point, !.release = release]))

\* A message for a handler that is gone is ignored.
OnMessageReceived ==
  /\ session_created_ /\ to_client # <<>>
  /\ LET response == Head(to_client)
     IN IF response.id \in DOMAIN requests_
        THEN LET c == requests_[response.id]
             IN /\ requests_' = Restrict(requests_, DOMAIN requests_ \ {response.id})
                /\ call' = [call EXCEPT ![c] =
                     Returned(c, response.number, response.status, response.point)]
        ELSE UNCHANGED <<requests_, call>>
  /\ to_client' = Tail(to_client)
  /\ UNCHANGED <<menu, services_, calls, next_request_id_, session_created_, session,
                 link, to_server, server>>

\* The answers OnSessionDeleted gives the pending requests.
Failed ==
  [c \in Callers |->
    IF c \in Range(requests_)
    THEN Returned(c, call[c].number, "Bad_Disconnected", NoPoint) ELSE call[c]]

\* SessionProxy::OnSessionError: the transport is reset, and with it what was
\* under way.
OnSessionError ==
  /\ session_created_
  /\ session_created_' = FALSE /\ link' = FALSE
  /\ to_server' = <<>> /\ to_client' = <<>>
  /\ requests_' = <<>> /\ call' = Failed
  /\ UNCHANGED <<menu, services_, calls, next_request_id_, session, server>>

\* The transport was closed by the peer: the client's read fails.
TransportClosed == ~link /\ OnSessionError

\* A logon: RemoteSessionManager creates a SessionStub, the connection binds it.
CreateSession ==
  /\ ~session_created_ /\ session < MaxSessions
  /\ session' = session + 1 /\ session_created_' = TRUE /\ link' = TRUE
  /\ alive' = alive \cup {session'} /\ connection_' = connection_ \cup {session'}
  /\ UNCHANGED <<menu, services_, call, calls, next_request_id_, requests_, to_server,
                 to_client, running, continuation_points_, historian>>

-----------------------------------------------------------------------------
(* The server *)

\* What a handler sends at once and the coroutines it starts.
Nothing == [sent |-> <<>>, started |-> {}]
Refuse(request, status) ==
  [Nothing EXCEPT !.sent = <<Response(request, status, {}, NoPoint)>>]

Frame(s, request, field, details) ==
  [stub |-> s, id |-> request.id, number |-> request.number, field |-> field,
   nodes |-> request.nodes, details |-> details]

CoSpawn(s, request, field) ==
  [Nothing EXCEPT !.started = {Frame(s, request, field, request.details)}]

Has(request, field) == field \in request.fields

\* Mutant: a missing attribute service answers nothing.
UnansweredRead(s, request) ==
  IF ~Has(request, "read") \/ "attribute" \notin services_ THEN Nothing
  ELSE CoSpawn(s, request, "read")

OnRead(s, request) ==
  IF ~Has(request, "read") THEN Nothing
  ELSE IF "attribute" \notin services_ THEN Refuse(request, "Bad")
  ELSE CoSpawn(s, request, "read")

OnWrite(s, request) ==
  IF ~Has(request, "write") THEN Nothing
  ELSE IF "attribute" \notin services_ THEN Refuse(request, "Bad")
  ELSE CoSpawn(s, request, "write")

OnCall(s, request) ==
  IF ~Has(request, "call") THEN Nothing
  ELSE IF "method" \notin services_ THEN Refuse(request, "Bad")
  ELSE CoSpawn(s, request, "call")

OnBrowse(s, request) == CoSpawn(s, request, "browse")
OnBrowsePaths(s, request) == CoSpawn(s, request, "browse_path")
OnAddNodes(s, request) == CoSpawn(s, request, "add_node")
OnAddReferences(s, request) == CoSpawn(s, request, "add_reference")
OnDeleteReferences(s, request) == CoSpawn(s, request, "delete_reference")

ContainsNodeId(nodes, node) == node \in nodes

OnDeleteNodes(s, request) ==
  IF ContainsNodeId(request.nodes, OwnUser)
  THEN Refuse(request, "Bad_CantDeleteOwnUser")
  ELSE CoSpawn(s, request, "delete_node")

\* An unset time is read as the default-constructed Time.
DecodedTime(wire) == IF wire # 0 THEN wire ELSE UnixEpoch

\* A stored continuation point brings its own parameters.
Stored(s, point) == {e \in continuation_points_[s] : <<e.point>> = point}

RawDetails(s, request) ==
  LET wire == request.details
      stored == Stored(s, wire.point)
  IN IF stored # {}
     THEN [(CHOOSE e \in stored : TRUE).details
             EXCEPT !.point = wire.point, !.release = wire.release]
     ELSE [wire EXCEPT !.from = DecodedTime(@), !.to = DecodedTime(@)]

OnHistoryReadRaw(s, request) ==
  [Nothing EXCEPT !.started =
     {Frame(s, request, "history_read_raw", RawDetails(s, request))}]

OnHistoryReadEvents(s, request) ==
  [Nothing EXCEPT !.started =
     {Frame(s, request, "history_read_events",
            [request.details EXCEPT !.from = DecodedTime(@),
                                    !.to = DecodedTime(@)])}]

\* One handler per field that is present.
If(condition, handler) == IF condition THEN handler ELSE Nothing

ViewServiceRequest(s, request) ==
  <<If(Has(request, "browse"), OnBrowse(s, request)),
    If(Has(request, "browse_path"), OnBrowsePaths(s, request))>>

NodeManagementRequest(s, request) ==
  <<If(Has(request, "add_node"), OnAddNodes(s, request)),
    If(Has(request, "delete_node"), OnDeleteNodes(s, request)),
    If(Has(request, "add_reference"), OnAddReferences(s, request)),
    If(Has(request, "delete_reference"), OnDeleteReferences(s, request))>>

HistoryRequest(s, request) ==
  <<If(Has(request, "history_read_raw"), OnHistoryReadRaw(s, request)),
    If(Has(request, "history_read_events"), OnHistoryReadEvents(s, request))>>

\* The stubs that SessionStub::Init created, and the handlers of its own.
ProcessRequest(s, request) ==
  LET Stub(service, handlers) == IF service \in services_ THEN handlers ELSE <<>>
  IN <<OnRead(s, request), OnWrite(s, request), OnCall(s, request)>>
       \o Stub("view", ViewServiceRequest(s, request))
       \o Stub("node_management", NodeManagementRequest(s, request))
       \o Stub("history", HistoryRequest(s, request))

\* SessionStub::Send.  What a stub without a connection keeps for the next one
\* stays there: a connection binds a stub only at logon.
Send(s, responses) ==
  to_client' = IF s \in connection_ /\ s = session /\ link
               THEN to_client \o responses ELSE to_client

\* A HistoryStub is owned by its SessionStub and by its coroutines.
HistoryFields == {"history_read_raw", "history_read_events"}
HistoryStubGone(s, stubs, frames) ==
  /\ s \notin stubs
  /\ \A f \in frames : f.stub = s => f.field \notin HistoryFields

Release(s, e) ==
  [stub |-> s, id |-> 0, number |-> 0, field |-> "release", nodes |-> {},
   details |-> [e.details EXCEPT !.point = <<e.point>>, !.release = TRUE]]

\* The stubs that lose their last owner in a step release their points.
Settle(stubs, frames, points) ==
  LET gone == {s \in Sessions : HistoryStubGone(s, stubs, frames)}
  IN /\ alive' = stubs
     /\ running' = frames \cup UNION {{Release(s, e) : e \in points[s]} : s \in gone}
     /\ continuation_points_' =
          [s \in Sessions |-> IF s \in gone THEN {} ELSE points[s]]

ProcessMessage ==
  /\ session \in connection_ /\ link /\ to_server # <<>>
  /\ LET request == Head(to_server)
         handled == ProcessRequest(session, request)
         points == IF Has(request, "history_read_raw") /\ "history" \in services_
                   THEN [continuation_points_ EXCEPT ![session] =
                           @ \ Stored(session, request.details.point)]
                   ELSE continuation_points_
     IN /\ Send(session, FlattenSeq([i \in DOMAIN handled |-> handled[i].sent]))
        /\ Settle(alive,
                  running \cup UNION {handled[i].started : i \in DOMAIN handled},
                  points)
  /\ to_server' = Tail(to_server)
  /\ UNCHANGED <<menu, services_, client, session, link, connection_, historian>>

\* ServerConnection::Close or a DeleteSession request: the stub loses its
\* connection, then the manager drops it.
CloseConnection(s) ==
  /\ s \in connection_
  /\ connection_' = connection_ \ {s}
  /\ Settle(alive \ {s}, running, continuation_points_)
  /\ link' = (link /\ s # session)
  /\ to_server' = IF s = session THEN <<>> ELSE to_server
  /\ UNCHANGED <<menu, services_, client, session, to_client, historian>>

-----------------------------------------------------------------------------
(* A service answers a coroutine *)

Result(f, status) ==
  <<Response(f, status, IF status = "Good" THEN f.nodes ELSE {}, NoPoint)>>

\* SessionStub's own coroutines look at the connection first.
IfConnected(f, responses) == IF f.stub \in connection_ THEN responses ELSE <<>>

\* The other stubs lock their weak pointer to the SessionStub.
IfAlive(f, responses) == IF f.stub \in alive THEN responses ELSE <<>>

OnReadAsync(f, status) == IfConnected(f, Result(f, status))
OnWriteAsync(f, status) == IfConnected(f, Result(f, status))
OnCallAsync(f, status) == IfConnected(f, Result(f, status))
OnBrowseAsync(f, status) == IfAlive(f, Result(f, status))
OnBrowsePathsAsync(f, status) == IfAlive(f, Result(f, status))
OnAddNodesAsync(f, status) == IfAlive(f, Result(f, status))
OnDeleteNodesAsync(f, status) == IfAlive(f, Result(f, status))
OnAddReferencesAsync(f, status) == IfAlive(f, Result(f, status))
OnDeleteReferencesAsync(f, status) == IfAlive(f, Result(f, status))
OnHistoryReadEventsAsync(f, status) == IfAlive(f, Result(f, status))

Answered(f, status) ==
  CASE f.field = "read" -> OnReadAsync(f, status)
    [] f.field = "write" -> OnWriteAsync(f, status)
    [] f.field = "call" -> OnCallAsync(f, status)
    [] f.field = "browse" -> OnBrowseAsync(f, status)
    [] f.field = "browse_path" -> OnBrowsePathsAsync(f, status)
    [] f.field = "add_node" -> OnAddNodesAsync(f, status)
    [] f.field = "delete_node" -> OnDeleteNodesAsync(f, status)
    [] f.field = "add_reference" -> OnAddReferencesAsync(f, status)
    [] f.field = "delete_reference" -> OnDeleteReferencesAsync(f, status)
    [] f.field = "history_read_events" -> OnHistoryReadEventsAsync(f, status)

ServiceAnswers(f) ==
  /\ f \in running /\ f.field \notin {"history_read_raw", "release"}
  /\ \E status \in {"Good", "Bad"} : Send(f.stub, Answered(f, status))
  /\ Settle(alive, running \ {f}, continuation_points_)
  /\ UNCHANGED <<menu, services_, client, session, link, to_server, connection_,
                 historian>>

\* The historian: a call uses up the point it is given, whatever it answers.
HistorianAnswers(details) ==
  LET held == historian \ Range(details.point)
      Answer(status, point) ==
        [status |-> status, point |-> point, held |-> held \cup Range(point)]
  IN IF ~(Range(details.point) \subseteq historian) THEN {Answer("Bad", NoPoint)}
     ELSE IF details.release THEN {Answer("Good", NoPoint)}
     ELSE {Answer("Good", NoPoint), Answer("Bad", NoPoint)}
            \cup {Answer("Good", <<p>>) : p \in Points \ historian}

\* Mutant: the point of a client that is gone is not stored.
StoreForClient(f, answer) ==
  IF f.stub \in alive /\ answer.status = "Good" /\ answer.point # NoPoint
  THEN [continuation_points_ EXCEPT ![f.stub] =
          @ \cup {[point |-> Head(answer.point), details |-> f.details]}]
  ELSE continuation_points_

\* OnHistoryReadRawAsync: the point is stored, then the answer is sent.
StorePoint(f, answer) ==
  IF answer.status = "Good" /\ answer.point # NoPoint
  THEN [continuation_points_ EXCEPT ![f.stub] =
          @ \cup {[point |-> Head(answer.point), details |-> f.details]}]
  ELSE continuation_points_

OnHistoryReadRawAsync(f) ==
  /\ f \in running /\ f.field = "history_read_raw"
  /\ \E answer \in HistorianAnswers(f.details) :
       /\ historian' = answer.held
       /\ Send(f.stub,
               IfAlive(f, <<Response(f, answer.status,
                                     IF answer.status = "Good" THEN f.nodes ELSE {},
                                     answer.point)>>))
       /\ Settle(alive, running \ {f}, StorePoint(f, answer))
  /\ UNCHANGED <<menu, services_, client, session, link, to_server, connection_>>

\* The coroutine ~HistoryStub started.
PointReleased(f) ==
  /\ f \in running /\ f.field = "release"
  /\ \E answer \in HistorianAnswers(f.details) : historian' = answer.held
  /\ running' = running \ {f}
  /\ UNCHANGED <<menu, services_, client, session, link, to_server, to_client, alive,
                 connection_, continuation_points_>>

-----------------------------------------------------------------------------
Next ==
  \/ \E c \in Callers : \E message \in menu[c] : Start(c, message)
  \/ \E c \in Callers : Continue(c)
  \/ OnMessageReceived
  \/ OnSessionError
  \/ TransportClosed
  \/ CreateSession
  \/ ProcessMessage
  \/ \E s \in Sessions : CloseConnection(s)
  \/ \E f \in running : ServiceAnswers(f)
  \/ \E f \in running : OnHistoryReadRawAsync(f)
  \/ \E f \in running : PointReleased(f)

\* The executors run what is ready, the transport delivers or reports its end,
\* and a service answers every call.
Fairness ==
  /\ WF_vars(OnMessageReceived) /\ WF_vars(TransportClosed)
  /\ WF_vars(ProcessMessage)
  /\ WF_vars(\E f \in running : ServiceAnswers(f))
  /\ WF_vars(\E f \in running : OnHistoryReadRawAsync(f))

Spec == Init /\ [][Next]_vars /\ Fairness

-----------------------------------------------------------------------------
(* Properties *)

\* A caller gets the answer to its own request, also when the request ids wrap,
\* services answer out of order, or answers of an earlier session are late
\* (session_proxy.cpp, Request and OnMessageReceived).
AnswerMatchesCall ==
  \A c \in Callers : call[c].state = "returned" => call[c].answer = call[c].number

\* What a server answers at all: a field it can see, and a stub for it.
ServiceOf ==
  [f \in Fields |->
     CASE f \in {"browse", "browse_path"} -> "view"
       [] f \in {"add_node", "delete_node", "add_reference", "delete_reference"}
            -> "node_management"
       [] f \in HistoryFields -> "history"
       [] OTHER -> "own"]

IsServed(request) == \E f \in request.fields : ServiceOf[f] \in services_ \cup {"own"}

\* A call with something to do, on a server that has the service, returns:
\* with the service's answer, with a refusal, or with Bad_Disconnected when the
\* session ends first (SessionStub::ProcessRequest, SessionProxy::
\* OnSessionDeleted).
ServedCallReturns ==
  \A c \in Callers :
    (call[c].state = "waiting" /\ IsServed(call[c].request))
      ~> call[c].state # "waiting"

\* Every continuation point the historian holds is known to a history stub that
\* still exists, or is in use: none is left behind when a session ends while
\* its reads are in flight (history_stub.cpp, ~HistoryStub and
\* OnHistoryReadRawAsync).
NoContinuationLeak ==
  \A p \in historian :
    \/ \E s \in Sessions : \E e \in continuation_points_[s] :
         e.point = p /\ ~HistoryStubGone(s, alive, running)
    \/ \E f \in running : f.details.point = <<p>>

\* An open end of a history read is still open when the historian is asked
\* (history_proxy.cpp, HistoryReadRaw; history_stub.cpp, OnHistoryReadRaw).
OpenRangeStaysOpen ==
  \A f \in running : \A c \in Callers :
    (/\ f.field \in HistoryFields
     /\ call[c].number = f.number
     /\ IsNull(call[c].request.details.to)
     /\ call[c].request.details.point = NoPoint)
      => IsNull(f.details.to)

=============================================================================
