------------------------------ MODULE ClientApi -----------------------------
(***************************************************************************)
(* The facade an application uses (scada::client, scada::node and          *)
(* scada::monitored_item): its calls, and its subscriptions.               *)
(***************************************************************************)
EXTENDS Naturals, Sequences

(***************************************************************************)
(* The calls of scada::client and scada::node: each is a coroutine that    *)
(* asks one service and turns its answer into a Status or a StatusOr.      *)
(* Reading a value history asks again until the last chunk.  The services  *)
(* are external: they answer anything of the right shape, or fail.         *)
(***************************************************************************)
CONSTANTS
  MaxStored,   \* bound: values in the history
  MaxChunks    \* bound: answers of the history service to one call

VARIABLES
  services_,   \* the services the client was given
  stored,      \* the history of the node
  frame,       \* the coroutine: what is called and what it has collected
  outcome      \* what the caller of the last call got

cvars == <<services_, stored, frame, outcome>>

-----------------------------------------------------------------------------
(* Status and StatusOr *)

BadCodes == {"Bad", "Bad_Disconnected", "Bad_BrowseNameInvalid", "Bad_WrongNodeId"}

IsGoodStatus(code) == code = "Good"
IsBadStatus(code) == code \in BadCodes

Outcome(kind, code, value) == [kind |-> kind, code |-> code, value |-> value]

\* StatusOr of a value, and of a status: one that is not bad panics.
StatusOrValue(value) == Outcome("value", "Good", value)
CheckErrorStatusIsBad(code) == IF IsBadStatus(code) THEN "error" ELSE "panic"
StatusOrStatus(code) == Outcome(CheckErrorStatusIsBad(code), code, <<>>)

\* A plain Status.
StatusOnly(code) == Outcome("status", code, <<>>)

\* StatusOr::status.
StatusOf(result) == StatusOnly(result.code)

-----------------------------------------------------------------------------
(* What the services answer *)

\* A service call fails as a whole, or gives one result per input: a code, and
\* the references, targets or values found.
Answer(ok, code, found) == [ok |-> ok, code |-> code, found |-> found]

Found == {<<>>, <<1>>, <<1, 2>>}

Answers ==
  {Answer(FALSE, code, <<>>) : code \in {"Bad", "Bad_Disconnected"}}
    \cup {Answer(TRUE, code, <<>>) :
            code \in {"Uncertain", "Bad", "Bad_WrongNodeId"}}
    \cup {Answer(TRUE, "Good", found) : found \in Found}

-----------------------------------------------------------------------------
(* What a call makes of an answer *)

\* ReadNodeAsync, node::browse, node::translate_browse_path, client::add_node,
\* and each element of client::browse.
One(answer) ==
  IF ~answer.ok THEN StatusOrStatus(answer.code)
  ELSE IF ~IsGoodStatus(answer.code) THEN StatusOrStatus(answer.code)
  ELSE StatusOrValue(answer.found)

ReadNodeAsync(answer) == One(answer)
browse(answer) == One(answer)
translate_browse_path(answer) == One(answer)
add_node(answer) == One(answer)

\* client::browse, of one input: the element it makes of the input's result.
browse_all(answer) == One(answer)

WriteNodeAsync(answer) == StatusOnly(answer.code)

CallNodeAsync(answer) ==
  IF answer.ok THEN StatusOrValue(answer.found) ELSE StatusOrStatus(answer.code)
CallStatusAsync(answer) == StatusOf(CallNodeAsync(answer))

\* Exactly one reference, or none at all.
Single(result, code) ==
  IF result.kind # "value" THEN result
  ELSE IF Len(result.value) # 1 THEN StatusOrStatus(code)
  ELSE result

browse_node(answer) == Single(browse(answer), "Bad")
child_id(answer) == Single(translate_browse_path(answer), "Bad_BrowseNameInvalid")
child_node(answer) == child_id(answer)

read_event_history(answer) == CallNodeAsync(answer)

\* The session services return nothing.
connect(answer) == StatusOnly("Good")
disconnect(answer) == StatusOnly("Good")

acknowledge_events(answer) == CallStatusAsync(answer)

\* The helpers of the service headers, which ask with one input and take a
\* service: the first result, or the status of the failed call in its place.
\* The services give one result per input, which the helpers check.
BrowseOne(answer) == Outcome("result", answer.code, answer.found)
TranslateBrowsePath(answer) == Outcome("result", answer.code, answer.found)
AddNode(answer) == Outcome("result", answer.code, answer.found)
DeleteNode(answer) == StatusOnly(answer.code)
MakeReadError(code) == Outcome(IF IsBadStatus(code) THEN "result" ELSE "panic", code, <<>>)
ReadOne(answer) ==
  IF answer.ok THEN Outcome("result", answer.code, answer.found)
  ELSE MakeReadError(answer.code)
WriteOne(answer) == StatusOnly(answer.code)

HelperCalls ==
  {"Browse", "TranslateBrowsePath", "AddNode", "DeleteNode", "Read", "Write"}

Calls == HelperCalls \cup
  {"read", "write", "call", "call_result", "browse", "browse_node",
   "translate_browse_path", "child_id", "child_node", "read_event_history",
   "connect", "disconnect", "browse_all", "add_node", "acknowledge_events"}
HistoryCalls == {"read_value_history", "read_value_history_chunk"}

Resumed(call, answer) ==
  CASE call = "read" -> ReadNodeAsync(answer)
    [] call = "write" -> WriteNodeAsync(answer)
    [] call = "call" -> CallStatusAsync(answer)
    [] call = "call_result" -> CallNodeAsync(answer)
    [] call = "browse" -> browse(answer)
    [] call = "browse_node" -> browse_node(answer)
    [] call = "translate_browse_path" -> translate_browse_path(answer)
    [] call = "child_id" -> child_id(answer)
    [] call = "child_node" -> child_node(answer)
    [] call = "read_event_history" -> read_event_history(answer)
    [] call = "connect" -> connect(answer)
    [] call = "disconnect" -> disconnect(answer)
    [] call = "browse_all" -> browse_all(answer)
    [] call = "add_node" -> add_node(answer)
    [] call = "acknowledge_events" -> acknowledge_events(answer)
    [] call = "Browse" -> BrowseOne(answer)
    [] call = "TranslateBrowsePath" -> TranslateBrowsePath(answer)
    [] call = "AddNode" -> AddNode(answer)
    [] call = "DeleteNode" -> DeleteNode(answer)
    [] call = "Read" -> ReadOne(answer)
    [] call = "Write" -> WriteOne(answer)

ServiceNeeded(call) ==
  CASE call \in {"read", "write", "Read", "Write"} -> "attribute"
    [] call \in {"call", "call_result", "acknowledge_events"} -> "method"
    [] call \in {"browse", "browse_node", "translate_browse_path", "child_id",
                 "child_node", "browse_all", "Browse", "TranslateBrowsePath"} -> "view"
    [] call \in {"read_event_history"} \cup HistoryCalls -> "history"
    [] call \in {"connect", "disconnect"} -> "session"
    [] call \in {"add_node", "AddNode", "DeleteNode"} -> "node_management"

\* Without the service: a write says Bad, every other call Bad_Disconnected.
Unserved(call) ==
  CASE call = "write" -> StatusOnly("Bad")
    [] call \in {"connect", "disconnect", "call", "acknowledge_events"}
         -> StatusOnly("Bad_Disconnected")
    [] OTHER -> StatusOrStatus("Bad_Disconnected")

-----------------------------------------------------------------------------
(* The coroutine *)

NoClientCall == "none"
NoFrame == [call |-> NoClientCall, values |-> <<>>, point |-> <<>>, chunks |-> 0]
NoOutcome == Outcome("none", "Good", <<>>)

Services == {"attribute", "method", "view", "history", "session", "node_management"}

CInit ==
  /\ services_ \in {Services, {}}
  /\ stored \in {[i \in 1..n |-> i] : n \in 0..MaxStored}
  /\ frame = NoFrame /\ outcome = NoOutcome

StartCall(call) ==
  /\ frame.call = NoClientCall
  /\ call \in HelperCalls => ServiceNeeded(call) \in services_
  /\ IF ServiceNeeded(call) \in services_
     THEN frame' = [NoFrame EXCEPT !.call = call] /\ outcome' = NoOutcome
     ELSE outcome' = Unserved(call) /\ UNCHANGED frame
  /\ UNCHANGED <<services_, stored>>

Resume1(answer) ==
  /\ frame.call \in Calls
  /\ outcome' = Resumed(frame.call, answer) /\ frame' = NoFrame
  /\ UNCHANGED <<services_, stored>>

\* A chunk of the history that starts where the continuation point says; the
\* point of the last chunk is empty.
Chunks(point) ==
  LET read == IF point = <<>> THEN 0 ELSE Head(point)
  IN {[values |-> SubSeq(stored, read + 1, last),
       point |-> IF last = Len(stored) THEN <<>> ELSE <<last>>] :
        last \in read..Len(stored)}

\* Mutant: the next read starts from the beginning again.
SamePoint(chunk) ==
  IF chunk.point = <<>>
  THEN /\ outcome' = StatusOrValue(frame.values \o chunk.values)
       /\ frame' = NoFrame
  ELSE /\ frame' = [frame EXCEPT !.values = @ \o chunk.values, !.chunks = @ + 1]
       /\ UNCHANGED outcome

\* node::read_value_history: the values so far, until there is no point.
read_value_history(chunk) ==
  IF chunk.point = <<>>
  THEN /\ outcome' = StatusOrValue(frame.values \o chunk.values)
       /\ frame' = NoFrame
  ELSE /\ frame' = [frame EXCEPT !.values = @ \o chunk.values,
                                 !.point = chunk.point, !.chunks = @ + 1]
       /\ UNCHANGED outcome

\* node::read_value_history_chunk.
read_value_history_chunk(chunk) ==
  outcome' = StatusOrValue(chunk.values) /\ frame' = NoFrame

HistoryChunk ==
  /\ frame.call \in HistoryCalls
  /\ \/ \E chunk \in Chunks(frame.point) :
          /\ chunk.point # <<>> => frame.chunks < MaxChunks
          /\ IF frame.call = "read_value_history" THEN read_value_history(chunk)
             ELSE read_value_history_chunk(chunk)
     \/ outcome' = StatusOrStatus("Bad_Disconnected") /\ frame' = NoFrame
  /\ UNCHANGED <<services_, stored>>

CNext ==
  /\ outcome.kind # "panic"
  /\ \/ \E call \in Calls \cup HistoryCalls : StartCall(call)
     \/ \E answer \in Answers : Resume1(answer)
     \/ HistoryChunk

-----------------------------------------------------------------------------
(* Properties *)

\* A history read that succeeds has every stored value once and in order,
\* however the service cuts it into chunks (node.cpp, read_value_history).
HistoryIsWhole ==
  [][(frame.call = "read_value_history" /\ outcome'.kind = "value")
       => outcome'.value = stored]_cvars

\* No call stops the process for a status the server may give a result: a
\* StatusOr without a value takes every status that is not good.
StatusIsReported == outcome.kind # "panic"

-----------------------------------------------------------------------------
(***************************************************************************)
(* scada::monitored_item over LegacyMonitoredItemAdapter: one owner that   *)
(* subscribes, hears values or events, and unsubscribes, also from inside  *)
(* its handler, and may subscribe again.  Every subscription has an        *)
(* adapter and an item of its own.  All of it runs on one executor; the    *)
(* adapter's coroutines and its pump are in LegacyAdapter.                 *)
(***************************************************************************)
CONSTANTS
  MaxSubscriptions,   \* bound: subscriptions in a behaviour
  MaxBatch            \* bound: notifications in one batch

VARIABLES
  offered,        \* the client has a monitored item service
  state_,         \* the subscription the owner holds, 0 for none
  subscriptions,  \* of each subscription: see NewItem
  delivery,       \* the batch that OnNotifications works through
  heard           \* of each subscription: the statuses its handler was given

ivars == <<offered, state_, subscriptions, delivery, heard>>

Subscriptions == 1..MaxSubscriptions
Severities == {"Good", "Uncertain", "Bad"}

\* The kind of handler, and the ItemState: mapped by its client handle, added
\* to the subscription, closed.
NoItem == [kind |-> "none", mapped |-> FALSE, added |-> FALSE, closed |-> FALSE]
NewItem(kind) == [NoItem EXCEPT !.kind = kind]

\* The notifications still to be given, and where the handler of one is.
NoDelivery == [of |-> 0, rest |-> <<>>, phase |-> "idle", status |-> "Good"]

IInit ==
  /\ offered \in BOOLEAN /\ state_ = 0
  /\ subscriptions = [s \in Subscriptions |-> NoItem]
  /\ delivery = NoDelivery /\ heard = [s \in Subscriptions |-> {}]

Unused == {s \in Subscriptions : subscriptions[s].kind = "none"}

\* The owner's code runs between tasks of the executor and inside its handler.
OwnerRuns == delivery.phase \in {"idle", "handling"}

\* The owner has let go of an earlier state_.  Without a service the handler is
\* told at once and nothing is created.
SubscribeTo(kind) ==
  /\ OwnerRuns /\ state_ = 0 /\ Unused # {}
  /\ LET s == CHOOSE u \in Unused : \A v \in Unused : u <= v
     IN IF offered
        THEN /\ state_' = s
             /\ subscriptions' = [subscriptions EXCEPT ![s] = NewItem(kind)]
             /\ UNCHANGED heard
        ELSE /\ heard' = [heard EXCEPT ![s] = {"Bad"}]
             /\ subscriptions' = [subscriptions EXCEPT ![s] =
                                    [NewItem(kind) EXCEPT !.closed = TRUE]]
             /\ UNCHANGED state_
  /\ UNCHANGED <<offered, delivery>>

subscribe == SubscribeTo("data")
subscribe_events == SubscribeTo("event")

\* The state is destroyed, and with it the item, whose destructor closes it,
\* and the adapter.  A running handler keeps its state until it returns.
Destroyed(s) == [subscriptions EXCEPT ![s].closed = TRUE, ![s].mapped = FALSE]

unsubscribe ==
  /\ OwnerRuns /\ state_ # 0
  /\ state_' = 0
  /\ subscriptions' = IF delivery.of = state_ THEN subscriptions
                      ELSE Destroyed(state_)
  /\ UNCHANGED <<offered, delivery, heard>>

\* The adapter's coroutine maps the item, then AddItems accepts it.
ItemMapped(s) ==
  /\ delivery.phase = "idle"
  /\ subscriptions[s].kind # "none" /\ ~subscriptions[s].mapped
  /\ ~subscriptions[s].closed
  /\ subscriptions' = [subscriptions EXCEPT ![s].mapped = TRUE]
  /\ UNCHANGED <<offered, state_, delivery, heard>>

ItemAdded(s) ==
  /\ delivery.phase = "idle" /\ subscriptions[s].mapped /\ ~subscriptions[s].added
  /\ subscriptions' = [subscriptions EXCEPT ![s].added = TRUE]
  /\ UNCHANGED <<offered, state_, delivery, heard>>

\* AddItems refuses it: the handler of an item that is still open is called
\* with the mapping gone, and the item is closed.
ItemRefused(s) ==
  /\ delivery.phase = "idle" /\ subscriptions[s].mapped /\ ~subscriptions[s].added
  /\ subscriptions' = Destroyed(s)
  /\ IF ~subscriptions[s].closed /\ state_ = s
     THEN /\ heard' = [heard EXCEPT ![s] = @ \cup {"Bad"}]
          /\ delivery' = [NoDelivery EXCEPT !.of = s, !.phase = "handling",
                                            !.status = "Bad"]
     ELSE UNCHANGED <<heard, delivery>>
  /\ UNCHANGED <<offered, state_>>

\* A read of the subscription fails: CloseAll tells no handler.
PumpFails(s) ==
  /\ delivery.phase = "idle" /\ subscriptions[s].added /\ ~subscriptions[s].closed
  /\ subscriptions' = Destroyed(s)
  /\ UNCHANGED <<offered, state_, delivery, heard>>

Batches == UNION {[1..n -> Severities] : n \in 1..MaxBatch}

\* The pump hands over a batch for the item: values, events or item statuses.
OnNotifications(s, batch) ==
  /\ delivery.phase = "idle" /\ subscriptions[s].added
  /\ delivery' = [of |-> s, rest |-> Tail(batch), phase |-> "resolve",
                  status |-> Head(batch)]
  /\ UNCHANGED <<offered, state_, subscriptions, heard>>

\* handle_status: a bad status releases the item, which closes it.
handle_status(s, status) ==
  IF status = "Bad" THEN Destroyed(s) ELSE subscriptions

NextNotification ==
  IF delivery.rest = <<>> THEN NoDelivery
  ELSE [delivery EXCEPT !.rest = Tail(@), !.phase = "resolve",
                        !.status = Head(delivery.rest)]

\* Mutant: the batch goes on for an item that was closed by a handler.
ResolveMapped ==
  /\ delivery.phase = "resolve"
  /\ delivery' = [delivery EXCEPT !.phase = "handling"]
  /\ heard' = [heard EXCEPT ![delivery.of] = @ \cup {delivery.status}]
  /\ UNCHANGED <<offered, state_, subscriptions>>

\* One notification: an item that is unmapped or closed is passed over; the
\* handler locks the weak state, an event handler releases the item first.
ResolveItem ==
  /\ delivery.phase = "resolve"
  /\ LET s == delivery.of
         item == subscriptions[s]
     IN IF item.closed \/ ~item.mapped \/ state_ # s
        THEN delivery' = NextNotification /\ UNCHANGED <<subscriptions, heard>>
        ELSE /\ delivery' = [delivery EXCEPT !.phase = "handling"]
             /\ heard' = [heard EXCEPT ![s] = @ \cup {delivery.status}]
             /\ subscriptions' = IF item.kind = "event"
                                 THEN handle_status(s, delivery.status)
                                 ELSE subscriptions
  /\ UNCHANGED <<offered, state_>>

\* The handler returns: a value handler releases the item now, and a state
\* that the handler let go of is destroyed.
HandlerReturns ==
  /\ delivery.phase = "handling"
  /\ LET s == delivery.of
     IN subscriptions' = IF state_ # s THEN Destroyed(s)
                         ELSE IF subscriptions[s].kind = "data"
                              THEN handle_status(s, delivery.status)
                              ELSE subscriptions
  /\ delivery' = NextNotification
  /\ UNCHANGED <<offered, state_, heard>>

INext ==
  \/ subscribe \/ subscribe_events
  \/ unsubscribe
  \/ \E s \in Subscriptions : 
         ItemMapped(s) \/ ItemAdded(s) \/ ItemRefused(s) \/ PumpFails(s)
  \/ \E s \in Subscriptions : \E batch \in Batches : OnNotifications(s, batch)
  \/ ResolveItem
  \/ HandlerReturns

-----------------------------------------------------------------------------
(* Properties *)

\* A handler is called only for the subscription its owner holds, and never
\* again once it was given a bad status: not by the rest of the batch, not by
\* a late one, and not after the owner unsubscribed and subscribed again
\* (client_monitored_item.h, subscribe and subscribe_events).
HandlerIsQuiet ==
  [][(delivery'.phase = "handling" /\ delivery.phase # "handling")
       => delivery'.of = state_ /\ "Bad" \notin heard[state_]]_ivars
=============================================================================
