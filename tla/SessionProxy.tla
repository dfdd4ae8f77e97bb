---------------------------- MODULE SessionProxy ----------------------------
(***************************************************************************)
(* The client side of a remote session: SessionProxy (remote/              *)
(* session_proxy.cpp) with its connect loop, request map, ping loop and    *)
(* the Connect / Reconnect / Disconnect coroutines.                        *)
(*                                                                         *)
(* Everything runs on one executor.  A coroutine runs from one suspension  *)
(* to the next without interruption, and whatever resumes it is posted to  *)
(* the executor's FIFO queue, the sequence `ready`.  An action is either   *)
(* the arrival of something from outside (a call of the application, an    *)
(* I/O completion, the expiry of a timer) or the execution of the task at  *)
(* the head of the queue up to its next suspension.                        *)
(*                                                                         *)
(* A transport and the two completions of a connect attempt are named by   *)
(* the number of the attempt; 0 is "no transport".                         *)
(***************************************************************************)
EXTENDS Naturals, Sequences, FiniteSets, SequencesExt

CONSTANTS Openers,    \* coroutines that Connect and Reconnect
          Closers,    \* coroutines that Disconnect
          Calls,      \* service calls of the application
          MaxLoops,   \* bound on the connect attempts of a behaviour
          MaxPings,   \* bound on the pings of a behaviour
          None

ASSUME ConstantsAssumption ==
  /\ MaxLoops \in Nat \ {0} /\ MaxPings \in Nat
  /\ Openers \cap Closers = {} /\ None \notin Calls

VARIABLES
  ready,                   \* the executor's queue of posted tasks
  transport_,              \* the attempt whose transport is held, or 0
  write_queue_,            \* whether the write queue exists
  session_created_,
  requests_,               \* requests whose response handler is registered
  wire,                    \* requests on the current transport, unanswered
  canceled,                \* attempts whose cancelation reference has expired
  loop,                    \* what the Connect() coroutine of an attempt does
  attempt,                 \* number of the last attempt started
  connect_done,            \* attempts whose connect_completion_ is settled
  loop_done,               \* attempts whose connect_loop_completion_ is
  connect_status_,
  pending_connect_result_,
  ping_time_,              \* whether a ping is being timed
  ping_timer_,             \* the armed timer core, or 0
  cores,                   \* number of timer cores made so far
  fired,                   \* the last core whose expiry was posted
  pings,                   \* number of pings sent so far
  ping_done,               \* pings whose ping_completion_ is settled
  pc,                      \* where a lifecycle coroutine is suspended
  wait,                    \* the attempt or ping whose completion it awaits
  result,                  \* what the coroutine last returned
  call,                    \* state of a service call
  announced,               \* the last session-state signal
  created,                 \* attempts in which the server created a session
  panic                    \* failed run-time checks

channel == <<transport_, write_queue_, session_created_, requests_, wire,
             canceled, announced>>
attempts == <<loop, attempt, connect_done, loop_done, connect_status_,
              pending_connect_result_, created>>
pinging == <<ping_time_, ping_timer_, cores, fired, pings, ping_done>>
callers == <<pc, wait, result>>
vars == <<ready, channel, attempts, pinging, callers, call, panic>>

Callers == Openers \cup Closers
Attempts == 1..MaxLoops
Statuses == {"Good", "Bad", "Bad_Disconnected"}

\* A request is named by what awaits its response: AwaitCreateSessionAsync of
\* an attempt, PingAsync, DisconnectAsync of a coroutine, or a service call.
Requests == ({"create"} \X Attempts) \cup ({"ping"} \X (1..MaxPings))
            \cup ({"delete"} \X Callers) \cup ({"call"} \X Calls)

\* A posted task: what runs, for which attempt, request, timer or coroutine,
\* and with what.
Task(name, of, what) == <<name, of, what>>
AnswerTask(r, status) == Task("answer", r, status)
WakeTask(c) == Task("wake", c, None)

TypeOK ==
  /\ \A i \in 1..Len(ready) : ready[i][1] \in
       {"connect", "open", "read", "answer", "timer", "wake"}
  /\ transport_ \in 0..MaxLoops
  /\ write_queue_ \in BOOLEAN /\ session_created_ \in BOOLEAN
  /\ requests_ \subseteq Requests /\ wire \subseteq Requests
  /\ canceled \subseteq Attempts
  /\ loop \in [Attempts -> {"none", "spawned", "opening", "reading"}]
  /\ attempt \in 0..MaxLoops
  /\ connect_done \subseteq 0..MaxLoops /\ loop_done \subseteq 0..MaxLoops
  /\ connect_status_ \in Statuses
  /\ pending_connect_result_ \in Statuses \cup {None}
  /\ ping_time_ \in BOOLEAN
  /\ ping_timer_ \in 0..cores /\ fired \in 0..cores
  /\ cores \in 0..(MaxLoops + MaxPings) /\ pings \in 0..MaxPings
  /\ ping_done \subseteq 0..MaxPings
  /\ pc \in [Callers -> {"idle", "loop", "delete", "closing", "ping",
                         "connecting"}]
  /\ wait \in [Callers -> 0..(MaxLoops + MaxPings)]
  /\ result \in [Callers -> Statuses \cup {None}]
  /\ call \in [Calls -> {"idle", "waiting"} \cup Statuses]
  /\ announced \in BOOLEAN /\ created \subseteq Attempts
  /\ panic \subseteq {"ping_time", "session_created", "write_queue",
                      "complete"}

\* The constructor settles all three completions.
Init ==
  /\ ready = <<>>
  /\ transport_ = 0 /\ write_queue_ = FALSE /\ session_created_ = FALSE
  /\ requests_ = {} /\ wire = {} /\ canceled = {}
  /\ loop = [g \in Attempts |-> "none"] /\ attempt = 0
  /\ connect_done = {0} /\ loop_done = {0}
  /\ connect_status_ = "Good" /\ pending_connect_result_ = None
  /\ ping_time_ = FALSE /\ ping_timer_ = 0 /\ cores = 0 /\ fired = 0
  /\ pings = 0 /\ ping_done = {0}
  /\ pc = [c \in Callers |-> "idle"] /\ wait = [c \in Callers |-> 0]
  /\ result = [c \in Callers |-> None]
  /\ call = [k \in Calls |-> "idle"]
  /\ announced = FALSE /\ created = {} /\ panic = {}

(***************************************************************************)
(* Pieces shared by the handlers                                           *)
(***************************************************************************)
HeadIs(name) == ready # <<>> /\ Head(ready)[1] = name

\* The tasks that settling a completion posts: one wake per waiter.
Waiting(points, n) == {c \in Callers : pc[c] \in points /\ wait[c] = n}
Wakes(S) == {[i \in 1..Len(q) |-> WakeTask(q[i])] : q \in SetToSeqs(S)}
LoopWaiters(g) == Waiting({"loop", "closing"}, g)
ConnectWaiters == Waiting({"connecting"}, attempt)

\* Cancelation::Cancel() expires the references the running coroutines hold;
\* a Connect() that has not started yet takes its reference later.
CancelRunning == canceled' =
  canceled \cup {g \in Attempts : loop[g] \in {"opening", "reading"}}

\* write_queue_.reset(); transport_.reset()
ResetTransport ==
  /\ write_queue_' = FALSE /\ transport_' = 0 /\ wire' = {}

\* The answers OnSessionDeleted gives the pending requests, in any order of
\* the hash map.
Failures == {[i \in 1..Len(q) |-> AnswerTask(q[i], "Bad_Disconnected")] :
             q \in SetToSeqs(requests_)}

\* Variant of OnSessionDeleted: the time of the last ping is kept.
DeletedKeepsPingTime ==
  /\ requests_' = {}
  /\ session_created_' = FALSE
  /\ ping_timer_' = IF session_created_ THEN 0 ELSE ping_timer_
  /\ UNCHANGED <<ping_time_, cores, fired, pings, ping_done>>

\* OnSessionDeleted: fail what is pending, then close the channel if a
\* session was open.
OnSessionDeleted ==
  /\ requests_' = {}
  /\ session_created_' = FALSE
  /\ ping_time_' = (ping_time_ /\ ~session_created_)
  /\ ping_timer_' = IF session_created_ THEN 0 ELSE ping_timer_
  /\ UNCHANGED <<cores, fired, pings, ping_done>>

\* OnSessionError without its pending_connect_result_, which EndLoop and
\* CreateSessionRefused set.
OnSessionError ==
  /\ CancelRunning
  /\ ResetTransport
  /\ OnSessionDeleted
  /\ announced' = FALSE

\* Send with the transport present needs the write queue; without a
\* transport the message is dropped although the handler is registered.
Send(r) ==
  /\ wire' = IF transport_ # 0 THEN wire \cup {r} ELSE wire
  /\ panic' = IF transport_ # 0 /\ ~write_queue_
              THEN panic \cup {"write_queue"} ELSE panic

Request(r) == requests_' = requests_ \cup {r} /\ Send(r)

\* The completion handler of the Connect() coroutine of attempt g, run when
\* the coroutine returns with `pending` in pending_connect_result_: forward it
\* to whoever waits for the connection, then settle the loop's completion.
Forwarded(pending) == pending # None /\ attempt \notin connect_done
ForwardedWithoutStatus(g, pending) ==
  /\ loop' = [loop EXCEPT ![g] = "none"]
  /\ loop_done' = loop_done \cup {g}
  /\ pending_connect_result_' = None
  /\ connect_done' = connect_done \cup {attempt}
  /\ panic' = IF g \in loop_done THEN panic \cup {"complete"} ELSE panic
  /\ UNCHANGED <<attempt, created, connect_status_>>

EndLoop(g, pending) ==
  /\ loop' = [loop EXCEPT ![g] = "none"]
  /\ loop_done' = loop_done \cup {g}
  /\ pending_connect_result_' = None
  /\ connect_done' = IF Forwarded(pending) THEN connect_done \cup {attempt}
                     ELSE connect_done
  /\ connect_status_' = IF Forwarded(pending) THEN pending ELSE connect_status_
  /\ panic' = IF g \in loop_done THEN panic \cup {"complete"} ELSE panic
  /\ UNCHANGED <<attempt, created>>
EndLoopWakes(g, pending) == {a \o b :
  a \in IF Forwarded(pending) THEN Wakes(ConnectWaiters) ELSE {<<>>},
  b \in Wakes(LoopWaiters(g))}

\* The connect loop meets an error: OnSessionError, then the loop returns.
LoopFails(g, status) ==
  /\ OnSessionError
  /\ EndLoop(g, status)
  /\ \E f \in Failures, w \in EndLoopWakes(g, status) :
       ready' = Tail(ready) \o f \o w
  /\ UNCHANGED <<callers, call>>

\* The connect loop resumes from open() or read() and finds its reference
\* canceled: it returns and leaves the rest to whoever canceled it.
LoopCanceled(g) ==
  /\ HeadIs("open") \/ HeadIs("read")
  /\ Head(ready)[2] = g /\ g \in canceled
  /\ EndLoop(g, pending_connect_result_)
  /\ \E w \in EndLoopWakes(g, pending_connect_result_) :
       ready' = Tail(ready) \o w
  /\ UNCHANGED <<channel, pinging, callers, call>>

(***************************************************************************)
(* What arrives from outside the executor                                  *)
(***************************************************************************)
Message(kind, r, status) == <<kind, r, status>>
Posted(names, g) ==
  \E i \in 1..Len(ready) : ready[i][1] \in names /\ ready[i][2] = g

\* transport_.open() completes; a transport that was reset aborts it.
OpenCompletes(g) ==
  /\ loop[g] = "opening" /\ ~Posted({"open"}, g)
  /\ \E ok \in IF transport_ = g THEN BOOLEAN ELSE {FALSE} :
       ready' = Append(ready, Task("open", g, ok))
  /\ UNCHANGED <<channel, attempts, pinging, callers, call, panic>>

\* transport_.read() completes: the end of the transport, a message that does
\* not parse, a SessionDeleted notification, or the answer to a request.  A
\* transport that was reset aborts the read.
ReadCompletes(g) ==
  /\ loop[g] = "reading" /\ ~Posted({"read"}, g)
  /\ \/ ready' = Append(ready, Task("read", g, Message("closed", None, "Good")))
        /\ UNCHANGED wire
     \/ /\ transport_ = g
        /\ \E kind \in {"garbage", "deleted"} :
             ready' = Append(ready, Task("read", g, Message(kind, None, "Good")))
        /\ UNCHANGED wire
     \/ /\ transport_ = g
        /\ \E r \in wire, status \in {"Good", "Bad"} :
             /\ ready' = Append(ready, Task("read", g,
                                            Message("response", r, status)))
             /\ wire' = wire \ {r}
  /\ UNCHANGED <<transport_, write_queue_, session_created_, requests_,
                 canceled, announced, attempts, pinging, callers, call, panic>>

\* The ping timer expires.
TimerExpires ==
  /\ ping_timer_ \notin {0, fired} /\ pings < MaxPings
  /\ fired' = ping_timer_
  /\ ready' = Append(ready, Task("timer", ping_timer_, None))
  /\ UNCHANGED <<channel, attempts, ping_time_, ping_timer_, cores, pings,
                 ping_done, callers, call, panic>>

(***************************************************************************)
(* Calls of the application                                                *)
(***************************************************************************)

\* co_await completion.Wait(): a settled completion posts the wake at once.
Await(c, point, n, settled, posted) ==
  /\ pc' = [pc EXCEPT ![c] = point] /\ wait' = [wait EXCEPT ![c] = n]
  /\ ready' = IF settled THEN posted \o <<WakeTask(c)>> ELSE posted

\* The request of DisconnectAsync.
SendDeleteSession(c) ==
  /\ Request(<<"delete", c>>)
  /\ pc' = [pc EXCEPT ![c] = "delete"]
  /\ UNCHANGED <<ready, transport_, write_queue_, session_created_, canceled,
                 announced, attempts, pinging, wait, call>>

AwaitLoop(c) ==
  /\ Await(c, "loop", attempt, attempt \in loop_done, ready)
  /\ UNCHANGED <<channel, attempts, pinging, call, panic>>

\* Connect may be called only while there is no transport (ConnectAsync checks
\* it); Reconnect only after a Connect, which sets the connection string.
ReconnectAsync(c) ==
  /\ pc[c] = "idle" /\ attempt < MaxLoops
  /\ transport_ = 0 \/ attempt > 0
  /\ IF session_created_ THEN SendDeleteSession(c) ELSE AwaitLoop(c)
  /\ result' = [result EXCEPT ![c] = None]

DisconnectAsync(c) ==
  /\ pc[c] = "idle"
  /\ \/ /\ session_created_
        /\ SendDeleteSession(c)
        /\ result' = [result EXCEPT ![c] = None]
     \/ /\ ~session_created_
        /\ result' = [result EXCEPT ![c] = "Bad_Disconnected"]
        /\ UNCHANGED <<ready, channel, attempts, pinging, pc, wait, call,
                       panic>>

\* Read, Write, Call and the calls of the service proxies.
Call(k) ==
  /\ call[k] = "idle"
  /\ \/ /\ session_created_
        /\ Request(<<"call", k>>)
        /\ call' = [call EXCEPT ![k] = "waiting"]
        /\ UNCHANGED <<transport_, write_queue_, session_created_, canceled,
                       announced>>
     \/ /\ ~session_created_
        /\ call' = [call EXCEPT ![k] = "Bad_Disconnected"]
        /\ UNCHANGED <<channel, panic>>
  /\ UNCHANGED <<ready, attempts, pinging, callers>>

(***************************************************************************)
(* The Connect() coroutine                                                 *)
(***************************************************************************)
ConnectStarts(g) ==
  /\ HeadIs("connect") /\ Head(ready)[2] = g
  /\ \/ LoopFails(g, "Bad_Disconnected")       \* no transport for the string
     \/ /\ transport_' = g
        /\ loop' = [loop EXCEPT ![g] = "opening"]
        /\ ready' = Tail(ready)
        /\ UNCHANGED <<write_queue_, session_created_, requests_, wire,
                       canceled, announced, attempt, connect_done, loop_done,
                       connect_status_, pending_connect_result_, created,
                       pinging, callers, call, panic>>

\* The transport opened: write_queue_.emplace, then OnTransportOpened starts
\* AwaitCreateSessionAsync, which sends CreateSession.
OnTransportOpened(g) ==
  /\ write_queue_' = TRUE
  /\ requests_' = requests_ \cup {<<"create", g>>}
  /\ wire' = wire \cup {<<"create", g>>}
  /\ loop' = [loop EXCEPT ![g] = "reading"]
  /\ ready' = Tail(ready)
  /\ UNCHANGED <<transport_, session_created_, canceled, announced, attempt,
                 connect_done, loop_done, connect_status_,
                 pending_connect_result_, created, pinging, callers, call,
                 panic>>

OpenResult(g) ==
  /\ HeadIs("open") /\ Head(ready)[2] = g /\ g \notin canceled
  /\ \/ ~Head(ready)[3] /\ LoopFails(g, "Bad_Disconnected")
     \/ Head(ready)[3] /\ OnTransportOpened(g)

\* OnMessageReceived: a response resumes what awaits it; one that matches no
\* registered handler is ignored.
OnResponse(r, status) ==
  /\ requests_' = requests_ \ {r}
  /\ ready' = IF r \in requests_ THEN Append(Tail(ready), AnswerTask(r, status))
              ELSE Tail(ready)
  /\ UNCHANGED <<transport_, write_queue_, session_created_, wire, canceled,
                 announced, attempts, pinging, callers, call, panic>>

ReadResult(g) ==
  /\ HeadIs("read") /\ Head(ready)[2] = g /\ g \notin canceled
  /\ LET m == Head(ready)[3] IN
     \/ m[1] = "closed" /\ LoopFails(g, "Bad_Disconnected")
     \/ m[1] \in {"garbage", "deleted"} /\ LoopFails(g, "Bad")
     \/ m[1] = "response" /\ OnResponse(m[2], m[3])

(***************************************************************************)
(* What a response resumes                                                 *)
(***************************************************************************)

SchedulePing == ping_timer_' = cores + 1 /\ cores' = cores + 1

\* AwaitCreateSessionAsync of attempt g: the teardown came first, the server
\* refused, or the session is created.
StaleCreate(g) ==
  /\ transport_ = 0
  /\ ready' = Tail(ready)
  /\ UNCHANGED <<channel, attempts, pinging, callers, call, panic>>

CreateSessionRefused(g, status) ==
  /\ transport_ # 0
  /\ OnSessionError
  /\ pending_connect_result_' = status
  /\ \E f \in Failures : ready' = Tail(ready) \o f
  /\ UNCHANGED <<loop, attempt, connect_done, loop_done, connect_status_,
                 created, callers, call, panic>>

OnSessionCreated(g) ==
  /\ transport_ # 0
  /\ panic' = IF session_created_ THEN panic \cup {"session_created"} ELSE panic
  /\ session_created_' = TRUE
  /\ SchedulePing
  /\ announced' = TRUE /\ created' = created \cup {g}
  /\ pending_connect_result_' = None
  /\ connect_done' = connect_done \cup {attempt}
  /\ connect_status_' = IF attempt \in connect_done THEN connect_status_
                        ELSE "Good"
  /\ \E w \in IF attempt \in connect_done THEN {<<>>} ELSE Wakes(ConnectWaiters) :
       ready' = Tail(ready) \o w
  /\ UNCHANGED <<transport_, write_queue_, requests_, wire, canceled, loop,
                 attempt, loop_done, ping_time_, fired, pings, ping_done,
                 callers, call>>

CreateAnswered(g) ==
  /\ HeadIs("answer") /\ Head(ready)[2] = <<"create", g>>
  /\ \/ StaleCreate(g)
     \/ Head(ready)[3] # "Good" /\ CreateSessionRefused(g, Head(ready)[3])
     \/ Head(ready)[3] = "Good" /\ OnSessionCreated(g)

StalePingKeepsGate(p) ==
  /\ HeadIs("answer") /\ Head(ready)[2] = <<"ping", p>>
  /\ \/ transport_ = 0 /\ UNCHANGED <<ping_time_, ping_timer_, cores, ping_done>>
     \/ transport_ # 0 /\ ping_time_' = FALSE /\ SchedulePing
        /\ ping_done' = ping_done \cup {p}
  /\ \E w \in Wakes(Waiting({"ping"}, p)) :
       ready' = IF transport_ = 0 THEN Tail(ready) ELSE Tail(ready) \o w
  /\ UNCHANGED <<channel, attempts, fired, pings, callers, call, panic>>

\* PingAsync: after a teardown it only settles its completion.
PingAnswered(p) ==
  /\ HeadIs("answer") /\ Head(ready)[2] = <<"ping", p>>
  /\ \/ transport_ = 0 /\ UNCHANGED <<ping_time_, ping_timer_, cores>>
     \/ transport_ # 0 /\ ping_time_' = FALSE /\ SchedulePing
  /\ ping_done' = ping_done \cup {p}
  /\ \E w \in Wakes(Waiting({"ping"}, p)) : ready' = Tail(ready) \o w
  /\ UNCHANGED <<channel, attempts, fired, pings, callers, call, panic>>

\* DisconnectAsync: a good answer tears the session down; any other leaves the
\* connection to the server.  Then it waits for the connect loop to return.
DeleteAnswered(c) ==
  /\ HeadIs("answer") /\ Head(ready)[2] = <<"delete", c>>
  /\ \/ /\ Head(ready)[3] = "Good"
        /\ OnSessionDeleted /\ CancelRunning /\ ResetTransport
        /\ \E f \in Failures :
             Await(c, "closing", attempt, attempt \in loop_done, Tail(ready) \o f)
        /\ UNCHANGED announced
     \/ /\ Head(ready)[3] # "Good"
        /\ Await(c, "closing", attempt, attempt \in loop_done, Tail(ready))
        /\ UNCHANGED <<channel, pinging>>
  /\ result' = [result EXCEPT ![c] = Head(ready)[3]]
  /\ UNCHANGED <<attempts, call, panic>>

CallAnswered(k) ==
  /\ HeadIs("answer") /\ Head(ready)[2] = <<"call", k>>
  /\ call' = [call EXCEPT ![k] = Head(ready)[3]]
  /\ ready' = Tail(ready)
  /\ UNCHANGED <<channel, attempts, pinging, callers, panic>>

\* Ping, unless the timer was stopped or restarted meanwhile.
Ping(core) ==
  /\ HeadIs("timer") /\ Head(ready)[2] = core
  /\ ready' = Tail(ready)
  /\ \/ /\ ping_timer_ # core
        /\ UNCHANGED <<channel, pinging, panic>>
     \/ /\ ping_timer_ = core
        /\ ping_time_' = TRUE /\ pings' = pings + 1
        /\ requests_' = requests_ \cup {<<"ping", pings + 1>>}
        /\ wire' = IF transport_ # 0 THEN wire \cup {<<"ping", pings + 1>>}
                   ELSE wire
        /\ panic' = panic \cup (IF ping_time_ THEN {"ping_time"} ELSE {})
                    \cup (IF transport_ # 0 /\ ~write_queue_ THEN {"write_queue"}
                          ELSE {})
        /\ UNCHANGED <<transport_, write_queue_, session_created_, canceled,
                       announced, ping_timer_, cores, fired, ping_done>>
  /\ UNCHANGED <<attempts, callers, call>>

(***************************************************************************)
(* What a settled completion resumes                                       *)
(***************************************************************************)
\* The rest of ReconnectAsync: cancel and reset what is left of the old
\* attempt, make fresh completions and start Connect().
StartLoop(c) ==
  /\ CancelRunning /\ ResetTransport
  /\ attempt' = attempt + 1
  /\ loop' = [loop EXCEPT ![attempt + 1] = "spawned"]
  /\ pending_connect_result_' = None /\ connect_status_' = "Good"
  /\ pc' = [pc EXCEPT ![c] = "connecting"]
  /\ wait' = [wait EXCEPT ![c] = attempt + 1]
  /\ ready' = Append(Tail(ready), Task("connect", attempt + 1, None))
  /\ UNCHANGED <<session_created_, requests_, announced, connect_done,
                 loop_done, created, pinging, result, call, panic>>

WaitForPing(c) ==
  /\ Await(c, "ping", pings, pings \in ping_done, Tail(ready))
  /\ UNCHANGED <<channel, attempts, pinging, result, call, panic>>

Return(c, status) ==
  /\ pc' = [pc EXCEPT ![c] = "idle"]
  /\ result' = [result EXCEPT ![c] = status]
  /\ ready' = Tail(ready)
  /\ UNCHANGED <<channel, attempts, pinging, wait, call, panic>>

Woken(c) ==
  /\ HeadIs("wake") /\ Head(ready)[2] = c
  /\ \/ pc[c] = "closing" /\ WaitForPing(c)
     \/ pc[c] = "ping" /\ c \in Closers /\ Return(c, result[c])
     \/ pc[c] \in {"loop", "ping"} /\ c \in Openers /\ StartLoop(c)
     \/ pc[c] = "connecting" /\ Return(c, connect_status_)

RunTask ==
  \/ \E g \in Attempts : ConnectStarts(g) \/ OpenResult(g) \/ ReadResult(g)
                         \/ LoopCanceled(g) \/ CreateAnswered(g)
  \/ \E p \in 1..MaxPings : PingAnswered(p)
  \/ \E core \in 1..(MaxLoops + MaxPings) : Ping(core)
  \/ \E c \in Callers : DeleteAnswered(c) \/ Woken(c)
  \/ \E k \in Calls : CallAnswered(k)

Next ==
  \/ RunTask
  \/ \E g \in Attempts : OpenCompletes(g) \/ ReadCompletes(g)
  \/ TimerExpires
  \/ \E c \in Openers : ReconnectAsync(c)
  \/ \E c \in Closers : DisconnectAsync(c)
  \/ \E k \in Calls : Call(k)

Spec == Init /\ [][Next]_vars

\* The executor runs what is posted, the operating system completes opens, and
\* a read completes: the server answers or its idle timer closes the
\* connection.
Fairness ==
  /\ WF_vars(RunTask)
  /\ \A g \in Attempts : WF_vars(OpenCompletes(g)) /\ WF_vars(ReadCompletes(g))

FairSpec == Spec /\ Fairness

(***************************************************************************)
(* Properties                                                              *)
(***************************************************************************)
\* No run-time check of the proxy ever fails: a ping never starts while one is
\* being timed, a session is created at most once, no message is written
\* without a write queue and no completion is settled twice.
NoCheckFails == panic = {}

\* A created session has an open transport whose read loop is still in charge
\* of it, so losing the transport is noticed.
SessionHasLiveLoop ==
  session_created_ =>
    /\ transport_ # 0 /\ write_queue_
    /\ transport_ \notin canceled /\ loop[transport_] = "reading"

\* The two together: whatever the transport, the timers and the callers do in
\* between, the proxy's own picture of its session is never wrong.
SessionIsSound == NoCheckFails /\ SessionHasLiveLoop

\* Connect returns Good exactly for an attempt in which the server created a
\* session; the status starts out Good and every failure must replace it.
ConnectResultIsTrue ==
  [][\A c \in Openers : pc[c] = "connecting" /\ pc'[c] = "idle"
       => (result'[c] = "Good" <=> wait[c] \in created)]_vars

\* A session that ends other than by the client's own DeleteSession is
\* announced to the subscribers of the session state in the same step.
LossIsAnnounced ==
  [][session_created_ /\ ~session_created_'
       => \/ ~announced'
          \/ HeadIs("answer") /\ Head(ready)[2] \in {"delete"} \X Callers]_vars

\* What the proxy reports is true: the result of Connect, and the loss of a
\* session to its subscribers.
ReportsAreTrue == ConnectResultIsTrue /\ LossIsAnnounced

\* Connect, Reconnect and Disconnect return, the last one also when the server
\* answers with an error and leaves the connection to its idle timeout: every
\* loop reports a result and every ping that is awaited ends.
CallersReturn ==
  \A c \in Callers : pc[c] # "idle" ~> pc[c] = "idle"

\* Every service call returns, with the server's answer or Bad_Disconnected.
CallReturns == \A k \in Calls : call[k] = "waiting" ~> call[k] # "waiting"

\* Nobody waits for ever on a session that is lost, closed or replaced: every
\* caller of the session and every service call comes back.
EveryoneReturns == CallersReturn /\ CallReturns
=============================================================================
