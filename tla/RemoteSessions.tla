--------------------------- MODULE RemoteSessions ---------------------------
(***************************************************************************)
(* The server side of the remote protocol: RemoteSessionManager with its   *)
(* session map, the ServerConnections it accepted, and the SessionStubs    *)
(* that serve them.  All three run on one executor, so a step is what one  *)
(* handler does between two suspension points.                             *)
(*                                                                         *)
(* A stub is shared: the session map holds one reference and every service *)
(* call in flight holds another, so a stub dropped from the map lives on   *)
(* (and stays attached to its connection) until its last call returns.     *)
(* Connection and stub know each other by raw pointers, session_ and       *)
(* connection_.                                                            *)
(***************************************************************************)
EXTENDS Naturals

CONSTANTS Users,        \* the accounts of the authenticator
          MultiUsers,   \* those with AuthenticationResult::multi_sessions
          Conns,        \* the transports a client ever opens
          Sessions,     \* the stubs ever created (a bound on logons)
          MaxCalls,     \* bound on a session's service calls in flight
          None          \* the null pointer

ASSUME ConstantsAssumption ==
  /\ MultiUsers \subseteq Users
  /\ MaxCalls \in Nat
  /\ None \notin Users \cup Conns \cup Sessions

VARIABLES
  phase,          \* "running", "stopping" (alive_ is gone, the listeners are
                  \* being awaited) or "stopped"
  connections_,   \* the connections the manager lists
  conn,           \* life of a ServerConnection
  session_,       \* ServerConnection::session_
  login,          \* the CreateSession request waiting in Authenticate
  answer,         \* what the client was last answered about its logon
  told,           \* the SessionDeleted notification sent on a connection
  session_map_,   \* RemoteSessionManager::session_map_, by user
  stub,           \* life of a SessionStub
  user,           \* SessionStub::service_context_.user_id()
  connection_,    \* SessionStub::connection_
  send_message_,  \* a SessionDeleted notification buffered for a detached stub
  calls,          \* the service calls in flight, each holding the stub
  closed_signals  \* how often session_closed_signal_ named the session

connVars == <<connections_, conn, session_, login, answer, told>>
stubVars == <<stub, user, connection_, send_message_, calls, closed_signals>>
vars == <<phase, connections_, conn, session_, login, answer, told,
          session_map_, stub, user, connection_, send_message_, calls,
          closed_signals>>

Logins == [user : Users, delete_existing : BOOLEAN]
Answers == {"none", "Good", "Bad_UnsupportedProtocolVersion", "Bad_Disconnected",
            "AuthenticationFailed", "Bad_UserIsAlreadyLoggedOn", "LoggedOff"}
Notices == {"none", "Bad_SessionForcedLogoff", "Bad_ServerWasShutDown"}

\* The domains of the state: pointers are null or name an object, and every
\* answer and notification is one the protocol has.
TypeOK ==
  /\ phase \in {"running", "stopping", "stopped"}
  /\ connections_ \in SUBSET Conns
  /\ conn \in [Conns -> {"none", "open", "closed", "destroyed"}]
  /\ session_ \in [Conns -> Sessions \cup {None}]
  /\ login \in [Conns -> Logins \cup {None}]
  /\ answer \in [Conns -> Answers]
  /\ told \in [Conns -> Notices]
  /\ session_map_ \in [Users -> Sessions \cup {None}]
  /\ stub \in [Sessions -> {"unused", "live", "destroyed"}]
  /\ user \in [Sessions -> Users \cup {None}]
  /\ connection_ \in [Sessions -> Conns \cup {None}]
  /\ send_message_ \in [Sessions -> Notices]
  /\ calls \in [Sessions -> 0 .. MaxCalls]
  /\ closed_signals \in [Sessions -> Nat]

Init ==
  /\ phase = "running"
  /\ connections_ = {}
  /\ conn = [c \in Conns |-> "none"]
  /\ session_ = [c \in Conns |-> None]
  /\ login = [c \in Conns |-> None]
  /\ answer = [c \in Conns |-> "none"]
  /\ told = [c \in Conns |-> "none"]
  /\ session_map_ = [u \in Users |-> None]
  /\ stub = [s \in Sessions |-> "unused"]
  /\ user = [s \in Sessions |-> None]
  /\ connection_ = [s \in Sessions |-> None]
  /\ send_message_ = [s \in Sessions |-> "none"]
  /\ calls = [s \in Sessions |-> 0]
  /\ closed_signals = [s \in Sessions |-> 0]

\* The handlers given to a connection hold a weak reference to alive_.
Alive == phase = "running"

\* The stubs of D have lost their last reference: ~SessionStub clears the
\* pointer of the connection each of them is still attached to.
StubsAfter(D) == [s \in Sessions |-> IF s \in D THEN "destroyed" ELSE stub[s]]
DetachedFrom(D) ==
  [c \in Conns |-> IF \E s \in D : connection_[s] = c THEN None
                                                      ELSE session_[c]]
ConnectionsAfter(D) ==
  [s \in Sessions |-> IF s \in D THEN None ELSE connection_[s]]

\* Of the stubs R leaving the session map, those no service call still holds.
Unheld(R) == {s \in R : calls[s] = 0}

\* The manager's map holds exactly this session for its user.
InMap(s) == user[s] # None /\ session_map_[user[s]] = s
-----------------------------------------------------------------------------
\* ServerConnection::Start arms the idle timer and spawns the read loop.
Start(c) == conn' = [conn EXCEPT ![c] = "open"]

\* A listener accepted a transport: OnSessionAccepted lists a connection for it
\* and starts it.  Once alive_ is gone the accept handler drops the transport.
OnSessionAccepted(c) ==
  /\ conn[c] = "none"
  /\ Alive
  /\ Start(c)
  /\ connections_' = connections_ \cup {c}
  /\ UNCHANGED <<phase, session_, login, answer, told, session_map_, stubVars>>

\* Variant of ReleaseSession: the closed signal does not depend on what the map
\* holds.
ReleaseSignalsAlways(c) ==
  LET s == session_[c]
      delete == s # None /\ Alive /\ InMap(s)
  IN /\ session_' = [session_ EXCEPT ![c] = None]
     /\ connection_' = IF s = None THEN connection_
                                   ELSE [connection_ EXCEPT ![s] = None]
     /\ session_map_' = IF delete
                        THEN [session_map_ EXCEPT ![user[s]] = None]
                        ELSE session_map_
     /\ closed_signals' = IF s = None THEN closed_signals
                                      ELSE [closed_signals EXCEPT ![s] = @ + 1]
     /\ stub' = StubsAfter(IF delete THEN Unheld({s}) ELSE {})

\* The session of c is detached and handed to the manager's DeleteSession, which
\* ignores it once alive_ is gone or the map no longer holds exactly it.
ReleaseSession(c) ==
  LET s == session_[c]
      delete == s # None /\ Alive /\ InMap(s)
      dying == IF delete THEN Unheld({s}) ELSE {}
  IN /\ session_' = [session_ EXCEPT ![c] = None]
     /\ connection_' = IF s = None THEN connection_
                                   ELSE [connection_ EXCEPT ![s] = None]
     /\ session_map_' = IF delete
                        THEN [session_map_ EXCEPT ![user[s]] = None]
                        ELSE session_map_
     /\ closed_signals' = IF delete THEN [closed_signals EXCEPT ![s] = @ + 1]
                                    ELSE closed_signals
     /\ stub' = StubsAfter(dying)

\* ServerConnection::Close: release the session, leave the connection list.
Close(c) ==
  /\ conn' = [conn EXCEPT ![c] = "closed"]
  /\ ReleaseSession(c)
  /\ connections_' = IF Alive THEN connections_ \ {c} ELSE connections_
  /\ UNCHANGED <<phase, login, answer, told, user, send_message_, calls>>

\* The transport fails to open, ends, breaks, or carries an unparsable message;
\* the read loop throws.
TransportFails(c) ==
  /\ conn[c] = "open"
  /\ Close(c)

\* A message cannot be serialised, or is not written whole.  Send writes nothing
\* on a closed connection.
SendFails(c) ==
  /\ conn[c] = "open"
  /\ Close(c)

\* No message for kIdleTimeout.
OnIdleTimeout(c) ==
  /\ conn[c] = "open"
  /\ Close(c)

\* The last reference to a closed connection goes.  Its coroutines hold it, the
\* one waiting in Authenticate included.
DestroyConnection(c) ==
  /\ conn[c] = "closed"
  /\ login[c] = None
  /\ c \notin connections_
  /\ conn' = [conn EXCEPT ![c] = "destroyed"]
  /\ connection_' = IF session_[c] = None
                    THEN connection_
                    ELSE [connection_ EXCEPT ![session_[c]] = None]
  /\ UNCHANGED <<phase, connections_, session_, login, answer, told,
                 session_map_, stub, user, send_message_, calls,
                 closed_signals>>
-----------------------------------------------------------------------------
\* A client sends one CreateSession per transport, as its first request.
FirstRequest(c) == conn[c] = "open" /\ answer[c] = "none" /\ login[c] = None

\* The CreateSession response and nothing else.
Respond(c, status) ==
  /\ answer' = [answer EXCEPT ![c] = status]
  /\ UNCHANGED <<phase, connections_, conn, session_, told, session_map_,
                 stubVars>>

\* The handler finds the manager gone.
CreateSessionTooLate(c) ==
  /\ FirstRequest(c)
  /\ ~Alive
  /\ Respond(c, "Bad_Disconnected")
  /\ UNCHANGED login

\* IsCompatibleProtocol fails.
CreateSessionIncompatible(c) ==
  /\ FirstRequest(c)
  /\ Alive
  /\ Respond(c, "Bad_UnsupportedProtocolVersion")
  /\ UNCHANGED login

\* CreateSessionAsync up to its co_await of the authenticator.
OnCreateSession(c, u, delete_existing) ==
  /\ FirstRequest(c)
  /\ Alive
  /\ login' = [login EXCEPT ![c] = [user |-> u,
                                    delete_existing |-> delete_existing]]
  /\ UNCHANGED <<phase, connections_, conn, session_, answer, told,
                 session_map_, stubVars>>

\* The rest of CreateSessionAsync and of OnCreateSessionAsync runs in one go
\* when the authenticator answers.  A connection that was closed meanwhile
\* sends no response.
LoginFails(c, status) ==
  /\ login[c] # None
  /\ login' = [login EXCEPT ![c] = None]
  /\ IF conn[c] = "open" THEN Respond(c, status)
     ELSE UNCHANGED <<phase, connections_, conn, session_, answer, told,
                      session_map_, stubVars>>

\* The authenticator rejects the credentials.
AuthenticationFails(c) == LoginFails(c, "AuthenticationFailed")

\* Variant of CheckExistingSession: delete_existing is not honoured.
RefuseAnyExisting(u, delete_existing) ==
  ~(session_map_[u] # None /\ connection_[session_map_[u]] # None)

\* CheckExistingSession admits the login: nobody is logged on, the existing
\* session is detached, or the client asked for its deletion.
CheckExistingSession(u, delete_existing) ==
  (session_map_[u] # None /\ connection_[session_map_[u]] # None)
    => delete_existing

LoginRefused(c) ==
  /\ login[c] # None
  /\ login[c].user \notin MultiUsers
  /\ ~CheckExistingSession(login[c].user, login[c].delete_existing)
  /\ LoginFails(c, "Bad_UserIsAlreadyLoggedOn")

\* Variant of OnSessionDeleted: the client is not told.
NoNotification(s, status) == told

\* OnSessionDeleted: the notification goes out on the attached connection (one
\* that is closed drops it) or is buffered in a detached stub.
ToldAfter(s, status) ==
  IF connection_[s] # None /\ conn[connection_[s]] = "open"
  THEN [told EXCEPT ![connection_[s]] = status] ELSE told
BufferedAfter(s, status) ==
  IF connection_[s] = None THEN [send_message_ EXCEPT ![s] = status]
                           ELSE send_message_

\* The stub s is bound to c while those of D are destroyed (SetConnection).
BindStub(s, c, D) == [ConnectionsAfter(D) EXCEPT ![s] = c]

\* The session just created for c is released because c closed during
\* authentication.  The variant leaves it where it is.
KeepUnbound(c) == FALSE
ReleaseUnbound(c) == conn[c] # "open" /\ Alive

\* The login is admitted: for a single-session account an attached session is
\* logged off by force and the existing session deleted; CreateNewSession
\* stores the new stub over whatever the map holds and announces it.  An open
\* connection answers and binds the stub; one closed meanwhile hands it back to
\* the manager, which deletes it while alive_ lasts.
LoginAdmitted(c, s) ==
  LET u == login[c].user
      old == session_map_[u]
      single == u \notin MultiUsers
      attached == old # None /\ connection_[old] # None
      bind == conn[c] = "open"
      release == ReleaseUnbound(c)
      dying == IF old = None THEN {} ELSE Unheld({old})
  IN /\ login[c] # None
     /\ stub[s] = "unused"
     /\ single => CheckExistingSession(u, login[c].delete_existing)
     /\ login' = [login EXCEPT ![c] = None]
     /\ told' = IF single /\ attached
                THEN ToldAfter(old, "Bad_SessionForcedLogoff") ELSE told
     /\ closed_signals' =
          [x \in Sessions |->
             IF (x = s /\ release) \/ (x = old /\ single)
             THEN closed_signals[x] + 1 ELSE closed_signals[x]]
     /\ user' = [user EXCEPT ![s] = u]
     /\ session_map_' = [session_map_ EXCEPT ![u] = IF release THEN None ELSE s]
     /\ stub' = [StubsAfter(dying) EXCEPT
                   ![s] = IF release THEN "destroyed" ELSE "live"]
     /\ session_' = IF bind THEN [DetachedFrom(dying) EXCEPT ![c] = s]
                            ELSE DetachedFrom(dying)
     /\ connection_' = IF bind THEN BindStub(s, c, dying)
                               ELSE ConnectionsAfter(dying)
     /\ answer' = IF bind THEN [answer EXCEPT ![c] = "Good"] ELSE answer
     /\ UNCHANGED <<phase, connections_, conn, send_message_, calls>>
-----------------------------------------------------------------------------
\* The client logs off.  A connection whose session is gone already answers
\* Bad_SessionIsLoggedOff.
OnDeleteSession(c) ==
  /\ conn[c] = "open"
  /\ answer[c] = "Good"
  /\ answer' = [answer EXCEPT ![c] = "LoggedOff"]
  /\ ReleaseSession(c)
  /\ UNCHANGED <<phase, connections_, conn, login, told, user, send_message_,
                 calls>>

\* A Read, Write or Call request: the service coroutine holds the stub.  A
\* connection without a session ignores the request.
ProcessRequest(c) ==
  /\ conn[c] = "open"
  /\ session_[c] # None
  /\ calls[session_[c]] < MaxCalls
  /\ calls' = [calls EXCEPT ![session_[c]] = @ + 1]
  /\ UNCHANGED <<phase, connVars, session_map_, stub, user, connection_,
                 send_message_, closed_signals>>

\* Mutant: the completion keeps its reference to the stub.
CompleteKeepsStub(s) ==
  /\ calls[s] > 0
  /\ calls' = [calls EXCEPT ![s] = @ - 1]
  /\ UNCHANGED <<phase, connVars, session_map_, stub, user, connection_,
                 send_message_, closed_signals>>

\* The service answers: the response goes to connection_ if there is one, and
\* the stub is destroyed with the last reference to it.
CompleteRequest(s) ==
  LET dying == IF calls[s] = 1 /\ ~InMap(s) THEN {s} ELSE {}
  IN /\ calls[s] > 0
     /\ calls' = [calls EXCEPT ![s] = @ - 1]
     /\ stub' = StubsAfter(dying)
     /\ session_' = DetachedFrom(dying)
     /\ connection_' = ConnectionsAfter(dying)
     /\ UNCHANGED <<phase, connections_, conn, login, answer, told,
                    session_map_, user, send_message_, closed_signals>>

\* The posted half of CloseUserSessions: the account is being removed.
CloseUserSessions(u) ==
  LET s == session_map_[u]
      dying == Unheld({s})
  IN /\ s # None
     /\ told' = ToldAfter(s, "Bad_ServerWasShutDown")
     /\ send_message_' = BufferedAfter(s, "Bad_ServerWasShutDown")
     /\ session_map_' = [session_map_ EXCEPT ![u] = None]
     /\ closed_signals' = [closed_signals EXCEPT ![s] = @ + 1]
     /\ stub' = StubsAfter(dying)
     /\ session_' = DetachedFrom(dying)
     /\ connection_' = ConnectionsAfter(dying)
     /\ UNCHANGED <<phase, connections_, conn, login, answer, user, calls>>

\* ShutdownAsync drops alive_ and awaits the listeners ...
BeginShutdown ==
  /\ phase = "running"
  /\ phase' = "stopping"
  /\ UNCHANGED <<connVars, session_map_, stubVars>>

\* Every listed connection is closed (each detaches its session; the delete
\* handler no longer does anything), the sessions of the map are notified and
\* the map is cleared.
DropEverything ==
  LET bound == {session_[c] : c \in connections_}
      detached == [s \in Sessions |->
                     IF s \in bound THEN None ELSE connection_[s]]
      mapped == {session_map_[u] : u \in Users} \ {None}
      dying == Unheld(mapped)
  IN /\ phase' = "stopped"
     /\ conn' = [c \in Conns |-> IF c \in connections_ /\ conn[c] = "open"
                                 THEN "closed" ELSE conn[c]]
     /\ session_' = [c \in Conns |->
                       IF c \in connections_ \/ (\E s \in dying : detached[s] = c)
                       THEN None ELSE session_[c]]
     /\ connections_' = {}
     /\ send_message_' = [s \in Sessions |->
                            IF s \in mapped /\ detached[s] = None
                            THEN "Bad_ServerWasShutDown" ELSE send_message_[s]]
     /\ connection_' = [s \in Sessions |->
                          IF s \in dying THEN None ELSE detached[s]]
     /\ session_map_' = [u \in Users |-> None]
     /\ stub' = StubsAfter(dying)
     /\ UNCHANGED <<login, answer, told, user, calls, closed_signals>>

\* ... then drops everything.
FinishShutdown ==
  /\ phase = "stopping"
  /\ DropEverything

\* ~RemoteSessionManager of a manager nobody shut down; one that was shut down
\* has nothing left to drop.  A logon suspended in the authenticator resumes
\* inside the manager, so its owner must not destroy it before that.
DestroyManager ==
  /\ phase = "running"
  /\ \A c \in Conns : login[c] = None
  /\ DropEverything
-----------------------------------------------------------------------------
Next ==
  \/ \E c \in Conns :
       \/ OnSessionAccepted(c)
       \/ TransportFails(c)
       \/ SendFails(c)
       \/ OnIdleTimeout(c)
       \/ DestroyConnection(c)
       \/ CreateSessionTooLate(c)
       \/ CreateSessionIncompatible(c)
       \/ \E u \in Users, d \in BOOLEAN : OnCreateSession(c, u, d)
       \/ AuthenticationFails(c)
       \/ LoginRefused(c)
       \/ \E s \in Sessions : LoginAdmitted(c, s)
       \/ OnDeleteSession(c)
       \/ ProcessRequest(c)
  \/ \E s \in Sessions : CompleteRequest(s)
  \/ \E u \in Users : CloseUserSessions(u)
  \/ BeginShutdown
  \/ FinishShutdown
  \/ DestroyManager

Spec == Init /\ [][Next]_vars

\* The authenticator, the services and the listeners answer, and a client told
\* that its session is gone drops its transport; everything else (other
\* clients, timers, administrators) may stay silent.
Fairness ==
  /\ \A c \in Conns : WF_vars(\/ AuthenticationFails(c)
                              \/ LoginRefused(c)
                              \/ \E s \in Sessions : LoginAdmitted(c, s))
  /\ \A c \in Conns : WF_vars(told[c] # "none" /\ TransportFails(c))
  /\ \A s \in Sessions : WF_vars(CompleteRequest(s))
  /\ WF_vars(FinishShutdown)

FairSpec == Spec /\ Fairness
-----------------------------------------------------------------------------
\* The raw pointers between a connection and its stub are always mutual and
\* both ends exist: a late service completion (OnReadAsync testing connection_)
\* or an inbound message (session_->ProcessMessage) never follows a pointer to
\* a closed connection, to a destroyed stub or to someone else's partner.
PointersAreMutual ==
  /\ \A s \in Sessions : connection_[s] # None =>
       /\ stub[s] = "live"
       /\ conn[connection_[s]] = "open"
       /\ session_[connection_[s]] = s
  /\ \A c \in Conns : session_[c] # None =>
       /\ stub[session_[c]] = "live"
       /\ connection_[session_[c]] = c

\* While the server runs, every session in the map is served by a connection: a
\* connection lost during authentication, a logoff and a takeover all leave no
\* entry that would refuse its owner's next logon (OnCreateSessionAsync's
\* release, CheckExistingSession).
NoOrphanSession ==
  Alive => \A u \in Users :
             session_map_[u] # None => connection_[session_map_[u]] # None

\* A client that was logged on, did not log off and is still connected either
\* has its session or was told that it is gone (SessionStub::OnSessionDeleted).
LostSessionIsNotified ==
  \A c \in Conns :
    conn[c] = "open" /\ answer[c] = "Good" /\ session_[c] = None
      => told[c] # "none"

\* While the server runs, session_closed_signal_ names every session that left
\* the map exactly once, and none that is still in it (DeleteSession called by
\* a takeover, by the connection and by CloseUserSessions in any order).
RemovalIsAnnounced ==
  Alive => \A s \in Sessions :
             stub[s] # "unused" => closed_signals[s] = IF InMap(s) THEN 0 ELSE 1

\* Nobody learns of a lost session late, twice or never: its client is told, and
\* so are the observers of the manager.
LossesAreTold == LostSessionIsNotified /\ RemovalIsAnnounced

\* A SessionDeleted notification goes out on the wire; none is left buffered in
\* a stub that no connection will ever be attached to (SessionStub::Send).  TLC
\* refutes it: FinishShutdown detaches the stubs before it notifies them.
NoticeIsSent == \A s \in Sessions : send_message_[s] = "none"

\* A running server leaves no SessionDeleted notification in the buffer.
NoticeIsSentWhileRunning == Alive => NoticeIsSent

\* The table of sessions is sound between any two steps: pointers are mutual,
\* no entry locks its owner out, no notification is forgotten in a buffer.
TableIsSound == PointersAreMutual /\ NoOrphanSession /\ NoticeIsSentWhileRunning

\* After a completed shutdown no session is left in the map: the release in
\* OnCreateSessionAsync covers a connection closed during authentication.  TLC
\* refutes it: the release does nothing once alive_ is gone.
ShutdownLeavesNoSession ==
  phase = "stopped" => \A u \in Users : session_map_[u] = None

\* Bad_UserIsAlreadyLoggedOn is answered only while another open connection
\* really serves a session of that user and no takeover was asked for.
RefusalIsJustified ==
  [][\A c \in Conns :
       answer'[c] = "Bad_UserIsAlreadyLoggedOn" /\ answer'[c] # answer[c]
         => /\ ~login[c].delete_existing
            /\ \E d \in Conns \ {c} : /\ conn[d] = "open"
                                      /\ session_[d] # None
                                      /\ user[session_[d]] = login[c].user]_vars

\* A stub serves the connection it was created for and no other: once bound it
\* is only ever detached, so a late completion cannot answer another client.
SessionNeverMoves ==
  [][\A s \in Sessions : stub[s] # "unused" =>
       connection_'[s] \in {connection_[s], None}]_vars

\* No step refuses a logon without cause or hands a session to another client.
LogonStepsAreSound == RefusalIsJustified /\ SessionNeverMoves

\* Every CreateSession request is answered unless its connection goes first.
LoginIsAnswered ==
  \A c \in Conns : login[c] # None ~> (answer[c] # "none" \/ conn[c] # "open")

\* A session that left the map is destroyed in the end: its calls return and
\* its client, told of the loss, does not keep it alive with new ones.
RemovedSessionEnds ==
  \A s \in Sessions : stub[s] = "live" /\ ~InMap(s) ~> stub[s] = "destroyed"

\* Logons are answered and removed sessions end.
SessionsSettle == LoginIsAnswered /\ RemovedSessionEnds

\* The connection each user is logged on through, as LogonTable sees it.
OwnerOf(u) ==
  IF session_map_[u] = None THEN None ELSE connection_[session_map_[u]]

Logons == INSTANCE LogonTable WITH
  owner <- [u \in Users |-> OwnerOf(u)],
  used <- {c \in Conns : answer[c] \in {"Good", "LoggedOff"}},
  notified <- {c \in Conns : told[c] # "none"}

\* The server implements the logon table: whatever the order of logons, lost
\* connections, late service completions and shutdown, each step changes who is
\* logged on only as LogonTable allows.
ImplementsLogonTable == Logons!ASpec

-----------------------------------------------------------------------------
\* Connections are interchangeable for TLC, and so are stubs.
LOCAL INSTANCE TLC
Symmetry == Permutations(Conns) \cup Permutations(Sessions)
=============================================================================
