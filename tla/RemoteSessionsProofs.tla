------------------------ MODULE RemoteSessionsProofs ------------------------
(***************************************************************************)
(* Proofs about RemoteSessions, for any number of users, connections and   *)
(* sessions: the type invariant, the inductive invariant behind the safety *)
(* properties, and the implementation of LogonTable.                       *)
(***************************************************************************)
EXTENDS RemoteSessions, TLAPS

\* A step that names no prover is tried with these.
USE SMTT(30), ZenonT(30)

\* The state of RemoteSessionManager, ServerConnection and SessionStub keeps
\* its types in every execution of the server.
THEOREM TypeCorrect == Spec => []TypeOK
<1>1. Init => TypeOK
  BY ConstantsAssumption DEF Init, TypeOK, Answers, Notices
<1>2. TypeOK /\ [Next]_vars => TypeOK'
  <2> SUFFICES ASSUME TypeOK, [Next]_vars PROVE TypeOK'
    OBVIOUS
  <2> USE ConstantsAssumption
      DEF TypeOK, Answers, Notices, Logins, connVars, stubVars
  <2>1. ASSUME NEW c \in Conns, OnSessionAccepted(c) PROVE TypeOK'
    BY <2>1 DEF OnSessionAccepted, Start
  <2>2. ASSUME NEW c \in Conns, Close(c) PROVE TypeOK'
    BY <2>2 DEF Close, ReleaseSession, InMap, StubsAfter, Unheld
  <2>3. ASSUME NEW c \in Conns, DestroyConnection(c) PROVE TypeOK'
    BY <2>3 DEF DestroyConnection
  <2>4. ASSUME NEW c \in Conns, CreateSessionTooLate(c) PROVE TypeOK'
    BY <2>4 DEF CreateSessionTooLate, Respond
  <2>5. ASSUME NEW c \in Conns, CreateSessionIncompatible(c) PROVE TypeOK'
    BY <2>5 DEF CreateSessionIncompatible, Respond
  <2>6. ASSUME NEW c \in Conns, NEW u \in Users, NEW d \in BOOLEAN,
               OnCreateSession(c, u, d)
        PROVE  TypeOK'
    BY <2>6 DEF OnCreateSession
  <2>7. ASSUME NEW c \in Conns, AuthenticationFails(c) PROVE TypeOK'
    BY <2>7 DEF AuthenticationFails, LoginFails, Respond
  <2>8. ASSUME NEW c \in Conns, LoginRefused(c) PROVE TypeOK'
    BY <2>8 DEF LoginRefused, LoginFails, Respond
  <2>9. ASSUME NEW c \in Conns, NEW s \in Sessions, LoginAdmitted(c, s)
        PROVE  TypeOK'
    BY <2>9, SMTT(60) DEF LoginAdmitted, BindStub, StubsAfter, Unheld, DetachedFrom,
                ConnectionsAfter, ToldAfter
  <2>10. ASSUME NEW c \in Conns, OnDeleteSession(c) PROVE TypeOK'
    BY <2>10 DEF OnDeleteSession, ReleaseSession, InMap, StubsAfter, Unheld
  <2>11. ASSUME NEW c \in Conns, ProcessRequest(c) PROVE TypeOK'
    BY <2>11 DEF ProcessRequest
  <2>12. ASSUME NEW s \in Sessions, CompleteRequest(s) PROVE TypeOK'
    BY <2>12 DEF CompleteRequest, StubsAfter, DetachedFrom, ConnectionsAfter
  <2>13. ASSUME NEW u \in Users, CloseUserSessions(u) PROVE TypeOK'
    BY <2>13 DEF CloseUserSessions, StubsAfter, Unheld, DetachedFrom,
                 ConnectionsAfter, ToldAfter, BufferedAfter
  <2>14. CASE BeginShutdown
    BY <2>14 DEF BeginShutdown
  <2>15. CASE DropEverything
    BY <2>15 DEF DropEverything, StubsAfter, Unheld
  <2>16. CASE UNCHANGED vars
    BY <2>16 DEF vars
  <2> HIDE DEF TypeOK, Answers, Notices, Logins, connVars, stubVars
  <2> QED
    BY <2>1, <2>2, <2>3, <2>4, <2>5, <2>6, <2>7, <2>8, <2>9, <2>10, <2>11,
       <2>12, <2>13, <2>14, <2>15, <2>16
    DEF Next, TransportFails, SendFails, OnIdleTimeout, FinishShutdown,
        DestroyManager
<1> QED
  BY <1>1, <1>2, PTL DEF Spec
-----------------------------------------------------------------------------
\* The session the map holds for a user is a live stub of that user.
MapNamesOwnStub ==
  \A u \in Users : session_map_[u] # None =>
    stub[session_map_[u]] = "live" /\ user[session_map_[u]] = u

\* A stub that was never created has no state.
UnusedIsBlank ==
  \A s \in Sessions : stub[s] = "unused" =>
    /\ connection_[s] = None
    /\ user[s] = None
    /\ calls[s] = 0
    /\ closed_signals[s] = 0

\* A connection has no session before its CreateSession is answered, and sends
\* none before it is accepted.
LoginIsFirst ==
  \A c \in Conns : /\ login[c] # None => answer[c] = "none" /\ conn[c] # "none"
                   /\ answer[c] = "none" => session_[c] = None
                   /\ conn[c] = "none" => answer[c] = "none"

\* Shutdown reaches every open connection through the manager's list.
OpenIsListed == \A c \in Conns : conn[c] = "open" => c \in connections_

\* The inductive invariant.  Mutual pointers are not inductive alone: binding
\* needs a blank stub and a connection without a session, a takeover needs the
\* map to name a live stub of the same user, shutdown needs the list.
IndInv ==
  /\ PointersAreMutual
  /\ MapNamesOwnStub
  /\ UnusedIsBlank
  /\ LoginIsFirst
  /\ OpenIsListed
  /\ NoOrphanSession
  /\ NoticeIsSentWhileRunning

\* The stub that a logon through c destroys by replacing it, if any.
Replaced(c) == LET old == session_map_[login[c].user]
               IN  IF old = None THEN {} ELSE Unheld({old})

\* What LoginAdmitted does to the pointers, the map and the stubs, cell by
\* cell (the rest of CreateSessionAsync and OnCreateSessionAsync).
LoginEffect(c, s) ==
  /\ login[c].user \in Users /\ session_[c] = None /\ answer[c] = "none"
  /\ stub[s] = "unused" /\ connection_[s] = None
  /\ Replaced(c) \subseteq {session_map_[login[c].user]} \ {None}
  /\ s \notin Replaced(c)
  /\ \A v \in Users : session_map_[v] # s
  /\ \A x \in Sessions : connection_'[x] =
       IF x = s /\ conn[c] = "open" THEN c
       ELSE IF x \in Replaced(c) THEN None ELSE connection_[x]
  /\ \A d \in Conns : session_'[d] =
       IF d = c /\ conn[c] = "open" THEN s
       ELSE IF \E x \in Replaced(c) : connection_[x] = d THEN None
            ELSE session_[d]
  /\ \A x \in Sessions : stub'[x] =
       IF x = s THEN IF conn[c] # "open" /\ Alive THEN "destroyed"
                                                  ELSE "live"
       ELSE IF x \in Replaced(c) THEN "destroyed" ELSE stub[x]
  /\ \A v \in Users : session_map_'[v] =
       IF v = login[c].user
       THEN IF conn[c] # "open" /\ Alive THEN None ELSE s
       ELSE session_map_[v]
  /\ \A x \in Sessions :
       user'[x] = IF x = s THEN login[c].user ELSE user[x]
  /\ phase' = phase /\ conn' = conn /\ connections_' = connections_
  /\ send_message_' = send_message_

\* LoginAdmitted has that effect.
LEMMA LoginAdmittedEffect ==
  ASSUME TypeOK, IndInv,
         NEW c \in Conns, NEW s \in Sessions, LoginAdmitted(c, s)
  PROVE  LoginEffect(c, s)
<1> DEFINE u == login[c].user
           old == session_map_[u]
           dying == Replaced(c)
<1> USE ConstantsAssumption DEF TypeOK
<1>1. u \in Users /\ login[c] # None
  BY DEF LoginAdmitted, Logins
<1>2. session_[c] = None /\ answer[c] = "none"
  BY <1>1 DEF IndInv, LoginIsFirst
<1>3. stub[s] = "unused" /\ connection_[s] = None
  BY DEF LoginAdmitted, IndInv, UnusedIsBlank
<1>4. \A v \in Users : session_map_[v] # s
  BY <1>3 DEF IndInv, MapNamesOwnStub
<1>5. dying \subseteq {old} \ {None} /\ s \notin dying
  BY <1>1, <1>4 DEF Replaced, Unheld
<1>6. \A x \in Sessions : connection_'[x] =
        IF x = s /\ conn[c] = "open" THEN c
        ELSE IF x \in dying THEN None ELSE connection_[x]
  BY <1>3, <1>5, Zenon DEF LoginAdmitted, BindStub, ConnectionsAfter, Replaced
<1>7. \A d \in Conns : session_'[d] =
        IF d = c /\ conn[c] = "open" THEN s
        ELSE IF \E x \in dying : connection_[x] = d THEN None
             ELSE session_[d]
  BY Zenon DEF LoginAdmitted, DetachedFrom, Replaced
<1>8. \A x \in Sessions : stub'[x] =
        IF x = s THEN IF conn[c] # "open" /\ Alive THEN "destroyed" ELSE "live"
        ELSE IF x \in dying THEN "destroyed" ELSE stub[x]
  BY Zenon DEF LoginAdmitted, ReleaseUnbound, StubsAfter, Replaced
<1>9. /\ \A v \in Users : session_map_'[v] =
           IF v = u THEN IF conn[c] # "open" /\ Alive THEN None ELSE s
           ELSE session_map_[v]
      /\ \A x \in Sessions : user'[x] = IF x = s THEN u ELSE user[x]
      /\ phase' = phase /\ conn' = conn /\ connections_' = connections_
      /\ send_message_' = send_message_
  BY DEF LoginAdmitted, ReleaseUnbound
<1> QED
  BY <1>1, <1>2, <1>3, <1>4, <1>5, <1>6, <1>7, <1>8, <1>9 DEF LoginEffect

\* What LoginAdmitted does to the rest of the books.
LoginBooks(c, s) ==
  /\ \A d \in Conns :
       /\ login'[d] = IF d = c THEN None ELSE login[d]
       /\ answer'[d] = IF d = c /\ conn[c] = "open" THEN "Good"
                                                    ELSE answer[d]
  /\ \A x \in Sessions : closed_signals'[x] =
       IF \/ x = s /\ conn[c] # "open" /\ Alive
          \/ x = session_map_[login[c].user]
             /\ login[c].user \notin MultiUsers
       THEN closed_signals[x] + 1 ELSE closed_signals[x]
  /\ calls' = calls

\* LoginAdmitted does that to the books.
LEMMA LoginAdmittedBooks ==
  ASSUME TypeOK,
         NEW c \in Conns, NEW s \in Sessions, LoginAdmitted(c, s)
  PROVE  LoginBooks(c, s)
BY DEF LoginAdmitted, ReleaseUnbound, TypeOK, LoginBooks

\* Every step of the server keeps the inductive invariant.
LEMMA StepKeepsIndInv == TypeOK /\ IndInv /\ [Next]_vars => IndInv'
<1> SUFFICES ASSUME TypeOK, IndInv, [Next]_vars PROVE IndInv'
  OBVIOUS
<1> USE ConstantsAssumption
    DEF TypeOK, IndInv, connVars, stubVars, Alive, PointersAreMutual,
        MapNamesOwnStub, UnusedIsBlank, LoginIsFirst, OpenIsListed,
        NoOrphanSession, NoticeIsSent, NoticeIsSentWhileRunning
<1>1. ASSUME NEW c \in Conns, OnSessionAccepted(c) PROVE IndInv'
  BY <1>1 DEF OnSessionAccepted, Start
<1>2. ASSUME NEW c \in Conns, conn[c] = "open", Close(c) PROVE IndInv'
  BY <1>2, SMTT(60) DEF Close, ReleaseSession, InMap, StubsAfter, Unheld
<1>3. ASSUME NEW c \in Conns, DestroyConnection(c) PROVE IndInv'
  BY <1>3 DEF DestroyConnection
<1>4. ASSUME NEW c \in Conns, CreateSessionTooLate(c) PROVE IndInv'
  BY <1>4 DEF CreateSessionTooLate, FirstRequest, Respond
<1>5. ASSUME NEW c \in Conns, CreateSessionIncompatible(c) PROVE IndInv'
  BY <1>5 DEF CreateSessionIncompatible, FirstRequest, Respond
<1>6. ASSUME NEW c \in Conns, NEW u \in Users, NEW d \in BOOLEAN,
             OnCreateSession(c, u, d)
      PROVE  IndInv'
  BY <1>6 DEF OnCreateSession, FirstRequest
<1>7. ASSUME NEW c \in Conns, NEW status \in Answers, LoginFails(c, status)
      PROVE  IndInv'
  BY <1>7 DEF LoginFails, Respond
<1>8. ASSUME NEW c \in Conns, NEW s \in Sessions, LoginAdmitted(c, s)
      PROVE  IndInv'
  <2>0. LoginEffect(c, s) /\ LoginBooks(c, s)
    BY <1>8, LoginAdmittedEffect, LoginAdmittedBooks
  <2> DEFINE old == session_map_[login[c].user]
  <2>1. PointersAreMutual'
    <3>1. ASSUME NEW x \in Sessions, connection_'[x] # None
          PROVE  /\ stub'[x] = "live"
                 /\ conn'[connection_'[x]] = "open"
                 /\ session_'[connection_'[x]] = x
      <4>1. CASE x = s
        BY <2>0, <3>1, <4>1 DEF LoginEffect
      <4>2. CASE x # s
        BY <2>0, <3>1, <4>2 DEF LoginEffect
      <4> QED
        BY <4>1, <4>2
    <3>2. ASSUME NEW d \in Conns, session_'[d] # None
          PROVE  /\ stub'[session_'[d]] = "live"
                 /\ connection_'[session_'[d]] = d
      <4>1. CASE d = c
        BY <2>0, <3>2, <4>1 DEF LoginEffect
      <4>2. CASE d # c
        BY <2>0, <3>2, <4>2 DEF LoginEffect
      <4> QED
        BY <4>1, <4>2
    <3> QED
      BY <3>1, <3>2
  <2>2. MapNamesOwnStub'
    <3> SUFFICES ASSUME NEW v \in Users, session_map_'[v] # None
                 PROVE  /\ stub'[session_map_'[v]] = "live"
                        /\ user'[session_map_'[v]] = v
      OBVIOUS
    <3>1. CASE v = login[c].user
      BY <2>0, <3>1 DEF LoginEffect
    <3>2. CASE v # login[c].user
      BY <2>0, <3>2 DEF LoginEffect
    <3> QED
      BY <3>1, <3>2
  <2>3. UnusedIsBlank'
    <3> SUFFICES ASSUME NEW x \in Sessions, stub'[x] = "unused"
                 PROVE  /\ connection_'[x] = None /\ user'[x] = None
                        /\ calls'[x] = 0 /\ closed_signals'[x] = 0
      OBVIOUS
    <3>1. x # s /\ x \notin Replaced(c) /\ stub[x] = "unused"
      BY <2>0 DEF LoginEffect
    <3>2. x # old
      BY <2>0, <3>1 DEF LoginEffect
    <3>3. /\ connection_'[x] = connection_[x] /\ user'[x] = user[x]
          /\ calls' = calls /\ closed_signals'[x] = closed_signals[x]
      BY <2>0, <3>1, <3>2, SMTT(30) DEF LoginEffect, LoginBooks
    <3> QED
      BY <3>1, <3>3
  <2>4. LoginIsFirst'
    <3> SUFFICES ASSUME NEW d \in Conns
                 PROVE  /\ login'[d] # None
                             => answer'[d] = "none" /\ conn'[d] # "none"
                        /\ answer'[d] = "none" => session_'[d] = None
                        /\ conn'[d] = "none" => answer'[d] = "none"
      OBVIOUS
    <3>0. /\ conn'[d] = conn[d]
          /\ login'[d] = IF d = c THEN None ELSE login[d]
          /\ answer'[d] = IF d = c /\ conn[c] = "open" THEN "Good" ELSE answer[d]
          /\ session_'[d] \in {session_[d], None} \/ (d = c /\ conn[c] = "open")
          /\ session_[c] = None /\ answer[c] = "none"
      BY <2>0 DEF LoginEffect, LoginBooks
    <3>1. CASE d = c
      BY <3>0, <3>1
    <3>2. CASE d # c
      BY <3>0, <3>2
    <3> QED
      BY <3>1, <3>2
  <2>5. OpenIsListed' /\ NoticeIsSentWhileRunning'
    BY <2>0 DEF LoginEffect
  <2>6. NoOrphanSession'
    <3> SUFFICES ASSUME Alive', NEW v \in Users, session_map_'[v] # None
                 PROVE  connection_'[session_map_'[v]] # None
      OBVIOUS
    <3>1. CASE v = login[c].user
      BY <2>0, <3>1 DEF LoginEffect
    <3>2. CASE v # login[c].user
      BY <2>0, <3>2 DEF LoginEffect
    <3> QED
      BY <3>1, <3>2
  <2> QED
    BY <2>1, <2>2, <2>3, <2>4, <2>5, <2>6
<1>9. ASSUME NEW c \in Conns, OnDeleteSession(c) PROVE IndInv'
  BY <1>9, SMTT(60) DEF OnDeleteSession, ReleaseSession, InMap, StubsAfter, Unheld
<1>10. ASSUME NEW c \in Conns, ProcessRequest(c) PROVE IndInv'
  BY <1>10 DEF ProcessRequest
<1>11. ASSUME NEW s \in Sessions, CompleteRequest(s) PROVE IndInv'
  BY <1>11 DEF CompleteRequest, InMap, StubsAfter, DetachedFrom,
               ConnectionsAfter
<1>12. ASSUME NEW u \in Users, CloseUserSessions(u) PROVE IndInv'
  BY <1>12 DEF CloseUserSessions, StubsAfter, Unheld, DetachedFrom,
               ConnectionsAfter, BufferedAfter
<1>13. CASE BeginShutdown
  BY <1>13 DEF BeginShutdown
<1>14. CASE DropEverything
  BY <1>14, SMTT(60) DEF DropEverything, StubsAfter, Unheld
<1>15. CASE UNCHANGED vars
  BY <1>15 DEF vars
<1> HIDE DEF TypeOK, IndInv
<1> QED
  BY <1>1, <1>2, <1>3, <1>4, <1>5, <1>6, <1>7, <1>8, <1>9, <1>10, <1>11,
     <1>12, <1>13, <1>14, <1>15
  DEF Next, TransportFails, SendFails, OnIdleTimeout, AuthenticationFails,
      LoginRefused, FinishShutdown, DestroyManager, Answers

\* The inductive invariant holds in every execution.
LEMMA InvariantHolds == Spec => [](TypeOK /\ IndInv)
<1>1. Init => IndInv
  BY ConstantsAssumption
  DEF Init, IndInv, PointersAreMutual, MapNamesOwnStub, UnusedIsBlank,
      LoginIsFirst, OpenIsListed, NoOrphanSession, NoticeIsSent,
      NoticeIsSentWhileRunning
<1> QED
  BY <1>1, TypeCorrect, StepKeepsIndInv, PTL DEF Spec

\* No session pointer of a connection and no back-pointer of a stub is ever
\* stale, however service completions, closes, takeovers and shutdown mix.
THEOREM NoStalePointer == Spec => []PointersAreMutual
BY InvariantHolds, PTL DEF IndInv

\* A running server never keeps a session that no connection serves, so no user
\* is locked out by one (the release in OnCreateSessionAsync).
THEOREM NoLockout == Spec => []NoOrphanSession
BY InvariantHolds, PTL DEF IndInv

\* While the server runs, a SessionDeleted notification is never left in the
\* send_message_ of a stub that no connection will be attached to.
THEOREM NoNoticeIsKept == Spec => []NoticeIsSentWhileRunning
BY InvariantHolds, PTL DEF IndInv

\* The table of sessions is sound between any two steps of a running server.
THEOREM TableStaysSound == Spec => []TableIsSound
BY NoStalePointer, NoLockout, NoNoticeIsKept, PTL DEF TableIsSound
-----------------------------------------------------------------------------
\* A bound stub is only ever detached, never bound to another connection.
THEOREM SessionStaysWithItsConnection == Spec => SessionNeverMoves
<1> DEFINE Kept == \A s \in Sessions : stub[s] # "unused" =>
                     connection_'[s] \in {connection_[s], None}
<1>1. TypeOK /\ IndInv /\ [Next]_vars => [Kept]_vars
  <2> SUFFICES ASSUME TypeOK, IndInv, Next PROVE Kept
    OBVIOUS
  <2> USE ConstantsAssumption DEF TypeOK, connVars, stubVars
  <2>1. ASSUME NEW c \in Conns, NEW s \in Sessions, LoginAdmitted(c, s)
        PROVE  Kept
    BY <2>1, LoginAdmittedEffect DEF LoginEffect
  <2>2. ASSUME NEW c \in Conns, ReleaseSession(c) PROVE Kept
    BY <2>2 DEF ReleaseSession
  <2>3. ASSUME NEW D, connection_' = ConnectionsAfter(D) PROVE Kept
    BY <2>3 DEF ConnectionsAfter
  <2>4. CASE FinishShutdown \/ DestroyManager
    <3>1. DropEverything
      BY <2>4 DEF FinishShutdown, DestroyManager
    <3> DEFINE dying == Unheld({session_map_[u] : u \in Users} \ {None})
               bound == {session_[c] : c \in connections_}
    <3>2. connection_' =
            [s \in Sessions |-> IF s \in dying THEN None
               ELSE [x \in Sessions |->
                       IF x \in bound THEN None ELSE connection_[x]][s]]
      BY <3>1, Zenon DEF DropEverything
    <3> HIDE DEF dying, bound
    <3> QED
      BY <3>2
  <2>5. ASSUME NEW c \in Conns, DestroyConnection(c) PROVE Kept
    BY <2>5 DEF DestroyConnection
  <2>6. CASE connection_' = connection_
    BY <2>6
  <2> HIDE DEF TypeOK, Kept
  <2> QED
    BY <2>1, <2>2, <2>3, <2>4, <2>5, <2>6, Zenon
    DEF Next, OnSessionAccepted, Start, TransportFails, SendFails, OnIdleTimeout, Close,
        CreateSessionTooLate, CreateSessionIncompatible, OnCreateSession,
        AuthenticationFails, LoginRefused, LoginFails, Respond,
        OnDeleteSession, ProcessRequest, CompleteRequest, CloseUserSessions,
        BeginShutdown
<1> QED
  BY <1>1, InvariantHolds, PTL DEF Spec, SessionNeverMoves

\* A refusal with Bad_UserIsAlreadyLoggedOn always has a live cause: another
\* open connection serving that user (CheckExistingSession).
THEOREM RefusalHasACause == Spec => RefusalIsJustified
<1> DEFINE Cause == \A c \in Conns :
             answer'[c] = "Bad_UserIsAlreadyLoggedOn" /\ answer'[c] # answer[c]
               => /\ ~login[c].delete_existing
                  /\ \E d \in Conns \ {c} :
                       /\ conn[d] = "open"
                       /\ session_[d] # None
                       /\ user[session_[d]] = login[c].user
<1>1. TypeOK /\ IndInv /\ [Next]_vars => [Cause]_vars
  <2> SUFFICES ASSUME TypeOK, IndInv, Next PROVE Cause
    OBVIOUS
  <2> USE ConstantsAssumption DEF TypeOK, connVars, stubVars
  <2>1. ASSUME NEW c \in Conns, LoginRefused(c) PROVE Cause
    <3> DEFINE old == session_map_[login[c].user]
               d == connection_[old]
    <3>1. login[c].user \in Users /\ session_[c] = None
      BY <2>1 DEF LoginRefused, Logins, IndInv, LoginIsFirst
    <3>2. /\ old \in Sessions /\ d \in Conns
          /\ ~login[c].delete_existing
      BY <2>1, <3>1 DEF LoginRefused, CheckExistingSession
    <3>3. conn[d] = "open" /\ session_[d] = old /\ user[old] = login[c].user
      BY <3>1, <3>2 DEF IndInv, PointersAreMutual, MapNamesOwnStub
    <3>4. \A e \in Conns : e # c => answer'[e] = answer[e]
      BY <2>1 DEF LoginRefused, LoginFails, Respond
    <3> QED
      BY <3>1, <3>2, <3>3, <3>4
  <2>2. ASSUME NEW c \in Conns, NEW status,
               status # "Bad_UserIsAlreadyLoggedOn",
               answer' = [answer EXCEPT ![c] = status]
        PROVE  Cause
    BY <2>2
  <2>3. CASE answer' = answer
    BY <2>3
  <2> HIDE DEF TypeOK, Cause
  <2> QED
    BY <2>1, <2>2, <2>3, ZenonT(60)
    DEF Next, OnSessionAccepted, Start, TransportFails, SendFails, OnIdleTimeout, Close,
        DestroyConnection, CreateSessionTooLate, CreateSessionIncompatible,
        OnCreateSession, AuthenticationFails, LoginFails, Respond,
        LoginAdmitted, OnDeleteSession, ProcessRequest, CompleteRequest,
        CloseUserSessions, BeginShutdown, FinishShutdown, DestroyManager,
        DropEverything
<1> QED
  BY <1>1, InvariantHolds, PTL DEF Spec, RefusalIsJustified
-----------------------------------------------------------------------------
\* A stub that has left the map but still serves a connection was taken away by
\* the server, and its client was told.
DisplacedIsTold ==
  \A s \in Sessions : connection_[s] # None /\ ~InMap(s) =>
                        told[connection_[s]] # "none"

\* With single-session accounts only, the server accounts for every session:
\* the inductive half of the two theorems below.
SingleInv == DisplacedIsTold /\ LostSessionIsNotified /\ RemovalIsAnnounced

\* Every step keeps SingleInv when no account allows several sessions.
LEMMA StepKeepsSingleInv ==
  ASSUME MultiUsers = {}, TypeOK, IndInv, SingleInv, [Next]_vars
  PROVE  SingleInv'
<1> USE ConstantsAssumption
    DEF TypeOK, IndInv, connVars, stubVars, Alive, PointersAreMutual,
        MapNamesOwnStub, UnusedIsBlank, LoginIsFirst, InMap, SingleInv,
        DisplacedIsTold, LostSessionIsNotified, RemovalIsAnnounced
<1>1. ASSUME NEW c \in Conns, OnSessionAccepted(c) PROVE SingleInv'
  BY <1>1 DEF OnSessionAccepted, Start
<1>2. ASSUME NEW c \in Conns, conn[c] = "open", Close(c) PROVE SingleInv'
  BY <1>2 DEF Close, ReleaseSession, StubsAfter, Unheld
<1>3. ASSUME NEW c \in Conns, DestroyConnection(c) PROVE SingleInv'
  BY <1>3 DEF DestroyConnection
<1>4. ASSUME NEW c \in Conns, CreateSessionTooLate(c) PROVE SingleInv'
  BY <1>4 DEF CreateSessionTooLate, FirstRequest, Respond
<1>5. ASSUME NEW c \in Conns, CreateSessionIncompatible(c) PROVE SingleInv'
  BY <1>5 DEF CreateSessionIncompatible, FirstRequest, Respond
<1>6. ASSUME NEW c \in Conns, NEW u \in Users, NEW d \in BOOLEAN,
             OnCreateSession(c, u, d)
      PROVE  SingleInv'
  BY <1>6 DEF OnCreateSession, FirstRequest
<1>7. ASSUME NEW c \in Conns, NEW status \in Answers \ {"Good"},
             LoginFails(c, status)
      PROVE  SingleInv'
  BY <1>7 DEF LoginFails, Respond
<1>8. ASSUME NEW c \in Conns, NEW s \in Sessions, LoginAdmitted(c, s)
      PROVE  SingleInv'
  <2>0. LoginEffect(c, s) /\ LoginBooks(c, s)
    BY <1>8, LoginAdmittedEffect, LoginAdmittedBooks
  <2> DEFINE old == session_map_[login[c].user]
  <2>1. \A d \in Conns : told'[d] =
          IF old # None /\ connection_[old] = d THEN "Bad_SessionForcedLogoff"
                                                ELSE told[d]
    <3>1. old \in Sessions \cup {None}
      BY <2>0 DEF LoginEffect
    <3>2. told' = IF old # None /\ connection_[old] # None
                  THEN ToldAfter(old, "Bad_SessionForcedLogoff") ELSE told
      BY <1>8, Zenon DEF LoginAdmitted
    <3> HIDE DEF old
    <3> QED
      BY <3>1, <3>2 DEF ToldAfter
  <2>2. DisplacedIsTold'
    <3> SUFFICES ASSUME NEW x \in Sessions, connection_'[x] # None, ~InMap(x)'
                 PROVE  told'[connection_'[x]] # "none"
      OBVIOUS
    <3>1. x # s
      BY <2>0 DEF LoginEffect
    <3>2. /\ connection_'[x] = connection_[x] /\ connection_[x] \in Conns
          /\ user'[x] = user[x]
      BY <2>0, <3>1 DEF LoginEffect
    <3>3. CASE x = old
      BY <2>1, <3>2, <3>3, SMTT(30)
    <3>4. CASE x # old
      <4>1. ~InMap(x)
        BY <2>0, <3>2, <3>4 DEF LoginEffect
      <4> QED
        BY <2>1, <3>2, <4>1
    <3> QED
      BY <3>3, <3>4
  <2>3. LostSessionIsNotified'
    <3> SUFFICES ASSUME NEW d \in Conns, conn'[d] = "open",
                        answer'[d] = "Good", session_'[d] = None
                 PROVE  told'[d] # "none"
      OBVIOUS
    <3>1. d # c /\ conn[d] = "open" /\ answer[d] = "Good"
      BY <2>0 DEF LoginEffect, LoginBooks
    <3>2. CASE session_[d] = None
      BY <2>1, <3>1, <3>2
    <3>3. CASE session_[d] # None
      <4>1. \E x \in Replaced(c) : connection_[x] = d
        BY <2>0, <3>1, <3>3 DEF LoginEffect
      <4>2. old # None /\ connection_[old] = d
        BY <2>0, <4>1 DEF LoginEffect
      <4> QED
        BY <2>1, <4>2
    <3> QED
      BY <3>2, <3>3
  <2>4. RemovalIsAnnounced'
    <3> SUFFICES ASSUME NEW x \in Sessions, Alive', stub'[x] # "unused"
                 PROVE  closed_signals'[x] =
                          IF user'[x] # None /\ session_map_'[user'[x]] = x
                          THEN 0 ELSE 1
      OBVIOUS
    <3>1. /\ Alive /\ s # old /\ s # None
          /\ login[c].user \in Users /\ old \in Sessions \cup {None}
          /\ stub[s] = "unused" /\ closed_signals[s] = 0
          /\ session_map_'[login[c].user] = IF conn[c] # "open" THEN None ELSE s
      BY <2>0 DEF LoginEffect
    <3>2. closed_signals'[x] =
            IF (x = s /\ conn[c] # "open") \/ x = old
            THEN closed_signals[x] + 1 ELSE closed_signals[x]
      BY <2>0, <3>1 DEF LoginBooks
    <3>3. user'[x] = IF x = s THEN login[c].user ELSE user[x]
      BY <2>0 DEF LoginEffect
    <3>4. CASE x = s
      BY <3>1, <3>2, <3>3, <3>4
    <3>5. CASE x = old
      <4>1. user[x] = login[c].user /\ stub[x] = "live" /\ closed_signals[x] = 0
        BY <3>1, <3>5
      <4> QED
        BY <3>1, <3>2, <3>3, <3>5, <4>1
    <3>6. CASE x # s /\ x # old
      <4>1. stub[x] # "unused"
        BY <2>0, <3>6 DEF LoginEffect
      <4>2. \A v \in Users : v # login[c].user
              => session_map_'[v] = session_map_[v]
        BY <2>0 DEF LoginEffect
      <4>3. (user'[x] # None /\ session_map_'[user'[x]] = x) <=> InMap(x)
        BY <3>1, <3>3, <3>6, <4>2
      <4> QED
        BY <3>1, <3>2, <3>6, <4>1, <4>3
    <3> QED
      BY <3>4, <3>5, <3>6
  <2> QED
    BY <2>2, <2>3, <2>4
<1>9. ASSUME NEW c \in Conns, OnDeleteSession(c) PROVE SingleInv'
  BY <1>9 DEF OnDeleteSession, ReleaseSession, StubsAfter, Unheld
<1>10. ASSUME NEW c \in Conns, ProcessRequest(c) PROVE SingleInv'
  BY <1>10 DEF ProcessRequest
<1>11. ASSUME NEW s \in Sessions, CompleteRequest(s) PROVE SingleInv'
  <2> USE <1>11 DEF CompleteRequest, StubsAfter, DetachedFrom, ConnectionsAfter
  <2>1. DisplacedIsTold'
    OBVIOUS
  <2>2. LostSessionIsNotified'
    OBVIOUS
  <2>3. RemovalIsAnnounced'
    OBVIOUS
  <2> QED
    BY <2>1, <2>2, <2>3
<1>12. ASSUME NEW u \in Users, CloseUserSessions(u) PROVE SingleInv'
  BY <1>12 DEF CloseUserSessions, StubsAfter, Unheld, DetachedFrom,
               ConnectionsAfter, ToldAfter
<1>13. CASE BeginShutdown
  BY <1>13 DEF BeginShutdown
<1>14. CASE DropEverything
  BY <1>14 DEF DropEverything, StubsAfter, Unheld, OpenIsListed
<1>15. CASE UNCHANGED vars
  BY <1>15 DEF vars
<1> HIDE DEF TypeOK, IndInv, SingleInv
<1> QED
  BY <1>1, <1>2, <1>3, <1>4, <1>5, <1>6, <1>7, <1>8, <1>9, <1>10, <1>11,
     <1>12, <1>13, <1>14, <1>15
  DEF Next, TransportFails, SendFails, OnIdleTimeout, AuthenticationFails,
      LoginRefused, FinishShutdown, DestroyManager, Answers

\* With single-session accounts, SingleInv holds in every execution.
LEMMA SingleInvHolds == ASSUME MultiUsers = {} PROVE Spec => []SingleInv
<1>1. Init => SingleInv
  BY ConstantsAssumption
  DEF Init, SingleInv, DisplacedIsTold, LostSessionIsNotified,
      RemovalIsAnnounced
<1>2. TypeOK /\ IndInv /\ SingleInv /\ [Next]_vars => SingleInv'
  BY StepKeepsSingleInv
<1> QED
  BY <1>1, <1>2, InvariantHolds, PTL DEF Spec

\* With single-session accounts, no connected client loses its session without
\* being told: OnSessionDeleted precedes every DeleteSession it did not cause.
THEOREM LossIsNotified ==
  ASSUME MultiUsers = {} PROVE Spec => []LostSessionIsNotified
BY SingleInvHolds, PTL DEF SingleInv

\* With single-session accounts, session_closed_signal_ is emitted exactly once
\* for every session a running server removes from its map.
THEOREM RemovalAnnouncedOnce ==
  ASSUME MultiUsers = {} PROVE Spec => []RemovalIsAnnounced
BY SingleInvHolds, PTL DEF SingleInv

\* With single-session accounts, the client of a lost session and the observers
\* of the manager are told of it, the latter exactly once.
THEOREM EveryLossIsTold ==
  ASSUME MultiUsers = {} PROVE Spec => []LossesAreTold
BY LossIsNotified, RemovalAnnouncedOnce, PTL DEF LossesAreTold

\* No step refuses a logon without cause or hands a session to another client.
THEOREM LogonStepsStaySound == Spec => LogonStepsAreSound
BY RefusalHasACause, SessionStaysWithItsConnection, PTL DEF LogonStepsAreSound
-----------------------------------------------------------------------------
\* The logon table after a step that removes session s from the map, or only
\* detaches it, and changes nothing else the table shows.
LEMMA ReleaseLeaves ==
  ASSUME TypeOK, IndInv, NEW c \in Conns, ReleaseSession(c),
         UNCHANGED <<told, user>>,
         {d \in Conns : answer'[d] \in {"Good", "LoggedOff"}}
           = {d \in Conns : answer[d] \in {"Good", "LoggedOff"}}
  PROVE  \/ \E u \in Users : Logons!Leave(u)
         \/ UNCHANGED Logons!avars
<1> USE ConstantsAssumption DEF TypeOK
<1>1. CASE session_[c] # None /\ InMap(session_[c])
  <2>1. PICK u \in Users, s \in Sessions :
          /\ s = session_[c] /\ u = user[s]
          /\ session_map_[u] = s /\ connection_[s] = c
    BY <1>1 DEF InMap, IndInv, PointersAreMutual
  <2>2. \A v \in Users \ {u} : OwnerOf(v)' = OwnerOf(v)
    BY <1>1, <2>1 DEF ReleaseSession, OwnerOf, IndInv, MapNamesOwnStub
  <2>3. OwnerOf(u) = c /\ OwnerOf(u)' = None
    BY <1>1, <2>1 DEF ReleaseSession, OwnerOf
  <2>4. [v \in Users |-> OwnerOf(v)]'
          = [[v \in Users |-> OwnerOf(v)] EXCEPT ![u] = None]
    BY <2>2, <2>3, Zenon
  <2>5. {d \in Conns : told[d] # "none"}' = {d \in Conns : told[d] # "none"}
    OBVIOUS
  <2>6. Logons!Leave(u)
    BY <2>3, <2>4, <2>5 DEF Logons!Leave
  <2> QED
    BY <2>6
<1>2. CASE ~(session_[c] # None /\ InMap(session_[c]))
  <2>1. \A v \in Users : OwnerOf(v)' = OwnerOf(v)
    BY <1>2 DEF ReleaseSession, OwnerOf, IndInv, MapNamesOwnStub, InMap
  <2> QED
    BY <2>1 DEF Logons!avars
<1> QED
  BY <1>1, <1>2

\* A step that keeps every owner, every answered logon and every notification
\* stutters in the logon table.
LEMMA TableUnchanged ==
  ASSUME \A v \in Users : OwnerOf(v)' = OwnerOf(v),
         \A d \in Conns : answer'[d] \in {"Good", "LoggedOff"}
                            <=> answer[d] \in {"Good", "LoggedOff"},
         told' = told
  PROVE  UNCHANGED Logons!avars
<1>1. [v \in Users |-> OwnerOf(v)]' = [v \in Users |-> OwnerOf(v)]
  OBVIOUS
<1>2. {d \in Conns : answer[d] \in {"Good", "LoggedOff"}}'
        = {d \in Conns : answer[d] \in {"Good", "LoggedOff"}}
  OBVIOUS
<1>3. {d \in Conns : told[d] # "none"}' = {d \in Conns : told[d] # "none"}
  OBVIOUS
<1> QED
  BY <1>1, <1>2, <1>3 DEF Logons!avars

\* An admitted login is a LogOn or TakeOver of the logon table; one whose
\* connection closed meanwhile is an Evict, a Leave or nothing.
LEMMA LoginRefines ==
  ASSUME TypeOK, IndInv, NEW c \in Conns, NEW s \in Sessions,
         LoginAdmitted(c, s)
  PROVE  Logons!ANext \/ UNCHANGED Logons!avars
<1> USE ConstantsAssumption
<1> DEFINE own == [v \in Users |-> OwnerOf(v)]
           used == {d \in Conns : answer[d] \in {"Good", "LoggedOff"}}
           notified == {d \in Conns : told[d] # "none"}
<1> HIDE DEF own, used, notified
<1>0. LoginEffect(c, s) /\ LoginBooks(c, s)
  BY LoginAdmittedEffect, LoginAdmittedBooks
<1>1. PICK u \in Users : u = login[c].user
  BY <1>0 DEF LoginEffect
<1>2. \A v \in Users : OwnerOf(v)' =
        IF v = u THEN IF conn[c] = "open" THEN c ELSE None ELSE OwnerOf(v)
  BY <1>0, <1>1, SMTT(60)
  DEF LoginEffect, OwnerOf, TypeOK, IndInv, MapNamesOwnStub, PointersAreMutual
<1>3. own' = [own EXCEPT ![u] = IF conn[c] = "open" THEN c ELSE None]
  BY <1>2, Zenon DEF own
<1>4. /\ used' = IF conn[c] = "open" THEN used \cup {c} ELSE used
      /\ c \notin used
  <2>1. \A d \in Conns : answer'[d] = IF d = c /\ conn[c] = "open" THEN "Good"
                                                                 ELSE answer[d]
    BY <1>0, Zenon DEF LoginBooks
  <2>2. answer[c] = "none"
    BY <1>0, Zenon DEF LoginEffect
  <2> QED
    BY ONLY <2>1, <2>2, c \in Conns DEF used
<1>5. notified' = IF own[u] # None /\ u \notin MultiUsers
                  THEN notified \cup {own[u]} ELSE notified
  <2> DEFINE old == session_map_[u]
  <2>1. told' = IF u \notin MultiUsers /\ old # None /\ connection_[old] # None
                THEN ToldAfter(old, "Bad_SessionForcedLogoff") ELSE told
    BY <1>1 DEF LoginAdmitted
  <2>2. own[u] = IF old = None THEN None ELSE connection_[old]
    BY DEF OwnerOf, own
  <2>3. own[u] # None => conn[own[u]] = "open" /\ own[u] \in Conns
    BY <2>2 DEF IndInv, PointersAreMutual, TypeOK
  <2>4. \A d \in Conns : told'[d] =
          IF u \notin MultiUsers /\ own[u] = d THEN "Bad_SessionForcedLogoff"
                                               ELSE told[d]
    BY <2>1, <2>2, <2>3 DEF ToldAfter, TypeOK
  <2> QED
    BY <2>3, <2>4 DEF notified
<1>6. CASE conn[c] = "open" /\ own[u] = None
  <2>1. Logons!LogOn(u, c)
    BY <1>3, <1>4, <1>5, <1>6 DEF Logons!LogOn, own, used, notified
  <2> QED
    BY <2>1 DEF Logons!ANext
<1>7. CASE conn[c] = "open" /\ own[u] # None
  <2>1. Logons!TakeOver(u, c)
    BY <1>3, <1>4, <1>5, <1>7 DEF Logons!TakeOver, own, used, notified
  <2> QED
    BY <2>1 DEF Logons!ANext
<1>8. CASE conn[c] # "open" /\ own[u] # None /\ u \notin MultiUsers
  <2>1. Logons!Evict(u)
    BY <1>3, <1>4, <1>5, <1>8 DEF Logons!Evict, own, used, notified
  <2> QED
    BY <2>1 DEF Logons!ANext
<1>9. CASE conn[c] # "open" /\ own[u] # None /\ u \in MultiUsers
  <2>1. Logons!Leave(u)
    BY <1>3, <1>4, <1>5, <1>9 DEF Logons!Leave, own, used, notified
  <2> QED
    BY <2>1 DEF Logons!ANext
<1>10. CASE conn[c] # "open" /\ own[u] = None
  BY <1>3, <1>4, <1>5, <1>10, Zenon DEF Logons!avars, own, used, notified
<1> QED
  BY <1>6, <1>7, <1>8, <1>9, <1>10

\* CloseUserSessions evicts the user's attached session.
LEMMA CloseUserRefines ==
  ASSUME TypeOK, IndInv, NEW u \in Users, CloseUserSessions(u)
  PROVE  Logons!Evict(u) \/ UNCHANGED Logons!avars
<1> USE ConstantsAssumption DEF TypeOK
<1> DEFINE own == [v \in Users |-> OwnerOf(v)]
           notified == {d \in Conns : told[d] # "none"}
<1>1. PICK s \in Sessions : s = session_map_[u]
  BY DEF CloseUserSessions
<1>2. \A v \in Users : OwnerOf(v)' = IF v = u THEN None ELSE OwnerOf(v)
  BY <1>1 DEF CloseUserSessions, ConnectionsAfter, Unheld, OwnerOf, IndInv,
              MapNamesOwnStub
<1>3. OwnerOf(u) = connection_[s]
  BY <1>1 DEF OwnerOf
<1>4. answer' = answer
  BY DEF CloseUserSessions
<1>5. CASE connection_[s] = None
  <2>1. told' = told
    BY <1>1, <1>5 DEF CloseUserSessions, ToldAfter
  <2> QED
    BY <1>2, <1>3, <1>4, <1>5, <2>1, TableUnchanged
<1>6. CASE connection_[s] # None
  <2>1. conn[connection_[s]] = "open"
    BY <1>6 DEF IndInv, PointersAreMutual
  <2>2. told' = [told EXCEPT ![connection_[s]] = "Bad_ServerWasShutDown"]
    BY <1>1, <1>6, <2>1 DEF CloseUserSessions, ToldAfter
  <2>3. notified' = notified \cup {OwnerOf(u)}
    BY <1>3, <1>6, <2>2
  <2>4. own' = [own EXCEPT ![u] = None] /\ own[u] # None
    BY <1>2, <1>3, <1>6, Zenon
  <2> QED
    BY <1>4, <2>3, <2>4 DEF Logons!Evict
<1> QED
  BY <1>5, <1>6

\* Every step of the server is a step of the logon table or a stutter.
LEMMA StepRefines ==
  ASSUME TypeOK, IndInv, [Next]_vars
  PROVE  Logons!ANext \/ UNCHANGED Logons!avars
<1> USE ConstantsAssumption DEF TypeOK, connVars, stubVars
<1>1. CASE UNCHANGED <<session_map_, connection_, answer, told>>
  BY <1>1, TableUnchanged DEF OwnerOf
<1>2. ASSUME NEW c \in Conns, TransportFails(c) \/ SendFails(c) \/ OnIdleTimeout(c)
      PROVE  Logons!ANext \/ UNCHANGED Logons!avars
  BY <1>2, ReleaseLeaves DEF TransportFails, SendFails, OnIdleTimeout, Close, Logons!ANext
<1>3. ASSUME NEW c \in Conns, DestroyConnection(c)
      PROVE  UNCHANGED Logons!avars
  <2>1. connection_' = connection_
    BY <1>3 DEF DestroyConnection, IndInv, PointersAreMutual
  <2> QED
    BY <1>3, <2>1, TableUnchanged DEF DestroyConnection, OwnerOf
<1>4. ASSUME NEW c \in Conns, answer[c] = "none",
             NEW status \in Answers \ {"Good", "LoggedOff"}, Respond(c, status)
      PROVE  UNCHANGED Logons!avars
  <2>1. \A d \in Conns : answer'[d] \in {"Good", "LoggedOff"}
                           <=> answer[d] \in {"Good", "LoggedOff"}
    BY <1>4 DEF Respond
  <2>2. told' = told /\ \A v \in Users : OwnerOf(v)' = OwnerOf(v)
    BY <1>4 DEF Respond, OwnerOf
  <2> QED
    BY <2>1, <2>2, TableUnchanged
<1>5. ASSUME NEW c \in Conns,
             NEW status \in Answers \ {"Good", "LoggedOff"},
             LoginFails(c, status)
      PROVE  UNCHANGED Logons!avars
  <2>1. answer[c] = "none"
    BY <1>5 DEF LoginFails, IndInv, LoginIsFirst
  <2>2. CASE conn[c] = "open"
    BY <1>4, <1>5, <2>1, <2>2 DEF LoginFails
  <2>3. CASE conn[c] # "open"
    <3>1. UNCHANGED <<session_map_, connection_, answer, told>>
      BY <1>5, <2>3 DEF LoginFails
    <3> QED
      BY <3>1, TableUnchanged DEF OwnerOf
  <2> QED
    BY <2>2, <2>3
<1>6. ASSUME NEW c \in Conns, OnDeleteSession(c)
      PROVE  Logons!ANext \/ UNCHANGED Logons!avars
  <2>1. {d \in Conns : answer'[d] \in {"Good", "LoggedOff"}}
          = {d \in Conns : answer[d] \in {"Good", "LoggedOff"}}
    BY <1>6 DEF OnDeleteSession
  <2> QED
    BY <1>6, <2>1, ReleaseLeaves DEF OnDeleteSession, Logons!ANext
<1>7. ASSUME NEW s \in Sessions, CompleteRequest(s)
      PROVE  UNCHANGED Logons!avars
  <2>1. \A v \in Users : OwnerOf(v)' = OwnerOf(v)
    BY <1>7 DEF CompleteRequest, ConnectionsAfter, OwnerOf, InMap, IndInv,
                MapNamesOwnStub
  <2> QED
    BY <1>7, <2>1, TableUnchanged DEF CompleteRequest
<1>8. CASE FinishShutdown \/ DestroyManager
  <2>1. [v \in Users |-> OwnerOf(v)]' = [v \in Users |-> None]
    BY <1>8 DEF FinishShutdown, DestroyManager, DropEverything, OwnerOf
  <2>2. answer' = answer /\ told' = told
    BY <1>8 DEF FinishShutdown, DestroyManager, DropEverything
  <2>3. Logons!Stop
    BY <2>1, <2>2 DEF Logons!Stop
  <2> QED
    BY <2>3 DEF Logons!ANext
<1>9. CASE UNCHANGED vars
  BY <1>1, <1>9 DEF vars
<1>10. ASSUME NEW u \in Users, CloseUserSessions(u)
       PROVE  Logons!ANext \/ UNCHANGED Logons!avars
  BY <1>10, CloseUserRefines DEF Logons!ANext
<1>11. ASSUME NEW c \in Conns, CreateSessionTooLate(c)
                               \/ CreateSessionIncompatible(c)
       PROVE  UNCHANGED Logons!avars
  BY <1>4, <1>11 DEF CreateSessionTooLate, CreateSessionIncompatible,
                     FirstRequest, Answers
<1>12. ASSUME NEW c \in Conns, AuthenticationFails(c) \/ LoginRefused(c)
       PROVE  UNCHANGED Logons!avars
  BY <1>5, <1>12 DEF AuthenticationFails, LoginRefused, Answers
<1> HIDE DEF TypeOK
<1> QED
  BY <1>1, <1>2, <1>3, <1>6, <1>7, <1>8, <1>9, <1>10, <1>11, <1>12,
     LoginRefines
  DEF Next, OnSessionAccepted, Start, OnCreateSession, ProcessRequest, BeginShutdown

\* The server implements the logon table, for any number of users, connections
\* and sessions, with single- and multi-session accounts mixed.
THEOREM ServerImplementsLogonTable == Spec => ImplementsLogonTable
<1>1. Init => Logons!AInit
  BY DEF Init, Logons!AInit, OwnerOf
<1>2. TypeOK /\ IndInv /\ [Next]_vars => [Logons!ANext]_(Logons!avars)
  BY StepRefines
<1> QED
  BY <1>1, <1>2, InvariantHolds, PTL
  DEF Spec, ImplementsLogonTable, Logons!ASpec
=============================================================================
