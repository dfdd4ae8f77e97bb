----------------------------- MODULE LogonTable -----------------------------
(***************************************************************************)
(* What the server's logon administration promises, without sessions,      *)
(* stubs, back-pointers or in-flight coroutines: which connection each     *)
(* user is logged on through.  A connection logs on at most once; whoever  *)
(* is pushed out by another logon or by an administrator is told so, in    *)
(* the same step, unless the account allows several sessions (there the    *)
(* server keeps only the newest one and says nothing).                     *)
(***************************************************************************)
CONSTANTS Users, Conns, MultiUsers, None

VARIABLES owner,     \* owner[u]: the connection user u is logged on through
          used,      \* the connections that have logged on so far
          notified   \* the connections told that their session is gone

avars == <<owner, used, notified>>

AInit ==
  /\ owner = [u \in Users |-> None]
  /\ used = {}
  /\ notified = {}

\* A user nobody is logged on as is logged on through an unused connection.
LogOn(u, c) ==
  /\ owner[u] = None
  /\ c \notin used
  /\ owner' = [owner EXCEPT ![u] = c]
  /\ used' = used \cup {c}
  /\ UNCHANGED notified

\* The newcomer replaces the present owner, who is told (single-session users).
TakeOver(u, c) ==
  /\ owner[u] # None
  /\ c \notin used
  /\ owner' = [owner EXCEPT ![u] = c]
  /\ used' = used \cup {c}
  /\ notified' = IF u \in MultiUsers THEN notified
                                     ELSE notified \cup {owner[u]}

\* The owner loses the session to someone else's action and is told.
Evict(u) ==
  /\ owner[u] # None
  /\ owner' = [owner EXCEPT ![u] = None]
  /\ notified' = notified \cup {owner[u]}
  /\ UNCHANGED used

\* The owner leaves: logs off, or its connection is lost.
Leave(u) ==
  /\ owner[u] # None
  /\ owner' = [owner EXCEPT ![u] = None]
  /\ UNCHANGED <<used, notified>>

\* The server stops: nobody is logged on any more.
Stop ==
  /\ owner' = [u \in Users |-> None]
  /\ UNCHANGED <<used, notified>>

ANext ==
  \/ \E u \in Users, c \in Conns : LogOn(u, c) \/ TakeOver(u, c)
  \/ \E u \in Users : Evict(u) \/ Leave(u)
  \/ Stop

ASpec == AInit /\ [][ANext]_avars
=============================================================================
