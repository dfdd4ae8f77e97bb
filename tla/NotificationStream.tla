------------------------- MODULE NotificationStream -------------------------
(***************************************************************************)
(* What every MonitoredItemSubscription promises of its notifications: one *)
(* bounded queue, read in the order of the pushes, that reports at most    *)
(* one overflow in its life and is empty once it is closed.                *)
(* ItemFactoryStream and MultiplexStream implement it.                     *)
(***************************************************************************)
EXTENDS Naturals, Sequences

CONSTANTS Notification,  \* the notifications of the items
          Overflow,      \* the OverflowNotification
          MaxPending     \* max_pending_notifications

\* What is assumed of the constants.
Constants == MaxPending \in Nat /\ Overflow \notin Notification

VARIABLES pending, overflow_reported, closed

vars == <<pending, overflow_reported, closed>>

TypeOK ==
  /\ pending \in Seq(Notification \cup {Overflow})
  /\ overflow_reported \in BOOLEAN /\ closed \in BOOLEAN

Init == pending = <<>> /\ overflow_reported = FALSE /\ closed = FALSE

StartsWith(q, p) ==
  Len(p) <= Len(q) /\ \A n \in 1..Len(p) : q[n] = p[n]

\* One step pushes any number of notifications.  The queue grows to
\* MaxPending; the first push past that leaves the overflow marker behind.
Push ==
  /\ ~closed /\ pending' \in Seq(Notification \cup {Overflow})
  /\ StartsWith(pending', pending)
  /\ \/ /\ \A n \in (Len(pending) + 1)..Len(pending') : pending'[n] # Overflow
        /\ Len(pending') <= MaxPending \/ pending' = pending
        /\ overflow_reported' = overflow_reported
     \/ /\ ~overflow_reported /\ overflow_reported'
        /\ Len(pending') = MaxPending + 1
        /\ pending'[Len(pending')] = Overflow
        /\ \A n \in (Len(pending) + 1)..(Len(pending') - 1) :
             pending'[n] # Overflow
  /\ closed' = closed

\* The reader takes a batch off the front.
Take ==
  /\ ~closed
  /\ \E k \in 1..Len(pending) : pending' = SubSeq(pending, k + 1, Len(pending))
  /\ UNCHANGED <<overflow_reported, closed>>

Close ==
  /\ ~closed /\ closed' = TRUE /\ pending' = <<>>
  /\ overflow_reported' = overflow_reported

Next == Push \/ Take \/ Close

Spec == Init /\ [][Next]_vars

\* The queue holds at most max_pending_notifications and the one marker.
Bounded == Len(pending) <= MaxPending + 1

\* The marker is queued at most once, and only after overflow_reported is set.
OneOverflow ==
  /\ \A m, n \in 1..Len(pending) :
       pending[m] = Overflow /\ pending[n] = Overflow => m = n
  /\ ~overflow_reported => \A n \in 1..Len(pending) : pending[n] # Overflow
=============================================================================
