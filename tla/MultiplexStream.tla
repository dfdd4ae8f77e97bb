--------------------------- MODULE MultiplexStream ---------------------------
(***************************************************************************)
(* The merged notification stream of MultiplexingMonitoredItemSubscription *)
(* and the ServingGate in front of it: the pumps of the backends push, the *)
(* gate rewrites and sweeps, and readers park on a timer that a push       *)
(* cancels.  MultiplexRebind models the items' way to their backends.      *)
(*                                                                         *)
(* A reader's ReadNext has three sections: it looks into the queue, looks  *)
(* again and stores its timer as read_waiter, and starts the wait on the   *)
(* timer.  Cancelling a timer nobody waits on does nothing.  one_thread    *)
(* says whether the pumps, the gate's driver and the readers share one     *)
(* single-threaded executor, on which the sections follow each other.      *)
(***************************************************************************)
EXTENDS Naturals, Sequences, FiniteSets, SequencesExt

CONSTANTS
  Items,
  Readers,
  MaxPending,    \* max_pending_notifications
  ReadBatch,      \* max_batch_size
  MaxPushes,     \* bound: notifications of the backends
  MaxBlocks,     \* bound: transitions of the gate
  Deployments,   \* the values one_thread starts with
  NoReader

ASSUME MultiplexAssumption ==
  /\ MaxPending \in Nat \ {0} /\ ReadBatch \in Nat \ {0}
  /\ MaxPushes \in Nat /\ MaxBlocks \in Nat
  /\ Deployments \subseteq BOOLEAN /\ NoReader \notin Items \cup Readers

VARIABLES
  items,              \* each item: new, live or gone (ids are not reused)
  pending, overflow_reported, closed,
  read_waiter,        \* the reader whose timer is stored, or NoReader
  reader,             \* where each reader is in ReadNext
  gate,               \* allowed, and whether a sweep is still to come
  shown,              \* the status last delivered for each item
  pushes, blocks,
  one_thread          \* whether everything runs on one thread; never changes

queue == <<pending, overflow_reported, closed>>
vars == <<items, queue, read_waiter, reader, gate, shown, pushes, blocks,
          one_thread>>

\* good: a sample of the backend; blocked: its status is the gate's; failed:
\* the status of a backend that failed.
Status == {"good", "blocked", "failed"}
Notification == Items \X Status
Overflow == <<NoReader, "overflow">>

TypeOK ==
  /\ items \in [Items -> {"new", "live", "gone"}]
  /\ pending \in Seq(Notification \cup {Overflow}) /\ Len(pending) <= MaxPending + 1
  /\ overflow_reported \in BOOLEAN /\ closed \in BOOLEAN
  /\ read_waiter \in Readers \cup {NoReader}
  /\ reader \in [Readers -> {"idle", "looked", "stored", "waiting", "woken",
                             "busy", "closed"}]
  /\ gate \in [allowed : BOOLEAN, sweep : BOOLEAN]
  /\ shown \in [Items -> Status \cup {"none"}]
  /\ pushes \in 0..MaxPushes /\ blocks \in 0..MaxBlocks
  /\ one_thread \in Deployments

Init ==
  /\ items = [i \in Items |-> "new"]
  /\ pending = <<>> /\ overflow_reported = FALSE /\ closed = FALSE
  /\ read_waiter = NoReader /\ reader = [r \in Readers |-> "idle"]
  /\ gate = [allowed |-> TRUE, sweep |-> FALSE]
  /\ shown = [i \in Items |-> "none"] /\ pushes = 0 /\ blocks = 0
  /\ one_thread \in Deployments

Live == {i \in Items : items[i] = "live"}

\* Another actor may run now: on one executor only between two sections that
\* are not the reader's.
MayRun == one_thread => \A r \in Readers : reader[r] \notin {"looked", "stored"}

(***************************************************************************)
(* Pushing                                                                 *)
(***************************************************************************)
\* read_waiter->cancel() and reset(): the wait of the stored timer ends, if
\* it has begun.
Wake ==
  /\ read_waiter' = NoReader
  /\ reader' = IF read_waiter # NoReader /\ reader[read_waiter] = "waiting"
               THEN [reader EXCEPT ![read_waiter] = "woken"] ELSE reader

\* The queue after one more notification: a full one takes the overflow
\* marker, once.
Full == Len(pending) >= MaxPending

EnqueueLocked(n) ==
  \/ /\ ~Full
     /\ pending' = Append(pending, n) /\ Wake
     /\ UNCHANGED <<overflow_reported, closed>>
  \/ /\ Full
     /\ pending' = IF overflow_reported THEN pending ELSE Append(pending, Overflow)
     /\ overflow_reported' = TRUE
     /\ UNCHANGED <<closed, read_waiter, reader>>

\* Mutant: the sample is queued as the backend sent it.
PushUngated(i) ==
  /\ MayRun /\ items[i] # "new"
  /\ pushes < MaxPushes /\ pushes' = pushes + 1
  /\ \/ ~closed /\ EnqueueLocked(<<i, "good">>)
     \/ closed /\ UNCHANGED <<queue, read_waiter, reader>>
  /\ UNCHANGED <<items, gate, shown, blocks>>

\* PushNotification, from a pump: also an item already removed may still get
\* a notification of its backend.
PushNotification(i) ==
  /\ MayRun /\ items[i] # "new"
  /\ pushes < MaxPushes /\ pushes' = pushes + 1
  /\ \/ /\ ~closed
        /\ EnqueueLocked(<<i, IF gate.allowed THEN "good" ELSE "blocked">>)
     \/ closed /\ UNCHANGED <<queue, read_waiter, reader>>
  /\ UNCHANGED <<items, gate, shown, blocks>>

\* OnBackendFailed reports an item left without a backend; the gate is not
\* asked.
ReportFailure(i) ==
  /\ MayRun /\ pushes < MaxPushes /\ pushes' = pushes + 1
  /\ items[i] = "live" /\ ~closed
  /\ EnqueueLocked(<<i, "failed">>)
  /\ UNCHANGED <<items, gate, shown, blocks>>

AddItem(i) ==
  /\ MayRun /\ ~closed /\ items[i] = "new"
  /\ items' = [items EXCEPT ![i] = "live"]
  /\ UNCHANGED <<queue, read_waiter, reader, gate, shown, pushes, blocks>>

RemoveItem(i) ==
  /\ MayRun /\ items[i] = "live" /\ items' = [items EXCEPT ![i] = "gone"]
  /\ UNCHANGED <<queue, read_waiter, reader, gate, shown, pushes, blocks>>

\* Mutant: closing leaves the queue.
CloseKeepsQueue ==
  /\ MayRun /\ ~closed
  /\ closed' = TRUE /\ Wake
  /\ items' = [i \in Items |-> IF items[i] = "live" THEN "gone" ELSE items[i]]
  /\ UNCHANGED <<pending, overflow_reported, gate, shown, pushes, blocks>>

\* Close also drops the pumps and the rebinding, see MultiplexRebind.
Close ==
  /\ MayRun /\ ~closed
  /\ closed' = TRUE /\ pending' = <<>> /\ Wake
  /\ items' = [i \in Items |-> IF items[i] = "live" THEN "gone" ELSE items[i]]
  /\ UNCHANGED <<overflow_reported, gate, shown, pushes, blocks>>

(***************************************************************************)
(* The serving gate                                                        *)
(***************************************************************************)
\* SetBlocked under the gate's lock; the sweepers are called after it.
SetBlocked ==
  /\ MayRun /\ gate.allowed /\ blocks < MaxBlocks /\ blocks' = blocks + 1
  /\ gate' = [allowed |-> FALSE, sweep |-> TRUE]
  /\ UNCHANGED <<items, queue, read_waiter, reader, shown, pushes>>

\* The driver calls SetAllowed after SetBlocked returned.
SetAllowed ==
  /\ MayRun /\ ~gate.allowed /\ ~gate.sweep
  /\ gate' = [gate EXCEPT !.allowed = TRUE]
  /\ UNCHANGED <<items, queue, read_waiter, reader, shown, pushes, blocks>>

\* SweepBlocked queues the blocked status of every item, in the order of a
\* hash table, as far as the queue goes, and wakes the reader in any case.
SweepBlocked ==
  /\ MayRun /\ gate.sweep /\ gate' = [gate EXCEPT !.sweep = FALSE]
  /\ \/ closed /\ UNCHANGED <<queue, read_waiter, reader>>
     \/ /\ ~closed
        /\ \E order \in SetToSeqs(Live) :
             LET room == IF Full THEN 0 ELSE MaxPending - Len(pending)
                 fit == IF Len(order) < room THEN Len(order) ELSE room
                 swept == [n \in 1..fit |-> <<order[n], "blocked">>]
                 mark == fit < Len(order) /\ ~overflow_reported IN
             /\ pending' = pending \o swept \o (IF mark THEN <<Overflow>> ELSE <<>>)
             /\ overflow_reported' = (overflow_reported \/ mark)
        /\ Wake /\ UNCHANGED closed
  /\ UNCHANGED <<items, shown, pushes, blocks>>

(***************************************************************************)
(* Reading                                                                 *)
(***************************************************************************)
\* Takes a batch of at most ReadBatch notifications off the queue.
TakeBatch ==
  LET count == IF Len(pending) < ReadBatch THEN Len(pending) ELSE ReadBatch
      batch == SubSeq(pending, 1, count)
      last(i) == SelectLastInSeq(batch, LAMBDA x : x[1] = i) IN
  /\ pending' = SubSeq(pending, count + 1, Len(pending))
  /\ shown' = [i \in Items |-> IF last(i) = 0 THEN shown[i]
                               ELSE batch[last(i)][2]]

\* The first section of ReadNext: the close status, a batch, busy because
\* another reader is parked, or on to the park.
Look(r) ==
  /\ reader[r] \in {"idle", "busy"}
  /\ one_thread => \A q \in Readers \ {r} : reader[q] \notin {"looked", "stored"}
  /\ \/ /\ closed /\ reader' = [reader EXCEPT ![r] = "closed"]
        /\ UNCHANGED <<pending, shown>>
     \/ /\ ~closed /\ pending # <<>> /\ TakeBatch
        /\ reader' = [reader EXCEPT ![r] = "idle"]
     \/ /\ ~closed /\ pending = <<>> /\ read_waiter # NoReader
        /\ reader' = [reader EXCEPT ![r] = "busy"]
        /\ UNCHANGED <<pending, shown>>
     \/ /\ ~closed /\ pending = <<>> /\ read_waiter = NoReader
        /\ reader' = [reader EXCEPT ![r] = "looked"]
        /\ UNCHANGED <<pending, shown>>
  /\ UNCHANGED <<items, overflow_reported, closed, read_waiter, gate, pushes,
                 blocks>>

\* The second section: look again, and store the timer.
Store(r) ==
  /\ reader[r] = "looked"
  /\ \/ /\ closed \/ pending # <<>>
        /\ reader' = [reader EXCEPT ![r] = "idle"]
        /\ UNCHANGED read_waiter
     \/ /\ ~closed /\ pending = <<>>
        /\ read_waiter' = r /\ reader' = [reader EXCEPT ![r] = "stored"]
  /\ UNCHANGED <<items, queue, gate, shown, pushes, blocks>>

\* async_wait on a timer that never expires.
Wait(r) ==
  /\ reader[r] = "stored"
  /\ reader' = [reader EXCEPT ![r] = "waiting"]
  /\ UNCHANGED <<items, queue, read_waiter, gate, shown, pushes, blocks>>

\* The wait ended: the timer is forgotten, if it still is the stored one, and
\* ReadNext looks again.
Resume(r) ==
  /\ reader[r] = "woken" /\ MayRun
  /\ reader' = [reader EXCEPT ![r] = "idle"]
  /\ read_waiter' = IF read_waiter = r THEN NoReader ELSE read_waiter
  /\ UNCHANGED <<items, queue, gate, shown, pushes, blocks>>

Read(r) == Look(r) \/ Store(r) \/ Wait(r) \/ Resume(r)

Next ==
  /\ \/ \E i \in Items : PushNotification(i) \/ ReportFailure(i) \/ AddItem(i)
                         \/ RemoveItem(i)
     \/ Close \/ SetBlocked \/ SetAllowed \/ SweepBlocked
     \/ \E r \in Readers : Read(r)
  /\ UNCHANGED one_thread

Spec == Init /\ [][Next]_vars

(***************************************************************************)
(* Properties                                                              *)
(***************************************************************************)
\* The merged stream is a bounded first-in first-out queue with one overflow
\* marker, though the pumps of several backends, failures and sweeps feed it
\* (PushNotification, EnqueueLocked, SweepBlocked, ReadNext, Close).
Stream == INSTANCE NotificationStream
ImplementsStream == Stream!Spec

Occurs(i) == SelectLastInSeq(pending, LAMBDA x : x[1] = i)
Latest(i) == IF Occurs(i) = 0 THEN shown[i] ELSE pending[Occurs(i)][2]

\* Once the gate is blocked and has swept, no item's latest status is good, in
\* the queue or with the client: samples racing with the block are overtaken
\* by the sweep, later ones are rewritten.  A queue that overflowed may have
\* dropped the sweep (ServingGate: "live values do not leak").
NoLiveValueWhileBlocked ==
  ~gate.allowed /\ ~gate.sweep /\ ~closed /\ ~overflow_reported
     => \A i \in Live : Latest(i) # "good"

\* Where everything runs on one thread, a reader that waits can be woken and has
\* nothing to wake for: its timer is stored, the queue is empty and the
\* subscription open, whatever ran between the sections of ReadNext.  With the
\* pumps on other threads it does not hold, though docs/services.md wants every
\* implementation to wake a parked reader: a push between Store and Wait cancels
\* a timer nobody waits on yet (PushNotification, ReadNext).
WaitingIsWoken ==
  one_thread =>
    \A r \in Readers : reader[r] = "waiting"
                        => read_waiter = r /\ pending = <<>> /\ ~closed
=============================================================================
