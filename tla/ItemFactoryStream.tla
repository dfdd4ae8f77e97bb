-------------------------- MODULE ItemFactoryStream --------------------------
(***************************************************************************)
(* ItemFactorySubscription: items made by a factory push into one queue,   *)
(* and one reader takes batches from it with ReadNext.  The items push from *)
(* any thread, so a step is one critical section of state_->mutex, or what *)
(* happens between two of them.                                            *)
(*                                                                         *)
(* The reader is a coroutine that parks with CallbackToAwaitable: the wake *)
(* is posted to its executor and resumes it later.  What becomes of a      *)
(* batch is the client's affair; here it is dropped and the reader reads   *)
(* again, as MonitoredItemSubscriptionPump::ReadLoop does.                 *)
(***************************************************************************)
EXTENDS Naturals, Sequences, FiniteSets

CONSTANTS Items,       \* the items a client adds
          MaxPending,  \* max_pending_notifications
          MaxBatch,    \* the smaller of max_count and max_batch_size
          MaxPushes,   \* bound on the notifications pushed
          None

\* A queue of length zero would report its overflow and wake nobody.
ASSUME ConstantsAssumption ==
  /\ MaxPending \in Nat \ {0} /\ MaxBatch \in Nat \ {0} /\ MaxPushes \in Nat
  /\ None \notin Items

VARIABLES
  items,              \* where each item stands
  pending, overflow_reported, closed,
  read_waiter,        \* whether a wake callback is stored
  reader,             \* where the ReadNext coroutine is
  batch,              \* what the last ReadNext returned
  pushes              \* how many notifications were pushed

queue == <<pending, overflow_reported, closed>>
vars == <<items, queue, read_waiter, reader, batch, pushes>>

\* A notification is the item and the number of the push that made it.
Notification == Items \X (1..MaxPushes)
Overflow == <<None, 0>>

\* No result yet, a batch, or the close status.
NoBatch == [status |-> "none", list |-> <<>>]
Batch(s) == [status |-> "good", list |-> s]
CloseStatus == [status |-> "closed", list |-> <<>>]

TypeOK ==
  /\ items \in [Items -> {"none", "making", "live", "refused", "removed"}]
  /\ pending \in Seq(Notification \cup {Overflow})
  /\ overflow_reported \in BOOLEAN /\ closed \in BOOLEAN
  /\ read_waiter \in BOOLEAN
  /\ reader \in {"idle", "parking", "parked", "woken"}
  /\ batch.status \in {"none", "good", "closed"}
  /\ batch.list \in Seq(Notification \cup {Overflow})
  /\ Len(batch.list) <= MaxBatch
  /\ pushes \in 0..MaxPushes

Init ==
  /\ items = [i \in Items |-> "none"]
  /\ pending = <<>> /\ overflow_reported = FALSE /\ closed = FALSE
  /\ read_waiter = FALSE /\ reader = "idle" /\ batch = NoBatch /\ pushes = 0

(***************************************************************************)
(* Adding and removing items                                               *)
(***************************************************************************)
\* AddItem up to the factory: a closed subscription refuses, and the factory
\* may have no item.
AddItem(i) ==
  /\ items[i] = "none"
  /\ \/ items' = [items EXCEPT ![i] = "refused"]
     \/ ~closed /\ items' = [items EXCEPT ![i] = "making"]
  /\ UNCHANGED <<queue, read_waiter, reader, batch, pushes>>

\* The rest of AddItem, which does not look at closed again.
SubscribeItem(i) ==
  /\ items[i] = "making"
  /\ items' = [items EXCEPT ![i] = "live"]
  /\ UNCHANGED <<queue, read_waiter, reader, batch, pushes>>

RemoveItem(i) ==
  /\ items[i] = "live"
  /\ items' = [items EXCEPT ![i] = "removed"]
  /\ UNCHANGED <<queue, read_waiter, reader, batch, pushes>>

(***************************************************************************)
(* Pushing and closing                                                     *)
(***************************************************************************)
\* The stored callback is taken out and called: the reader's resumption is
\* posted.
Wake ==
  /\ read_waiter' = FALSE
  /\ reader' = IF read_waiter THEN "woken" ELSE reader

\* Mutant: a full queue reports an overflow at every push.
OverflowEachTime(i) ==
  /\ items[i] = "live" /\ pushes < MaxPushes /\ ~closed
  /\ pushes' = pushes + 1
  /\ pending' = Append(pending, IF Len(pending) < MaxPending
                                THEN <<i, pushes + 1>> ELSE Overflow)
  /\ overflow_reported' = (overflow_reported \/ Len(pending) >= MaxPending)
  /\ Wake
  /\ UNCHANGED <<items, closed, batch>>

\* PushNotification.  A push into a full queue wakes nobody.
PushNotification(i) ==
  /\ items[i] = "live" /\ pushes < MaxPushes
  /\ pushes' = pushes + 1
  /\ \/ /\ ~closed /\ Len(pending) < MaxPending
        /\ pending' = Append(pending, <<i, pushes + 1>>)
        /\ Wake
        /\ UNCHANGED <<overflow_reported, closed>>
     \/ /\ ~closed /\ Len(pending) >= MaxPending
        /\ pending' = IF overflow_reported THEN pending
                      ELSE Append(pending, Overflow)
        /\ overflow_reported' = TRUE
        /\ UNCHANGED <<closed, read_waiter, reader>>
     \/ closed /\ UNCHANGED <<queue, read_waiter, reader>>
  /\ UNCHANGED <<items, batch>>

Close ==
  /\ ~closed
  /\ closed' = TRUE /\ pending' = <<>>
  /\ items' = [i \in Items |-> IF items[i] = "live" THEN "removed" ELSE items[i]]
  /\ Wake
  /\ UNCHANGED <<overflow_reported, batch, pushes>>

(***************************************************************************)
(* Reading                                                                 *)
(***************************************************************************)
\* ReadNext up to its park: the close status, a batch, or nothing yet.
ReadNext(max_count) ==
  /\ reader = "idle" /\ batch = NoBatch
  /\ LET count == IF Len(pending) < max_count THEN Len(pending) ELSE max_count IN
     \/ closed /\ batch' = CloseStatus /\ UNCHANGED <<pending, reader>>
     \/ /\ ~closed /\ count > 0
        /\ batch' = Batch(SubSeq(pending, 1, count))
        /\ pending' = SubSeq(pending, count + 1, Len(pending))
        /\ UNCHANGED reader
     \/ /\ ~closed /\ count = 0
        /\ reader' = "parking" /\ UNCHANGED <<pending, batch>>
  /\ UNCHANGED <<items, overflow_reported, closed, read_waiter, pushes>>

\* Mutant: the callback is stored without another look at the queue.
ParkBlindly ==
  /\ reader = "parking"
  /\ read_waiter' = TRUE /\ reader' = "parked"
  /\ UNCHANGED <<items, queue, batch, pushes>>

\* The initiation of CallbackToAwaitable.
Park ==
  /\ reader = "parking"
  /\ \/ /\ closed \/ pending # <<>>
        /\ reader' = "woken" /\ UNCHANGED read_waiter
     \/ /\ ~closed /\ pending = <<>>
        /\ read_waiter' = TRUE /\ reader' = "parked"
  /\ UNCHANGED <<items, queue, batch, pushes>>

\* The posted wake resumes the coroutine, which goes round its loop.
Resume ==
  /\ reader = "woken"
  /\ read_waiter' = FALSE /\ reader' = "idle"
  /\ UNCHANGED <<items, queue, batch, pushes>>

\* The client is done with a batch and reads again.
Handled ==
  /\ batch.status = "good" /\ batch' = NoBatch
  /\ UNCHANGED <<items, queue, read_waiter, reader, pushes>>

Next ==
  \/ \E i \in Items : AddItem(i) \/ SubscribeItem(i) \/ RemoveItem(i)
                      \/ PushNotification(i)
  \/ Close \/ ReadNext(MaxBatch) \/ Park \/ Resume \/ Handled

Spec == Init /\ [][Next]_vars

\* The reader's executor runs on; nobody has to push or close.
FairSpec ==
  /\ Spec
  /\ WF_vars(ReadNext(MaxBatch)) /\ WF_vars(Park) /\ WF_vars(Resume)
  /\ WF_vars(Handled)

(***************************************************************************)
(* Properties                                                              *)
(***************************************************************************)
\* A parked reader can be woken and has nothing to wake for: its callback is
\* stored, the queue is empty and the subscription open, although pushes and
\* Close come between the check of ReadNext and the park.
NoMissedWake ==
  /\ reader = "parked" => read_waiter /\ pending = <<>> /\ ~closed
  /\ read_waiter => reader = "parked"

Stream == INSTANCE NotificationStream

\* The queue, seen alone, is a NotificationStream: first in first out,
\* bounded, one overflow, empty once closed.
ImplementsStream == Stream!Spec
=============================================================================
