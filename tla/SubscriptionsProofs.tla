------------------------- MODULE SubscriptionsProofs -------------------------
(***************************************************************************)
(* Proofs about subscriptions, for every set of items and every bound: the *)
(* stream every subscription promises, the queue of                        *)
(* ItemFactorySubscription that implements it, and the read of initial     *)
(* values over that queue.                                                 *)
(***************************************************************************)
EXTENDS InitialValues, FiniteSetTheorems, WellFoundedInduction, TLAPS

\* A step that names no prover is tried with these.
USE SMTT(30), ZenonT(30)


(***************************************************************************)
(* What a stream promises                                                  *)
(***************************************************************************)
\* The inductive invariant: a closed queue is empty, so a push cannot refill it.
StreamInv ==
  Stream!TypeOK /\ Stream!Bounded /\ Stream!OneOverflow /\ (closed => pending = <<>>)

\* What ReadNext leaves of the queue after a batch of k.
LEMMA TakeLemma ==
  ASSUME NEW S, NEW q \in Seq(S), NEW k \in 1..Len(q)
  PROVE  LET r == SubSeq(q, k + 1, Len(q)) IN
         /\ r \in Seq(S) /\ Len(r) = Len(q) - k
         /\ \A n \in 1..Len(r) : n + k \in 1..Len(q) /\ r[n] = q[n + k]
  OBVIOUS

\* A push keeps the queue bounded and its marker single.
LEMMA StreamPush ==
  ASSUME Stream!Constants, StreamInv, Stream!Push
  PROVE  StreamInv'
<1> USE DEF Stream!Constants
<1>1. Stream!TypeOK' /\ (closed => pending = <<>>)'
  BY Zenon DEF StreamInv, Stream!TypeOK, Stream!Push
<1>2. Stream!Bounded'
  BY DEF StreamInv, Stream!TypeOK, Stream!Push, Stream!Bounded
<1>3. Stream!OneOverflow'
  <2>1. CASE /\ \A n \in (Len(pending) + 1)..Len(pending') :
                  pending'[n] # Overflow
             /\ overflow_reported' = overflow_reported
    <3>1. \A n \in 1..Len(pending') :
            pending'[n] = Overflow => n \in 1..Len(pending)
                                      /\ pending[n] = Overflow
      BY <2>1 DEF StreamInv, Stream!TypeOK, Stream!Push, Stream!StartsWith
    <3> QED
      BY <2>1, <3>1 DEF StreamInv, Stream!OneOverflow
  <2>2. CASE /\ ~overflow_reported /\ overflow_reported'
             /\ \A n \in (Len(pending) + 1)..(Len(pending') - 1) :
                  pending'[n] # Overflow
    <3>1. \A n \in 1..Len(pending') :
            pending'[n] = Overflow => n = Len(pending')
      BY <2>2 DEF StreamInv, Stream!TypeOK, Stream!OneOverflow, Stream!Push, Stream!StartsWith
    <3> QED
      BY <2>2, <3>1 DEF Stream!OneOverflow
  <2> QED
    BY <2>1, <2>2 DEF Stream!Push
<1> QED
  BY <1>1, <1>2, <1>3 DEF StreamInv

\* So does taking a batch.
LEMMA StreamTake ==
  ASSUME Stream!Constants, StreamInv, Stream!Take
  PROVE  StreamInv'
<1> USE DEF Stream!Constants
<1>1. PICK k \in 1..Len(pending) :
        pending' = SubSeq(pending, k + 1, Len(pending))
  BY DEF Stream!Take
<1>2. /\ pending' \in Seq(Notification \cup {Overflow})
      /\ Len(pending') = Len(pending) - k
      /\ \A n \in 1..Len(pending') :
           n + k \in 1..Len(pending) /\ pending'[n] = pending[n + k]
  BY <1>1, TakeLemma DEF StreamInv, Stream!TypeOK
<1>3. Stream!Bounded'
  BY <1>2 DEF StreamInv, Stream!TypeOK, Stream!Bounded
<1>4. Stream!OneOverflow'
  <2>1. ASSUME NEW m \in 1..Len(pending'), NEW n \in 1..Len(pending'),
               pending'[m] = Overflow, pending'[n] = Overflow
        PROVE  m = n
    <3>1. m + k = n + k
      <4>1. /\ m + k \in 1..Len(pending) /\ pending[m + k] = Overflow
            /\ n + k \in 1..Len(pending) /\ pending[n + k] = Overflow
        BY <1>2, <2>1, Zenon
      <4> QED
        BY <4>1 DEF StreamInv, Stream!OneOverflow
    <3> QED
      BY <3>1
  <2>2. ASSUME ~overflow_reported', NEW n \in 1..Len(pending')
        PROVE  pending'[n] # Overflow
    BY <1>2, <2>2 DEF StreamInv, Stream!OneOverflow, Stream!Take
  <2> QED
    BY <2>1, <2>2 DEF Stream!OneOverflow
<1> QED
  BY <1>2, <1>3, <1>4 DEF StreamInv, Stream!TypeOK, Stream!Take

\* A queue that is pushed to, read and closed as the stream allows holds at
\* most max_pending_notifications and one marker, and never two markers.
THEOREM StreamIsBounded == Stream!Spec => [](Stream!Bounded /\ Stream!OneOverflow)
<1>0. Stream!Constants
  BY ConstantsAssumption DEF Stream!Constants, Notification, Overflow
<1>1. Stream!Init => StreamInv
  <2> SUFFICES ASSUME Stream!Init PROVE StreamInv
    OBVIOUS
  <2>1. pending = <<>> /\ Len(pending) = 0 /\ 1..Len(pending) = {}
    BY DEF Stream!Init
  <2>2. pending \in Seq(Notification \cup {Overflow})
    BY <2>1
  <2>3. Stream!TypeOK
    BY <2>2, Zenon DEF Stream!Init, Stream!TypeOK
  <2>4. Stream!Bounded
    BY <1>0, <2>1 DEF Stream!Constants, Stream!Bounded
  <2>5. Stream!OneOverflow
    BY <2>1 DEF Stream!OneOverflow
  <2> QED
    BY <2>1, <2>3, <2>4, <2>5 DEF StreamInv
<1>2. StreamInv /\ [Stream!Next]_Stream!vars => StreamInv'
  <2> SUFFICES ASSUME StreamInv, [Stream!Next]_Stream!vars PROVE StreamInv'
    OBVIOUS
  <2>1. CASE Stream!Push
    BY <1>0, <2>1, StreamPush
  <2>2. CASE Stream!Take
    BY <1>0, <2>2, StreamTake
  <2>3. CASE Stream!Close
    BY <1>0, <2>3 DEF Stream!Constants, Stream!Close, StreamInv, Stream!TypeOK,
                      Stream!Bounded, Stream!OneOverflow
  <2>4. CASE UNCHANGED Stream!vars
    BY <2>4 DEF Stream!vars, StreamInv, Stream!TypeOK, Stream!Bounded,
                Stream!OneOverflow
  <2> QED
    BY <2>1, <2>2, <2>3, <2>4 DEF Stream!Next
<1>3. StreamInv => Stream!Bounded /\ Stream!OneOverflow
  BY DEF StreamInv
<1> QED
  BY <1>1, <1>2, <1>3, PTL DEF Stream!Spec

(***************************************************************************)
(* The queue of ItemFactorySubscription                                    *)
(***************************************************************************)
\* Of the batch only its record shape matters to the wake.
QueueOK ==
  /\ pending \in Seq(Notification \cup {Overflow})
  /\ pushes \in 0..MaxPushes
  /\ overflow_reported \in BOOLEAN /\ closed \in BOOLEAN

\* What a batch of k leaves of a queue.
LEMMA RestOfQueue ==
  ASSUME NEW S, NEW q \in Seq(S), NEW k \in 1..Len(q)
  PROVE  SubSeq(q, k + 1, Len(q)) \in Seq(S)
  OBVIOUS

\* What ReadNext takes is a batch off the front, if it takes anything.
LEMMA ReadTakes ==
  ASSUME QueueOK, ReadNext(MaxBatch)
  PROVE  \/ pending' = pending
         \/ /\ ~closed
            /\ \E k \in 1..Len(pending) :
                 pending' = SubSeq(pending, k + 1, Len(pending))
<1> DEFINE count == IF Len(pending) < MaxBatch THEN Len(pending) ELSE MaxBatch
<1>1. CASE pending' # pending
  <2>1. ~closed /\ count > 0 /\ pending' = SubSeq(pending, count + 1, Len(pending))
    BY <1>1 DEF ReadNext
  <2>2. count \in 1..Len(pending)
    BY <2>1, ConstantsAssumption DEF QueueOK
  <2> HIDE DEF count
  <2> QED
    BY <2>1, <2>2
<1> QED
  BY <1>1

\* The queue of the subscription holds notifications of its items and markers,
\* and no more pushes are counted than the bound admits.
THEOREM QueueCorrect == Spec => []QueueOK
<1> USE ConstantsAssumption
<1>1. Init => QueueOK
  <2> SUFFICES ASSUME Init PROVE QueueOK
    OBVIOUS
  <2>1. pending \in Seq(Notification \cup {Overflow})
    <3>1. pending = <<>>
      BY DEF Init
    <3> QED
      BY <3>1
  <2>2. pushes \in 0..MaxPushes
    BY DEF Init
  <2>3. overflow_reported \in BOOLEAN /\ closed \in BOOLEAN
    BY Zenon DEF Init
  <2> QED
    BY <2>1, <2>2, <2>3 DEF QueueOK
<1>2. QueueOK /\ [Next]_vars => QueueOK'
  <2> SUFFICES ASSUME QueueOK, [Next]_vars PROVE QueueOK'
    OBVIOUS
  <2> USE DEF QueueOK, queue
  <2>1. ASSUME NEW i \in Items, AddItem(i) \/ SubscribeItem(i) \/ RemoveItem(i)
        PROVE  QueueOK'
    BY <2>1 DEF AddItem, SubscribeItem, RemoveItem
  <2>2. ASSUME NEW i \in Items, PushNotification(i)
        PROVE  QueueOK'
    <3>1. <<i, pushes + 1>> \in Notification \cup {Overflow}
      BY <2>2 DEF PushNotification, Notification
    <3>2. pushes' \in 0..MaxPushes
      BY <2>2 DEF PushNotification
    <3>3. pending' \in Seq(Notification \cup {Overflow})
      <4>1. \A n \in Notification \cup {Overflow} :
              Append(pending, n) \in Seq(Notification \cup {Overflow})
        OBVIOUS
      <4>2. \/ pending' = pending \/ pending' = Append(pending, Overflow)
            \/ pending' = Append(pending, <<i, pushes + 1>>)
        BY <2>2 DEF PushNotification
      <4> QED
        BY <3>1, <4>1, <4>2, Zenon
    <3>4. overflow_reported' \in BOOLEAN /\ closed' \in BOOLEAN
      BY <2>2, Zenon DEF PushNotification
    <3> QED
      BY <3>2, <3>3, <3>4
  <2>3. CASE Close
    BY <2>3 DEF Close
  <2>4. CASE ReadNext(MaxBatch)
    <3>1. pending' \in Seq(Notification \cup {Overflow})
      BY <2>4, ReadTakes, RestOfQueue, Zenon
    <3> QED
      BY <2>4, <3>1 DEF ReadNext
  <2>5. CASE Park \/ Resume \/ Handled
    BY <2>5 DEF Park, Resume, Handled
  <2>6. CASE UNCHANGED vars
    BY <2>6 DEF vars
  <2> QED
    BY <2>1, <2>2, <2>3, <2>4, <2>5, <2>6 DEF Next
<1> QED
  BY <1>1, <1>2, PTL DEF Spec

\* A reader that is parked has its callback stored, and the queue it waits on
\* is empty and open: between the check of ReadNext and the park, and between
\* the park and any push or Close, no wake is lost.
THEOREM WakeIsNeverMissed == Spec => []NoMissedWake
<1> USE ConstantsAssumption
<1>1. Init => NoMissedWake
  BY DEF Init, NoMissedWake
<1>2. NoMissedWake /\ [Next]_vars => NoMissedWake'
  <2> SUFFICES ASSUME NoMissedWake, [Next]_vars PROVE NoMissedWake'
    OBVIOUS
  <2> USE DEF NoMissedWake, queue
  <2>1. ASSUME NEW i \in Items, AddItem(i) \/ SubscribeItem(i) \/ RemoveItem(i)
        PROVE  NoMissedWake'
    BY <2>1 DEF AddItem, SubscribeItem, RemoveItem
  <2>2. ASSUME NEW i \in Items, PushNotification(i)
        PROVE  NoMissedWake'
    BY <2>2 DEF PushNotification, Wake
  <2>3. CASE Close
    BY <2>3 DEF Close, Wake
  <2>4. CASE ReadNext(MaxBatch)
    BY <2>4, Zenon DEF ReadNext
  <2>5. CASE Park
    BY <2>5 DEF Park
  <2>6. CASE Resume \/ Handled
    BY <2>6 DEF Resume, Handled
  <2>7. CASE UNCHANGED vars
    BY <2>7 DEF vars
  <2> QED
    BY <2>1, <2>2, <2>3, <2>4, <2>5, <2>6, <2>7 DEF Next
<1> QED
  BY <1>1, <1>2, PTL DEF Spec

\* Before the overflow is reported the queue is no longer than its limit; so
\* the marker always goes to the place after it.
QueueBound == ~overflow_reported => Len(pending) <= MaxPending

\* The bound is kept by every step.
LEMMA BoundKept ==
  ASSUME QueueOK, QueueBound, [Next]_vars
  PROVE  QueueBound'
<1> USE ConstantsAssumption DEF QueueOK, QueueBound, queue
<1>1. ASSUME NEW i \in Items, AddItem(i) \/ SubscribeItem(i) \/ RemoveItem(i)
      PROVE  QueueBound'
  BY <1>1 DEF AddItem, SubscribeItem, RemoveItem
<1>2. ASSUME NEW i \in Items, PushNotification(i)
      PROVE  QueueBound'
  BY <1>2 DEF PushNotification
<1>3. CASE Close
  BY <1>3 DEF Close
<1>4. CASE ReadNext(MaxBatch)
  <2>1. overflow_reported' = overflow_reported
    BY <1>4 DEF ReadNext
  <2>2. CASE pending' = pending
    BY <2>1, <2>2
  <2>3. ASSUME NEW k \in 1..Len(pending),
               pending' = SubSeq(pending, k + 1, Len(pending))
        PROVE  Len(pending') <= Len(pending)
    BY <2>3
  <2> QED
    BY <1>4, <2>1, <2>2, <2>3, ReadTakes
<1>5. CASE Park \/ Resume \/ Handled
  BY <1>5 DEF Park, Resume, Handled
<1>6. CASE UNCHANGED vars
  BY <1>6 DEF vars
<1> QED
  BY <1>1, <1>2, <1>3, <1>4, <1>5, <1>6 DEF Next

\* A push of the subscription is a push of the stream, or drops the
\* notification without a trace.
LEMMA PushRefines ==
  ASSUME QueueOK, QueueOK', QueueBound, NEW i \in Items, PushNotification(i)
  PROVE  Stream!Push \/ UNCHANGED queue
<1> USE ConstantsAssumption
<1> DEFINE n == <<i, pushes + 1>>
<1>1. CASE ~closed /\ Len(pending) < MaxPending
  <2>1. /\ pending' = Append(pending, n) /\ closed' = closed
        /\ overflow_reported' = overflow_reported
    BY <1>1 DEF PushNotification, QueueOK
  <2>2. n # Overflow
    BY DEF Overflow
  <2>3. /\ Len(pending') = Len(pending) + 1
        /\ pending'[Len(pending')] = n
        /\ \A m \in 1..Len(pending) : pending'[m] = pending[m]
    <3> HIDE DEF n
    <3> QED
      BY <2>1 DEF QueueOK
  <2>4. \A m \in (Len(pending) + 1)..Len(pending') : pending'[m] # Overflow
    <3>1. \A m \in (Len(pending) + 1)..Len(pending') : m = Len(pending')
      BY <2>3 DEF QueueOK
    <3> QED
      BY <2>2, <2>3, <3>1
  <2>5. Len(pending') <= MaxPending
    BY <1>1, <2>3 DEF QueueOK
  <2>6. Stream!StartsWith(pending', pending)
    BY <2>3 DEF QueueOK, Stream!StartsWith
  <2> QED
    BY <1>1, <2>1, <2>4, <2>5, <2>6 DEF Stream!Push, QueueOK
<1>2. CASE ~closed /\ Len(pending) >= MaxPending /\ ~overflow_reported
  <2>1. /\ pending' = Append(pending, Overflow) /\ closed' = closed
        /\ overflow_reported'
    BY <1>2 DEF PushNotification, QueueOK
  <2>2. /\ Len(pending') = MaxPending + 1
        /\ Len(pending) = MaxPending
        /\ pending'[Len(pending')] = Overflow
        /\ \A m \in 1..Len(pending) : pending'[m] = pending[m]
    BY <1>2, <2>1 DEF QueueOK, QueueBound
  <2>3. Stream!StartsWith(pending', pending)
    BY <2>2 DEF QueueOK, Stream!StartsWith
  <2>4. \A m \in (Len(pending) + 1)..(Len(pending') - 1) :
          pending'[m] # Overflow
    BY <2>2
  <2> QED
    BY <1>2, <2>1, <2>2, <2>3, <2>4, Zenon DEF Stream!Push, QueueOK
<1>3. CASE ~closed /\ Len(pending) >= MaxPending /\ overflow_reported
  <2>1. ~(Len(pending) < MaxPending)
    BY <1>3 DEF QueueOK
  <2>2. /\ pending' = IF overflow_reported THEN pending
                      ELSE Append(pending, Overflow)
        /\ overflow_reported' = TRUE /\ closed' = closed
    BY <1>3, <2>1, Zenon DEF PushNotification
  <2>3. overflow_reported = TRUE
    BY <1>3 DEF QueueOK
  <2> QED
    BY <2>2, <2>3 DEF queue
<1>4. CASE closed
  BY <1>4 DEF PushNotification, queue
<1>5. Len(pending) < MaxPending \/ Len(pending) >= MaxPending
  BY DEF QueueOK
<1> QED
  BY <1>1, <1>2, <1>3, <1>4, <1>5

\* Every step of the subscription is a step of the stream or leaves the queue
\* alone.
LEMMA StepRefines ==
  ASSUME QueueOK, QueueOK', QueueBound, [Next]_vars
  PROVE  [Stream!Next]_Stream!vars
<1> USE DEF queue, Stream!vars, Stream!Next
<1>1. ASSUME NEW i \in Items, AddItem(i) \/ SubscribeItem(i) \/ RemoveItem(i)
      PROVE  UNCHANGED queue
  BY <1>1 DEF AddItem, SubscribeItem, RemoveItem
<1>2. ASSUME NEW i \in Items, PushNotification(i)
      PROVE  Stream!Push \/ UNCHANGED queue
  BY <1>2, PushRefines
<1>3. CASE Close
  BY <1>3, Zenon DEF Close, Stream!Close
<1>4. CASE ReadNext(MaxBatch)
  <2>1. UNCHANGED <<overflow_reported, closed>>
    BY <1>4 DEF ReadNext
  <2> QED
    BY <1>4, <2>1, ReadTakes DEF Stream!Take
<1>5. CASE Park \/ Resume \/ Handled
  BY <1>5 DEF Park, Resume, Handled
<1>6. CASE UNCHANGED vars
  BY <1>6 DEF vars
<1> QED
  BY <1>1, <1>2, <1>3, <1>4, <1>5, <1>6 DEF Next

\* The queue of ItemFactorySubscription, under any interleaving of pushes,
\* reads and the closing, is a NotificationStream.
THEOREM StreamIsImplemented == Spec => ImplementsStream
<1>1. Init => Stream!Init /\ QueueBound
  <2> SUFFICES ASSUME Init PROVE Stream!Init /\ QueueBound
    OBVIOUS
  <2>1. pending = <<>> /\ Len(pending) = 0
    BY DEF Init
  <2> QED
    BY <2>1, ConstantsAssumption DEF Init, Stream!Init, QueueBound
<1>2. QueueOK /\ QueueBound /\ [Next]_vars => QueueBound'
  BY BoundKept
<1>3. QueueOK /\ QueueOK' /\ QueueBound /\ [Next]_vars
        => [Stream!Next]_Stream!vars
  BY StepRefines
<1> QED
  BY <1>1, <1>2, <1>3, QueueCorrect, PTL DEF Spec, ImplementsStream, Stream!Spec

(***************************************************************************)
(* The read of initial values                                              *)
(***************************************************************************)
Entry == Notification \cup {Overflow}

Result == ({"none", "error"} \X {0}) \cup ({"value"} \X (1..MaxPushes))

Missing == {i \in Items : results[i] = NoResult}

ReadTypes ==
  /\ pending \in Seq(Entry) /\ pushes \in 0..MaxPushes
  /\ overflow_reported \in BOOLEAN /\ closed \in BOOLEAN
  /\ batch \in [status : {"none", "good", "closed"}, list : Seq(Entry)]
  /\ batch.status # "good" => batch.list = <<>>
  /\ results \in [Items -> Result] /\ first \in [Items -> 0..MaxPushes]

\* remaining counts the results that are missing.
CountsMissing == remaining = Cardinality(Missing)

Settled(s, i) == \E n \in 1..Len(s) : Settles(s[n], i)
Marked(s) == \E n \in 1..Len(s) : s[n] = Overflow

\* What settles item i first in s is the overflow or value v.
FirstIs(s, i, v) ==
  \A n \in 1..Len(s) :
    Settles(s[n], i) /\ (\A m \in 1..(n - 1) : ~Settles(s[m], i))
      => s[n] = Overflow \/ s[n] = <<i, v>>

\* Of an item without result, what is under way (first the batch, then the
\* queue) settles it with its first value or an overflow; and nothing that was
\* pushed for it is lost unless an overflow is under way too.
UnderWay(i) ==
  /\ FirstIs(batch.list, i, first[i])
  /\ Settled(batch.list, i) \/ FirstIs(pending, i, first[i])
  /\ first[i] # 0 /\ ~closed => Settled(batch.list, i) \/ Settled(pending, i)
  /\ overflow_reported /\ ~closed => Marked(batch.list) \/ Marked(pending)

ReadInv ==
  /\ ReadTypes /\ CountsMissing /\ NoMissedWake
  /\ \A i \in Items : results[i] = NoResult => UnderWay(i)
  /\ FirstValueIsRead

\* Every nonempty set of naturals has a least element.
LEMMA LeastNat ==
  ASSUME NEW T, T \subseteq Nat, T # {}
  PROVE  \E x \in T : \A y \in T : x <= y
<1>1. PICK x \in T : \A y \in T : <<y, x>> \notin OpToRel(<, Nat)
  <2> DEFINE R == OpToRel(<, Nat)
  <2>1. IsWellFoundedOn(R, Nat)
    BY NatLessThanWellFounded, Zenon
  <2> HIDE DEF R
  <2>2. \E x \in T : \A y \in T : ~ (<<y, x>> \in R)
    BY <2>1, WFMin, Zenon
  <2> QED
    BY <2>2, Zenon DEF R
<1>2. ASSUME NEW y \in T PROVE x <= y
  <2>1. <<y, x>> \notin {ss \in Nat \X Nat : ss[1] < ss[2]}
    BY <1>1, Zenon DEF OpToRel
  <2>2. <<y, x>> \in Nat \X Nat
    OBVIOUS
  <2>3. ~(y < x)
    BY <2>1, <2>2
  <2> QED
    BY <2>3
<1> QED
  BY <1>2

\* An entry of the queue is the overflow, which settles every item, or a
\* notification, which settles its own.
LEMMA EntryKinds ==
  ASSUME NEW i \in Items
  PROVE  /\ Overflow \in Entry /\ Settles(Overflow, i)
         /\ \A x \in Entry :
              \/ x = Overflow
              \/ /\ x # Overflow /\ x[1] \in Items /\ x[2] \in 1..MaxPushes
                 /\ x = <<x[1], x[2]>>
                 /\ Settles(x, i) <=> x[1] = i
  BY ConstantsAssumption DEF Entry, Notification, Overflow, Settles

\* What a batch gives an item: nothing, or what settles it first.
LEMMA BatchResult ==
  ASSUME NEW list \in Seq(Entry), NEW i \in Items, NEW v \in 0..MaxPushes,
         FirstIs(list, i, v)
  PROVE  /\ ~Settled(list, i) => AfterBatch(list)[i] = NoResult
         /\ Settled(list, i) => \/ AfterBatch(list)[i] = Failed
                                \/ v # 0 /\ AfterBatch(list)[i] = Value(v)
<1>1. CASE ~Settled(list, i)
  BY <1>1 DEF Settled, AfterBatch
<1>2. CASE Settled(list, i)
  <2> DEFINE P(n) == /\ Settles(list[n], i)
                     /\ \A m \in 1..(n - 1) : ~Settles(list[m], i)
             T == {n \in 1..Len(list) : Settles(list[n], i)}
             n == CHOOSE k \in 1..Len(list) : P(k)
  <2>1. \E k \in 1..Len(list) : P(k)
    <3>1. T \subseteq Nat /\ T # {}
      BY <1>2 DEF Settled
    <3>2. PICK k \in T : \A y \in T : k <= y
      BY <3>1, LeastNat, Zenon
    <3>3. \A m \in 1..(k - 1) : m \in 1..Len(list) /\ ~(k <= m)
      OBVIOUS
    <3> QED
      BY <3>2, <3>3
  <2>2. n \in 1..Len(list) /\ P(n)
    BY <2>1
  <2>3. AfterBatch(list)[i] = ResultOf(list[n])
    BY <1>2 DEF Settled, AfterBatch
  <2>4. list[n] = Overflow \/ list[n] = <<i, v>>
    BY <2>2, SMTT(30) DEF FirstIs
  <2>5. list[n] \in Entry
    BY <2>2
  <2> HIDE DEF n
  <2>6. CASE list[n] = Overflow
    BY <2>3, <2>6, <1>2 DEF ResultOf
  <2>7. CASE list[n] # Overflow /\ list[n] = <<i, v>>
    <3>1. v \in 1..MaxPushes
      BY <2>5, <2>7, EntryKinds
    <3>2. ResultOf(list[n]) = Value(v)
      BY <2>7 DEF ResultOf
    <3> QED
      BY <1>2, <2>3, <3>1, <3>2
  <2> QED
    BY <2>4, <2>6, <2>7
<1> QED
  BY <1>1, <1>2

\* What an entry at the end of a queue changes.
LEMMA AppendedEntry ==
  ASSUME NEW s \in Seq(Entry), NEW x \in Entry, NEW i \in Items, NEW v
  PROVE  /\ Settled(s, i) \/ Settles(x, i) => Settled(Append(s, x), i)
         /\ Marked(s) \/ x = Overflow => Marked(Append(s, x))
         /\ /\ FirstIs(s, i, v)
            /\ Settled(s, i) \/ ~Settles(x, i) \/ x = Overflow \/ x = <<i, v>>
            => FirstIs(Append(s, x), i, v)
<1> DEFINE t == Append(s, x)
<1>1. /\ t \in Seq(Entry) /\ Len(t) = Len(s) + 1 /\ t[Len(t)] = x
      /\ \A n \in 1..Len(s) : t[n] = s[n]
      /\ 1..Len(t) = (1..Len(s)) \cup {Len(t)} /\ Len(t) \in 1..Len(t)
  OBVIOUS
<1> HIDE DEF t
<1>2. Settled(s, i) \/ Settles(x, i) => Settled(t, i)
  BY <1>1 DEF Settled
<1>3. Marked(s) \/ x = Overflow => Marked(t)
  BY <1>1 DEF Marked
<1>4. ASSUME FirstIs(s, i, v),
             Settled(s, i) \/ ~Settles(x, i) \/ x = Overflow \/ x = <<i, v>>,
             NEW n \in 1..Len(t), Settles(t[n], i),
             \A m \in 1..(n - 1) : ~Settles(t[m], i)
      PROVE  t[n] = Overflow \/ t[n] = <<i, v>>
  <2>1. CASE n \in 1..Len(s)
    <3>1. \A m \in 1..(n - 1) : m \in 1..Len(s)
      BY <2>1
    <3> QED
      BY <1>1, <1>4, <2>1, <3>1 DEF FirstIs
  <2>2. CASE n = Len(t)
    <3>1. 1..(n - 1) = 1..Len(s)
      BY <1>1, <2>2
    <3>2. ~Settled(s, i)
      BY <1>1, <1>4, <3>1 DEF Settled
    <3> QED
      BY <1>1, <1>4, <2>2, <3>2
  <2> QED
    BY <1>1, <2>1, <2>2
<1> QED
  BY <1>2, <1>3, <1>4 DEF FirstIs, t

\* A queue cut in two: what settled an item is in one of the parts, and first
\* in the second only if not in the first.
LEMMA CutQueue ==
  ASSUME NEW s \in Seq(Entry), NEW c \in 1..Len(s), NEW i \in Items, NEW v
  PROVE  LET a == SubSeq(s, 1, c)
             b == SubSeq(s, c + 1, Len(s)) IN
         /\ a \in Seq(Entry) /\ b \in Seq(Entry)
         /\ Settled(s, i) => Settled(a, i) \/ Settled(b, i)
         /\ Marked(s) => Marked(a) \/ Marked(b)
         /\ FirstIs(s, i, v) => FirstIs(a, i, v) /\ (Settled(a, i) \/ FirstIs(b, i, v))
<1> DEFINE a == SubSeq(s, 1, c)
           b == SubSeq(s, c + 1, Len(s))
<1>1. /\ a \in Seq(Entry) /\ Len(a) = c /\ \A n \in 1..c : a[n] = s[n]
  OBVIOUS
<1>2. /\ b \in Seq(Entry) /\ Len(b) = Len(s) - c
      /\ \A n \in 1..Len(b) : n + c \in 1..Len(s) /\ b[n] = s[n + c]
  BY TakeLemma
<1>3. \A n \in 1..Len(s) : n \in 1..c \/ (n - c \in 1..Len(b) /\ (n - c) + c = n)
  BY <1>2
<1> HIDE DEF a, b
<1>4. Settled(s, i) => Settled(a, i) \/ Settled(b, i)
  <2> SUFFICES ASSUME NEW n \in 1..Len(s), Settles(s[n], i)
               PROVE  Settled(a, i) \/ Settled(b, i)
    BY DEF Settled
  <2>1. CASE n \in 1..c
    BY <1>1, <2>1 DEF Settled
  <2>2. CASE n - c \in 1..Len(b) /\ (n - c) + c = n
    <3>1. b[n - c] = s[n]
      BY <1>2, <2>2
    <3> QED
      BY <2>2, <3>1 DEF Settled
  <2> QED
    BY <1>3, <2>1, <2>2
<1>5. Marked(s) => Marked(a) \/ Marked(b)
  <2> SUFFICES ASSUME NEW n \in 1..Len(s), s[n] = Overflow
               PROVE  Marked(a) \/ Marked(b)
    BY DEF Marked
  <2>1. CASE n \in 1..c
    BY <1>1, <2>1 DEF Marked
  <2>2. CASE n - c \in 1..Len(b) /\ (n - c) + c = n
    <3>1. b[n - c] = s[n]
      BY <1>2, <2>2
    <3> QED
      BY <2>2, <3>1 DEF Marked
  <2> QED
    BY <1>3, <2>1, <2>2
<1>6. ASSUME FirstIs(s, i, v)
      PROVE  FirstIs(a, i, v)
  <2> SUFFICES ASSUME NEW n \in 1..Len(a), Settles(a[n], i),
                      \A m \in 1..(n - 1) : ~Settles(a[m], i)
               PROVE  a[n] = Overflow \/ a[n] = <<i, v>>
    BY DEF FirstIs
  <2>1. n \in 1..c /\ n \in 1..Len(s) /\ \A m \in 1..(n - 1) : m \in 1..c
    BY <1>1
  <2> QED
    BY <1>1, <1>6, <2>1 DEF FirstIs
<1>7. ASSUME FirstIs(s, i, v), ~Settled(a, i)
      PROVE  FirstIs(b, i, v)
  <2> SUFFICES ASSUME NEW n \in 1..Len(b), Settles(b[n], i),
                      \A m \in 1..(n - 1) : ~Settles(b[m], i)
               PROVE  b[n] = Overflow \/ b[n] = <<i, v>>
    BY DEF FirstIs
  <2>1. n + c \in 1..Len(s) /\ b[n] = s[n + c]
    BY <1>2
  <2>2. ASSUME NEW m \in 1..((n + c) - 1)
        PROVE  ~Settles(s[m], i)
    <3>1. CASE m \in 1..c
      BY <1>1, <1>7, <3>1 DEF Settled
    <3>2. CASE m - c \in 1..(n - 1)
      <4>1. m - c \in 1..Len(b) /\ (m - c) + c = m
        BY <3>2, <1>2
      <4>2. b[m - c] = s[m]
        BY <1>2, <4>1
      <4> QED
        BY <3>2, <4>2
    <3> QED
      BY <3>1, <3>2
  <2> QED
    BY <1>7, <2>1, <2>2 DEF FirstIs
<1> QED
  BY <1>1, <1>2, <1>4, <1>5, <1>6, <1>7 DEF a, b

\* As long as an item has pushed nothing, only an overflow can settle it first;
\* so whatever is its first value then.
LEMMA NothingPushed ==
  ASSUME NEW s \in Seq(Entry), NEW i \in Items, NEW v, FirstIs(s, i, 0)
  PROVE  FirstIs(s, i, v)
  BY EntryKinds DEF FirstIs
\* Completing: a result is given only where one is missing, and remaining is
\* counted down by what was given.
LEMMA CompleteEffect ==
  ASSUME ReadTypes, CountsMissing, NEW given \in [Items -> Result], Complete(given)
  PROVE  /\ results' \in [Items -> Result] /\ CountsMissing'
         /\ \A i \in Items : results'[i] = IF results[i] = NoResult THEN given[i]
                                           ELSE results[i]
<1> DEFINE done == {i \in Items : results[i] = NoResult /\ given[i] # NoResult}
<1>1. results' = [i \in Items |-> IF i \in done THEN given[i] ELSE results[i]]
  BY DEF Complete
<1>2. results' \in [Items -> Result]
  BY <1>1 DEF ReadTypes
<1>3. \A i \in Items : results'[i] = IF results[i] = NoResult THEN given[i]
                                     ELSE results[i]
  BY <1>1
<1>4. Missing' = Missing \ done
  BY <1>3 DEF Missing
<1>5. IsFiniteSet(Missing)
  BY ItemsAssumption, FS_Subset DEF Missing
<1>6. done \subseteq Missing /\ Missing \cap done = done
  BY DEF Missing
<1>7. remaining' = remaining - Cardinality(done)
  BY DEF Complete
<1> HIDE DEF done
<1>8. Cardinality(Missing \ done) = Cardinality(Missing) - Cardinality(Missing \cap done)
  BY <1>5, FS_Difference, Zenon
<1> QED
  BY <1>2, <1>3, <1>4, <1>6, <1>7, <1>8 DEF CountsMissing

\* What every step that completes items keeps, when it also keeps the queue and
\* gives failures only.
LEMMA FailAllKeeps ==
  ASSUME ReadInv, NEW S, Complete(FailAll(S)), UNCHANGED <<vars, first>>
  PROVE  ReadInv'
<1>1. FailAll(S) \in [Items -> Result]
  BY DEF FailAll, Failed, NoResult, Result
<1>2. /\ results' \in [Items -> Result] /\ CountsMissing'
      /\ \A i \in Items : results'[i] = IF results[i] = NoResult THEN FailAll(S)[i]
                                        ELSE results[i]
  BY <1>1, CompleteEffect DEF ReadInv
<1>3. ReadTypes'
  BY <1>2 DEF ReadInv, ReadTypes, vars, queue
<1>4. NoMissedWake'
  BY DEF ReadInv, NoMissedWake, vars, queue
<1>5. ASSUME NEW i \in Items, results'[i] = NoResult
      PROVE  UnderWay(i)'
  <2>1. UnderWay(i)
    BY <1>2, <1>5 DEF ReadInv
  <2> QED
    BY <2>1 DEF UnderWay, vars, queue
<1>6. FirstValueIsRead'
  <2> SUFFICES ASSUME NEW i \in Items, results'[i][1] = "value"
               PROVE  results'[i] = Value(first[i])
    BY DEF FirstValueIsRead
  <2>1. FailAll(S)[i] \in {Failed, NoResult}
    BY DEF FailAll
  <2>2. results'[i] = results[i]
    BY <1>2, <2>1 DEF Failed, NoResult
  <2> QED
    BY <2>2 DEF ReadInv, FirstValueIsRead
<1> QED
  BY <1>2, <1>3, <1>4, <1>5, <1>6 DEF ReadInv

\* The batch gives the items it settles their first value or the overflow's
\* failure; the queue decides on the others.
LEMMA HandleBatchKeeps ==
  ASSUME ReadInv, HandleBatch
  PROVE  ReadInv'
<1> DEFINE list == batch.list
<1>1. /\ Complete(AfterBatch(list)) /\ batch' = NoBatch
      /\ UNCHANGED <<items, queue, read_waiter, reader, pushes, first>>
  BY DEF HandleBatch
<1>2. list \in Seq(Entry) /\ first \in [Items -> 0..MaxPushes]
  BY DEF ReadInv, ReadTypes
<1>3. \A i \in Items : results[i] = NoResult => FirstIs(list, i, first[i])
  BY DEF ReadInv, UnderWay
<1> HIDE DEF list
<1>4. AfterBatch(list) \in [Items -> Result]
  <2> SUFFICES ASSUME NEW i \in Items PROVE AfterBatch(list)[i] \in Result
    BY DEF AfterBatch
  <2>1. \A x \in Entry : ResultOf(x) \in Result
    BY EntryKinds DEF ResultOf, Failed, Value, Result
  <2>2. CASE \E n \in 1..Len(list) : Settles(list[n], i)
    <3> DEFINE P(n) == /\ Settles(list[n], i)
                       /\ \A m \in 1..(n - 1) : ~Settles(list[m], i)
               T == {n \in 1..Len(list) : Settles(list[n], i)}
    <3>1. T \subseteq Nat /\ T # {}
      BY <2>2
    <3>2. PICK k \in T : \A y \in T : k <= y
      BY <3>1, LeastNat, Zenon
    <3>3. \A m \in 1..(k - 1) : m \in 1..Len(list) /\ ~(k <= m)
      BY <1>2
    <3>4. P(k)
      BY <3>2, <3>3
    <3>5. (CHOOSE n \in 1..Len(list) : P(n)) \in 1..Len(list)
      BY <3>4
    <3>6. list[CHOOSE n \in 1..Len(list) : P(n)] \in Entry
      BY <3>5, <1>2
    <3> QED
      BY <2>1, <2>2, <3>6 DEF AfterBatch
  <2>3. CASE ~\E n \in 1..Len(list) : Settles(list[n], i)
    BY <2>3 DEF AfterBatch, NoResult, Result
  <2> QED
    BY <2>2, <2>3
<1>5. /\ results' \in [Items -> Result] /\ CountsMissing'
      /\ \A i \in Items : results'[i] = IF results[i] = NoResult THEN AfterBatch(list)[i]
                                        ELSE results[i]
  BY <1>1, <1>4, CompleteEffect DEF ReadInv
<1>6. ReadTypes'
  BY <1>1, <1>5 DEF ReadInv, ReadTypes, queue, NoBatch
<1>7. NoMissedWake'
  BY <1>1 DEF ReadInv, NoMissedWake, queue
<1>8. ASSUME NEW i \in Items, results[i] = NoResult, Settled(list, i)
      PROVE  \/ results'[i] = Failed
             \/ first[i] # 0 /\ results'[i] = Value(first[i])
  <2>1. FirstIs(list, i, first[i]) /\ first[i] \in 0..MaxPushes
    BY <1>2, <1>3, <1>8
  <2> QED
    BY <1>2, <1>5, <1>8, <2>1, BatchResult
<1>9. ASSUME NEW i \in Items, results'[i] = NoResult
      PROVE  UnderWay(i)'
  <2>1. results[i] = NoResult /\ ~Settled(list, i)
    BY <1>5, <1>8, <1>9 DEF NoResult, Failed, Value
  <2>2. ~Marked(list)
    BY <2>1, EntryKinds DEF Marked, Settled
  <2>3. /\ FirstIs(pending, i, first[i])
        /\ first[i] # 0 /\ ~closed => Settled(pending, i)
        /\ overflow_reported /\ ~closed => Marked(pending)
    BY <2>1, <2>2 DEF ReadInv, UnderWay, list
  <2>4. batch'.list = <<>> /\ FirstIs(<<>>, i, first[i])
    BY <1>1 DEF NoBatch, FirstIs
  <2>5. UNCHANGED <<pending, closed, overflow_reported, first>>
    BY <1>1 DEF queue
  <2> QED
    BY <2>3, <2>4, <2>5 DEF UnderWay
<1>10. FirstValueIsRead'
  <2> SUFFICES ASSUME NEW i \in Items, results'[i][1] = "value"
               PROVE  results'[i] = Value(first[i])
    BY <1>1 DEF FirstValueIsRead
  <2>1. CASE results[i] # NoResult
    BY <1>5, <2>1 DEF ReadInv, FirstValueIsRead
  <2>2. CASE results[i] = NoResult /\ Settled(list, i)
    BY <1>8, <2>2 DEF Failed
  <2>3. CASE results[i] = NoResult /\ ~Settled(list, i)
    <3>1. results'[i] = NoResult
      BY <1>2, <1>3, <1>5, <2>3, BatchResult
    <3> QED
      BY <3>1 DEF NoResult
  <2> QED
    BY <2>1, <2>2, <2>3
<1> QED
  BY <1>5, <1>6, <1>7, <1>9, <1>10 DEF ReadInv
\* A push: the first of an item goes to the end of the queue, or finds an
\* overflow there or in the batch, or the subscription closed.
LEMMA PushKeeps ==
  ASSUME ReadInv, NEW i \in Items, PushNotification(i),
         first' = IF first[i] = 0 THEN [first EXCEPT ![i] = pushes'] ELSE first,
         UNCHANGED reading
  PROVE  ReadInv'
<1> USE ConstantsAssumption
<1> DEFINE x == <<i, pushes + 1>>
<1>1. /\ pushes \in 0..MaxPushes /\ pushes' = pushes + 1 /\ pushes' \in 1..MaxPushes
      /\ pending \in Seq(Entry) /\ batch.list \in Seq(Entry)
      /\ first \in [Items -> 0..MaxPushes] /\ results \in [Items -> Result]
      /\ UNCHANGED <<batch, closed, results, remaining>>
  BY DEF ReadInv, ReadTypes, PushNotification, reading, queue
<1>2. x \in Entry /\ x # Overflow /\ Overflow \in Entry
  BY <1>1 DEF Entry, Notification, Overflow
<1>3. /\ first' \in [Items -> 0..MaxPushes]
      /\ first'[i] = IF first[i] = 0 THEN pushes + 1 ELSE first[i]
      /\ \A j \in Items \ {i} : first'[j] = first[j]
      /\ first'[i] # 0
  BY <1>1
<1>4. \/ pending' = Append(pending, x) /\ overflow_reported' = overflow_reported
      \/ /\ pending' = Append(pending, Overflow) /\ overflow_reported' = TRUE
         /\ ~overflow_reported /\ ~closed
      \/ /\ pending' = pending /\ overflow_reported' = overflow_reported
         /\ overflow_reported \/ closed
  BY Zenon DEF PushNotification, queue, ReadInv, ReadTypes
<1>5. ReadTypes'
  <2>1. pending' \in Seq(Entry)
    <3>1. \A e \in Entry : Append(pending, e) \in Seq(Entry)
      BY <1>1
    <3> HIDE DEF x
    <3> QED
      BY <1>1, <1>2, <1>4, <3>1, Zenon
  <2>2. overflow_reported' \in BOOLEAN
    BY <1>4, Zenon DEF ReadInv, ReadTypes
  <2> QED
    BY <1>1, <1>3, <2>1, <2>2 DEF ReadInv, ReadTypes
<1>6. CountsMissing'
  BY <1>1 DEF ReadInv, CountsMissing, Missing
<1>7. NoMissedWake'
  BY DEF ReadInv, NoMissedWake, PushNotification, Wake, queue
<1>8. ASSUME NEW j \in Items, results'[j] = NoResult
      PROVE  UnderWay(j)'
  <2>1. UnderWay(j)
    BY <1>1, <1>8 DEF ReadInv
  <2>2. PICK v \in 0..MaxPushes : v = first'[j]
    BY <1>3
  <2>3. FirstIs(batch.list, j, v) /\ (Settled(batch.list, j) \/ FirstIs(pending, j, v))
    <3>1. CASE j = i /\ first[i] = 0
      <4>1. FirstIs(batch.list, j, 0) /\ (Settled(batch.list, j) \/ FirstIs(pending, j, 0))
        BY <2>1, <3>1 DEF UnderWay
      <4> QED
        BY <1>1, <4>1, NothingPushed
    <3>2. CASE ~(j = i /\ first[i] = 0)
      BY <1>3, <2>1, <2>2, <3>2 DEF UnderWay
    <3> QED
      BY <3>1, <3>2
  <2>4. CASE pending' = Append(pending, x) /\ overflow_reported' = overflow_reported
    <3>1. Settles(x, j) <=> j = i
      BY <1>2, EntryKinds
    <3>2. Settled(batch.list, j) \/ Settled(pending, j) \/ ~Settles(x, j) \/ x = <<j, v>>
          \/ closed
      <4>1. CASE j = i /\ first[i] = 0
        BY <1>3, <2>2, <4>1
      <4>2. CASE j = i /\ first[i] # 0
        BY <2>1, <4>2 DEF UnderWay
      <4> QED
        BY <3>1, <4>1, <4>2
    <3>3. ~closed
      <4>1. Len(pending) \in Nat /\ pending' # pending
        BY <1>1, <2>4
      <4> QED
        BY <4>1 DEF PushNotification, queue
    <3>4. Settled(batch.list, j) \/ FirstIs(pending', j, v)
      <4> HIDE DEF x
      <4> QED
        BY <1>1, <1>2, <2>3, <2>4, <3>2, <3>3, AppendedEntry
    <3>5. v # 0 => Settled(batch.list, j) \/ Settled(pending', j)
      <4>1. Settled(pending, j) \/ Settles(x, j) => Settled(pending', j)
        <5> HIDE DEF x
        <5> QED
          BY <1>1, <1>2, <2>4, AppendedEntry, Zenon
      <4> QED
        BY <1>3, <2>1, <2>2, <3>1, <3>3, <4>1 DEF UnderWay
    <3>6. overflow_reported' => Marked(batch.list) \/ Marked(pending')
      <4>1. Marked(pending) => Marked(pending')
        <5> HIDE DEF x
        <5> QED
          BY <1>1, <1>2, <2>4, AppendedEntry, Zenon
      <4> QED
        BY <2>1, <2>4, <3>3, <4>1 DEF UnderWay
    <3> QED
      BY <1>1, <2>2, <2>3, <3>4, <3>5, <3>6 DEF UnderWay
  <2>5. CASE pending' = Append(pending, Overflow)
    <3>1. Settles(Overflow, j)
      BY EntryKinds
    <3>2. /\ Settled(pending', j) /\ Marked(pending')
          /\ FirstIs(pending, j, v) => FirstIs(pending', j, v)
      BY <1>1, <1>2, <2>5, <3>1, AppendedEntry
    <3> QED
      BY <1>1, <2>2, <2>3, <3>2 DEF UnderWay
  <2>6. CASE /\ pending' = pending /\ overflow_reported' = overflow_reported
             /\ overflow_reported \/ closed
    <3>1. ~closed => Settled(batch.list, j) \/ Settled(pending, j)
      <4>1. Marked(batch.list) => Settled(batch.list, j)
        BY EntryKinds DEF Marked, Settled
      <4>2. Marked(pending) => Settled(pending, j)
        BY EntryKinds DEF Marked, Settled
      <4> QED
        BY <2>1, <2>6, <4>1, <4>2 DEF UnderWay
    <3> QED
      BY <1>1, <2>1, <2>2, <2>3, <2>6, <3>1 DEF UnderWay
  <2> QED
    BY <1>4, <2>4, <2>5, <2>6
<1>9. FirstValueIsRead'
  <2> SUFFICES ASSUME NEW j \in Items, results[j][1] = "value"
               PROVE  results[j] = Value(first'[j])
    BY <1>1 DEF FirstValueIsRead
  <2>1. results[j] = Value(first[j])
    BY DEF ReadInv, FirstValueIsRead
  <2>2. results[j][2] \in 1..MaxPushes
    BY <1>1 DEF Result
  <2>3. first[j] # 0
    BY <2>1, <2>2, SMTT(60) DEF Value
  <2> QED
    BY <1>3, <2>1, <2>3
<1> QED
  BY <1>5, <1>6, <1>7, <1>8, <1>9 DEF ReadInv

\* The timer closes the subscription: the queue is dropped, a batch that was
\* read already still counts.
LEMMA TimerKeeps ==
  ASSUME ReadInv, TimerFires
  PROVE  ReadInv'
<1>1. /\ closed' = TRUE /\ pending' = <<>>
      /\ UNCHANGED <<overflow_reported, batch, pushes, results, remaining, first>>
  BY DEF TimerFires, Close
<1>2. ReadTypes'
  <2>1. pending' \in Seq(Entry)
    BY <1>1
  <2> QED
    BY <1>1, <2>1 DEF ReadInv, ReadTypes
<1>3. CountsMissing'
  BY <1>1 DEF ReadInv, CountsMissing, Missing
<1>4. NoMissedWake'
  BY DEF ReadInv, NoMissedWake, TimerFires, Close, Wake
<1>5. ASSUME NEW i \in Items, results'[i] = NoResult
      PROVE  UnderWay(i)'
  <2>1. UnderWay(i)
    BY <1>1, <1>5 DEF ReadInv
  <2>2. FirstIs(pending', i, first'[i])
    BY <1>1 DEF FirstIs
  <2> QED
    BY <1>1, <2>1, <2>2 DEF UnderWay
<1>6. FirstValueIsRead'
  BY <1>1 DEF ReadInv, FirstValueIsRead
<1> QED
  BY <1>2, <1>3, <1>4, <1>5, <1>6 DEF ReadInv

\* ReadNext moves entries from the front of the queue to the batch.
LEMMA ReadKeeps ==
  ASSUME ReadInv, remaining # 0, ReadNext(remaining), UNCHANGED <<reading, first>>
  PROVE  ReadInv'
<1>1. remaining \in Nat
  BY ItemsAssumption, FS_Subset, FS_CardinalityType DEF ReadInv, CountsMissing, Missing
<1>2. /\ pending \in Seq(Entry) /\ batch = NoBatch /\ batch.list = <<>>
      /\ UNCHANGED <<overflow_reported, closed, pushes, results, remaining, first>>
  BY DEF ReadInv, ReadTypes, ReadNext, NoBatch, reading
<1>3. NoMissedWake'
  BY DEF ReadInv, NoMissedWake, ReadNext
<1>4. CountsMissing' /\ FirstValueIsRead'
  BY <1>2 DEF ReadInv, CountsMissing, Missing, FirstValueIsRead
<1>5. CASE pending' = pending /\ batch'.list = <<>> /\ batch' \in {NoBatch, CloseStatus}
  <2>1. /\ batch' \in [status : {"none", "good", "closed"}, list : Seq(Entry)]
        /\ batch'.status # "good"
    <3>0. <<>> \in Seq(Entry)
      OBVIOUS
    <3>1. PICK e \in Seq(Entry) : e = <<>>
      BY <3>0, Zenon
    <3>2. batch' \in {[status |-> "none", list |-> e], [status |-> "closed", list |-> e]}
      BY <1>5, <3>1, Zenon DEF NoBatch, CloseStatus
    <3> QED
      BY <3>2
  <2>3. ReadTypes'
    BY <1>2, <1>5, <2>1 DEF ReadInv, ReadTypes
  <2>2. ASSUME NEW i \in Items, results'[i] = NoResult
        PROVE  UnderWay(i)'
    BY <1>2, <1>5, <2>2 DEF ReadInv, UnderWay
  <2> QED
    BY <1>3, <1>4, <2>2, <2>3 DEF ReadInv
<1>6. ASSUME NEW c \in 1..Len(pending),
             batch' = Batch(SubSeq(pending, 1, c)),
             pending' = SubSeq(pending, c + 1, Len(pending))
      PROVE  ReadInv'
  <2>1. batch'.list = SubSeq(pending, 1, c) /\ batch'.status = "good"
    BY <1>6 DEF Batch
  <2>2. batch'.list \in Seq(Entry) /\ pending' \in Seq(Entry)
    <3>1. SubSeq(pending, 1, c) \in Seq(Entry)
      BY <1>2
    <3>2. SubSeq(pending, c + 1, Len(pending)) \in Seq(Entry)
      BY <1>2, TakeLemma
    <3> QED
      BY <1>6, <2>1, <3>1, <3>2
  <2>3. ReadTypes'
    BY <1>2, <1>6, <2>2 DEF ReadInv, ReadTypes, Batch
  <2>4. ASSUME NEW i \in Items, results'[i] = NoResult
        PROVE  UnderWay(i)'
    <3>1. PICK v : v = first[i] /\ v = first'[i]
      BY <1>2
    <3>2. /\ FirstIs(pending, i, v)
          /\ v # 0 /\ ~closed => Settled(pending, i)
          /\ overflow_reported /\ ~closed => Marked(pending)
      <4>1. ~Settled(batch.list, i) /\ ~Marked(batch.list)
        BY <1>2 DEF Settled, Marked
      <4> QED
        BY <1>2, <2>4, <3>1, <4>1 DEF ReadInv, UnderWay
    <3>3. /\ FirstIs(batch'.list, i, v)
          /\ Settled(batch'.list, i) \/ FirstIs(pending', i, v)
          /\ Settled(pending, i) => Settled(batch'.list, i) \/ Settled(pending', i)
          /\ Marked(pending) => Marked(batch'.list) \/ Marked(pending')
      BY <1>2, <1>6, <2>1, <3>2, CutQueue, Zenon
    <3> QED
      BY <1>2, <3>1, <3>2, <3>3 DEF UnderWay
  <2> QED
    BY <1>3, <1>4, <2>3, <2>4 DEF ReadInv
<1>7. \/ pending' = pending /\ batch' \in {NoBatch, CloseStatus}
      \/ \E c \in 1..Len(pending) : /\ batch' = Batch(SubSeq(pending, 1, c))
                                    /\ pending' = SubSeq(pending, c + 1, Len(pending))
  <2> DEFINE count == IF Len(pending) < remaining THEN Len(pending) ELSE remaining
  <2>1. \/ pending' = pending /\ batch' = CloseStatus
        \/ pending' = pending /\ batch' = batch
        \/ /\ count > 0
           /\ batch' = Batch(SubSeq(pending, 1, count))
           /\ pending' = SubSeq(pending, count + 1, Len(pending))
    BY DEF ReadNext
  <2>2. count > 0 => count \in 1..Len(pending)
    BY <1>1, <1>2
  <2> HIDE DEF count
  <2> QED
    BY <1>2, <2>1, <2>2, Zenon
<1> QED
  BY <1>5, <1>6, <1>7 DEF NoBatch, CloseStatus

\* Every step of the read keeps the invariant.
LEMMA ReadStepKeeps ==
  ASSUME ReadInv, [ReadNextStep]_allVars
  PROVE  ReadInv'
<1>1. ASSUME UNCHANGED <<queue, batch, pushes, results, remaining, first>>, NoMissedWake'
      PROVE  ReadInv'
  BY <1>1 DEF ReadInv, ReadTypes, CountsMissing, Missing, UnderWay, FirstValueIsRead, queue
<1>2. CASE ItemsAdded
  BY <1>2, FailAllKeeps DEF ItemsAdded
<1>3. CASE HandleBatch
  BY <1>3, HandleBatchKeeps
<1>4. CASE HandleClose
  BY <1>4, FailAllKeeps DEF HandleClose
<1>5. CASE ReadReturns
  <2>1. NoMissedWake'
    BY <1>5 DEF ReadReturns, ReadInv, NoMissedWake, vars, queue
  <2> QED
    BY <1>1, <1>5, <2>1 DEF ReadReturns, vars
<1>6. CASE TimerFires
  BY <1>6, TimerKeeps
<1>7. ASSUME NEW i \in Items, AddItem(i) \/ SubscribeItem(i), UNCHANGED <<reading, first>>
      PROVE  ReadInv'
  <2>1. NoMissedWake'
    BY <1>7 DEF AddItem, SubscribeItem, ReadInv, NoMissedWake, queue
  <2> QED
    BY <1>1, <1>7, <2>1 DEF AddItem, SubscribeItem, reading
<1>8. ASSUME Park \/ Resume, UNCHANGED <<reading, first>>
      PROVE  ReadInv'
  <2>1. NoMissedWake'
    BY <1>8 DEF Park, Resume, ReadInv, NoMissedWake, queue
  <2> QED
    BY <1>1, <1>8, <2>1 DEF Park, Resume, reading
<1>9. CASE StreamStep
  BY <1>7, <1>8, <1>9, PushKeeps, ReadKeeps DEF StreamStep, reading
<1>10. CASE UNCHANGED allVars
  <2>1. NoMissedWake'
    BY <1>10 DEF allVars, vars, queue, ReadInv, NoMissedWake
  <2> QED
    BY <1>1, <1>10, <2>1 DEF allVars, vars, reading
<1> QED
  BY <1>2, <1>3, <1>4, <1>5, <1>6, <1>9, <1>10 DEF ReadNextStep

\* The initial state of the read.
LEMMA ReadInvInit == ReadInit => ReadInv
<1> SUFFICES ASSUME ReadInit PROVE ReadInv
  OBVIOUS
<1>1. /\ pending = <<>> /\ batch = NoBatch /\ batch.list = <<>> /\ batch.status = "none"
      /\ results = [i \in Items |-> NoResult] /\ first = [i \in Items |-> 0]
      /\ overflow_reported = FALSE /\ pushes = 0 /\ closed = FALSE
      /\ reader = "idle" /\ read_waiter = FALSE /\ remaining = Cardinality(Items)
  BY DEF ReadInit, Init, NoBatch
<1>2. <<>> \in Seq(Entry)
  OBVIOUS
<1>3. ReadTypes
  <2>1. batch \in [status : {"none", "good", "closed"}, list : Seq(Entry)]
    <3>0. <<>> \in Seq(Entry)
      OBVIOUS
    <3>1. PICK e \in Seq(Entry) : e = <<>>
      BY <3>0, Zenon
    <3>2. batch = [status |-> "none", list |-> e]
      BY <1>1, <3>1, Zenon DEF NoBatch
    <3> QED
      BY <3>2
  <2>2. results \in [Items -> Result] /\ first \in [Items -> 0..MaxPushes]
    BY <1>1, ConstantsAssumption DEF NoResult, Result
  <2>3. pending \in Seq(Entry)
    BY <1>1, <1>2, Zenon
  <2>4. pushes \in 0..MaxPushes
    BY <1>1, ConstantsAssumption
  <2>5. overflow_reported \in BOOLEAN /\ closed \in BOOLEAN
    BY <1>1, Zenon
  <2> QED
    BY <1>1, <2>1, <2>2, <2>3, <2>4, <2>5, Zenon DEF ReadTypes
<1>4. Missing = Items
  BY <1>1 DEF Missing
<1>5. \A i \in Items : UnderWay(i)
  BY <1>1 DEF UnderWay, FirstIs
<1>6. FirstValueIsRead
  BY <1>1 DEF FirstValueIsRead, NoResult
<1> QED
  BY <1>1, <1>3, <1>4, <1>5, <1>6 DEF ReadInv, CountsMissing, NoMissedWake

\* While ReadInitialValuesAsync reads, no wake of its reader is missed, and what
\* it returns for an item is the first value the item's source pushed, or a
\* failure: never a later value, whatever the batches, the overflow, the timer.
THEOREM ReadersStayServed == ReadSpec => []ReadersAreServed
<1>1. ReadInv /\ [ReadNextStep]_allVars => ReadInv'
  BY ReadStepKeeps
<1>2. ReadInv => ReadersAreServed
  BY DEF ReadInv, ReadersAreServed
<1> QED
  BY <1>1, <1>2, ReadInvInit, PTL DEF ReadSpec

\* The counter of missing results is exact, so it never goes below zero (it is a
\* size_t) and the loop ends when, and only when, every item has its result.
THEOREM RemainingIsExact == ReadSpec => []CountsMissing
<1>1. ReadInv /\ [ReadNextStep]_allVars => ReadInv'
  BY ReadStepKeeps
<1>2. ReadInv => CountsMissing
  BY DEF ReadInv
<1> QED
  BY <1>1, <1>2, ReadInvInit, PTL DEF ReadSpec
=============================================================================
