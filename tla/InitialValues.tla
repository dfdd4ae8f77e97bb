---------------------------- MODULE InitialValues ----------------------------
(***************************************************************************)
(* ReadInitialValuesAsync over an ItemFactorySubscription: it adds an item *)
(* per value to read, reads the stream until every item has reported or a  *)
(* timer has closed the subscription, and returns one result per item.     *)
(* max_batch_size is the number of values, so MaxBatch is |Items|.         *)
(***************************************************************************)
EXTENDS ItemFactoryStream

ASSUME ItemsAssumption == IsFiniteSet(Items)

VARIABLES
  phase,      \* where the coroutine is
  results,    \* the result of each item: none yet, a value or an error
  remaining,  \* how many results are missing
  timer,      \* the timeout timer
  first       \* the number of the first push of each item, 0 before it

reading == <<phase, results, remaining, timer>>
allVars == <<vars, reading, first>>

NoResult == <<"none", 0>>
Value(n) == <<"value", n>>

\* MakeReadError: a value with a bad status.
Failed == <<"error", 0>>

ReadTypeOK ==
  /\ phase \in {"adding", "reading", "done"}
  /\ results \in [Items -> ({"none", "error"} \X {0})
                          \cup ({"value"} \X (1..MaxPushes))]
  /\ remaining \in 0..Cardinality(Items)
  /\ timer \in {"off", "armed", "fired", "cancelled"}
  /\ first \in [Items -> 0..MaxPushes]

ReadInit ==
  /\ Init
  /\ phase = "adding" /\ results = [i \in Items |-> NoResult]
  /\ remaining = Cardinality(Items) /\ timer = "off"
  /\ first = [i \in Items |-> 0]

\* CompleteWithStatus and CompleteWithValue with the results given: only the
\* first result of an item counts, and it is counted off.
Complete(given) ==
  LET completed == {i \in Items : results[i] = NoResult /\ given[i] # NoResult} IN
  /\ results' = [i \in Items |-> IF i \in completed THEN given[i] ELSE results[i]]
  /\ remaining' = remaining - Cardinality(completed)

FailAll(S) == [i \in Items |-> IF i \in S THEN Failed ELSE NoResult]

\* What settles item i: a notification of its own or the overflow, which has
\* no item.
Settles(x, i) == x[1] \in {i, None}

ResultOf(x) == IF x = Overflow THEN Failed ELSE Value(x[2])

\* The notifications of a batch in order: the first that settles an item gives
\* its result, and none counts after an overflow.
AfterBatch(list) ==
  [i \in Items |->
    IF \E n \in 1..Len(list) : Settles(list[n], i)
    THEN ResultOf(list[CHOOSE n \in 1..Len(list) :
           /\ Settles(list[n], i)
           /\ \A m \in 1..(n - 1) : ~Settles(list[m], i)])
    ELSE NoResult]

\* AddItems answered for every item: the refused ones are done, and the timer
\* bounds the wait for the others.
ItemsAdded ==
  /\ phase = "adding" /\ \A i \in Items : items[i] \notin {"none", "making"}
  /\ phase' = "reading" /\ timer' = "armed"
  /\ Complete(FailAll({i \in Items : items[i] = "refused"}))
  /\ UNCHANGED <<vars, first>>

HandleBatch ==
  /\ phase = "reading" /\ batch.status = "good"
  /\ Complete(AfterBatch(batch.list))
  /\ batch' = NoBatch
  /\ UNCHANGED <<items, queue, read_waiter, reader, pushes, phase, timer, first>>

\* ReadNext returned the close status: what is missing has timed out.
HandleClose ==
  /\ phase = "reading" /\ batch.status = "closed"
  /\ Complete(FailAll(Items))
  /\ phase' = "done"
  /\ timer' = IF timer = "armed" THEN "cancelled" ELSE timer
  /\ UNCHANGED <<vars, first>>

ReadReturns ==
  /\ phase = "reading" /\ remaining = 0 /\ batch = NoBatch
  /\ phase' = "done"
  /\ timer' = IF timer = "armed" THEN "cancelled" ELSE timer
  /\ UNCHANGED <<vars, results, remaining, first>>

\* Mutant: the timer expires without closing the subscription.
TimerForgets ==
  /\ timer = "armed" /\ timer' = "fired"
  /\ UNCHANGED <<vars, phase, results, remaining, first>>

\* The timer's handler closes the subscription with Bad_Timeout.
TimerFires ==
  /\ timer = "armed" /\ timer' = "fired" /\ Close
  /\ UNCHANGED <<phase, results, remaining, first>>

\* The steps of the subscription while it is read.
StreamStep ==
  /\ \/ /\ phase = "adding"
        /\ \E i \in Items : AddItem(i) \/ SubscribeItem(i)
        /\ UNCHANGED first
     \/ \E i \in Items :
          /\ PushNotification(i)
          /\ first' = IF first[i] = 0 THEN [first EXCEPT ![i] = pushes']
                      ELSE first
     \/ /\ phase = "reading" /\ remaining # 0 /\ ReadNext(remaining)
        /\ UNCHANGED first
     \/ (Park \/ Resume) /\ UNCHANGED first
  /\ UNCHANGED reading

ReadNextStep ==
  ItemsAdded \/ HandleBatch \/ HandleClose \/ ReadReturns \/ TimerFires
  \/ StreamStep

ReadSpec == ReadInit /\ [][ReadNextStep]_allVars

\* The coroutine's executor runs on and its timer expires if not cancelled; no
\* item has to push anything.
ReadFairSpec ==
  /\ ReadSpec
  /\ WF_allVars(ItemsAdded) /\ WF_allVars(HandleBatch) /\ WF_allVars(HandleClose)
  /\ WF_allVars(ReadReturns) /\ WF_allVars(TimerFires)
  /\ WF_allVars(/\ phase = "adding" /\ UNCHANGED <<reading, first>>
                /\ \E i \in Items : AddItem(i) \/ SubscribeItem(i))
  /\ WF_allVars(/\ phase = "reading" /\ remaining # 0 /\ ReadNext(remaining)
                /\ UNCHANGED <<reading, first>>)
  /\ WF_allVars((Park \/ Resume) /\ UNCHANGED <<reading, first>>)

(***************************************************************************)
(* Properties                                                              *)
(***************************************************************************)
\* The value returned for an item is the first one its source pushed, also
\* when the queue overflowed or later values share its batch.
FirstValueIsRead ==
  \A i \in Items : results[i][1] = "value" => results[i] = Value(first[i])

\* A reader never sleeps over a value, and what a read of initial values returns
\* for an item is the first value its source pushed.
ReadersAreServed == NoMissedWake /\ FirstValueIsRead
=============================================================================
