-------------------------- MODULE MCSubscriptions --------------------------
(***************************************************************************)
(* Subscriptions on small instances: the stream of an item-factory         *)
(* subscription read by a client, the same stream read by                  *)
(* ReadInitialValuesAsync, and the items of a multiplexing subscription on *)
(* their way to backends that fail and come back.  A behavior follows the  *)
(* one that focus names.                                                   *)
(***************************************************************************)
EXTENDS InitialValues, MultiplexRebind

CONSTANTS i1, i2, b1, b2

VARIABLE focus

subscriptionVars == <<focus, allVars, rebindVars>>

\* The first item moves between the backends and at times has no owner, the
\* second fans out to both.
MovesAndFansOut ==
  [i \in MergedItems |-> IF i = i1 THEN {{b1}, {b2}, {}} ELSE {{b1, b2}}]

SubscriptionInit ==
  /\ focus \in {"factory", "initial", "rebind"}
  /\ ReadInit /\ RebindInit

SubscriptionNext ==
  \/ focus = "factory" /\ Next /\ UNCHANGED <<focus, reading, first, rebindVars>>
  \/ focus = "initial" /\ ReadNextStep /\ UNCHANGED <<focus, rebindVars>>
  \/ focus = "rebind" /\ RebindNext /\ UNCHANGED <<focus, allVars>>

InFactory(A) == focus = "factory" /\ A /\ UNCHANGED <<focus, reading, first, rebindVars>>
InInitial(A) == focus = "initial" /\ A /\ UNCHANGED <<focus, rebindVars>>
InRebind(A) == focus = "rebind" /\ A /\ UNCHANGED <<focus, allVars>>

\* A reader's executor runs on and a timer expires if not cancelled; nobody has
\* to push anything.  Backends answer and recover, and the rebind loop, which
\* gets to each item again and again, is scheduled.
SubscriptionFairness ==
  /\ WF_subscriptionVars(InFactory(ReadNext(MaxBatch)))
  /\ WF_subscriptionVars(InFactory(Park)) /\ WF_subscriptionVars(InFactory(Resume))
  /\ WF_subscriptionVars(InFactory(Handled))
  /\ WF_subscriptionVars(InInitial(ItemsAdded)) /\ WF_subscriptionVars(InInitial(HandleBatch))
  /\ WF_subscriptionVars(InInitial(HandleClose)) /\ WF_subscriptionVars(InInitial(ReadReturns))
  /\ WF_subscriptionVars(InInitial(TimerFires))
  /\ WF_subscriptionVars(InInitial(/\ phase = "adding" /\ UNCHANGED <<reading, first>>
                                   /\ \E i \in Items : AddItem(i) \/ SubscribeItem(i)))
  /\ WF_subscriptionVars(InInitial(/\ phase = "reading" /\ remaining # 0
                                   /\ ReadNext(remaining)
                                   /\ UNCHANGED <<reading, first>>))
  /\ WF_subscriptionVars(InInitial((Park \/ Resume) /\ UNCHANGED <<reading, first>>))
  /\ WF_subscriptionVars(InRebind(Run))
  /\ \A k \in Binders : WF_subscriptionVars(InRebind(BackendAccepts(k) \/ BackendRefuses(k)))
  /\ \A b \in Backends : SF_subscriptionVars(InRebind(BackendRecovers(b)))
  /\ \A i \in MergedItems :
       SF_subscriptionVars(InRebind(PassNext /\ binder'[Loop].item = i))

SubscriptionSpec ==
  SubscriptionInit /\ [][SubscriptionNext]_subscriptionVars /\ SubscriptionFairness

\* ReadInitialValuesAsync returns with a result for every item, even if a source
\* never writes a value: the comment on the timer says that without it the read
\* stays suspended forever (CompleteWithStatus, CompleteWithValue, `remaining`).
ReadTerminates ==
  focus = "initial" ~> phase = "done" /\ \A i \in Items : results[i] # NoResult
=============================================================================
