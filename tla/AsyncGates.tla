----------------------------- MODULE AsyncGates -----------------------------
(***************************************************************************)
(* AsyncCompletion (base/async_completion.h) and AsyncCache                *)
(* (base/async_cache.h): coroutines that wait for a gate, or for the value *)
(* of a key, resumed through posted completions of one executor.           *)
(*                                                                         *)
(* A waiter of the gate may carry a cancellation slot, fired by a deadline *)
(* (WaitFor) or by its owner.  Fetches of the cache are started by the     *)
(* waiter's miss callback, by a later batch, or ahead of any waiter.       *)
(***************************************************************************)
EXTENDS Naturals, Sequences

CONSTANTS
  GateWaiters,    \* coroutines that wait for the gate
  Slotted,        \* those of them whose wait can be cancelled
  CacheWaiters,   \* coroutines that wait for a key
  Eager,          \* those of them whose miss callback starts the fetch
  Keys

ASSUME GatesAssumption ==
  /\ Slotted \subseteq GateWaiters /\ Eager \subseteq CacheWaiters
  /\ GateWaiters \cap CacheWaiters = {}

VARIABLES
  completed,   \* AsyncCompletion::State: settled, and the error it carries
  waiters,     \* its list of registered waiters
  claimed,     \* waiters taken by the settle or by their cancellation
  armed,       \* waiters whose slot still holds a cancellation handler
  gate,        \* what each waiter does, and what its wait returned
  entries,     \* AsyncCache::entries_
  fetching,    \* fetches under way, a count per key
  fetches,     \* fetches ever started, a count per key
  cached,      \* what each waiter of the cache does
  tasks        \* completions posted to the executor

gvars == <<completed, waiters, claimed, armed, gate, entries, fetching,
           fetches, cached, tasks>>

gateVars == <<completed, waiters, claimed, armed, gate>>
cacheVars == <<entries, fetching, fetches, cached>>

GInit ==
  /\ completed = "open" /\ waiters = <<>> /\ claimed = {} /\ armed = {}
  /\ gate = [w \in GateWaiters |-> "idle"]
  /\ entries = [k \in Keys |-> [value |-> FALSE, in_progress |-> FALSE,
                                waiters |-> <<>>]]
  /\ fetching = [k \in Keys |-> 0] /\ fetches = [k \in Keys |-> 0]
  /\ cached = [w \in CacheWaiters |-> "idle"]
  /\ tasks = <<>>

-----------------------------------------------------------------------------
(* AsyncCompletion *)

\* A completion posted for a waiter, with what its wait returns.
Posted(w, outcome) == [waiter |-> w, outcome |-> outcome]

\* Wait and WaitFor: MakeWaitStart finds the gate settled, or registers.
WaitOnState(w) ==
  /\ gate[w] = "idle"
  /\ gate' = [gate EXCEPT ![w] = "waiting"]
  /\ IF completed # "open"
     THEN /\ tasks' = Append(tasks, Posted(w, completed))
          /\ UNCHANGED <<waiters, armed>>
     ELSE /\ waiters' = Append(waiters, w)
          /\ armed' = armed \cup ({w} \cap Slotted)
          /\ UNCHANGED tasks
  /\ UNCHANGED <<completed, claimed, cacheVars>>

\* Mutant: the cancellation does not look whether the waiter was taken.
CancelUnclaimed(w) ==
  /\ claimed' = claimed \cup {w}
  /\ waiters' = SelectSeq(waiters, LAMBDA v : v # w)
  /\ tasks' = Append(tasks, Posted(w, "cancelled"))

\* What is left of a list when the entry at i is erased, and what is in it.
ErasedAt(list, i) == SubSeq(list, 1, i - 1) \o SubSeq(list, i + 1, Len(list))
Elements(list) == {list[i] : i \in DOMAIN list}

\* The handler assigned to the slot: it erases its own entry of the list.
CancelWait(w) ==
  IF w \in claimed THEN UNCHANGED <<claimed, waiters, tasks>>
  ELSE /\ claimed' = claimed \cup {w}
       /\ \E i \in DOMAIN waiters :
            waiters[i] = w /\ waiters' = ErasedAt(waiters, i)
       /\ tasks' = Append(tasks, Posted(w, "cancelled"))

\* The deadline of WaitFor, or the owner of the coroutine, fires the slot.
SlotFires(w) ==
  /\ w \in armed
  /\ armed' = armed \ {w}
  /\ CancelWait(w)
  /\ UNCHANGED <<completed, gate, cacheVars>>

\* The waiters of the list whose handlers do not find themselves taken.
Unclaimed ==
  IF Elements(waiters) \cap claimed = {} THEN waiters
  ELSE SelectSeq(waiters, LAMBDA w : w \notin claimed)

PostedAll(list, outcome) == [i \in DOMAIN list |-> Posted(list[i], outcome)]

\* Finish: takes the list over; each waiter that is not taken yet is completed.
Finish(outcome) ==
  /\ completed' = outcome
  /\ waiters' = <<>>
  /\ claimed' = claimed \cup Elements(Unclaimed)
  /\ tasks' = tasks \o PostedAll(Unclaimed, outcome)
  /\ UNCHANGED <<armed, gate, cacheVars>>

\* Complete and Fail are called once, by the owner of the gate.
Complete == completed = "open" /\ Finish("done")
Fail == completed = "open" /\ Finish("error")

\* A party that may lose the race does nothing when the gate is settled.
TryComplete ==
  IF completed # "open" THEN UNCHANGED gvars ELSE Finish("done")

-----------------------------------------------------------------------------
(* AsyncCache *)

\* TryStart claims a key that has waiters and no fetch and no value.
CanStart(entry) ==
  ~entry.value /\ ~entry.in_progress /\ entry.waiters # <<>>

CanStartPrefetch(entry) == ~entry.value /\ ~entry.in_progress

Started(k, table) ==
  /\ entries' = [table EXCEPT ![k].in_progress = TRUE]
  /\ fetching' = [fetching EXCEPT ![k] = @ + 1]
  /\ fetches' = [fetches EXCEPT ![k] = @ + 1]

NotStarted(table) == entries' = table /\ UNCHANGED <<fetching, fetches>>

\* Wait: a value is posted at once; a miss registers, then runs the callback.
WaitForKey(w, k) ==
  /\ cached[w] = "idle"
  /\ cached' = [cached EXCEPT ![w] = "waiting"]
  /\ IF entries[k].value
     THEN /\ tasks' = Append(tasks, Posted(w, "value"))
          /\ UNCHANGED <<entries, fetching, fetches>>
     ELSE LET table == [entries EXCEPT ![k].waiters = Append(@, w)]
          IN /\ IF w \in Eager /\ CanStart(table[k])
                THEN Started(k, table) ELSE NotStarted(table)
             /\ UNCHANGED tasks
  /\ UNCHANGED gateVars

\* The keys a later batching point finds, and starts one by one.
PendingKeys == {k \in Keys : CanStart(entries[k])}

StartPending ==
  /\ \E k \in PendingKeys : Started(k, entries)
  /\ UNCHANGED <<cached, tasks, gateVars>>

TryStartPrefetch(k) ==
  /\ CanStartPrefetch(entries[k])
  /\ Started(k, entries)
  /\ UNCHANGED <<cached, tasks, gateVars>>

\* Complete(key, value): the value is stored, then the waiters get it.
CompleteKey(k) ==
  /\ fetching[k] > 0
  /\ fetching' = [fetching EXCEPT ![k] = @ - 1]
  /\ entries' = [entries EXCEPT ![k] = [value |-> TRUE, in_progress |-> FALSE,
                                        waiters |-> <<>>]]
  /\ tasks' = tasks \o PostedAll(entries[k].waiters, "value")
  /\ UNCHANGED <<fetches, cached, gateVars>>

\* The executor resumes a coroutine; a finished wait drops its slot.
Resume ==
  /\ tasks # <<>>
  /\ LET task == Head(tasks)
     IN IF task.waiter \in GateWaiters
        THEN /\ gate' = [gate EXCEPT ![task.waiter] =
                           IF @ = "waiting" THEN task.outcome ELSE "resumed twice"]
             /\ armed' = armed \ {task.waiter}
             /\ UNCHANGED cached
        ELSE /\ cached' = [cached EXCEPT ![task.waiter] = "returned"]
             /\ UNCHANGED <<gate, armed>>
  /\ tasks' = Tail(tasks)
  /\ UNCHANGED <<completed, waiters, claimed, entries, fetching, fetches>>

-----------------------------------------------------------------------------
Fetched == \E k \in Keys : CompleteKey(k)

\* The gate and the cache have nothing in common but the executor.
GateNext ==
  \/ \E w \in GateWaiters : WaitOnState(w)
  \/ \E w \in GateWaiters : SlotFires(w)
  \/ Complete \/ Fail \/ TryComplete
  \/ Resume

CacheNext ==
  \/ \E w \in CacheWaiters, k \in Keys : WaitForKey(w, k)
  \/ StartPending
  \/ \E k \in Keys : TryStartPrefetch(k)
  \/ Fetched
  \/ Resume

GSpec == GInit /\ [][GateNext \/ CacheNext]_gvars

-----------------------------------------------------------------------------
(* Properties *)

\* A wait on a gate ends once: with the outcome the gate has, or cancelled.
\* A settle and a cancellation that race do not both complete it
\* (async_completion.h, MakeWaitStart).
GateWaitEndsOnce ==
  \A w \in GateWaiters :
    \/ gate[w] \in {"idle", "waiting", "cancelled"}
    \/ gate[w] = completed

\* A key is fetched once, however its waiters, batches and prefetches meet
\* (async_cache.h, TryStart and TryStartPrefetch).
KeyIsFetchedOnce == \A k \in Keys : fetches[k] <= 1

\* Both: a wait at a gate ends once, by the gate or by its cancellation, and a
\* key of the cache is fetched once for all who wait for it
\* (async_completion.h, async_cache.h).
WaitsEndOnce == GateWaitEndsOnce /\ KeyIsFetchedOnce

\* A wait with a deadline returns though nobody settles the gate, and a waiter
\* of the cache gets its value, also when the fetch was started ahead of it
\* (async_completion.h, WaitFor; async_cache.h, Complete).
WaitsReturn ==
  /\ \A w \in Slotted : (gate[w] = "waiting") ~> (gate[w] # "waiting")
  /\ \A w \in CacheWaiters : (cached[w] = "waiting") ~> (cached[w] = "returned")

=============================================================================
