---------------------------- MODULE LegacyAdapter ----------------------------
(***************************************************************************)
(* LegacyMonitoredItemAdapter: single items, each created, subscribed and  *)
(* destroyed by its owner, over the one subscription of a shared pump.  An *)
(* add or a removal is a coroutine; between its waits a coroutine runs     *)
(* without interruption, on the adapter's executor.  The subscription      *)
(* behind the pump is external.                                            *)
(*                                                                         *)
(* The coroutine that starts the pump holds the adapter's mutex.  Starting *)
(* spawns the pump's read loop, which may run at once on the same thread;  *)
(* InlineFailure says whether the first read may also fail at once.        *)
(***************************************************************************)
EXTENDS Naturals, FiniteSets

CONSTANTS Items, InlineFailure

ASSUME AdapterAssumption == InlineFailure \in BOOLEAN

VARIABLES
  owner,     \* of each item: none, holds it, or destroyed it
  itemState, \* of each item: add_requested, closed, and whether its ids are known
  add,       \* the AddItem coroutine of each item
  removing,  \* the items with a RemoveItem coroutine not yet run
  mapped,    \* items_by_client_handle
  pump,      \* none, live, refused (Start failed) or closed
  closed,
  served,    \* the items the subscription serves
  stuck      \* a thread waits for the mutex it holds

vars == <<owner, itemState, add, removing, mapped, pump, closed, served, stuck>>

TypeOK ==
  /\ owner \in [Items -> {"none", "holds", "destroyed"}]
  /\ itemState \in [Items -> [add_requested : BOOLEAN, closed : BOOLEAN,
                              known : BOOLEAN]]
  /\ add \in [Items -> {"off", "spawned", "waiting", "added", "refused", "done"}]
  /\ removing \subseteq Items /\ mapped \subseteq Items /\ served \subseteq Items
  /\ pump \in {"none", "live", "refused", "closed"}
  /\ closed \in BOOLEAN /\ stuck \in BOOLEAN
  /\ closed => pump # "live" /\ served = {}

Init ==
  /\ owner = [i \in Items |-> "none"]
  /\ itemState = [i \in Items |->
       [add_requested |-> FALSE, closed |-> FALSE, known |-> FALSE]]
  /\ add = [i \in Items |-> "off"] /\ removing = {} /\ mapped = {}
  /\ pump = "none" /\ closed = FALSE /\ served = {} /\ stuck = FALSE

CreateMonitoredItem(i) ==
  /\ owner[i] = "none" /\ owner' = [owner EXCEPT ![i] = "holds"]
  /\ UNCHANGED <<itemState, add, removing, mapped, pump, closed, served, stuck>>

\* Subscribe stores the handler and requests the item once.
Subscribe(i) ==
  /\ owner[i] = "holds"
  /\ ~itemState[i].closed /\ ~itemState[i].add_requested
  /\ itemState' = [itemState EXCEPT ![i].add_requested = TRUE]
  /\ add' = [add EXCEPT ![i] = "spawned"]
  /\ UNCHANGED <<owner, removing, mapped, pump, closed, served, stuck>>

CloseItem(i) == itemState' = [itemState EXCEPT ![i].closed = TRUE]

\* CloseAll: every mapped item is closed without a word to its handler, and
\* the pump is closed.
CloseAll ==
  /\ closed' = TRUE
  /\ itemState' = [i \in Items |-> IF i \in mapped
                                   THEN [itemState[i] EXCEPT !.closed = TRUE]
                                   ELSE itemState[i]]
  /\ mapped' = {} /\ served' = {}
  /\ pump' = IF pump = "live" THEN "closed" ELSE pump

\* Mutant: the handle is left to be mapped once AddItems has returned.
AddStartUnmapped(i) ==
  /\ add[i] = "spawned" /\ ~closed /\ pump \in {"none", "live"}
  /\ pump' = "live" /\ add' = [add EXCEPT ![i] = "waiting"]
  /\ UNCHANGED <<owner, itemState, removing, mapped, closed, served, stuck>>

\* The add coroutine up to AddItems: it starts the pump if it is the first,
\* and maps the item's handle before it asks the subscription.
AddStart(i) ==
  /\ add[i] = "spawned"
  /\ \/ /\ closed /\ CloseItem(i)
        /\ add' = [add EXCEPT ![i] = "done"]
        /\ UNCHANGED <<mapped, pump, closed, stuck>>
     \/ /\ ~closed /\ pump = "none"                    \* Start refuses
        /\ pump' = "refused" /\ closed' = TRUE /\ CloseItem(i)
        /\ add' = [add EXCEPT ![i] = "done"]
        /\ UNCHANGED <<mapped, stuck>>
     \/ /\ ~closed /\ pump = "none" /\ InlineFailure   \* the first read fails
        /\ pump' = "live" /\ stuck' = TRUE
        /\ UNCHANGED <<itemState, add, mapped, closed>>
     \/ /\ ~closed /\ pump \in {"none", "live"}
        /\ pump' = "live" /\ mapped' = mapped \cup {i}
        /\ add' = [add EXCEPT ![i] = "waiting"]
        /\ UNCHANGED <<itemState, closed, stuck>>
  /\ UNCHANGED <<owner, removing, served>>

\* The subscription answers AddItems: a closed one refuses.
Answer(i) ==
  /\ add[i] = "waiting"
  /\ \/ /\ pump = "live" /\ add' = [add EXCEPT ![i] = "added"]
        /\ served' = served \cup {i}
     \/ add' = [add EXCEPT ![i] = "refused"] /\ UNCHANGED served
  /\ UNCHANGED <<owner, itemState, removing, mapped, pump, closed, stuck>>

\* RemoveItem: unmaps the handle and spawns the removal, unless closed.
RemoveItem(i) ==
  /\ mapped' = mapped \ {i}
  /\ removing' = IF closed THEN removing ELSE removing \cup {i}

\* The rest of the add coroutine: a refusal is shown to the subscriber and
\* closes the item; an item closed meanwhile is removed again.
AddDone(i) ==
  /\ add[i] \in {"added", "refused"} /\ add' = [add EXCEPT ![i] = "done"]
  /\ \/ /\ add[i] = "refused" /\ mapped' = mapped \ {i} /\ CloseItem(i)
        /\ UNCHANGED removing
     \/ /\ add[i] = "added" /\ itemState[i].closed /\ RemoveItem(i)
        /\ UNCHANGED itemState
     \/ /\ add[i] = "added" /\ ~itemState[i].closed
        /\ itemState' = [itemState EXCEPT ![i].known = TRUE]
        /\ UNCHANGED <<mapped, removing>>
  /\ UNCHANGED <<owner, pump, closed, served, stuck>>

\* The owner lets go of the item, whose destructor closes it; an item whose
\* ids are not known yet is left to its add coroutine.
DestroyItem(i) ==
  /\ owner[i] = "holds" /\ owner' = [owner EXCEPT ![i] = "destroyed"]
  /\ CloseItem(i)
  /\ IF ~itemState[i].closed /\ itemState[i].known THEN RemoveItem(i)
     ELSE UNCHANGED <<mapped, removing>>
  /\ UNCHANGED <<add, pump, closed, served, stuck>>

\* The removal coroutine.
RemoveStart(i) ==
  /\ i \in removing /\ removing' = removing \ {i}
  /\ served' = IF closed THEN served ELSE served \ {i}
  /\ UNCHANGED <<owner, itemState, add, mapped, pump, closed, stuck>>

\* A read of the subscription fails later on, or the adapter is closed.
ReadFails ==
  /\ pump = "live" /\ ~closed /\ CloseAll
  /\ UNCHANGED <<owner, add, removing, stuck>>
Close ==
  /\ ~closed /\ CloseAll
  /\ UNCHANGED <<owner, add, removing, stuck>>

Step(i) == AddStart(i) \/ Answer(i) \/ AddDone(i) \/ RemoveStart(i)

Next ==
  /\ ~stuck
  /\ \/ \E i \in Items : CreateMonitoredItem(i) \/ Subscribe(i) \/ DestroyItem(i)
                         \/ Step(i)
     \/ ReadFails \/ Close

Spec == Init /\ [][Next]_vars

(***************************************************************************)
(* Properties                                                              *)
(***************************************************************************)
\* The subscription serves no item whose owner has destroyed it, unless a
\* coroutine is still to take it back: the destructor may run before, while
\* or after AddItems is answered (SubscriptionBackedMonitoredItem::Close).
DestroyedIsRemoved ==
  \A i \in served : owner[i] = "destroyed" => i \in removing \/ add[i] = "added"

\* A notification finds its item from the first one on: whatever the open
\* subscription serves is mapped, also before AddItems has returned.
ServedIsMapped ==
  \A i \in served : ~closed /\ ~itemState[i].closed => i \in mapped

\* The subscription serves exactly items somebody wants and can be told of.
ItemsAreServed == DestroyedIsRemoved /\ ServedIsMapped

\* No thread waits for the adapter's mutex while it holds it.  TLC refutes it
\* with InlineFailure: Start runs the first read, whose failure locks again.
NoSelfDeadlock == ~stuck
=============================================================================
