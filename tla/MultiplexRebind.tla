--------------------------- MODULE MultiplexRebind ---------------------------
(***************************************************************************)
(* How MultiplexingMonitoredItemSubscription binds its items to backends:  *)
(* one pump per backend, an AddItem coroutine per item, the OnBackendFailed*)
(* handler of a pump whose subscription failed, and the RebindLoop that    *)
(* routes lost items again.  MultiplexStream models the notifications.     *)
(*                                                                         *)
(* Everything runs on one executor: coroutines interleave where they wait, *)
(* and what is posted runs in the order of the posts.  A backend is        *)
(* external: it answers AddItems in its own time, and may refuse.          *)
(***************************************************************************)
EXTENDS Naturals, Sequences, FiniteSets

CONSTANTS
  MergedItems,
  Backends,
  Routes,       \* the answers the router may give for each item
  MaxFails,     \* bound: failures of backends
  MaxRefusals,  \* bound: refusals by a backend that is up
  Loop          \* the RebindLoop coroutine, beside the AddItem of each item

MaxPumps == Cardinality(Backends) + MaxFails + MaxRefusals
Pumps == 1..MaxPumps
Binders == MergedItems \cup {Loop}

ASSUME RebindAssumption ==
  /\ MaxFails \in Nat /\ MaxRefusals \in Nat /\ Loop \notin MergedItems
  /\ IsFiniteSet(Backends) /\ Cardinality(Backends) \in Nat
  /\ Routes \in [MergedItems -> SUBSET SUBSET Backends]

VARIABLES
  item,       \* new, adding, live (AddItem returned Good) or gone
  children,   \* how many children an item has for a backend, by their pumps
  needs_rebind,
  pumps,      \* the published pump of each backend, or 0
  pump,       \* each pump's backend and the state of its subscription
  served,     \* how many children of each item a pump's backend serves
  binder,     \* the BindRoutes call of each coroutine
  rebind,     \* RebindLoop: off, waiting for its timer, or in a pass
  todo,       \* the items of the pass
  posted,     \* the executor's queue
  up,         \* the backends that accept subscriptions
  merged_closed, fails, refusals

itemVars == <<item, children, needs_rebind>>
pumpVars == <<pumps, pump, served>>
loopVars == <<rebind, todo>>
envVars == <<up, fails, refusals>>
rebindVars == <<itemVars, pumpVars, binder, loopVars, posted, merged_closed, envVars>>

\* pc: off, running (between two waits), or waiting for AddItems on pump at.
NoBinder == [pc |-> "off", item |-> Loop, given |-> {}, routes |-> {}, at |-> 0,
             answer |-> "none", all_bound |-> TRUE]
NoPump == [backend |-> Loop, state |-> "none"]
NoChild == [p \in Pumps |-> 0]

RebindTypeOK ==
  /\ item \in [MergedItems -> {"new", "adding", "live", "gone"}]
  /\ children \in [MergedItems -> [Backends -> [Pumps -> Nat]]]
  /\ needs_rebind \in [MergedItems -> BOOLEAN]
  /\ pumps \in [Backends -> Pumps \cup {0}]
  /\ pump \in [Pumps -> [backend : Backends \cup {Loop},
                         state : {"none", "live", "failed", "closed"}]]
  /\ served \in [MergedItems -> [Pumps -> 0..2]]
  /\ binder \in [Binders -> [pc : {"off", "running", "waiting"},
                             item : Binders, given : SUBSET Backends,
                             routes : SUBSET Backends, at : Pumps \cup {0},
                             answer : {"none", "added", "refused"},
                             all_bound : BOOLEAN]]
  /\ rebind \in {"off", "timer", "pass"} /\ todo \subseteq MergedItems
  /\ posted \in Seq({"bind"} \X Binders \cup {"read", "failed"} \X Pumps)
  /\ up \subseteq Backends /\ merged_closed \in BOOLEAN
  /\ fails \in 0..MaxFails /\ refusals \in 0..MaxRefusals

RebindInit ==
  /\ item = [i \in MergedItems |-> "new"]
  /\ children = [i \in MergedItems |-> [b \in Backends |-> NoChild]]
  /\ needs_rebind = [i \in MergedItems |-> FALSE]
  /\ pumps = [b \in Backends |-> 0] /\ pump = [p \in Pumps |-> NoPump]
  /\ served = [i \in MergedItems |-> [p \in Pumps |-> 0]]
  /\ binder = [k \in Binders |-> NoBinder]
  /\ rebind = "off" /\ todo = {} /\ posted = <<>>
  /\ up = Backends /\ merged_closed = FALSE /\ fails = 0 /\ refusals = 0

Present(i) == item[i] \in {"adding", "live"}
Bound(i, b) == children[i][b] # NoChild
Unbound(i) == \A b \in Backends : ~Bound(i, b)

\* The executor is free: no coroutine is between two waits.
Idle ==
  /\ \A k \in Binders : binder[k].pc # "running"
  /\ rebind = "pass" => binder[Loop].pc = "waiting"

(***************************************************************************)
(* BindRoutes                                                              *)
(***************************************************************************)
Begin(k, i, routes) ==
  binder' = [binder EXCEPT ![k] =
    [NoBinder EXCEPT !.pc = "running", !.item = i, !.given = routes,
                     !.routes = routes]]

\* Route b is done with; it carries the item or not.
Leave(k, b, bound) ==
  binder' = [binder EXCEPT ![k].pc = "running", ![k].routes = @ \ {b}, ![k].at = 0,
                           ![k].answer = "none", ![k].all_bound = @ /\ bound]

\* pump->AddItems on pump p.
Ask(k, p) ==
  binder' = [binder EXCEPT ![k].pc = "waiting", ![k].at = p]

Unused == {p \in Pumps : pump[p] = NoPump}
NewPump == CHOOSE p \in Unused : TRUE

\* EnsurePump, and AddItems on the pump it returns: the published one, or one
\* made and started now, if the backend takes a subscription.
EnsurePump(k, b) ==
  \/ pumps[b] # 0 /\ Ask(k, pumps[b]) /\ UNCHANGED pumpVars
  \/ /\ pumps[b] = 0 /\ b \in up /\ Unused # {}
     /\ pump' = [pump EXCEPT ![NewPump] = [backend |-> b, state |-> "live"]]
     /\ pumps' = [pumps EXCEPT ![b] = NewPump]
     /\ Ask(k, NewPump) /\ UNCHANGED served
  \/ pumps[b] = 0 /\ b \notin up /\ Leave(k, b, FALSE) /\ UNCHANGED pumpVars

\* The next route: nothing to bind any more, already bound, or asked.
BindNext(k) ==
  LET i == binder[k].item IN
  /\ binder[k].pc = "running" /\ binder[k].routes # {}
  /\ \/ /\ merged_closed \/ ~Present(i)
        /\ binder' = [binder EXCEPT ![k].routes = {}, ![k].all_bound = FALSE]
        /\ UNCHANGED pumpVars
     \/ \E b \in binder[k].routes :
          /\ ~merged_closed /\ Present(i)
          /\ \/ Bound(i, b) /\ Leave(k, b, TRUE) /\ UNCHANGED pumpVars
             \/ ~Bound(i, b) /\ EnsurePump(k, b)
  /\ UNCHANGED <<itemVars, loopVars, posted, merged_closed, envVars>>

\* The backend answers AddItems; the coroutine's resumption is posted.
Answer(k, answer) ==
  /\ binder[k].pc = "waiting" /\ binder[k].answer = "none"
  /\ binder' = [binder EXCEPT ![k].answer = answer]
  /\ posted' = Append(posted, <<"bind", k>>)
  /\ UNCHANGED <<itemVars, pumps, pump, loopVars, merged_closed, up, fails>>

BackendAccepts(k) ==
  LET p == binder[k].at IN
  /\ Idle /\ Answer(k, "added") /\ pump[p].state = "live"
  /\ served' = [served EXCEPT ![binder[k].item][p] = @ + 1]
  /\ UNCHANGED refusals

\* A subscription that failed or is closed refuses in any case.
BackendRefuses(k) ==
  /\ Idle /\ Answer(k, "refused")
  /\ \/ pump[binder[k].at].state # "live" /\ UNCHANGED refusals
     \/ /\ pump[binder[k].at].state = "live" /\ refusals < MaxRefusals
        /\ refusals' = refusals + 1
  /\ UNCHANGED served

\* What is left when k of n children are taken off; a failed backend has none.
Less(n, k) == IF n < k THEN 0 ELSE n - k

MayPop == posted # <<>> /\ Idle
Pop == posted' = Tail(posted)

CarriesItemsLocked(b) == \E i \in MergedItems : Present(i) /\ Bound(i, b)

ClosePump(p) ==
  /\ pump' = [pump EXCEPT ![p].state = "closed"]
  /\ served' = [i \in MergedItems |-> [served[i] EXCEPT ![p] = 0]]

\* Mutant: the pump of a refused item is forgotten, not closed.
BindDoneForgetsPump(k) ==
  LET i == binder[k].item
      p == binder[k].at
      b == pump[p].backend IN
  /\ MayPop /\ Head(posted) = <<"bind", k>> /\ Pop
  /\ Leave(k, b, binder[k].answer = "added")
  /\ children' = IF binder[k].answer = "added" /\ Present(i)
                 THEN [children EXCEPT ![i][b][p] = @ + 1] ELSE children
  /\ pumps' = IF binder[k].answer = "refused" THEN [pumps EXCEPT ![b] = 0] ELSE pumps
  /\ UNCHANGED <<item, needs_rebind, pump, served, loopVars, merged_closed, envVars>>

\* The coroutine resumes: the item is bound; or it is gone and the backend is
\* told; or the backend refused, and a pump that carries nothing is dropped.
BindDone(k) ==
  LET i == binder[k].item
      p == binder[k].at
      b == pump[p].backend
      added == binder[k].answer = "added" IN
  /\ MayPop /\ Head(posted) = <<"bind", k>> /\ Pop
  /\ \/ /\ added /\ Present(i) /\ ~merged_closed
        /\ children' = [children EXCEPT ![i][b][p] = @ + 1]
        /\ Leave(k, b, TRUE) /\ UNCHANGED pumpVars
     \/ /\ added /\ (~Present(i) \/ merged_closed)
        /\ Leave(k, b, FALSE) /\ UNCHANGED <<children, pumps, pump>>
        /\ served' = IF pumps[b] = p THEN [served EXCEPT ![i][p] = Less(@, 1)]
                     ELSE served
     \/ /\ ~added /\ Leave(k, b, FALSE) /\ UNCHANGED children
        /\ IF ~merged_closed /\ ~CarriesItemsLocked(b) /\ pumps[b] = p
           THEN pumps' = [pumps EXCEPT ![b] = 0] /\ ClosePump(p)
           ELSE UNCHANGED pumpVars
  /\ UNCHANGED <<item, needs_rebind, loopVars, merged_closed, envVars>>

(***************************************************************************)
(* AddItem, RemoveItem, Close                                              *)
(***************************************************************************)
AddMergedItem(i) ==
  /\ Idle /\ item[i] = "new" /\ ~merged_closed
  /\ \E routes \in Routes[i] :
       \/ routes = {} /\ item' = [item EXCEPT ![i] = "gone"] /\ UNCHANGED binder
       \/ /\ routes # {} /\ item' = [item EXCEPT ![i] = "adding"]
          /\ Begin(i, i, routes)
  /\ UNCHANGED <<children, needs_rebind, pumpVars, loopVars, posted, merged_closed, envVars>>

\* The end of AddItem: an item no backend took is refused to the client.
AddItemReturns(i) ==
  /\ binder[i].pc = "running" /\ binder[i].routes = {}
  /\ item' = [item EXCEPT ![i] =
       IF Present(i) /\ ~Unbound(i) THEN "live" ELSE "gone"]
  /\ binder' = [binder EXCEPT ![i] = NoBinder]
  /\ UNCHANGED <<children, needs_rebind, pumpVars, loopVars, posted, merged_closed, envVars>>

\* How many children of item i the pump p carries, if it is published.
Published(p) == \E b \in Backends : pumps[b] = p
ChildrenOn(i, p) ==
  IF pump[p] = NoPump \/ ~Published(p) THEN 0 ELSE children[i][pump[p].backend][p]

\* RemoveItem takes each child off the present pump of its backend.
RemoveMergedItem(i) ==
  /\ Idle /\ item[i] = "live" /\ item' = [item EXCEPT ![i] = "gone"]
  /\ served' = [served EXCEPT ![i] =
                  [p \in Pumps |-> Less(@[p], ChildrenOn(i, p))]]
  /\ children' = [children EXCEPT ![i] = [b \in Backends |-> NoChild]]
  /\ UNCHANGED <<needs_rebind, pumps, pump, binder, loopVars, posted, merged_closed, envVars>>

CloseMerged ==
  /\ Idle /\ ~merged_closed /\ merged_closed' = TRUE
  /\ item' = [i \in MergedItems |-> IF Present(i) THEN "gone" ELSE item[i]]
  /\ children' = [i \in MergedItems |-> [b \in Backends |-> NoChild]]
  /\ pumps' = [b \in Backends |-> 0]
  /\ pump' = [p \in Pumps |-> IF pump[p] = NoPump THEN NoPump
                              ELSE [pump[p] EXCEPT !.state = "closed"]]
  /\ served' = [i \in MergedItems |-> [p \in Pumps |-> 0]]
  /\ UNCHANGED <<needs_rebind, binder, loopVars, posted, envVars>>

(***************************************************************************)
(* Failures and rebinding                                                  *)
(***************************************************************************)
\* The reads of the pumps in lost end, in some order.
PostReads(lost) ==
  \E n \in 0..MaxPumps : \E q \in [1..n -> lost] :
    /\ \A p \in lost : \E k \in 1..n : q[k] = p
    /\ \A j, k \in 1..n : q[j] = q[k] => j = k
    /\ posted' = posted \o [k \in 1..n |-> <<"read", q[k]>>]

\* A backend fails: its subscription ends, which resumes the pump's read.
BackendFails(b) ==
  /\ Idle /\ b \in up /\ fails < MaxFails
  /\ up' = up \ {b} /\ fails' = fails + 1
  /\ LET lost == {p \in Pumps : pump[p] = [backend |-> b, state |-> "live"]} IN
     /\ pump' = [p \in Pumps |-> IF p \in lost THEN [pump[p] EXCEPT !.state = "failed"]
                                 ELSE pump[p]]
     /\ served' = [i \in MergedItems |-> [p \in Pumps |->
                     IF p \in lost THEN 0 ELSE served[i][p]]]
     /\ PostReads(lost)
  /\ UNCHANGED <<itemVars, pumps, binder, loopVars, merged_closed, refusals>>

BackendRecovers(b) ==
  /\ Idle /\ b \notin up /\ up' = up \cup {b}
  /\ UNCHANGED <<itemVars, pumpVars, binder, loopVars, posted, merged_closed, fails, refusals>>

\* ReadLoop: the failed read ends the pump, whose error handler posts, unless
\* the pump was closed meanwhile.
ReadFails(p) ==
  /\ MayPop /\ Head(posted) = <<"read", p>>
  /\ posted' = Tail(posted) \o
       (IF pump[p].state = "closed" THEN <<>> ELSE <<<<"failed", p>>>>)
  /\ UNCHANGED <<itemVars, pumpVars, binder, loopVars, merged_closed, envVars>>

\* Mutant: the failure of a pump is taken for the failure of its successor.
FailureOfAny(p) ==
  LET b == pump[p].backend
      lost == {i \in MergedItems : Present(i) /\ Bound(i, b)} IN
  /\ MayPop /\ Head(posted) = <<"failed", p>> /\ Pop
  /\ \/ (merged_closed \/ pumps[b] = 0) /\ UNCHANGED <<itemVars, pumpVars, loopVars>>
     \/ /\ ~merged_closed /\ pumps[b] # 0
        /\ pumps' = [pumps EXCEPT ![b] = 0] /\ ClosePump(pumps[b])
        /\ children' = [i \in MergedItems |-> [children[i] EXCEPT ![b] = NoChild]]
        /\ needs_rebind' = [i \in MergedItems |-> needs_rebind[i] \/ i \in lost]
        /\ rebind' = IF lost # {} /\ rebind = "off" THEN "timer" ELSE rebind
        /\ UNCHANGED <<item, todo>>
  /\ UNCHANGED <<binder, merged_closed, envVars>>

\* Drops the dead pump, unbinds its items and starts the loop.  An item that
\* has no backend left is reported (MultiplexStream!ReportFailure).
OnBackendFailed(p) ==
  LET b == pump[p].backend
      lost == {i \in MergedItems : Present(i) /\ Bound(i, b)} IN
  /\ MayPop /\ Head(posted) = <<"failed", p>> /\ Pop
  /\ \/ (merged_closed \/ pumps[b] # p) /\ UNCHANGED <<itemVars, pumpVars, loopVars>>
     \/ /\ ~merged_closed /\ pumps[b] = p
        /\ pumps' = [pumps EXCEPT ![b] = 0] /\ ClosePump(p)
        /\ children' = [i \in MergedItems |-> [children[i] EXCEPT ![b] = NoChild]]
        /\ needs_rebind' = [i \in MergedItems |-> needs_rebind[i] \/ i \in lost]
        /\ rebind' = IF lost # {} /\ rebind = "off" THEN "timer" ELSE rebind
        /\ UNCHANGED <<item, todo>>
  /\ UNCHANGED <<binder, merged_closed, envVars>>

\* Mutant: the pass collects the items that are not lost.
CollectsBoundItems ==
  /\ Idle /\ rebind = "timer"
  /\ todo' = IF merged_closed THEN {} ELSE {i \in MergedItems : Present(i) /\ ~needs_rebind[i]}
  /\ rebind' = IF merged_closed \/ \A i \in MergedItems : ~(Present(i) /\ needs_rebind[i])
               THEN "off" ELSE "pass"
  /\ UNCHANGED <<itemVars, pumpVars, binder, posted, merged_closed, envVars>>

\* RebindLoop's timer: the loop ends when no item is lost, or starts a pass.
RebindTimer ==
  LET lost == {i \in MergedItems : Present(i) /\ needs_rebind[i]} IN
  /\ Idle /\ rebind = "timer"
  /\ todo' = IF merged_closed THEN {} ELSE lost
  /\ rebind' = IF merged_closed \/ lost = {} THEN "off" ELSE "pass"
  /\ UNCHANGED <<itemVars, pumpVars, binder, posted, merged_closed, envVars>>

\* The next item of the pass, if it is still there and lost; after the last
\* one the loop waits again.
PassNext ==
  /\ rebind = "pass" /\ binder[Loop].pc = "off"
  /\ \A k \in MergedItems : binder[k].pc # "running"
  /\ \/ /\ merged_closed \/ todo = {}
        /\ rebind' = IF merged_closed THEN "off" ELSE "timer"
        /\ todo' = {} /\ UNCHANGED binder
     \/ \E i \in todo :
          /\ ~merged_closed /\ todo' = todo \ {i} /\ UNCHANGED rebind
          /\ \/ ~(Present(i) /\ needs_rebind[i]) /\ UNCHANGED binder
             \/ /\ Present(i) /\ needs_rebind[i]
                /\ \E routes \in Routes[i] :
                     IF routes = {} THEN UNCHANGED binder ELSE Begin(Loop, i, routes)
  /\ UNCHANGED <<itemVars, pumpVars, posted, merged_closed, envVars>>

\* BindRoutes returned to RebindLoop.
RebindReturns ==
  LET i == binder[Loop].item IN
  /\ binder[Loop].pc = "running" /\ binder[Loop].routes = {}
  /\ needs_rebind' = IF Present(i)
                     THEN [needs_rebind EXCEPT ![i] = ~binder[Loop].all_bound]
                     ELSE needs_rebind
  /\ binder' = [binder EXCEPT ![Loop] = NoBinder]
  /\ UNCHANGED <<item, children, pumpVars, loopVars, posted, merged_closed, envVars>>

Run ==
  \/ \E k \in Binders : BindNext(k) \/ BindDone(k)
  \/ \E i \in MergedItems : AddItemReturns(i)
  \/ \E p \in Pumps : ReadFails(p) \/ OnBackendFailed(p)
  \/ RebindTimer \/ PassNext \/ RebindReturns

RebindNext ==
  \/ Run
  \/ \E k \in Binders : BackendAccepts(k) \/ BackendRefuses(k)
  \/ \E i \in MergedItems : AddMergedItem(i) \/ RemoveMergedItem(i)
  \/ CloseMerged
  \/ \E b \in Backends : BackendFails(b) \/ BackendRecovers(b)

RebindSpec == RebindInit /\ [][RebindNext]_rebindVars

\* The executor runs on, its timers expire, backends answer and come back, and
\* an item's node does not stay without an owner whenever the loop asks.
RebindFairSpec ==
  /\ RebindSpec /\ WF_rebindVars(Run)
  /\ \A k \in Binders : WF_rebindVars(BackendAccepts(k) \/ BackendRefuses(k))
  /\ \A b \in Backends : SF_rebindVars(BackendRecovers(b))
  /\ \A i \in MergedItems : SF_rebindVars(PassNext /\ binder'[Loop].item = i)

(***************************************************************************)
(* Properties                                                              *)
(***************************************************************************)
\* No pump is left reading a backend without being published, where nothing
\* would ever close it (EnsurePump, BindRoutes, OnBackendFailed, Close).
NoLeakedPump ==
  \A p \in Pumps : pump[p].state \in {"live", "failed"} => pumps[pump[p].backend] = p

\* A pump goes only when its subscription failed, when it refused an item, or
\* on Close: the late failure of its predecessor does not take it away
\* (OnBackendFailed: "A later pump for the same backend may already have
\* replaced this one").
SuccessorSurvives ==
  [][\A b \in Backends : pumps[b] # 0 /\ pumps'[b] # pumps[b] =>
       \/ pump[pumps[b]].state = "failed" \/ merged_closed'
       \/ \E k \in Binders : /\ binder[k].at = pumps[b]
                              /\ binder[k].answer = "refused"
                              /\ binder'[k].answer = "none"]_rebindVars

\* A backend serves an item that is gone only while a coroutine that can tell
\* it so is under way (RemoveItem, the orphan of BindRoutes).
RemovedIsUnserved ==
  \A i \in MergedItems, p \in Pumps :
    item[i] = "gone" /\ served[i][p] > 0 => \E k \in Binders :
      binder[k].item = i /\ binder[k].at = p /\ binder[k].answer = "added"

\* Nothing is left behind at a backend, whatever fails, refuses, is removed or
\* closed while AddItems is in flight: no pump leaks, no removed item stays.
NothingIsLeftBehind == NoLeakedPump /\ RemovedIsUnserved

Served(i) == \E p \in Pumps : served[i][p] > 0
OnItsWay(i) ==
  \/ needs_rebind[i]
  \/ \E n \in 1..Len(posted) : /\ posted[n][1] \in {"read", "failed"}
                               /\ \E b \in Backends : pumps[b] = posted[n][2] /\ Bound(i, b)

\* An item that lost its backend is served again, unless it is removed, the
\* subscription closed, or a healthy backend refuses (RebindLoop).
LostItemComesBack ==
  \A i \in MergedItems :
    needs_rebind[i] ~> Served(i) \/ ~Present(i) \/ merged_closed \/ refusals > 0

(***************************************************************************)
(* Expectations stated in the code that TLC refutes                        *)
(***************************************************************************)
\* An item is bound to a backend once ("to each of `routes` it is not already
\* bound to"): a second child would deliver every notification twice.  It
\* fails when AddItem and RebindLoop bind one item at the same time.
BoundOnce ==
  \A i \in MergedItems, b \in Backends : \A p, q \in Pumps :
    children[i][b][p] <= 1 /\ (children[i][b][p] > 0 /\ children[i][b][q] > 0 => p = q)

\* BindRoutes "Returns true when every route now carries the item": RebindLoop
\* then takes the item for bound and tries no further.  It fails when one of
\* two backends fails while the other one is asked.
TrueMeansBound ==
  /\ binder[Loop].pc = "running" /\ binder[Loop].routes = {}
  /\ binder[Loop].all_bound /\ Present(binder[Loop].item)
  => \A b \in binder[Loop].given : Bound(binder[Loop].item, b)

\* A live item is served, or on its way to a backend again.  It fails when a
\* healthy backend has accepted an item whose coroutine has not resumed, and
\* refuses the next one: the pump counts as idle and is closed.
AcceptedItemIsRouted ==
  \A i \in MergedItems : ~merged_closed /\ item[i] = "live" => Served(i) \/ OnItsWay(i)
=============================================================================
