------------------------- MODULE MultiplexRebindSteps -------------------------
(***************************************************************************)
(* The inductive invariant of the multiplexing subscription's bindings,    *)
(* and the steps of the BindRoutes coroutines that keep it: a route taken, *)
(* a backend's answer, and an item that is bound.  The argument counts: a  *)
(* live subscription serves an item at most once for each child the item   *)
(* has on its pump and for each coroutine about to learn that the item was *)
(* added.                                                                  *)
(***************************************************************************)
EXTENDS MultiplexRebind, TLAPS

\* A step that names no prover is tried with these.
USE SMTT(30), ZenonT(30)

\* How many children are on each pump.
Tally == [Pumps -> Nat]

BinderType == [pc : {"off", "running", "waiting"}, item : Binders,
               given : SUBSET Backends, routes : SUBSET Backends,
               at : Pumps \cup {0}, answer : {"none", "added", "refused"},
               all_bound : BOOLEAN]

Post == ({"bind"} \X Binders) \cup ({"read", "failed"} \X Pumps)

RebindTypes ==
  /\ item \in [MergedItems -> {"new", "adding", "live", "gone"}]
  /\ children \in [MergedItems -> [Backends -> Tally]]
  /\ pumps \in [Backends -> Pumps \cup {0}]
  /\ pump \in [Pumps -> [backend : Backends \cup {Loop},
                         state : {"none", "live", "failed", "closed"}]]
  /\ served \in [MergedItems -> [Pumps -> Nat]]
  /\ binder \in [Binders -> BinderType]
  /\ todo \subseteq MergedItems /\ posted \in Seq(Post)

\* A pump is unused or belongs to a backend; it is published while, and only
\* while, its subscription lives or its failure has not been handled.
PumpsInv ==
  /\ \A p \in Pumps : \/ pump[p] = NoPump
                      \/ pump[p].state # "none" /\ pump[p].backend \in Backends
  /\ NoLeakedPump
  /\ \A b \in Backends : pumps[b] # 0 => /\ pump[pumps[b]].backend = b
                                         /\ pump[pumps[b]].state \in {"live", "failed"}

\* A coroutine that waits has asked a pump for its item; it has an answer only
\* while it waits.  Only an item that is present has children.
BindersInv ==
  /\ \A k \in Binders :
       /\ binder[k].pc = "waiting" => /\ binder[k].at \in Pumps
                                      /\ pump[binder[k].at] # NoPump
       /\ binder[k].answer # "none" => binder[k].pc = "waiting"
       /\ binder[k].pc # "off" => /\ binder[k].item \in MergedItems
                                  /\ k \in MergedItems => binder[k].item = k
  /\ \A i \in MergedItems : item[i] = "new" => binder[i].pc = "off"
  /\ \A i \in MergedItems : ~Present(i) => Unbound(i)

\* The resumption of a coroutine is posted once, after the answer; what a pump
\* posts, it posts after its subscription has failed.
PostsInv ==
  /\ \A n \in 1..Len(posted) :
       /\ posted[n][1] = "bind" => binder[posted[n][2]].answer # "none"
       /\ posted[n][1] # "bind" => pump[posted[n][2]].state \in {"failed", "closed"}
  /\ \A m, n \in 1..Len(posted) :
       posted[m][1] = "bind" /\ posted[m] = posted[n] => m = n

Tells(k, i, p) == binder[k].item = i /\ binder[k].at = p /\ binder[k].answer = "added"
Telling(k, i, p) == IF Tells(k, i, p) THEN 1 ELSE 0

\* A live subscription serves an item at most once for each child the item has
\* on it and for each coroutine about to learn that the item was added.
ServedInv ==
  \A i \in MergedItems, p \in Pumps :
    /\ served[i][p] > 0 => pump[p].state = "live"
    /\ served[i][p] <= (ChildrenOn(i, p) + Telling(i, i, p)) + Telling(Loop, i, p)

RebindInv == RebindTypes /\ PumpsInv /\ BindersInv /\ PostsInv /\ ServedInv

\* The pumps are numbered, and 0 is none of them.
LEMMA PumpsFacts == MaxPumps \in Nat /\ Pumps \subseteq Nat /\ 0 \notin Pumps
<1>1. MaxPumps \in Nat
  BY RebindAssumption DEF MaxPumps
<1> QED
  BY <1>1 DEF Pumps

\* A tally gives a number for each pump, and the empty one gives none.
LEMMA TallyFacts ==
  /\ \A t \in Tally, p \in Pumps : t[p] \in Nat
  /\ NoChild \in Tally /\ \A p \in Pumps : NoChild[p] = 0
  BY DEF Tally, NoChild

\* The children of an item on a pump.
LEMMA ChildrenOnNat ==
  ASSUME RebindTypes, PumpsInv, NEW i \in MergedItems, NEW p \in Pumps
  PROVE  ChildrenOn(i, p) \in Nat
<1>1. CASE pump[p] = NoPump \/ ~Published(p)
  BY <1>1 DEF ChildrenOn
<1>2. CASE ~(pump[p] = NoPump \/ ~Published(p))
  <2>1. children[i][pump[p].backend] \in Tally
    BY <1>2 DEF PumpsInv, RebindTypes
  <2> QED
    BY <1>2, <2>1, TallyFacts DEF ChildrenOn
<1> QED
  BY <1>1, <1>2

\* What is published changes with the table of pumps only.
LEMMA SamePublished ==
  ASSUME pumps' = pumps, NEW p PROVE Published(p)' <=> Published(p)
  BY DEF Published

\* They do not change while the item, the pump and its publication do not.
LEMMA SameChildren ==
  ASSUME NEW i, NEW p, children'[i] = children[i], pump'[p] = pump[p],
         Published(p)' <=> Published(p)
  PROVE  ChildrenOn(i, p)' = ChildrenOn(i, p)
<1>1. CASE pump[p] = NoPump \/ ~Published(p)
  <2>1. ChildrenOn(i, p) = 0
    BY <1>1 DEF ChildrenOn
  <2>2. ChildrenOn(i, p)' = 0
    BY <1>1 DEF ChildrenOn
  <2> QED
    BY <2>1, <2>2
<1>2. CASE ~(pump[p] = NoPump \/ ~Published(p))
  <2> DEFINE c == children[i][pump[p].backend][p]
  <2>1. ChildrenOn(i, p) = c
    BY <1>2 DEF ChildrenOn
  <2>2. ChildrenOn(i, p)' = c
    BY <1>2 DEF ChildrenOn
  <2> QED
    BY <2>1, <2>2
<1> QED
  BY <1>1, <1>2

\* A route is left.
LEMMA LeaveEffect ==
  ASSUME RebindTypes, NEW k \in Binders, NEW b, NEW bound \in BOOLEAN, Leave(k, b, bound)
  PROVE  /\ binder' \in [Binders -> BinderType]
         /\ \A m \in Binders \ {k} : binder'[m] = binder[m]
         /\ binder'[k].pc = "running" /\ binder'[k].item = binder[k].item
         /\ binder'[k].at = 0 /\ binder'[k].answer = "none"
<1>1. binder[k] \in BinderType /\ binder \in [Binders -> BinderType]
  BY DEF RebindTypes
<1>2. \A m \in Binders \ {k} : binder'[m] = binder[m]
  BY <1>1 DEF Leave
<1>3. /\ binder'[k].pc = "running" /\ binder'[k].item = binder[k].item
      /\ binder'[k].at = 0 /\ binder'[k].answer = "none"
      /\ binder'[k] \in BinderType
  BY <1>1, ZenonT(60) DEF BinderType, Leave
<1>4. binder' \in [Binders -> BinderType]
  BY <1>1, <1>2, <1>3 DEF Leave
<1> QED
  BY <1>2, <1>3, <1>4

\* A pump is asked.
LEMMA AskEffect ==
  ASSUME RebindTypes, NEW k \in Binders, NEW p \in Pumps, Ask(k, p)
  PROVE  /\ binder' \in [Binders -> BinderType]
         /\ \A m \in Binders \ {k} : binder'[m] = binder[m]
         /\ binder'[k].pc = "waiting" /\ binder'[k].item = binder[k].item
         /\ binder'[k].at = p /\ binder'[k].answer = binder[k].answer
<1>1. binder[k] \in BinderType /\ binder \in [Binders -> BinderType]
  BY DEF RebindTypes
<1>2. \A m \in Binders \ {k} : binder'[m] = binder[m]
  BY <1>1 DEF Ask
<1>3. /\ binder'[k].pc = "waiting" /\ binder'[k].item = binder[k].item
      /\ binder'[k].at = p /\ binder'[k].answer = binder[k].answer
      /\ binder'[k] \in BinderType
  BY <1>1, Zenon DEF BinderType, Ask
<1>4. binder' \in [Binders -> BinderType]
  BY <1>1, <1>2, <1>3 DEF Ask
<1> QED
  BY <1>2, <1>3, <1>4

\* A coroutine begins to bind an item.
LEMMA BeginEffect ==
  ASSUME RebindTypes, NEW k \in Binders, NEW i \in MergedItems,
         NEW routes \in SUBSET Backends, Begin(k, i, routes)
  PROVE  /\ binder' \in [Binders -> BinderType]
         /\ \A m \in Binders \ {k} : binder'[m] = binder[m]
         /\ binder'[k].pc = "running" /\ binder'[k].item = i
         /\ binder'[k].at = 0 /\ binder'[k].answer = "none"
<1>1. binder \in [Binders -> BinderType] /\ i \in Binders /\ Loop \in Binders
  BY DEF RebindTypes, Binders
<1> DEFINE r == [NoBinder EXCEPT !.pc = "running", !.item = i, !.given = routes,
                                 !.routes = routes]
<1>2. binder' = [binder EXCEPT ![k] = r]
  BY DEF Begin
<1>3. /\ r \in BinderType /\ r.pc = "running" /\ r.item = i
      /\ r.at = 0 /\ r.answer = "none"
  BY <1>1, Zenon DEF BinderType, NoBinder
<1> HIDE DEF r
<1> QED
  BY <1>1, <1>2, <1>3

\* A coroutine is done.
LEMMA ResetEffect ==
  ASSUME RebindTypes, NEW k \in Binders, binder' = [binder EXCEPT ![k] = NoBinder]
  PROVE  /\ binder' \in [Binders -> BinderType]
         /\ \A m \in Binders \ {k} : binder'[m] = binder[m]
         /\ binder'[k].pc = "off" /\ binder'[k].at = 0 /\ binder'[k].answer = "none"
<1>1. NoBinder \in BinderType /\ NoBinder.pc = "off" /\ NoBinder.at = 0
      /\ NoBinder.answer = "none"
  BY DEF BinderType, NoBinder, Binders
<1>2. binder \in [Binders -> BinderType]
  BY DEF RebindTypes
<1> HIDE DEF NoBinder
<1> QED
  BY <1>1, <1>2

\* The rest of the executor's queue.
LEMMA RestOfPosts ==
  ASSUME posted \in Seq(Post), posted # <<>>
  PROVE  /\ Tail(posted) \in Seq(Post) /\ Len(Tail(posted)) = Len(posted) - 1
         /\ \A n \in 1..Len(Tail(posted)) :
              n + 1 \in 1..Len(posted) /\ Tail(posted)[n] = posted[n + 1]
         /\ Head(posted) = posted[1] /\ 1 \in 1..Len(posted) /\ posted[1] \in Post
  OBVIOUS

\* What serves nothing new and tells nothing else keeps the account of what is
\* served.
LEMMA SameAccount ==
  ASSUME ServedInv, UNCHANGED <<served, children, pumps, pump>>,
         \A k \in Binders, i \in MergedItems, p \in Pumps : Tells(k, i, p)' <=> Tells(k, i, p)
  PROVE  ServedInv'
<1>1. ASSUME NEW i \in MergedItems, NEW p \in Pumps
      PROVE  /\ ChildrenOn(i, p)' = ChildrenOn(i, p)
             /\ Telling(i, i, p)' = Telling(i, i, p)
             /\ Telling(Loop, i, p)' = Telling(Loop, i, p)
  BY SamePublished DEF ChildrenOn, Telling, Binders
<1> QED
  BY <1>1 DEF ServedInv

\* A step of one coroutine that has no answer before it nor after it, and leaves
\* the pumps, the children and the executor's queue alone.
LEMMA CoroutineStep ==
  ASSUME RebindInv, NEW k \in Binders,
         UNCHANGED <<children, pumps, pump, served, posted>>,
         todo' \subseteq MergedItems,
         item' \in [MergedItems -> {"new", "adding", "live", "gone"}],
         \A i \in MergedItems : item'[i] = "new" => binder'[i].pc = "off",
         \A i \in MergedItems : item'[i] \notin {"adding", "live"} => Unbound(i),
         binder' \in [Binders -> BinderType],
         \A m \in Binders \ {k} : binder'[m] = binder[m],
         binder[k].answer = "none", binder'[k].answer = "none",
         binder'[k].pc = "waiting" => /\ binder'[k].at \in Pumps
                                      /\ pump[binder'[k].at] # NoPump,
         binder'[k].pc # "off" => /\ binder'[k].item \in MergedItems
                                  /\ k \in MergedItems => binder'[k].item = k
  PROVE  RebindInv'
<1>1. RebindTypes'
  BY DEF RebindInv, RebindTypes
<1>2. PumpsInv'
  BY DEF RebindInv, PumpsInv, NoLeakedPump
<1>3. BindersInv'
  <2>1. ASSUME NEW m \in Binders
        PROVE  /\ binder'[m].pc = "waiting" => /\ binder'[m].at \in Pumps
                                               /\ pump'[binder'[m].at] # NoPump
               /\ binder'[m].answer # "none" => binder'[m].pc = "waiting"
               /\ binder'[m].pc # "off" => /\ binder'[m].item \in MergedItems
                                           /\ m \in MergedItems => binder'[m].item = m
    BY DEF RebindInv, BindersInv
  <2>2. ASSUME NEW i \in MergedItems, ~Present(i)' PROVE Unbound(i)'
    BY <2>2 DEF Present, Unbound, Bound
  <2> QED
    BY <2>1, <2>2 DEF BindersInv
<1>4. PostsInv'
  <2>1. \A m \in Binders : binder'[m].answer = binder[m].answer
    OBVIOUS
  <2>2. \A n \in 1..Len(posted) : posted[n] \in Post
    BY DEF RebindInv, RebindTypes
  <2>3. \A n \in 1..Len(posted) : posted[n][1] = "bind" => posted[n][2] \in Binders
    BY <2>2 DEF Post
  <2> QED
    BY <2>1, <2>3 DEF RebindInv, PostsInv
<1>5. ServedInv'
  <2>1. ASSUME NEW m \in Binders, NEW i \in MergedItems, NEW p \in Pumps
        PROVE  Tells(m, i, p)' <=> Tells(m, i, p)
    BY DEF Tells
  <2> QED
    BY <2>1, SameAccount DEF RebindInv
<1> QED
  BY <1>1, <1>2, <1>3, <1>4, <1>5 DEF RebindInv

\* Nothing of the invariant is touched.
LEMMA SameRebind ==
  ASSUME RebindInv, UNCHANGED <<item, children, pumpVars, binder, posted>>,
         todo' \subseteq MergedItems
  PROVE  RebindInv'
<1>1. ServedInv'
  <2>1. ASSUME NEW m \in Binders, NEW i \in MergedItems, NEW p \in Pumps
        PROVE  Tells(m, i, p)' <=> Tells(m, i, p)
    BY DEF Tells
  <2> QED
    BY <2>1, SameAccount DEF RebindInv, pumpVars
<1>2. RebindTypes' /\ PumpsInv' /\ PostsInv'
  BY DEF RebindInv, RebindTypes, PumpsInv, NoLeakedPump, PostsInv, pumpVars
<1>3. BindersInv'
  BY DEF RebindInv, BindersInv, Present, Unbound, Bound, pumpVars
<1> QED
  BY <1>1, <1>2, <1>3 DEF RebindInv

\* EnsurePump makes a pump: an unused one, which serves nothing yet.
LEMMA NewPumpKeeps ==
  ASSUME RebindInv, NEW k \in Binders, NEW b \in Backends, NEW q \in Pumps,
         binder[k].pc = "running", pumps[b] = 0, pump[q] = NoPump,
         pump' = [pump EXCEPT ![q] = [backend |-> b, state |-> "live"]],
         pumps' = [pumps EXCEPT ![b] = q],
         Ask(k, q), UNCHANGED <<served, itemVars, loopVars, posted>>
  PROVE  RebindInv'
<1> USE PumpsFacts
<1>1. /\ binder' \in [Binders -> BinderType]
      /\ \A m \in Binders \ {k} : binder'[m] = binder[m]
      /\ binder'[k].pc = "waiting" /\ binder'[k].item = binder[k].item
      /\ binder'[k].at = q /\ binder'[k].answer = binder[k].answer
  BY AskEffect DEF RebindInv
<1>2. /\ pump'[q] = [backend |-> b, state |-> "live"]
      /\ \A p \in Pumps \ {q} : pump'[p] = pump[p]
      /\ pumps'[b] = q /\ \A c \in Backends \ {b} : pumps'[c] = pumps[c]
      /\ pump' \in [Pumps -> [backend : Backends \cup {Loop},
                              state : {"none", "live", "failed", "closed"}]]
      /\ pumps' \in [Backends -> Pumps \cup {0}]
  BY DEF RebindInv, RebindTypes
<1>3. pump[q].state = "none" /\ binder[k].answer = "none"
  BY DEF NoPump, RebindInv, BindersInv
<1>4. RebindTypes'
  BY <1>1, <1>2 DEF RebindInv, RebindTypes, itemVars, loopVars
<1>5. \A c \in Backends : pumps[c] # q
  BY <1>3 DEF RebindInv, PumpsInv
<1>6. PumpsInv'
  <2>1. \A p \in Pumps : \/ pump'[p] = NoPump
                         \/ pump'[p].state # "none" /\ pump'[p].backend \in Backends
    <3> SUFFICES ASSUME NEW p \in Pumps
                 PROVE  \/ pump'[p] = NoPump
                        \/ pump'[p].state # "none" /\ pump'[p].backend \in Backends
      OBVIOUS
    <3>1. CASE p = q
      BY <1>2, <3>1
    <3>2. CASE p # q
      BY <1>2, <3>2, Zenon DEF RebindInv, PumpsInv
    <3> QED
      BY <3>1, <3>2
  <2>2. NoLeakedPump'
    <3> SUFFICES ASSUME NEW p \in Pumps, pump'[p].state \in {"live", "failed"}
                 PROVE  pumps'[pump'[p].backend] = p
      BY DEF NoLeakedPump
    <3>1. CASE p = q
      BY <1>2, <3>1
    <3>2. CASE p # q
      <4>1. pump[p].backend \in Backends /\ pumps[pump[p].backend] = p
        BY <1>2, <3>2 DEF RebindInv, PumpsInv, NoLeakedPump, NoPump
      <4>2. pump[p].backend # b
        BY <4>1
      <4> QED
        BY <1>2, <3>2, <4>1, <4>2
    <3> QED
      BY <3>1, <3>2
  <2>3. ASSUME NEW c \in Backends, pumps'[c] # 0
        PROVE  /\ pump'[pumps'[c]].backend = c
               /\ pump'[pumps'[c]].state \in {"live", "failed"}
    <3>1. CASE c = b
      BY <1>2, <3>1
    <3>2. CASE c # b
      <4>1. pumps'[c] = pumps[c] /\ pumps[c] \in Pumps \ {q}
        BY <1>2, <1>5, <2>3, <3>2 DEF RebindInv, RebindTypes
      <4> QED
        BY <1>2, <2>3, <4>1 DEF RebindInv, PumpsInv
    <3> QED
      BY <3>1, <3>2
  <2> QED
    BY <2>1, <2>2, <2>3 DEF PumpsInv
<1>7. BindersInv'
  <2>1. ASSUME NEW m \in Binders
        PROVE  /\ binder'[m].pc = "waiting" => /\ binder'[m].at \in Pumps
                                               /\ pump'[binder'[m].at] # NoPump
               /\ binder'[m].answer # "none" => binder'[m].pc = "waiting"
               /\ binder'[m].pc # "off" => /\ binder'[m].item \in MergedItems
                                           /\ m \in MergedItems => binder'[m].item = m
    BY <1>1, <1>2, <1>3 DEF RebindInv, BindersInv, NoPump
  <2>2. \A i \in MergedItems : item'[i] = "new" => binder'[i].pc = "off"
    BY <1>1 DEF RebindInv, BindersInv, itemVars, Binders
  <2>3. \A i \in MergedItems : ~Present(i)' => Unbound(i)'
    BY DEF RebindInv, BindersInv, itemVars, Present, Unbound, Bound
  <2> QED
    BY <2>1, <2>2, <2>3, Zenon DEF BindersInv
<1>8. PostsInv'
  <2>1. \A n \in 1..Len(posted) : posted[n] \in Post
    BY DEF RebindInv, RebindTypes
  <2>2. \A n \in 1..Len(posted) :
          /\ posted[n][1] = "bind" => posted[n][2] \in Binders
          /\ posted[n][1] # "bind" => posted[n][2] \in Pumps
    BY <2>1 DEF Post
  <2>3. \A n \in 1..Len(posted) : posted[n][1] # "bind" => posted[n][2] # q
    BY <1>3, Zenon DEF RebindInv, PostsInv
  <2> QED
    BY <1>1, <1>2, <2>2, <2>3 DEF RebindInv, PostsInv
<1>9. ServedInv'
  <2> SUFFICES ASSUME NEW i \in MergedItems, NEW p \in Pumps
               PROVE  /\ served[i][p] > 0 => pump'[p].state = "live"
                      /\ served[i][p] <= (ChildrenOn(i, p)' + Telling(i, i, p)')
                                         + Telling(Loop, i, p)'
    BY Zenon DEF ServedInv
  <2>1. served[i][p] \in Nat
    BY DEF RebindInv, RebindTypes
  <2>2. \A m \in Binders : Telling(m, i, p)' = Telling(m, i, p)
    BY <1>1, <1>3, Zenon DEF Telling, Tells
  <2>3. Telling(i, i, p)' = Telling(i, i, p) /\ Telling(Loop, i, p)' = Telling(Loop, i, p)
        /\ Telling(i, i, p) \in {0, 1} /\ Telling(Loop, i, p) \in {0, 1}
    BY <2>2, Zenon DEF Binders, Telling
  <2>4. CASE p = q
    <3>1. served[i][p] = 0
      BY <1>3, <2>1, <2>4 DEF RebindInv, ServedInv
    <3>2. ChildrenOn(i, p)' \in Nat
      <4>1. RebindTypes' /\ PumpsInv'
        BY <1>4, <1>6
      <4>2. children' = children
        BY DEF itemVars
      <4>3. CASE ~Published(p)'
        BY <4>3 DEF ChildrenOn
      <4>4. CASE pump'[p] = NoPump
        BY <4>4 DEF ChildrenOn
      <4>5. CASE pump'[p] # NoPump /\ Published(p)'
        <5>1. children'[i][pump'[p].backend] \in Tally
          BY <4>1, <4>5 DEF PumpsInv, RebindTypes
        <5> QED
          BY <4>5, <5>1, TallyFacts, Zenon DEF ChildrenOn
      <4> QED
        BY <4>3, <4>4, <4>5, Zenon
    <3> QED
      BY <2>3, <3>1, <3>2
  <2>5. CASE p # q
    <3>1. pump'[p] = pump[p]
      BY <1>2, <2>5, Zenon
    <3>2. Published(p)' <=> Published(p)
      <4>1. DOMAIN pumps = Backends /\ DOMAIN pumps' = Backends /\ p # 0
        BY <1>2 DEF RebindInv, RebindTypes
      <4> QED
        BY <1>2, <2>5, <4>1 DEF Published
    <3>3. children' = children
      BY DEF itemVars
    <3>4. ChildrenOn(i, p)' = ChildrenOn(i, p)
      BY <3>1, <3>2, <3>3, SameChildren
    <3> QED
      BY <2>3, <3>1, <3>4, Zenon DEF RebindInv, ServedInv
  <2> QED
    BY <2>4, <2>5
<1> QED
  BY <1>4, <1>6, <1>7, <1>8, <1>9 DEF RebindInv

\* A coroutine goes on to its next route.
LEMMA BindNextKeeps ==
  ASSUME RebindInv, NEW k \in Binders, BindNext(k)
  PROVE  RebindInv'
<1> USE PumpsFacts
<1>1. /\ binder[k].pc = "running" /\ binder[k].answer = "none"
      /\ binder[k].item \in MergedItems /\ (k \in MergedItems => binder[k].item = k)
      /\ binder \in [Binders -> BinderType] /\ binder[k] \in BinderType
      /\ UNCHANGED <<itemVars, loopVars, posted>>
      /\ \A i \in MergedItems : item[i] = "new" => k # i
      /\ \A i \in MergedItems : item[i] \notin {"adding", "live"} => Unbound(i)
      /\ todo' \subseteq MergedItems
      /\ item' = item /\ item \in [MergedItems -> {"new", "adding", "live", "gone"}]
  BY DEF BindNext, RebindInv, BindersInv, RebindTypes, itemVars, loopVars, Present
<1>2. ASSUME NEW b \in Backends, NEW bound \in BOOLEAN, Leave(k, b, bound), UNCHANGED pumpVars
      PROVE  RebindInv'
  <2>1. /\ binder' \in [Binders -> BinderType]
        /\ \A m \in Binders \ {k} : binder'[m] = binder[m]
        /\ binder'[k].pc = "running" /\ binder'[k].item = binder[k].item
        /\ binder'[k].at = 0 /\ binder'[k].answer = "none"
    BY <1>2, LeaveEffect DEF RebindInv
  <2>2. \A i \in MergedItems : item'[i] = "new" => binder'[i].pc = "off"
    BY <1>1, <2>1 DEF RebindInv, BindersInv, Binders
  <2> QED
    BY <1>1, <1>2, <2>1, <2>2, CoroutineStep DEF itemVars, pumpVars
<1>3. ASSUME NEW p \in Pumps, pump[p] # NoPump, Ask(k, p), UNCHANGED pumpVars
      PROVE  RebindInv'
  <2>1. /\ binder' \in [Binders -> BinderType]
        /\ \A m \in Binders \ {k} : binder'[m] = binder[m]
        /\ binder'[k].pc = "waiting" /\ binder'[k].item = binder[k].item
        /\ binder'[k].at = p /\ binder'[k].answer = binder[k].answer
    BY <1>3, AskEffect, Zenon DEF RebindInv
  <2>2. \A i \in MergedItems : item'[i] = "new" => binder'[i].pc = "off"
    BY <1>1, <2>1 DEF RebindInv, BindersInv, Binders
  <2> QED
    BY <1>1, <1>3, <2>1, <2>2, CoroutineStep DEF itemVars, pumpVars
<1>4. ASSUME binder' = [binder EXCEPT ![k].routes = {}, ![k].all_bound = FALSE],
             UNCHANGED pumpVars
      PROVE  RebindInv'
  <2>1. \A m \in Binders \ {k} : binder'[m] = binder[m]
    BY <1>1, <1>4
  <2>2. /\ binder'[k] \in BinderType
        /\ binder'[k].pc = "running" /\ binder'[k].item = binder[k].item
        /\ binder'[k].answer = "none"
    BY <1>1, <1>4, Zenon DEF BinderType
  <2>3. binder' \in [Binders -> BinderType]
    BY <1>1, <1>4, <2>1, <2>2
  <2>4. \A i \in MergedItems : item'[i] = "new" => binder'[i].pc = "off"
    BY <1>1, <2>1 DEF RebindInv, BindersInv, Binders
  <2> QED
    <3>1. UNCHANGED <<item, children, pumps, pump, served>>
      BY <1>1, <1>4, Zenon DEF itemVars, pumpVars
    <3> QED
      BY <1>1, <2>1, <2>2, <2>3, <2>4, <3>1, CoroutineStep, ZenonT(60)
<1>5. ASSUME NEW b \in Backends, EnsurePump(k, b)
      PROVE  RebindInv'
  <2>1. CASE pumps[b] # 0 /\ Ask(k, pumps[b]) /\ UNCHANGED pumpVars
    <3>1. pumps[b] \in Pumps /\ pump[pumps[b]] # NoPump
      <4>1. pumps[b] \in Pumps
        BY <2>1 DEF RebindInv, RebindTypes
      <4>2. pump[pumps[b]].state \in {"live", "failed"}
        BY <2>1 DEF RebindInv, PumpsInv
      <4> QED
        BY <4>1, <4>2 DEF NoPump
    <3> QED
      BY <1>3, <2>1, <3>1, Zenon
  <2>2. CASE /\ pumps[b] = 0 /\ Unused # {}
             /\ pump' = [pump EXCEPT ![NewPump] = [backend |-> b, state |-> "live"]]
             /\ pumps' = [pumps EXCEPT ![b] = NewPump]
             /\ Ask(k, NewPump) /\ UNCHANGED served
    <3>1. NewPump \in Unused
      BY <2>2 DEF NewPump
    <3>2. NewPump \in Pumps /\ pump[NewPump] = NoPump
      BY <3>1 DEF Unused
    <3> HIDE DEF NewPump
    <3> QED
      BY <1>1, <2>2, <3>2, NewPumpKeeps, Zenon
  <2>3. CASE Leave(k, b, FALSE) /\ UNCHANGED pumpVars
    BY <1>2, <2>3, Zenon
  <2> QED
    BY <1>5, <2>1, <2>2, <2>3, Zenon DEF EnsurePump
<1>6. binder[k].routes \subseteq Backends
  BY <1>1 DEF BinderType
<1>7. \/ /\ binder' = [binder EXCEPT ![k].routes = {}, ![k].all_bound = FALSE]
         /\ UNCHANGED pumpVars
      \/ \E b \in binder[k].routes :
           \/ Leave(k, b, TRUE) /\ UNCHANGED pumpVars
           \/ EnsurePump(k, b)
  BY Zenon DEF BindNext
<1> QED
  BY <1>2, <1>4, <1>5, <1>6, <1>7, Zenon
\* The answer of a backend: what it changes whether it accepts or refuses.
LEMMA AnswerKeeps ==
  ASSUME RebindInv, NEW k \in Binders, NEW answer \in {"added", "refused"},
         Answer(k, answer), served' \in [MergedItems -> [Pumps -> Nat]]
  PROVE  /\ RebindTypes' /\ PumpsInv' /\ BindersInv' /\ PostsInv'
         /\ \A m \in Binders \ {k} : binder'[m] = binder[m]
         /\ binder'[k].item = binder[k].item /\ binder'[k].at = binder[k].at
         /\ binder'[k].answer = answer
<1>1. binder[k] \in BinderType /\ binder \in [Binders -> BinderType]
  BY DEF RebindInv, RebindTypes
<1>2. \A m \in Binders \ {k} : binder'[m] = binder[m]
  BY <1>1 DEF Answer
<1>3. /\ binder'[k].item = binder[k].item /\ binder'[k].at = binder[k].at
      /\ binder'[k].answer = answer /\ binder'[k].pc = binder[k].pc
      /\ binder'[k] \in BinderType
  BY <1>1, Zenon DEF Answer, BinderType
<1>4. binder' \in [Binders -> BinderType]
  BY <1>1, <1>2, <1>3 DEF Answer
<1>5. /\ UNCHANGED <<item, children, pumps, pump, todo>>
      /\ posted' = Append(posted, <<"bind", k>>)
      /\ binder[k].pc = "waiting" /\ binder[k].answer = "none"
  BY DEF Answer, itemVars, loopVars
<1>6. <<"bind", k>> \in Post
  BY DEF Post
<1>7. /\ posted \in Seq(Post) /\ posted' \in Seq(Post) /\ Len(posted') = Len(posted) + 1
      /\ posted'[Len(posted')] = <<"bind", k>>
      /\ \A n \in 1..Len(posted) : posted'[n] = posted[n]
      /\ 1..Len(posted') = (1..Len(posted)) \cup {Len(posted')}
  <2> DEFINE e == <<"bind", k>>
  <2>1. posted \in Seq(Post) /\ posted' = Append(posted, e) /\ e \in Post
    BY <1>5, <1>6 DEF RebindInv, RebindTypes
  <2> HIDE DEF e
  <2>2. /\ posted' \in Seq(Post) /\ Len(posted') = Len(posted) + 1
        /\ posted'[Len(posted')] = e
        /\ \A n \in 1..Len(posted) : posted'[n] = posted[n]
        /\ 1..Len(posted') = (1..Len(posted)) \cup {Len(posted')}
    BY <2>1
  <2> QED
    BY <2>1, <2>2 DEF e
<1>8. RebindTypes'
  BY <1>4, <1>5, <1>7 DEF RebindInv, RebindTypes
<1>9. PumpsInv'
  BY <1>5 DEF RebindInv, PumpsInv, NoLeakedPump
<1>10. BindersInv'
  <2>1. ASSUME NEW m \in Binders
        PROVE  /\ binder'[m].pc = "waiting" => /\ binder'[m].at \in Pumps
                                               /\ pump'[binder'[m].at] # NoPump
               /\ binder'[m].answer # "none" => binder'[m].pc = "waiting"
               /\ binder'[m].pc # "off" => /\ binder'[m].item \in MergedItems
                                           /\ m \in MergedItems => binder'[m].item = m
    BY <1>2, <1>3, <1>5 DEF RebindInv, BindersInv
  <2>2. ASSUME NEW i \in MergedItems, item'[i] = "new" PROVE binder'[i].pc = "off"
    <3>1. i \in Binders /\ binder[i].pc = "off"
      BY <1>5, <2>2, Zenon DEF RebindInv, BindersInv, Binders
    <3> QED
      BY <1>2, <1>3, <3>1
  <2>3. ASSUME NEW i \in MergedItems, ~Present(i)' PROVE Unbound(i)'
    <3>1. ~Present(i)
      BY <1>5, <2>3, Zenon DEF Present
    <3>2. Unbound(i)
      BY <3>1, Zenon DEF RebindInv, BindersInv
    <3> QED
      BY <1>5, <3>2, Zenon DEF Unbound, Bound
  <2> QED
    BY <2>1, <2>2, <2>3 DEF BindersInv
<1>11. PostsInv'
  <2>1. \A n \in 1..Len(posted) : /\ posted[n] # <<"bind", k>>
                                  /\ posted[n] \in Post
    BY <1>5, <1>7, SMTT(30) DEF RebindInv, PostsInv
  <2>2. \A n \in 1..Len(posted) :
          posted[n][1] = "bind" => posted[n][2] \in Binders \ {k}
    BY <2>1 DEF Post
  <2>3. ASSUME NEW n \in 1..Len(posted')
        PROVE  /\ posted'[n][1] = "bind" => binder'[posted'[n][2]].answer # "none"
               /\ posted'[n][1] # "bind" =>
                    pump'[posted'[n][2]].state \in {"failed", "closed"}
    <3>1. CASE n \in 1..Len(posted)
      BY <1>2, <1>5, <1>7, <2>2, <3>1 DEF RebindInv, PostsInv
    <3>2. CASE n = Len(posted')
      BY <1>3, <1>7, <3>2
    <3> QED
      BY <1>7, <3>1, <3>2
  <2>4. ASSUME NEW m \in 1..Len(posted'), NEW n \in 1..Len(posted'),
               posted'[m][1] = "bind", posted'[m] = posted'[n]
        PROVE  m = n
    <3>1. CASE m \in 1..Len(posted) /\ n \in 1..Len(posted)
      BY <1>7, <2>4, <3>1 DEF RebindInv, PostsInv
    <3>2. CASE ~(m \in 1..Len(posted) /\ n \in 1..Len(posted))
      BY <1>7, <2>1, <2>4, <3>2, Zenon
    <3> QED
      BY <3>1, <3>2
  <2> QED
    BY <2>3, <2>4 DEF PostsInv
<1> QED
  BY <1>2, <1>3, <1>8, <1>9, <1>10, <1>11

\* A backend that adds an item serves it once more, and the coroutine is going
\* to learn of it.
LEMMA AcceptKeeps ==
  ASSUME RebindInv, NEW k \in Binders, BackendAccepts(k)
  PROVE  RebindInv'
<1> DEFINE i == binder[k].item
           p == binder[k].at
<1>1. /\ i \in MergedItems /\ p \in Pumps /\ (k \in MergedItems => i = k)
      /\ binder[k].answer = "none" /\ Answer(k, "added") /\ pump[p].state = "live"
      /\ UNCHANGED <<children, pumps, pump>>
  BY DEF BackendAccepts, Answer, itemVars, RebindInv, BindersInv
<1>2. served' = [served EXCEPT ![i][p] = @ + 1]
  BY DEF BackendAccepts
<1> HIDE DEF i, p
<1>3. /\ served' \in [MergedItems -> [Pumps -> Nat]]
      /\ served'[i][p] = served[i][p] + 1
      /\ \A j \in MergedItems, q \in Pumps :
           j # i \/ q # p => served'[j][q] = served[j][q]
  BY <1>1, <1>2 DEF RebindInv, RebindTypes
<1>4. /\ RebindTypes' /\ PumpsInv' /\ BindersInv' /\ PostsInv'
      /\ \A m \in Binders \ {k} : binder'[m] = binder[m]
      /\ binder'[k].item = binder[k].item /\ binder'[k].at = binder[k].at
      /\ binder'[k].answer = "added"
  BY <1>1, <1>3, AnswerKeeps
<1>5. ServedInv'
  <2> SUFFICES ASSUME NEW j \in MergedItems, NEW q \in Pumps
               PROVE  /\ served'[j][q] > 0 => pump'[q].state = "live"
                      /\ served'[j][q] <= (ChildrenOn(j, q)' + Telling(j, j, q)')
                                          + Telling(Loop, j, q)'
    BY DEF ServedInv
  <2>1. served[j][q] \in Nat /\ ChildrenOn(j, q) \in Nat /\ ChildrenOn(j, q)' = ChildrenOn(j, q)
    BY <1>1, ChildrenOnNat, SameChildren, SamePublished DEF RebindInv, RebindTypes
  <2>2. /\ served[j][q] > 0 => pump[q].state = "live"
        /\ served[j][q] <= (ChildrenOn(j, q) + Telling(j, j, q)) + Telling(Loop, j, q)
    BY DEF RebindInv, ServedInv
  <2>3. \A m \in Binders : /\ Telling(m, j, q) \in {0, 1} /\ Telling(m, j, q)' \in {0, 1}
                           /\ m # k => Telling(m, j, q)' = Telling(m, j, q)
                           /\ m = k => Telling(m, j, q) = 0
    BY <1>1, <1>4 DEF Telling, Tells
  <2>4. j \in Binders /\ Loop \in Binders /\ Loop \notin MergedItems /\ j # Loop
    BY RebindAssumption DEF Binders
  <2>5. CASE j = i /\ q = p
    <3>1. k \in {j, Loop} /\ Telling(k, j, q)' = 1
      BY <1>1, <1>4, <2>5 DEF Telling, Tells, Binders, i, p
    <3>2. CASE k = j
      BY <1>1, <1>3, <2>1, <2>2, <2>3, <2>4, <2>5, <3>1, <3>2
    <3>3. CASE k = Loop
      BY <1>1, <1>3, <2>1, <2>2, <2>3, <2>4, <2>5, <3>1, <3>3
    <3> QED
      BY <3>1, <3>2, <3>3
  <2>6. CASE ~(j = i /\ q = p)
    <3>1. served'[j][q] = served[j][q]
      BY <1>3, <2>6
    <3>2. \A m \in Binders : Telling(m, j, q)' = Telling(m, j, q)
      BY <1>1, <1>4, <2>6 DEF Telling, Tells, i, p
    <3> QED
      BY <1>1, <2>1, <2>2, <2>4, <3>1, <3>2
  <2> QED
    BY <2>5, <2>6
<1> QED
  BY <1>4, <1>5, Zenon DEF RebindInv

\* A refusal serves nothing and tells nothing.
LEMMA RefuseKeeps ==
  ASSUME RebindInv, NEW k \in Binders, BackendRefuses(k)
  PROVE  RebindInv'
<1>1. /\ Answer(k, "refused") /\ binder[k].answer = "none"
      /\ UNCHANGED <<served, children, pumps, pump>>
  BY DEF BackendRefuses, Answer, itemVars
<1>2. /\ RebindTypes' /\ PumpsInv' /\ BindersInv' /\ PostsInv'
      /\ \A m \in Binders \ {k} : binder'[m] = binder[m]
      /\ binder'[k].answer = "refused"
  <2>1. served' \in [MergedItems -> [Pumps -> Nat]]
    BY <1>1 DEF RebindInv, RebindTypes
  <2> QED
    BY <1>1, <2>1, AnswerKeeps
<1>3. ASSUME NEW m \in Binders, NEW i \in MergedItems, NEW p \in Pumps
      PROVE  Tells(m, i, p)' <=> Tells(m, i, p)
  BY <1>1, <1>2 DEF Tells
<1> QED
  BY <1>1, <1>2, <1>3, SameAccount DEF RebindInv
\* What is taken from the executor's queue leaves the posts of the others.
LEMMA PopKeepsPosts ==
  ASSUME RebindInv, posted # <<>>, posted' = Tail(posted),
         binder' \in [Binders -> BinderType],
         \A m \in Binders : <<"bind", m>> # posted[1] => binder'[m].answer = binder[m].answer,
         \A p \in Pumps : pump[p].state \in {"failed", "closed"} =>
                            pump'[p].state \in {"failed", "closed"}
  PROVE  posted' \in Seq(Post) /\ PostsInv'
<1>1. posted \in Seq(Post)
  BY DEF RebindInv, RebindTypes
<1>2. /\ posted' \in Seq(Post)
      /\ \A n \in 1..Len(posted') : n + 1 \in 1..Len(posted) /\ posted'[n] = posted[n + 1]
      /\ 1 \in 1..Len(posted)
  BY <1>1, RestOfPosts
<1>3. ASSUME NEW n \in 1..Len(posted')
      PROVE  /\ posted'[n][1] = "bind" => binder'[posted'[n][2]].answer # "none"
             /\ posted'[n][1] # "bind" => pump'[posted'[n][2]].state \in {"failed", "closed"}
  <2>1. n + 1 \in 1..Len(posted) /\ posted'[n] = posted[n + 1] /\ posted[n + 1] \in Post /\ n + 1 # 1
    BY <1>1, <1>2
  <2>2. CASE posted'[n][1] = "bind"
    <3>1. posted[n + 1] = <<"bind", posted[n + 1][2]>> /\ posted[n + 1][2] \in Binders
      BY <2>1, <2>2 DEF Post
    <3>2. posted[n + 1] # posted[1]
      BY <1>2, <2>1, <2>2 DEF RebindInv, PostsInv
    <3>3. binder[posted[n + 1][2]].answer # "none"
      BY <2>1, <2>2 DEF RebindInv, PostsInv
    <3> QED
      BY <2>1, <2>2, <3>1, <3>2, <3>3
  <2>3. CASE posted'[n][1] # "bind"
    <3>1. posted[n + 1][2] \in Pumps
      BY <2>1, <2>3 DEF Post
    <3>2. pump[posted[n + 1][2]].state \in {"failed", "closed"}
      BY <2>1, <2>3 DEF RebindInv, PostsInv
    <3> QED
      BY <2>1, <2>3, <3>1, <3>2
  <2> QED
    BY <2>2, <2>3, Zenon
<1>4. ASSUME NEW m \in 1..Len(posted'), NEW n \in 1..Len(posted'),
             posted'[m][1] = "bind", posted'[m] = posted'[n]
      PROVE  m = n
  <2>1. m + 1 = n + 1
    BY <1>2, <1>4, SMTT(60) DEF RebindInv, PostsInv
  <2> QED
    BY <2>1
<1> QED
  BY <1>2, <1>3, <1>4, Zenon DEF PostsInv

\* A coroutine resumes with its answer and leaves the route.
LEMMA ResumeEffect ==
  ASSUME RebindInv, NEW k \in Binders, NEW b, NEW bound \in BOOLEAN,
         MayPop, Head(posted) = <<"bind", k>>, Pop, Leave(k, b, bound), item' = item,
         \A p \in Pumps : pump[p].state \in {"failed", "closed"} =>
                            pump'[p].state \in {"failed", "closed"},
         \A p \in Pumps : pump[p] # NoPump => pump'[p] # NoPump,
         \A i \in MergedItems : ~Present(i) => Unbound(i)'
  PROVE  /\ posted' \in Seq(Post) /\ PostsInv' /\ BindersInv'
         /\ binder' \in [Binders -> BinderType]
         /\ \A m \in Binders \ {k} : binder'[m] = binder[m]
         /\ binder'[k].answer = "none"
         /\ binder[k].answer \in {"added", "refused"}
         /\ binder[k].item \in MergedItems /\ binder[k].at \in Pumps
         /\ pump[binder[k].at] # NoPump /\ pump[binder[k].at].backend \in Backends
         /\ k \in MergedItems => binder[k].item = k
<1>1. /\ binder' \in [Binders -> BinderType]
      /\ \A m \in Binders \ {k} : binder'[m] = binder[m]
      /\ binder'[k].pc = "running" /\ binder'[k].item = binder[k].item
      /\ binder'[k].at = 0 /\ binder'[k].answer = "none"
  BY LeaveEffect DEF RebindInv
<1>2. posted # <<>> /\ posted' = Tail(posted) /\ posted[1] = <<"bind", k>> /\ 1 \in 1..Len(posted)
  BY RestOfPosts DEF MayPop, Pop, RebindInv, RebindTypes
<1>3. binder[k].answer # "none" /\ binder[k].answer \in {"none", "added", "refused"}
  BY <1>2 DEF RebindInv, PostsInv, RebindTypes, BinderType
<1>4. /\ binder[k].pc = "waiting" /\ binder[k].at \in Pumps /\ pump[binder[k].at] # NoPump
      /\ binder[k].item \in MergedItems /\ (k \in MergedItems => binder[k].item = k)
  BY <1>3 DEF RebindInv, BindersInv
<1>5. pump[binder[k].at].backend \in Backends
  BY <1>4 DEF RebindInv, PumpsInv
<1>6. posted' \in Seq(Post) /\ PostsInv'
  <2>1. \A m \in Binders : <<"bind", m>> # posted[1] => binder'[m].answer = binder[m].answer
    BY <1>1, <1>2
  <2> QED
    BY <1>1, <1>2, <2>1, PopKeepsPosts
<1>7. BindersInv'
  <2>1. ASSUME NEW m \in Binders
        PROVE  /\ binder'[m].pc = "waiting" => /\ binder'[m].at \in Pumps
                                               /\ pump'[binder'[m].at] # NoPump
               /\ binder'[m].answer # "none" => binder'[m].pc = "waiting"
               /\ binder'[m].pc # "off" => /\ binder'[m].item \in MergedItems
                                           /\ m \in MergedItems => binder'[m].item = m
    <3>1. CASE m = k
      BY <1>1, <1>4, <3>1
    <3>2. CASE m # k
      BY <1>1, <3>2 DEF RebindInv, BindersInv
    <3> QED
      BY <3>1, <3>2
  <2>2. ASSUME NEW i \in MergedItems, item'[i] = "new"
        PROVE  binder'[i].pc = "off"
    <3>1. binder[i].pc = "off" /\ i \in Binders
      BY <2>2 DEF RebindInv, BindersInv, Binders
    <3>2. i # k
      BY <1>4, <3>1
    <3> QED
      BY <1>1, <3>1, <3>2
  <2>3. \A i \in MergedItems : ~Present(i)' => Unbound(i)'
    BY DEF Present
  <2> QED
    BY <2>1, <2>2, <2>3, Zenon DEF BindersInv
<1> QED
  BY <1>1, <1>3, <1>4, <1>5, <1>6, <1>7, Zenon

\* The item is bound: what the coroutine knew is a child now.
LEMMA BoundKeeps ==
  ASSUME RebindInv, NEW k \in Binders, NEW i \in MergedItems, NEW p \in Pumps,
         NEW b \in Backends, binder[k].item = i, binder[k].at = p,
         pump[p].backend = b, pump[p] # NoPump,
         MayPop, Head(posted) = <<"bind", k>>, Pop, Leave(k, b, TRUE),
         binder[k].answer = "added", Present(i),
         children' \in [MergedItems -> [Backends -> Tally]],
         \A j \in MergedItems : j # i => children'[j] = children[j],
         \A c \in Backends : c # b => children'[i][c] = children[i][c],
         \A q \in Pumps : children'[i][b][q]
                            = children[i][b][q] + (IF p = q THEN 1 ELSE 0),
         UNCHANGED <<pump, pumps, served, item, todo>>
  PROVE  RebindInv'
<1>7. \A j \in MergedItems : ~Present(j) => Unbound(j)'
  <2> SUFFICES ASSUME NEW j \in MergedItems, ~Present(j), NEW c \in Backends
               PROVE  children'[j][c] = NoChild
    BY DEF Unbound, Bound
  <2>1. j # i
    OBVIOUS
  <2>2. children[j][c] = NoChild
    BY DEF RebindInv, BindersInv, Unbound, Bound
  <2> QED
    BY <2>1, <2>2
<1>8. /\ posted' \in Seq(Post) /\ PostsInv' /\ BindersInv'
      /\ binder' \in [Binders -> BinderType]
      /\ \A m \in Binders \ {k} : binder'[m] = binder[m]
      /\ binder'[k].answer = "none"
      /\ k \in MergedItems => binder[k].item = k
  BY <1>7, ResumeEffect, Zenon
<1>9. RebindTypes'
  BY <1>8 DEF RebindInv, RebindTypes
<1>10. PumpsInv'
  BY DEF RebindInv, PumpsInv, NoLeakedPump
<1>11. ServedInv'
  <2> SUFFICES ASSUME NEW j \in MergedItems, NEW q \in Pumps
               PROVE  /\ served[j][q] > 0 => pump[q].state = "live"
                      /\ served[j][q] <= (ChildrenOn(j, q)' + Telling(j, j, q)')
                                         + Telling(Loop, j, q)'
    BY DEF ServedInv
  <2>1. served[j][q] \in Nat /\ ChildrenOn(j, q) \in Nat
    BY ChildrenOnNat DEF RebindInv, RebindTypes
  <2>2. /\ served[j][q] > 0 => pump[q].state = "live"
        /\ served[j][q] <= (ChildrenOn(j, q) + Telling(j, j, q)) + Telling(Loop, j, q)
    BY DEF RebindInv, ServedInv
  <2>3. \A m \in Binders : /\ Telling(m, j, q) \in {0, 1} /\ Telling(m, j, q)' \in {0, 1}
                           /\ m # k => Telling(m, j, q)' = Telling(m, j, q)
                           /\ m = k => Telling(m, j, q)' = 0
    BY <1>8 DEF Telling, Tells
  <2>4. j \in Binders /\ Loop \in Binders /\ Loop \notin MergedItems /\ j # Loop
    BY RebindAssumption DEF Binders
  <2> DEFINE z == ChildrenOn(j, q)
             x == Telling(j, j, q)
             y == Telling(Loop, j, q)
             u == Telling(j, j, q)'
             v == Telling(Loop, j, q)'
  <2>0. /\ x \in {0, 1} /\ y \in {0, 1} /\ u \in {0, 1} /\ v \in {0, 1}
        /\ k = j => u = 0 /\ v = y
        /\ k = Loop => u = x /\ v = 0
    BY <2>3, <2>4
  <2>5. CASE j = i /\ q = p
    <3>1. CASE pumps[b] = p
      <4>1. Published(p) /\ Published(p)'
        BY <3>1 DEF RebindInv, RebindTypes, Published
      <4>2. ChildrenOn(j, q)' = ChildrenOn(j, q) + 1
        <5>1. ChildrenOn(j, q) = children[i][b][p]
          BY <2>5, <4>1 DEF ChildrenOn
        <5>2. ChildrenOn(j, q)' = children'[i][b][p]
          BY <2>5, <4>1 DEF ChildrenOn
        <5> QED
          BY <5>1, <5>2
      <4>3. k \in {j, Loop}
        BY <1>8, <2>5 DEF Binders
      <4>4. served[j][q] <= ((z + 1) + u) + v
        <5>1. k = j \/ k = Loop
          BY <4>3
        <5> HIDE DEF z, x, y, u, v
        <5>2. served[j][q] <= (z + x) + y /\ z \in Nat /\ served[j][q] \in Nat
          BY <2>1, <2>2 DEF z, x, y
        <5> QED
          BY ONLY <2>0, <5>1, <5>2
      <4> QED
        BY <2>2, <4>2, <4>4
    <3>2. CASE pumps[b] # p
      <4>1. pump[p].state # "live"
        BY <3>2 DEF RebindInv, PumpsInv, NoLeakedPump
      <4>2. served[j][q] = 0
        <5>1. served[j][q] \in Nat /\ (served[j][q] > 0 => pump[p].state = "live")
          BY <2>1, <2>2, <2>5, Zenon
        <5> QED
          BY ONLY <4>1, <5>1
      <4>3. ChildrenOn(j, q)' \in Nat
        <5>1. ~Published(p)
          <6>1. \A c \in Backends : pumps[c] # 0 => pump[pumps[c]].state \in {"live", "failed"}
                                                   /\ pump[pumps[c]].backend = c
            BY Zenon DEF RebindInv, PumpsInv
          <6>2. DOMAIN pumps = Backends /\ p # 0
            BY PumpsFacts DEF RebindInv, RebindTypes
          <6> QED
            BY <3>2, <6>1, <6>2 DEF Published
        <5> QED
          BY <2>5, <5>1, SamePublished, Zenon DEF ChildrenOn
      <4>4. 0 <= (ChildrenOn(j, q)' + u) + v
        <5> HIDE DEF u, v
        <5> QED
          BY ONLY <2>0, <4>3
      <4> QED
        BY <2>2, <4>2, <4>4
    <3> QED
      BY <3>1, <3>2
  <2>6. CASE j = i /\ q # p
    <3>1. ASSUME NEW m \in Binders PROVE Telling(m, j, q)' = Telling(m, j, q)
      <4>1. CASE m = k
        <5>1. ~Tells(m, j, q)'
          BY <1>8, <4>1 DEF Tells
        <5>2. ~Tells(m, j, q)
          BY <2>6, <4>1, Zenon DEF Tells
        <5> QED
          BY <5>1, <5>2, Zenon DEF Telling
      <4>2. CASE m # k
        <5>1. binder'[m] = binder[m]
          BY <1>8, <4>2, Zenon
        <5> QED
          BY <5>1, Zenon DEF Telling, Tells
      <4> QED
        BY <4>1, <4>2, Zenon
    <3>2. ChildrenOn(j, q)' = ChildrenOn(j, q)
      <4>1. CASE pump[q] = NoPump \/ ~Published(q)
        BY <4>1, SamePublished, Zenon DEF ChildrenOn
      <4>2. CASE /\ ~(pump[q] = NoPump \/ ~Published(q))
                 /\ pump[q].backend # b
        <5>1. children'[j][pump[q].backend] = children[j][pump[q].backend]
          BY <2>6, <4>2, Zenon DEF RebindInv, PumpsInv
        <5> QED
          BY <4>2, <5>1, SamePublished, Zenon DEF ChildrenOn
      <4>3. CASE /\ ~(pump[q] = NoPump \/ ~Published(q))
                 /\ pump[q].backend = b
        <5>1. ChildrenOn(j, q) = children[i][b][q]
          BY <2>6, <4>3, Zenon DEF ChildrenOn
        <5>2. ChildrenOn(j, q)' = children'[i][b][q]
          BY <2>6, <4>3, SamePublished, Zenon DEF ChildrenOn
        <5>3. children[i][b] \in Tally
          BY DEF RebindInv, RebindTypes
        <5>4. children[i][b][q] \in Nat
          BY <5>3, TallyFacts, Zenon
        <5> QED
          BY <2>6, <5>1, <5>2, <5>4
      <4> QED
        BY <4>1, <4>2, <4>3, Zenon
    <3> QED
      BY <2>2, <2>4, <3>1, <3>2, Zenon
  <2>7. CASE j # i
    <3>1. \A m \in Binders : Telling(m, j, q)' = Telling(m, j, q)
      BY <1>8, <2>7 DEF Telling, Tells
    <3>2. ChildrenOn(j, q)' = ChildrenOn(j, q)
      BY <2>7, SameChildren, SamePublished
    <3> QED
      BY <2>2, <2>4, <3>1, <3>2, Zenon
  <2> QED
    BY <2>5, <2>6, <2>7
<1> QED
  BY <1>8, <1>9, <1>10, <1>11, Zenon DEF RebindInv

\* The item is gone: the backend is told, if its pump is still the one.
LEMMA OrphanKeeps ==
  ASSUME RebindInv, NEW k \in Binders, NEW i \in MergedItems, NEW p \in Pumps,
         NEW b \in Backends, binder[k].item = i, binder[k].at = p,
         pump[p].backend = b, pump[p] # NoPump,
         MayPop, Head(posted) = <<"bind", k>>, Pop, Leave(k, b, FALSE),
         binder[k].answer = "added",
         served' = IF pumps[b] = p THEN [served EXCEPT ![i][p] = Less(@, 1)] ELSE served,
         UNCHANGED <<pump, pumps, children, item, todo>>
  PROVE  RebindInv'
<1>1. \A j \in MergedItems : ~Present(j) => Unbound(j)'
  BY DEF RebindInv, BindersInv, Unbound, Bound
<1>2. /\ posted' \in Seq(Post) /\ PostsInv' /\ BindersInv'
      /\ binder' \in [Binders -> BinderType]
      /\ \A m \in Binders \ {k} : binder'[m] = binder[m]
      /\ binder'[k].answer = "none"
      /\ k \in MergedItems => binder[k].item = k
  BY <1>1, ResumeEffect, Zenon
<1>3. /\ served' \in [MergedItems -> [Pumps -> Nat]]
      /\ \A j \in MergedItems, q \in Pumps :
           j # i \/ q # p => served'[j][q] = served[j][q]
      /\ served'[i][p] = IF pumps[b] = p THEN Less(served[i][p], 1) ELSE served[i][p]
  <2>1. served \in [MergedItems -> [Pumps -> Nat]] /\ served[i][p] \in Nat
    BY DEF RebindInv, RebindTypes
  <2>2. Less(served[i][p], 1) \in Nat
    BY <2>1 DEF Less
  <2> QED
    BY <2>1, <2>2, Zenon
<1>4. RebindTypes'
  BY <1>2, <1>3, Zenon DEF RebindInv, RebindTypes
<1>5. PumpsInv'
  BY DEF RebindInv, PumpsInv, NoLeakedPump
<1>6. ServedInv'
  <2> SUFFICES ASSUME NEW j \in MergedItems, NEW q \in Pumps
               PROVE  /\ served'[j][q] > 0 => pump[q].state = "live"
                      /\ served'[j][q] <= (ChildrenOn(j, q)' + Telling(j, j, q)')
                                          + Telling(Loop, j, q)'
    BY DEF ServedInv
  <2>1. /\ served[j][q] \in Nat /\ ChildrenOn(j, q) \in Nat
        /\ ChildrenOn(j, q)' = ChildrenOn(j, q)
    BY ChildrenOnNat, SameChildren, SamePublished DEF RebindInv, RebindTypes
  <2>2. /\ served[j][q] > 0 => pump[q].state = "live"
        /\ served[j][q] <= (ChildrenOn(j, q) + Telling(j, j, q)) + Telling(Loop, j, q)
    BY DEF RebindInv, ServedInv
  <2>3. \A m \in Binders : /\ Telling(m, j, q) \in {0, 1} /\ Telling(m, j, q)' \in {0, 1}
                           /\ m # k => Telling(m, j, q)' = Telling(m, j, q)
                           /\ m = k => Telling(m, j, q)' = 0
    BY <1>2 DEF Telling, Tells
  <2>4. j \in Binders /\ Loop \in Binders /\ Loop \notin MergedItems /\ j # Loop
    BY RebindAssumption DEF Binders
  <2> DEFINE z == ChildrenOn(j, q)
             x == Telling(j, j, q)
             y == Telling(Loop, j, q)
             u == Telling(j, j, q)'
             v == Telling(Loop, j, q)'
             s == served[j][q]
  <2>5. /\ x \in {0, 1} /\ y \in {0, 1} /\ u \in {0, 1} /\ v \in {0, 1}
        /\ k = j => u = 0 /\ v = y
        /\ k = Loop => u = x /\ v = 0
        /\ s \in Nat /\ z \in Nat /\ s <= (z + x) + y
    BY <2>1, <2>2, <2>3, <2>4
  <2>6. CASE j = i /\ q = p
    <3>1. k = j \/ k = Loop
      BY <1>2, <2>6 DEF Binders
    <3>2. CASE pumps[b] = p
      <4>1. served'[j][q] = IF s < 1 THEN 0 ELSE s - 1
        BY <1>3, <2>6, <3>2, Zenon DEF Less
      <4>2. served'[j][q] <= (z + u) + v /\ (served'[j][q] > 0 => s > 0)
        <5> HIDE DEF z, x, y, u, v, s
        <5> QED
          BY ONLY <2>5, <3>1, <4>1
      <4> QED
        BY <2>1, <2>2, <4>2
    <3>3. CASE pumps[b] # p
      <4>1. pump[p].state # "live"
        BY <3>3 DEF RebindInv, PumpsInv, NoLeakedPump
      <4>2. s = 0 /\ served'[j][q] = s
        BY <1>3, <2>1, <2>2, <2>6, <3>3, <4>1
      <4>3. 0 <= (z + u) + v
        <5> HIDE DEF z, x, y, u, v, s
        <5> QED
          BY ONLY <2>5
      <4> QED
        BY <2>1, <4>2, <4>3
    <3> QED
      BY <3>2, <3>3
  <2>7. CASE ~(j = i /\ q = p)
    <3>1. \A m \in Binders : Telling(m, j, q)' = Telling(m, j, q)
      BY <1>2, <2>7 DEF Telling, Tells
    <3>2. served'[j][q] = served[j][q]
      BY <1>3, <2>7, Zenon
    <3> QED
      BY <2>1, <2>2, <2>4, <3>1, <3>2
  <2> QED
    BY <2>6, <2>7
<1> QED
  BY <1>2, <1>4, <1>5, <1>6 DEF RebindInv

===============================================================================
