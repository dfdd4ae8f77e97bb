------------------------ MODULE MultiplexRebindProofs ------------------------
(***************************************************************************)
(* Proofs about how items are bound to backends: a coroutine whose item is *)
(* gone or refused, the steps of the application, of failing backends and  *)
(* of RebindLoop keep the invariant of MultiplexRebindSteps, and what it   *)
(* says of every run.                                                      *)
(***************************************************************************)
EXTENDS MultiplexRebindSteps

\* A step that names no prover is tried with these.
USE SMTT(30), ZenonT(30)

\* A published pump is withdrawn and closed: it serves nothing more, and no other
\* pump is touched.
LEMMA CloseEffect ==
  ASSUME RebindInv, NEW b \in Backends, NEW p \in Pumps, pumps[b] = p,
         pumps' = [pumps EXCEPT ![b] = 0], ClosePump(p),
         children' \in [MergedItems -> [Backends -> Tally]],
         \A i \in MergedItems, c \in Backends : c # b => children'[i][c] = children[i][c],
         \A k \in Binders, i \in MergedItems, q \in Pumps : Tells(k, i, q)' <=> Tells(k, i, q)
  PROVE  /\ PumpsInv' /\ ServedInv'
         /\ pumps' \in [Backends -> Pumps \cup {0}]
         /\ pump' \in [Pumps -> [backend : Backends \cup {Loop},
                                 state : {"none", "live", "failed", "closed"}]]
         /\ served' \in [MergedItems -> [Pumps -> Nat]]
         /\ \A q \in Pumps : pump[q].state \in {"failed", "closed"} =>
                               pump'[q].state \in {"failed", "closed"}
         /\ \A q \in Pumps : pump[q] # NoPump => pump'[q] # NoPump
<1> USE PumpsFacts
<1>1. /\ pump[p].backend = b /\ pump[p].state \in {"live", "failed"}
      /\ pump \in [Pumps -> [backend : Backends \cup {Loop},
                             state : {"none", "live", "failed", "closed"}]]
      /\ pumps \in [Backends -> Pumps \cup {0}]
      /\ served \in [MergedItems -> [Pumps -> Nat]]
  BY DEF RebindInv, PumpsInv, RebindTypes
<1>2. /\ pumps' \in [Backends -> Pumps \cup {0}]
      /\ pumps'[b] = 0 /\ \A c \in Backends \ {b} : pumps'[c] = pumps[c]
  BY <1>1
<1>3. /\ pump'[p].backend = b /\ pump'[p].state = "closed"
      /\ \A q \in Pumps \ {p} : pump'[q] = pump[q]
      /\ pump' \in [Pumps -> [backend : Backends \cup {Loop},
                              state : {"none", "live", "failed", "closed"}]]
  BY <1>1 DEF ClosePump
<1>4. /\ served' \in [MergedItems -> [Pumps -> Nat]]
      /\ \A i \in MergedItems : served'[i][p] = 0
      /\ \A i \in MergedItems, q \in Pumps : q # p => served'[i][q] = served[i][q]
  BY <1>1 DEF ClosePump
<1>5. \A q \in Pumps : /\ pump[q].state \in {"failed", "closed"} =>
                            pump'[q].state \in {"failed", "closed"}
                       /\ pump[q] # NoPump => pump'[q] # NoPump
  BY <1>3 DEF NoPump
<1>6. PumpsInv'
  <2>1. \A q \in Pumps : \/ pump'[q] = NoPump
                         \/ pump'[q].state # "none" /\ pump'[q].backend \in Backends
    BY <1>3 DEF RebindInv, PumpsInv
  <2>2. NoLeakedPump'
    <3> SUFFICES ASSUME NEW q \in Pumps, pump'[q].state \in {"live", "failed"}
                 PROVE  pumps'[pump'[q].backend] = q
      BY DEF NoLeakedPump
    <3>1. q # p /\ pump'[q] = pump[q]
      BY <1>3
    <3>2. pump[q].backend \in Backends /\ pumps[pump[q].backend] = q
      BY <3>1 DEF RebindInv, PumpsInv, NoLeakedPump, NoPump
    <3> QED
      BY <1>2, <3>1, <3>2
  <2>3. ASSUME NEW c \in Backends, pumps'[c] # 0
        PROVE  /\ pump'[pumps'[c]].backend = c
               /\ pump'[pumps'[c]].state \in {"live", "failed"}
    <3>1. c # b /\ pumps'[c] = pumps[c] /\ pumps[c] \in Pumps
      BY <1>1, <1>2, <2>3
    <3>2. /\ pump[pumps[c]].backend = c
          /\ pump[pumps[c]].state \in {"live", "failed"}
      BY <2>3, <3>1 DEF RebindInv, PumpsInv
    <3>3. pumps[c] # p
      BY <1>1, <3>1, <3>2
    <3> QED
      BY <1>3, <3>1, <3>2, <3>3, Zenon
  <2> QED
    BY <2>1, <2>2, <2>3 DEF PumpsInv
<1>7. ServedInv'
  <2> SUFFICES ASSUME NEW j \in MergedItems, NEW q \in Pumps
               PROVE  /\ served'[j][q] > 0 => pump'[q].state = "live"
                      /\ served'[j][q] <= (ChildrenOn(j, q)' + Telling(j, j, q)')
                                          + Telling(Loop, j, q)'
    BY DEF ServedInv
  <2>1. /\ served[j][q] > 0 => pump[q].state = "live"
        /\ served[j][q] <= (ChildrenOn(j, q) + Telling(j, j, q)) + Telling(Loop, j, q)
    BY DEF RebindInv, ServedInv
  <2>2. /\ Telling(j, j, q)' = Telling(j, j, q) /\ Telling(Loop, j, q)' = Telling(Loop, j, q)
        /\ Telling(j, j, q) \in {0, 1} /\ Telling(Loop, j, q) \in {0, 1}
    BY Zenon DEF Telling, Binders
  <2>3. CASE q = p
    <3>1. ~Published(p)'
      <4>1. \A c \in Backends \ {b} : pumps[c] # p
        BY <1>1 DEF RebindInv, PumpsInv
      <4> QED
        BY <1>2, <4>1 DEF Published
    <3>2. ChildrenOn(j, q)' = 0
      BY <2>3, <3>1 DEF ChildrenOn
    <3> QED
      BY <1>4, <2>2, <2>3, <3>2
  <2>4. CASE q # p
    <3>1. Published(q)' <=> Published(q)
      <4>1. DOMAIN pumps = Backends /\ DOMAIN pumps' = Backends /\ q # 0
        BY <1>1, <1>2
      <4> QED
        BY <1>2, <2>4, <4>1 DEF Published
    <3>2. ChildrenOn(j, q)' = ChildrenOn(j, q)
      <4>1. CASE pump[q] = NoPump \/ ~Published(q)
        BY <1>3, <2>4, <3>1, <4>1 DEF ChildrenOn
      <4>2. CASE ~(pump[q] = NoPump \/ ~Published(q))
        <5>1. PICK c \in Backends : pumps[c] = q
          BY <1>1, <4>2 DEF Published
        <5>2. pump[q].backend = c /\ c # b
          BY <2>4, <5>1 DEF RebindInv, PumpsInv
        <5>3. /\ pump'[q] = pump[q]
              /\ children'[j][pump[q].backend] = children[j][pump[q].backend]
          BY <1>3, <2>4, <5>2
        <5> DEFINE on == children[j][pump[q].backend]
        <5>4. ChildrenOn(j, q) = on[q]
          BY <4>2 DEF ChildrenOn
        <5>5. ChildrenOn(j, q)' = on[q]
          BY <3>1, <4>2, <5>3 DEF ChildrenOn
        <5> QED
          BY <5>4, <5>5
      <4> QED
        BY <4>1, <4>2
    <3> QED
      BY <1>3, <1>4, <2>1, <2>2, <2>4, <3>2, Zenon
  <2> QED
    BY <2>3, <2>4
<1> QED
  BY <1>2, <1>3, <1>4, <1>5, <1>6, <1>7, Zenon

\* A coroutine resumes.
LEMMA BindDoneKeeps ==
  ASSUME RebindInv, NEW k \in Binders, BindDone(k)
  PROVE  RebindInv'
<1>1. MayPop /\ Head(posted) = <<"bind", k>> /\ Pop /\ UNCHANGED <<item, todo>>
  BY Zenon DEF BindDone, loopVars
<1>2. posted # <<>> /\ posted[1] = <<"bind", k>> /\ 1 \in 1..Len(posted)
  BY <1>1, RestOfPosts DEF MayPop, RebindInv, RebindTypes
<1>3. binder[k].answer # "none"
  BY <1>2 DEF RebindInv, PostsInv
<1>a. /\ binder[k].item \in MergedItems /\ binder[k].at \in Pumps
      /\ pump[binder[k].at] # NoPump
  BY <1>3 DEF RebindInv, BindersInv
<1>b. pump[binder[k].at].backend \in Backends
  BY <1>a DEF RebindInv, PumpsInv
<1>4. PICK i \in MergedItems, p \in Pumps :
        i = binder[k].item /\ p = binder[k].at /\ pump[p] # NoPump
  BY <1>a
<1>5. PICK b \in Backends : b = pump[p].backend
  BY <1>4, <1>b
<1>6. binder[k].item = i /\ binder[k].at = p /\ pump[p].backend = b
  BY <1>4, <1>5
<1>7. CASE /\ binder[k].answer = "added" /\ Present(i)
           /\ children' = [children EXCEPT ![i][b][p] = @ + 1]
           /\ Leave(k, b, TRUE) /\ UNCHANGED pumpVars
  <2>1. children \in [MergedItems -> [Backends -> Tally]]
    BY DEF RebindInv, RebindTypes
  <2>2. children[i][b] \in Tally /\ children[i] \in [Backends -> Tally]
    BY <2>1
  <2>3. [children[i][b] EXCEPT ![p] = @ + 1] \in Tally
    BY <1>4, <2>2 DEF Tally
  <2>4. PICK t \in Tally : t = [children[i][b] EXCEPT ![p] = @ + 1]
    BY <2>3
  <2>5. children' = [children EXCEPT ![i][b] = t]
    BY <1>7, <2>4
  <2>6. /\ children' \in [MergedItems -> [Backends -> Tally]]
        /\ children'[i][b] = t
        /\ \A j \in MergedItems : j # i => children'[j] = children[j]
        /\ \A c \in Backends : c # b => children'[i][c] = children[i][c]
    BY <2>1, <2>2, <2>5
  <2>7. \A q \in Pumps : t[q] = children[i][b][q] + (IF p = q THEN 1 ELSE 0)
    BY <1>4, <2>2, <2>4 DEF Tally
  <2>8. \A q \in Pumps : children'[i][b][q]
                           = children[i][b][q] + (IF p = q THEN 1 ELSE 0)
    BY <2>6, <2>7
  <2>9. /\ UNCHANGED <<pump, pumps, served, item, todo>>
        /\ binder[k].answer = "added" /\ Present(i) /\ Leave(k, b, TRUE)
    BY <1>1, <1>7, Zenon DEF pumpVars
  <2> QED
    BY <1>1, <1>4, <1>6, <2>6, <2>8, <2>9, BoundKeeps, Zenon
<1>8. CASE /\ binder[k].answer = "added"
           /\ Leave(k, b, FALSE) /\ UNCHANGED <<children, pumps, pump>>
           /\ served' = IF pumps[b] = p THEN [served EXCEPT ![i][p] = Less(@, 1)]
                        ELSE served
  BY <1>1, <1>4, <1>5, <1>6, <1>8, OrphanKeeps, Zenon
<1>9. CASE /\ binder[k].answer # "added" /\ Leave(k, b, FALSE) /\ UNCHANGED children
           /\ \/ pumps[b] = p /\ pumps' = [pumps EXCEPT ![b] = 0] /\ ClosePump(p)
              \/ UNCHANGED pumpVars
  <2>1. /\ binder' \in [Binders -> BinderType]
        /\ \A m \in Binders \ {k} : binder'[m] = binder[m]
        /\ binder'[k].answer = "none"
    BY <1>9, LeaveEffect, Zenon DEF RebindInv
  <2>2. ASSUME NEW m \in Binders, NEW j \in MergedItems, NEW q \in Pumps
        PROVE  Tells(m, j, q)' <=> Tells(m, j, q)
    BY <1>9, <2>1 DEF Tells
  <2>3. \A j \in MergedItems : ~Present(j) => Unbound(j)'
    BY <1>9 DEF RebindInv, BindersInv, Unbound, Bound
  <2>4. /\ PumpsInv' /\ ServedInv'
        /\ pumps' \in [Backends -> Pumps \cup {0}]
        /\ pump' \in [Pumps -> [backend : Backends \cup {Loop},
                                state : {"none", "live", "failed", "closed"}]]
        /\ served' \in [MergedItems -> [Pumps -> Nat]]
        /\ \A q \in Pumps : pump[q].state \in {"failed", "closed"} =>
                              pump'[q].state \in {"failed", "closed"}
        /\ \A q \in Pumps : pump[q] # NoPump => pump'[q] # NoPump
    <3>1. CASE pumps[b] = p /\ pumps' = [pumps EXCEPT ![b] = 0] /\ ClosePump(p)
      <4>1. /\ children' \in [MergedItems -> [Backends -> Tally]]
            /\ \A j \in MergedItems, c \in Backends : c # b => children'[j][c] = children[j][c]
        BY <1>9 DEF RebindInv, RebindTypes
      <4> QED
        BY <1>4, <1>5, <2>2, <3>1, <4>1, CloseEffect, Zenon
    <3>2. CASE UNCHANGED pumpVars
      <4>1. ServedInv'
        BY <1>9, <2>2, <3>2, SameAccount, Zenon DEF RebindInv, pumpVars
      <4> QED
        BY <3>2, <4>1, Zenon DEF RebindInv, RebindTypes, PumpsInv, NoLeakedPump, pumpVars
    <3> QED
      BY <1>9, <3>1, <3>2, Zenon
  <2>5. posted' \in Seq(Post) /\ PostsInv' /\ BindersInv'
    BY <1>1, <1>9, <2>3, <2>4, ResumeEffect, Zenon
  <2>6. RebindTypes'
    BY <1>1, <1>9, <2>1, <2>4, <2>5, Zenon DEF RebindInv, RebindTypes
  <2> QED
    BY <2>4, <2>5, <2>6, Zenon DEF RebindInv
<1> QED
  BY <1>6, <1>7, <1>8, <1>9, Zenon DEF BindDone

\* An item is added, or refused for want of a route.
LEMMA AddMergedKeeps ==
  ASSUME RebindInv, NEW i \in MergedItems, AddMergedItem(i)
  PROVE  RebindInv'
<1>1. /\ item \in [MergedItems -> {"new", "adding", "live", "gone"}]
      /\ binder \in [Binders -> BinderType]
      /\ item[i] = "new" /\ i \in Binders /\ todo' \subseteq MergedItems
      /\ UNCHANGED <<children, pumps, pump, served, posted>>
  BY DEF AddMergedItem, RebindInv, RebindTypes, Binders, pumpVars, loopVars
<1>2. binder[i].pc = "off" /\ binder[i].answer = "none"
  BY <1>1 DEF RebindInv, BindersInv
<1>3. \A j \in MergedItems : /\ item[j] \notin {"adding", "live"} => Unbound(j)
                             /\ item[j] = "new" => binder[j].pc = "off"
  BY DEF RebindInv, BindersInv, Present
<1>4. PICK routes \in Routes[i] :
        \/ routes = {} /\ item' = [item EXCEPT ![i] = "gone"] /\ UNCHANGED binder
        \/ item' = [item EXCEPT ![i] = "adding"] /\ Begin(i, i, routes)
  BY DEF AddMergedItem
<1>5. CASE item' = [item EXCEPT ![i] = "gone"] /\ UNCHANGED binder
  <2>1. /\ item' \in [MergedItems -> {"new", "adding", "live", "gone"}]
        /\ \A j \in MergedItems : item'[j] = "new" => binder'[j].pc = "off"
        /\ \A j \in MergedItems : item'[j] \notin {"adding", "live"} => Unbound(j)
    BY <1>1, <1>3, <1>5
  <2> QED
    BY <1>1, <1>2, <1>5, <2>1, CoroutineStep
<1>6. CASE item' = [item EXCEPT ![i] = "adding"] /\ Begin(i, i, routes)
  <2>1. routes \in SUBSET Backends
    BY RebindAssumption
  <2>2. /\ binder' \in [Binders -> BinderType]
        /\ \A m \in Binders \ {i} : binder'[m] = binder[m]
        /\ binder'[i].pc = "running" /\ binder'[i].item = i
        /\ binder'[i].at = 0 /\ binder'[i].answer = "none"
    BY <1>1, <1>6, <2>1, BeginEffect DEF RebindInv
  <2>3. /\ item' \in [MergedItems -> {"new", "adding", "live", "gone"}]
        /\ \A j \in MergedItems : item'[j] = "new" => binder'[j].pc = "off"
        /\ \A j \in MergedItems : item'[j] \notin {"adding", "live"} => Unbound(j)
    BY <1>1, <1>3, <1>6, <2>2 DEF Binders
  <2> QED
    BY <1>1, <1>2, <2>2, <2>3, CoroutineStep
<1> QED
  BY <1>4, <1>5, <1>6

\* AddItem returns.
LEMMA AddReturnsKeeps ==
  ASSUME RebindInv, NEW i \in MergedItems, AddItemReturns(i)
  PROVE  RebindInv'
<1>1. /\ item \in [MergedItems -> {"new", "adding", "live", "gone"}]
      /\ binder[i].pc = "running" /\ i \in Binders /\ todo' \subseteq MergedItems
      /\ UNCHANGED <<children, pumps, pump, served, posted>>
  BY DEF AddItemReturns, RebindInv, RebindTypes, Binders, pumpVars, loopVars
<1>2. binder[i].answer = "none" /\ item[i] # "new"
  BY <1>1 DEF RebindInv, BindersInv
<1>3. \A j \in MergedItems : /\ item[j] \notin {"adding", "live"} => Unbound(j)
                             /\ item[j] = "new" => binder[j].pc = "off"
  BY DEF RebindInv, BindersInv, Present
<1>4. /\ binder' \in [Binders -> BinderType]
      /\ \A m \in Binders \ {i} : binder'[m] = binder[m]
      /\ binder'[i].pc = "off" /\ binder'[i].at = 0 /\ binder'[i].answer = "none"
  BY <1>1, ResetEffect, Zenon DEF AddItemReturns, RebindInv
<1>5. /\ item'[i] = (IF Present(i) /\ ~Unbound(i) THEN "live" ELSE "gone")
      /\ \A j \in MergedItems \ {i} : item'[j] = item[j]
      /\ item' \in [MergedItems -> {"new", "adding", "live", "gone"}]
  BY <1>1 DEF AddItemReturns
<1>6. item'[i] \notin {"adding", "live"} => Unbound(i)
  BY <1>3, <1>5 DEF Present
<1>7. /\ \A j \in MergedItems : item'[j] = "new" => binder'[j].pc = "off"
      /\ \A j \in MergedItems : item'[j] \notin {"adding", "live"} => Unbound(j)
  BY <1>3, <1>4, <1>5, <1>6 DEF Binders
<1> QED
  BY <1>1, <1>2, <1>4, <1>5, <1>7, CoroutineStep

\* RebindLoop goes on to the next item of its pass.
LEMMA PassNextKeeps ==
  ASSUME RebindInv, PassNext
  PROVE  RebindInv'
<1>1. /\ item' = item /\ item \in [MergedItems -> {"new", "adding", "live", "gone"}]
      /\ binder[Loop].pc = "off" /\ Loop \in Binders /\ Loop \notin MergedItems
      /\ todo \subseteq MergedItems
      /\ UNCHANGED <<item, children, pumpVars, pumps, pump, served, posted>>
  BY RebindAssumption DEF PassNext, RebindInv, RebindTypes, Binders, pumpVars, itemVars
<1>2. binder[Loop].answer = "none"
  BY <1>1 DEF RebindInv, BindersInv
<1>3. \A j \in MergedItems : /\ item[j] \notin {"adding", "live"} => Unbound(j)
                             /\ item[j] = "new" => binder[j].pc = "off"
  BY DEF RebindInv, BindersInv, Present
<1>4. todo' \subseteq MergedItems
  BY <1>1 DEF PassNext
<1>5. CASE UNCHANGED binder
  BY <1>1, <1>4, <1>5, SameRebind
<1>6. ASSUME NEW i \in MergedItems, NEW routes \in Routes[i], Begin(Loop, i, routes)
      PROVE  RebindInv'
  <2>1. routes \in SUBSET Backends
    BY RebindAssumption
  <2>2. /\ binder' \in [Binders -> BinderType]
        /\ \A m \in Binders \ {Loop} : binder'[m] = binder[m]
        /\ binder'[Loop].pc = "running" /\ binder'[Loop].item = i
        /\ binder'[Loop].at = 0 /\ binder'[Loop].answer = "none"
    BY <1>1, <1>6, <2>1, BeginEffect DEF RebindInv
  <2>3. /\ item' \in [MergedItems -> {"new", "adding", "live", "gone"}]
        /\ \A j \in MergedItems : item'[j] = "new" => binder'[j].pc = "off"
        /\ \A j \in MergedItems : item'[j] \notin {"adding", "live"} => Unbound(j)
    BY <1>1, <1>3, <2>2 DEF Binders
  <2> QED
    BY <1>1, <1>2, <1>4, <2>2, <2>3, CoroutineStep
<1>7. \/ UNCHANGED binder
      \/ \E i \in MergedItems : \E routes \in Routes[i] : Begin(Loop, i, routes)
  BY <1>1 DEF PassNext
<1> QED
  BY <1>5, <1>6, <1>7

\* BindRoutes returns to RebindLoop.
LEMMA RebindReturnsKeeps ==
  ASSUME RebindInv, RebindReturns
  PROVE  RebindInv'
<1>1. /\ item' = item /\ item \in [MergedItems -> {"new", "adding", "live", "gone"}]
      /\ binder[Loop].pc = "running" /\ Loop \in Binders /\ Loop \notin MergedItems
      /\ todo' \subseteq MergedItems
      /\ UNCHANGED <<children, pumps, pump, served, posted>>
  BY RebindAssumption DEF RebindReturns, RebindInv, RebindTypes, Binders, pumpVars, loopVars
<1>2. binder[Loop].answer = "none"
  BY <1>1 DEF RebindInv, BindersInv
<1>3. \A j \in MergedItems : /\ item[j] \notin {"adding", "live"} => Unbound(j)
                             /\ item[j] = "new" => binder[j].pc = "off"
  BY DEF RebindInv, BindersInv, Present
<1>4. /\ binder' \in [Binders -> BinderType]
      /\ \A m \in Binders \ {Loop} : binder'[m] = binder[m]
      /\ binder'[Loop].pc = "off" /\ binder'[Loop].at = 0 /\ binder'[Loop].answer = "none"
  BY <1>1, ResetEffect, Zenon DEF RebindReturns, RebindInv
<1>5. /\ item' \in [MergedItems -> {"new", "adding", "live", "gone"}]
      /\ \A j \in MergedItems : item'[j] = "new" => binder'[j].pc = "off"
      /\ \A j \in MergedItems : item'[j] \notin {"adding", "live"} => Unbound(j)
  BY <1>1, <1>3, <1>4 DEF Binders
<1> QED
  BY <1>1, <1>2, <1>4, <1>5, CoroutineStep

\* Posts that stay, moved by what was taken, and new ones of failed pumps.
LEMMA PostsChange ==
  ASSUME RebindInv, posted' \in Seq(Post), UNCHANGED binder, NEW d \in Nat,
         \A p \in Pumps : pump[p].state \in {"failed", "closed"} =>
                            pump'[p].state \in {"failed", "closed"},
         \A n \in 1..Len(posted') :
           \/ n + d \in 1..Len(posted) /\ posted'[n] = posted[n + d]
           \/ /\ posted'[n][1] # "bind"
              /\ pump'[posted'[n][2]].state \in {"failed", "closed"}
  PROVE  PostsInv'
<1>1. ASSUME NEW n \in 1..Len(posted')
      PROVE  /\ posted'[n][1] = "bind" => binder'[posted'[n][2]].answer # "none"
             /\ posted'[n][1] # "bind" => pump'[posted'[n][2]].state \in {"failed", "closed"}
  <2>1. CASE n + d \in 1..Len(posted) /\ posted'[n] = posted[n + d]
    <3>1. posted[n + d] \in Post
      BY <2>1 DEF RebindInv, RebindTypes
    <3>2. posted[n + d][1] # "bind" => posted[n + d][2] \in Pumps
      BY <3>1 DEF Post
    <3>3. /\ posted[n + d][1] = "bind" => binder[posted[n + d][2]].answer # "none"
          /\ posted[n + d][1] # "bind" => pump[posted[n + d][2]].state \in {"failed", "closed"}
      BY <2>1 DEF RebindInv, PostsInv
    <3> QED
      BY <2>1, <3>2, <3>3, Zenon
  <2> QED
    BY <2>1
<1>2. ASSUME NEW m \in 1..Len(posted'), NEW n \in 1..Len(posted'),
             posted'[m][1] = "bind", posted'[m] = posted'[n]
      PROVE  m = n
  <2>1. /\ m + d \in 1..Len(posted) /\ posted'[m] = posted[m + d]
        /\ n + d \in 1..Len(posted) /\ posted'[n] = posted[n + d]
    BY <1>2, Zenon
  <2>2. m + d = n + d
    BY <1>2, <2>1, Zenon DEF RebindInv, PostsInv
  <2>3. m \in Nat /\ n \in Nat
    OBVIOUS
  <2> QED
    BY ONLY <2>2, <2>3, d \in Nat
<1> QED
  BY <1>1, <1>2 DEF PostsInv

\* RemoveItem takes the children off the pumps that are published.
LEMMA RemoveMergedKeeps ==
  ASSUME RebindInv, NEW i \in MergedItems, RemoveMergedItem(i)
  PROVE  RebindInv'
<1>1. /\ item \in [MergedItems -> {"new", "adding", "live", "gone"}]
      /\ children \in [MergedItems -> [Backends -> Tally]]
      /\ served \in [MergedItems -> [Pumps -> Nat]]
      /\ UNCHANGED <<pumps, pump, binder, todo, posted>>
  BY DEF RemoveMergedItem, RebindInv, RebindTypes, loopVars
<1>2. \A p \in Pumps : ChildrenOn(i, p) \in Nat
  BY ChildrenOnNat DEF RebindInv
<1>3. /\ served' \in [MergedItems -> [Pumps -> Nat]]
      /\ \A j \in MergedItems \ {i} : served'[j] = served[j]
      /\ \A p \in Pumps : served'[i][p] = Less(served[i][p], ChildrenOn(i, p))
  <2>1. [p \in Pumps |-> Less(served[i][p], ChildrenOn(i, p))] \in [Pumps -> Nat]
    BY <1>1, <1>2 DEF Less
  <2> QED
    BY <1>1, <2>1 DEF RemoveMergedItem
<1>4. /\ children' \in [MergedItems -> [Backends -> Tally]]
      /\ \A j \in MergedItems \ {i} : children'[j] = children[j]
      /\ \A b \in Backends : children'[i][b] = NoChild
  <2>2. PICK e \in Tally : e = NoChild
    BY TallyFacts, Zenon
  <2>3. children' = [children EXCEPT ![i] = [b \in Backends |-> e]]
    BY <2>2 DEF RemoveMergedItem
  <2>4. [b \in Backends |-> e] \in [Backends -> Tally]
    OBVIOUS
  <2>5. /\ children' \in [MergedItems -> [Backends -> Tally]]
        /\ \A j \in MergedItems \ {i} : children'[j] = children[j]
        /\ children'[i] = [b \in Backends |-> e]
    BY <1>1, <2>3, <2>4, Zenon
  <2> QED
    BY <2>2, <2>5
<1>5. /\ item' \in [MergedItems -> {"new", "adding", "live", "gone"}]
      /\ item'[i] = "gone" /\ \A j \in MergedItems \ {i} : item'[j] = item[j]
  BY <1>1 DEF RemoveMergedItem
<1>6. RebindTypes'
  BY <1>1, <1>3, <1>4, <1>5 DEF RebindInv, RebindTypes
<1>7. PumpsInv' /\ PostsInv'
  <2>1. PumpsInv'
    BY <1>1 DEF RebindInv, PumpsInv, NoLeakedPump
  <2>2. PostsInv /\ UNCHANGED <<posted, binder, pump>>
    BY <1>1 DEF RebindInv
  <2>3. PostsInv'
    BY ONLY <2>2 DEF PostsInv
  <2> QED
    BY <2>1, <2>3
<1>8. BindersInv'
  <2>1. \A j \in MergedItems : ~Present(j)' => Unbound(j)'
    <3> SUFFICES ASSUME NEW j \in MergedItems, ~Present(j)', NEW b \in Backends
                 PROVE  children'[j][b] = NoChild
      BY DEF Unbound, Bound
    <3>1. CASE j = i
      BY <1>4, <3>1
    <3>2. CASE j # i
      <4>1. ~Present(j)
        BY <1>5, <3>2 DEF Present
      <4>2. children[j][b] = NoChild
        BY <4>1 DEF RebindInv, BindersInv, Unbound, Bound
      <4> QED
        BY <1>4, <3>2, <4>2
    <3> QED
      BY <3>1, <3>2
  <2> QED
    BY <1>1, <1>5, <2>1 DEF RebindInv, BindersInv
<1>9. ServedInv'
  <2> SUFFICES ASSUME NEW j \in MergedItems, NEW q \in Pumps
               PROVE  /\ served'[j][q] > 0 => pump'[q].state = "live"
                      /\ served'[j][q] <= (ChildrenOn(j, q)' + Telling(j, j, q)')
                                          + Telling(Loop, j, q)'
    BY DEF ServedInv
  <2>1. /\ served[j][q] > 0 => pump[q].state = "live"
        /\ served[j][q] <= (ChildrenOn(j, q) + Telling(j, j, q)) + Telling(Loop, j, q)
    BY DEF RebindInv, ServedInv
  <2>2. /\ Telling(j, j, q)' = Telling(j, j, q) /\ Telling(Loop, j, q)' = Telling(Loop, j, q)
        /\ Telling(j, j, q) \in {0, 1} /\ Telling(Loop, j, q) \in {0, 1}
    BY <1>1 DEF Telling, Tells
  <2>3. CASE j # i
    <3>1. ChildrenOn(j, q)' = ChildrenOn(j, q)
      BY <1>1, <1>4, <2>3, SameChildren, SamePublished
    <3> QED
      BY <1>1, <1>3, <2>1, <2>2, <2>3, <3>1
  <2>4. CASE j = i
    <3>1. ChildrenOn(i, q)' = 0
      <4>1. CASE pump[q] = NoPump \/ ~Published(q)
        BY <1>1, <4>1, SamePublished DEF ChildrenOn
      <4>2. CASE ~(pump[q] = NoPump \/ ~Published(q))
        <5>1. pump[q].backend \in Backends
          BY <4>2 DEF RebindInv, PumpsInv
        <5>2. children'[i][pump[q].backend] = NoChild
          BY <1>4, <5>1
        <5>3. ChildrenOn(i, q)' = NoChild[q]
          BY <1>1, <4>2, <5>2, SamePublished DEF ChildrenOn
        <5> QED
          BY <5>3, TallyFacts, Zenon
      <4> QED
        BY <4>1, <4>2
    <3> DEFINE s == served[i][q]
               c == ChildrenOn(i, q)
               x == Telling(i, i, q)
               y == Telling(Loop, i, q)
    <3>2. /\ s \in Nat /\ c \in Nat /\ x \in {0, 1} /\ y \in {0, 1}
          /\ s <= (c + x) + y /\ served'[i][q] = IF s < c THEN 0 ELSE s - c
      BY <1>1, <1>2, <1>3, <2>1, <2>2, <2>4 DEF Less
    <3>3. served'[i][q] <= (0 + x) + y /\ (served'[i][q] > 0 => s > 0)
      <4> HIDE DEF s, c, x, y
      <4> QED
        BY ONLY <3>2
    <3> QED
      BY <1>1, <2>1, <2>2, <2>4, <3>1, <3>3
  <2> QED
    BY <2>3, <2>4
<1> QED
  BY <1>6, <1>7, <1>8, <1>9 DEF RebindInv

\* Close ends every pump and drops every item.
LEMMA CloseMergedKeeps ==
  ASSUME RebindInv, CloseMerged
  PROVE  RebindInv'
<1> USE PumpsFacts
<1>1. /\ item \in [MergedItems -> {"new", "adding", "live", "gone"}]
      /\ pump \in [Pumps -> [backend : Backends \cup {Loop},
                             state : {"none", "live", "failed", "closed"}]]
      /\ UNCHANGED <<binder, todo, posted>>
  BY DEF CloseMerged, RebindInv, RebindTypes, loopVars
<1>2. /\ children' \in [MergedItems -> [Backends -> Tally]]
      /\ \A i \in MergedItems : Unbound(i)'
  <2>2. PICK e \in Tally : e = NoChild
    BY TallyFacts, Zenon
  <2>3. children' = [i \in MergedItems |-> [b \in Backends |-> e]]
    BY <2>2 DEF CloseMerged
  <2>4. \A i \in MergedItems, b \in Backends : children'[i][b] = e
    BY <2>3
  <2> QED
    BY <2>2, <2>3, <2>4 DEF Unbound, Bound
<1>3. /\ item' \in [MergedItems -> {"new", "adding", "live", "gone"}]
      /\ \A i \in MergedItems : item'[i] = "new" => item[i] = "new"
  BY <1>1 DEF CloseMerged
<1>4. /\ pump' \in [Pumps -> [backend : Backends \cup {Loop},
                              state : {"none", "live", "failed", "closed"}]]
      /\ \A p \in Pumps : \/ pump[p] = NoPump /\ pump'[p] = NoPump
                          \/ /\ pump[p] # NoPump
                             /\ pump'[p].backend = pump[p].backend
                             /\ pump'[p].state = "closed"
  BY <1>1, Zenon DEF CloseMerged, NoPump
<1>5. /\ pumps' \in [Backends -> Pumps \cup {0}] /\ \A b \in Backends : pumps'[b] = 0
      /\ DOMAIN pumps' = Backends
  BY DEF CloseMerged
<1>6. /\ served' \in [MergedItems -> [Pumps -> Nat]]
      /\ \A i \in MergedItems, p \in Pumps : served'[i][p] = 0
  BY DEF CloseMerged
<1>7. RebindTypes'
  BY <1>1, <1>2, <1>3, <1>4, <1>5, <1>6 DEF RebindInv, RebindTypes
<1>8. PumpsInv'
  BY <1>4, <1>5 DEF RebindInv, PumpsInv, NoLeakedPump, NoPump
<1>9. BindersInv'
  <2>1. ASSUME NEW k \in Binders, binder[k].pc = "waiting"
        PROVE  pump'[binder[k].at] # NoPump
    <3>1. binder[k].at \in Pumps /\ pump[binder[k].at] # NoPump
      BY <2>1, Zenon DEF RebindInv, BindersInv
    <3>2. pump'[binder[k].at].state = "closed"
      BY <1>4, <3>1, Zenon
    <3> QED
      BY <3>2 DEF NoPump
  <2> QED
    BY <1>1, <1>2, <1>3, <2>1, Zenon DEF RebindInv, BindersInv
<1>10. PostsInv'
  <2>1. \A p \in Pumps : pump[p].state \in {"failed", "closed"} => pump'[p].state = "closed"
    BY <1>4 DEF NoPump
  <2>2. \A n \in 1..Len(posted') : n + 0 \in 1..Len(posted) /\ posted'[n] = posted[n + 0]
    BY <1>1
  <2> QED
    BY <1>1, <2>1, <2>2, PostsChange, Zenon DEF RebindInv, RebindTypes
<1>11. ServedInv'
  <2>1. ASSUME NEW i \in MergedItems, NEW p \in Pumps
        PROVE  ChildrenOn(i, p)' = 0
    <3>1. ~Published(p)'
      BY <1>5 DEF Published
    <3> QED
      BY <3>1 DEF ChildrenOn
  <2>2. \A k \in Binders, i \in MergedItems, p \in Pumps : Telling(k, i, p)' \in {0, 1}
    BY DEF Telling
  <2>3. Loop \in Binders /\ MergedItems \subseteq Binders
    BY DEF Binders
  <2> SUFFICES ASSUME NEW i \in MergedItems, NEW p \in Pumps
               PROVE  /\ served'[i][p] > 0 => pump'[p].state = "live"
                      /\ served'[i][p] <= (ChildrenOn(i, p)' + Telling(i, i, p)')
                                          + Telling(Loop, i, p)'
    BY DEF ServedInv
  <2>4. Telling(i, i, p)' \in {0, 1} /\ Telling(Loop, i, p)' \in {0, 1}
    BY <2>2, <2>3
  <2>5. served'[i][p] = 0 /\ ChildrenOn(i, p)' = 0
    BY <1>6, <2>1
  <2> QED
    BY <2>4, <2>5
<1> QED
  BY <1>7, <1>8, <1>9, <1>10, <1>11 DEF RebindInv

\* What is posted for the reads of some pumps.
LEMMA ReadsPosted ==
  ASSUME NEW lost, PostReads(lost)
  PROVE  \E r \in Seq({<<"read", p>> : p \in lost}) : posted' = posted \o r
<1>1. PICK n \in 0..MaxPumps : \E q \in [1..n -> lost] :
        /\ \A p \in lost : \E k \in 1..n : q[k] = p
        /\ \A j, k \in 1..n : q[j] = q[k] => j = k
        /\ posted' = posted \o [k \in 1..n |-> <<"read", q[k]>>]
  BY Zenon DEF PostReads
<1>2. PICK q \in [1..n -> lost] : posted' = posted \o [k \in 1..n |-> <<"read", q[k]>>]
  BY <1>1, Zenon
<1>3. n \in Nat
  BY PumpsFacts
<1>4. \A k \in 1..n : <<"read", q[k]>> \in {<<"read", p>> : p \in lost}
  OBVIOUS
<1>5. [k \in 1..n |-> <<"read", q[k]>>] \in Seq({<<"read", p>> : p \in lost})
  BY <1>3, <1>4
<1> QED
  BY <1>2, <1>5, Zenon

\* A backend fails: its live pump serves nothing more, and its read is posted.
LEMMA FailsKeeps ==
  ASSUME RebindInv, NEW b \in Backends, BackendFails(b)
  PROVE  RebindInv'
<1> USE PumpsFacts
<1> DEFINE lost == {p \in Pumps : pump[p] = [backend |-> b, state |-> "live"]}
           reads == {<<"read", p>> : p \in lost}
<1>1. /\ pump \in [Pumps -> [backend : Backends \cup {Loop},
                             state : {"none", "live", "failed", "closed"}]]
      /\ served \in [MergedItems -> [Pumps -> Nat]]
      /\ posted \in Seq(Post)
      /\ UNCHANGED <<item, children, pumps, binder, todo>>
  BY DEF BackendFails, RebindInv, RebindTypes, itemVars, loopVars
<1>2. /\ pump' \in [Pumps -> [backend : Backends \cup {Loop},
                              state : {"none", "live", "failed", "closed"}]]
      /\ \A p \in Pumps \ lost : pump'[p] = pump[p]
      /\ \A p \in lost : /\ pump[p].state = "live" /\ pump[p].backend = b
                         /\ pump'[p].backend = b /\ pump'[p].state = "failed"
  <2>1. pump' = [p \in Pumps |-> IF p \in lost THEN [pump[p] EXCEPT !.state = "failed"]
                                 ELSE pump[p]]
    BY DEF BackendFails
  <2>2. \A p \in lost : p \in Pumps /\ pump[p] = [backend |-> b, state |-> "live"]
    OBVIOUS
  <2> HIDE DEF lost
  <2>3. \A p \in Pumps \ lost : pump'[p] = pump[p]
    BY <2>1
  <2>4. ASSUME NEW p \in lost
        PROVE  /\ pump[p].state = "live" /\ pump[p].backend = b
               /\ pump'[p].backend = b /\ pump'[p].state = "failed"
               /\ pump'[p] \in [backend : Backends \cup {Loop},
                                state : {"none", "live", "failed", "closed"}]
    <3>1. pump'[p] = [pump[p] EXCEPT !.state = "failed"]
      BY <2>1, <2>2
    <3> QED
      BY <2>2, <3>1
  <2>5. pump' \in [Pumps -> [backend : Backends \cup {Loop},
                            state : {"none", "live", "failed", "closed"}]]
    <3>1. \A p \in Pumps : pump'[p] \in [backend : Backends \cup {Loop},
                                         state : {"none", "live", "failed", "closed"}]
      BY <1>1, <2>3, <2>4
    <3> QED
      BY <2>1, <3>1
  <2> QED
    BY <2>3, <2>4, <2>5
<1>3. /\ served' \in [MergedItems -> [Pumps -> Nat]]
      /\ \A i \in MergedItems, p \in Pumps :
           served'[i][p] = IF p \in lost THEN 0 ELSE served[i][p]
  BY <1>1 DEF BackendFails
<1>4. PostReads(lost)
  BY Zenon DEF BackendFails
<1>6. PICK r \in Seq(reads) : posted' = posted \o r
  BY <1>4, ReadsPosted, Zenon
<1>7. reads \subseteq Post
  BY DEF Post
<1>8. \A p \in Pumps : /\ pump[p].state \in {"failed", "closed"} =>
                            pump'[p].state \in {"failed", "closed"}
                       /\ pump[p] # NoPump => pump'[p] # NoPump
  BY <1>2 DEF NoPump
<1>9. \A x \in reads : x[1] # "bind" /\ pump'[x[2]].state \in {"failed", "closed"}
  BY <1>2
<1> HIDE DEF reads
<1>10. r \in Seq(Post)
  BY <1>7
<1>11. /\ posted' \in Seq(Post)
       /\ Len(posted') = Len(posted) + Len(r)
       /\ \A n \in 1..Len(posted') : posted'[n] = IF n <= Len(posted) THEN posted[n]
                                                  ELSE r[n - Len(posted)]
  BY <1>1, <1>6, <1>10
<1>12. \A n \in 1..Len(posted') :
         \/ n + 0 \in 1..Len(posted) /\ posted'[n] = posted[n + 0]
         \/ posted'[n] \in reads
  <2> SUFFICES ASSUME NEW n \in 1..Len(posted')
               PROVE  \/ n + 0 \in 1..Len(posted) /\ posted'[n] = posted[n + 0]
                      \/ posted'[n] \in reads
    OBVIOUS
  <2>1. Len(posted) \in Nat /\ Len(r) \in Nat
    BY <1>1
  <2>2. CASE n <= Len(posted)
    BY <1>11, <2>1, <2>2
  <2>3. CASE ~(n <= Len(posted))
    <3>1. n - Len(posted) \in 1..Len(r)
      BY <1>11, <2>1, <2>3
    <3> QED
      BY <1>11, <2>3, <3>1
  <2> QED
    BY <2>2, <2>3
<1>13. PostsInv'
  BY <1>1, <1>8, <1>9, <1>11, <1>12, PostsChange, Zenon
<1>14. RebindTypes'
  BY <1>1, <1>2, <1>3, <1>11 DEF RebindInv, RebindTypes
<1>15. PumpsInv'
  <2>1. \A p \in Pumps : \/ pump'[p] = NoPump
                         \/ pump'[p].state # "none" /\ pump'[p].backend \in Backends
    BY <1>2 DEF RebindInv, PumpsInv
  <2>2. \A p \in Pumps : pump'[p].state \in {"live", "failed"} =>
                           /\ pump[p].state \in {"live", "failed"}
                           /\ pump'[p].backend = pump[p].backend
    <3> HIDE DEF lost
    <3> QED
      BY <1>2, Zenon
  <2>3. \A p \in Pumps : pump[p].state \in {"live", "failed"} =>
                           /\ pump'[p].state \in {"live", "failed"}
                           /\ pump'[p].backend = pump[p].backend
    <3> HIDE DEF lost
    <3> QED
      BY <1>2, Zenon
  <2>4. \A c \in Backends : pumps[c] # 0 => pumps[c] \in Pumps
    BY DEF RebindInv, RebindTypes
  <2> QED
    BY <1>1, <2>1, <2>2, <2>3, <2>4, Zenon DEF RebindInv, PumpsInv, NoLeakedPump
<1>16. BindersInv'
  <2>1. \A j \in MergedItems : ~Present(j)' => Unbound(j)'
    BY <1>1 DEF RebindInv, BindersInv, Present, Unbound, Bound
  <2>2. \A k \in Binders : binder[k].pc = "waiting" => pump'[binder[k].at] # NoPump
    BY <1>8, Zenon DEF RebindInv, BindersInv
  <2> QED
    BY <1>1, <2>1, <2>2 DEF RebindInv, BindersInv
<1>17. ServedInv'
  <2> SUFFICES ASSUME NEW i \in MergedItems, NEW q \in Pumps
               PROVE  /\ served'[i][q] > 0 => pump'[q].state = "live"
                      /\ served'[i][q] <= (ChildrenOn(i, q)' + Telling(i, i, q)')
                                          + Telling(Loop, i, q)'
    BY DEF ServedInv
  <2>1. /\ served[i][q] > 0 => pump[q].state = "live"
        /\ served[i][q] <= (ChildrenOn(i, q) + Telling(i, i, q)) + Telling(Loop, i, q)
    BY DEF RebindInv, ServedInv
  <2>2. /\ Telling(i, i, q)' = Telling(i, i, q) /\ Telling(Loop, i, q)' = Telling(Loop, i, q)
        /\ Telling(i, i, q) \in {0, 1} /\ Telling(Loop, i, q) \in {0, 1}
    BY <1>1 DEF Telling, Tells
  <2>3. CASE q \in lost
    <3>1. served'[i][q] = 0
      BY <1>3, <2>3
    <3>2. ChildrenOn(i, q)' \in Nat
      <4>1. CASE pump'[q] = NoPump \/ ~Published(q)'
        BY <4>1 DEF ChildrenOn
      <4>2. CASE ~(pump'[q] = NoPump \/ ~Published(q)')
        <5>1. children[i][b] \in Tally
          BY DEF RebindInv, RebindTypes
        <5>2. children'[i][pump'[q].backend] = children[i][b]
          BY <1>1, <1>2, <2>3
        <5>3. ChildrenOn(i, q)' = children[i][b][q]
          BY <4>2, <5>2 DEF ChildrenOn
        <5> QED
          BY <5>1, <5>3, TallyFacts, Zenon
      <4> QED
        BY <4>1, <4>2
    <3> QED
      BY <2>2, <3>1, <3>2
  <2>4. CASE q \notin lost
    <3>1. pump'[q] = pump[q] /\ served'[i][q] = served[i][q]
      BY <1>2, <1>3, <2>4
    <3>2. ChildrenOn(i, q)' = ChildrenOn(i, q)
      BY <1>1, <3>1, SameChildren, SamePublished, Zenon
    <3> QED
      BY <2>1, <2>2, <3>1, <3>2
  <2> QED
    BY <2>3, <2>4
<1> QED
  BY <1>13, <1>14, <1>15, <1>16, <1>17 DEF RebindInv

\* A failed read ends its pump, whose failure is posted unless it was closed.
LEMMA ReadFailsKeeps ==
  ASSUME RebindInv, NEW p \in Pumps, ReadFails(p)
  PROVE  RebindInv'
<1>1. /\ posted \in Seq(Post) /\ posted # <<>> /\ Head(posted) = <<"read", p>>
      /\ UNCHANGED <<item, children, pumps, pump, served, binder, todo>>
  BY DEF ReadFails, MayPop, RebindInv, RebindTypes, itemVars, pumpVars, loopVars
<1>2. /\ Tail(posted) \in Seq(Post) /\ Len(Tail(posted)) = Len(posted) - 1
      /\ \A n \in 1..Len(Tail(posted)) :
           n + 1 \in 1..Len(posted) /\ Tail(posted)[n] = posted[n + 1]
      /\ 1 \in 1..Len(posted) /\ posted[1] = <<"read", p>>
  BY <1>1, RestOfPosts
<1>3. PICK t \in Seq(Post) : t = Tail(posted)
  BY <1>2, Zenon
<1>4. pump[p].state \in {"failed", "closed"}
  BY <1>2 DEF RebindInv, PostsInv
<1>5. /\ posted' \in Seq(Post)
      /\ \A n \in 1..Len(posted') :
           \/ n \in 1..Len(t) /\ posted'[n] = t[n]
           \/ posted'[n] = <<"failed", p>>
  <2>1. <<"failed", p>> \in Post
    BY DEF Post
  <2>2. PICK x \in Post : x = <<"failed", p>>
    BY <2>1
  <2>3. CASE pump[p].state = "closed"
    <3>1. posted' = t
      BY <1>3, <2>3 DEF ReadFails
    <3> QED
      BY <3>1
  <2>4. CASE pump[p].state # "closed"
    <3>1. posted' = t \o <<x>>
      BY <1>3, <2>2, <2>4 DEF ReadFails
    <3>2. posted' \in Seq(Post) /\ Len(posted') = Len(t) + 1
          /\ \A n \in 1..Len(posted') : \/ n \in 1..Len(t) /\ posted'[n] = t[n]
                                        \/ posted'[n] = x
      BY <3>1
    <3> QED
      BY <2>2, <3>2
  <2> QED
    BY <2>3, <2>4
<1>6. \A n \in 1..Len(posted') :
        \/ n + 1 \in 1..Len(posted) /\ posted'[n] = posted[n + 1]
        \/ posted'[n][1] # "bind" /\ pump'[posted'[n][2]].state \in {"failed", "closed"}
  BY <1>1, <1>2, <1>3, <1>4, <1>5
<1>7. PostsInv'
  BY <1>1, <1>5, <1>6, PostsChange, Zenon
<1>8. ServedInv'
  <2>1. ASSUME NEW m \in Binders, NEW i \in MergedItems, NEW q \in Pumps
        PROVE  Tells(m, i, q)' <=> Tells(m, i, q)
    BY <1>1 DEF Tells
  <2> QED
    BY <1>1, <2>1, SameAccount DEF RebindInv
<1>9. RebindTypes' /\ PumpsInv'
  BY <1>1, <1>5 DEF RebindInv, RebindTypes, PumpsInv, NoLeakedPump
<1>10. BindersInv'
  BY <1>1 DEF RebindInv, BindersInv, Present, Unbound, Bound
<1> QED
  BY <1>7, <1>8, <1>9, <1>10, Zenon DEF RebindInv

\* The failure of a pump is handled, unless a later pump has replaced it.
LEMMA OnFailedKeeps ==
  ASSUME RebindInv, NEW p \in Pumps, OnBackendFailed(p)
  PROVE  RebindInv'
<1>1. /\ posted \in Seq(Post) /\ posted # <<>> /\ Head(posted) = <<"failed", p>>
      /\ posted' = Tail(posted) /\ UNCHANGED <<item, binder, todo>>
      /\ binder' \in [Binders -> BinderType]
  BY DEF OnBackendFailed, MayPop, Pop, RebindInv, RebindTypes, itemVars, loopVars
<1>2. 1 \in 1..Len(posted) /\ posted[1] = <<"failed", p>>
  BY <1>1, RestOfPosts
<1>3. pump[p].state \in {"failed", "closed"}
  BY <1>2 DEF RebindInv, PostsInv
<1>4. pump[p].backend \in Backends
  BY <1>3 DEF RebindInv, PumpsInv, NoPump
<1>5. PICK b \in Backends : b = pump[p].backend
  BY <1>4
<1>6. ASSUME NEW m \in Binders, NEW j \in MergedItems, NEW q \in Pumps
      PROVE  Tells(m, j, q)' <=> Tells(m, j, q)
  BY <1>1 DEF Tells
<1>7. /\ PumpsInv' /\ ServedInv'
      /\ pumps' \in [Backends -> Pumps \cup {0}]
      /\ pump' \in [Pumps -> [backend : Backends \cup {Loop},
                              state : {"none", "live", "failed", "closed"}]]
      /\ served' \in [MergedItems -> [Pumps -> Nat]]
      /\ \A q \in Pumps : pump[q].state \in {"failed", "closed"} =>
                            pump'[q].state \in {"failed", "closed"}
      /\ \A q \in Pumps : pump[q] # NoPump => pump'[q] # NoPump
      /\ children' \in [MergedItems -> [Backends -> Tally]]
      /\ \A j \in MergedItems, c \in Backends :
           children'[j][c] = children[j][c] \/ children'[j][c] = NoChild
  <2>1. CASE UNCHANGED <<itemVars, pumpVars>>
    <3>1. UNCHANGED <<served, children, pumps, pump>>
      BY <2>1 DEF itemVars, pumpVars
    <3>2. ServedInv'
      BY <1>6, <3>1, SameAccount DEF RebindInv
    <3> QED
      BY <3>1, <3>2 DEF RebindInv, RebindTypes, PumpsInv, NoLeakedPump
  <2>2. CASE /\ pumps[b] = p /\ pumps' = [pumps EXCEPT ![b] = 0] /\ ClosePump(p)
             /\ children' = [j \in MergedItems |-> [children[j] EXCEPT ![b] = NoChild]]
    <3>1. children \in [MergedItems -> [Backends -> Tally]]
      BY DEF RebindInv, RebindTypes
    <3>3. PICK e \in Tally : e = NoChild
      BY TallyFacts, Zenon
    <3>4. children' = [j \in MergedItems |-> [children[j] EXCEPT ![b] = e]]
      BY <2>2, <3>3
    <3>5. /\ children' \in [MergedItems -> [Backends -> Tally]]
          /\ \A j \in MergedItems, c \in Backends : c # b => children'[j][c] = children[j][c]
          /\ \A j \in MergedItems : children'[j][b] = e
      BY <3>1, <3>4
    <3>6. \A j \in MergedItems, c \in Backends :
            children'[j][c] = children[j][c] \/ children'[j][c] = NoChild
      BY <3>3, <3>5
    <3> QED
      BY <1>6, <2>2, <3>5, <3>6, CloseEffect, Zenon
  <2> QED
    BY <1>5, <2>1, <2>2, Zenon DEF OnBackendFailed
<1>8. posted' \in Seq(Post) /\ PostsInv'
  BY <1>1, <1>7, PopKeepsPosts
<1>9. BindersInv'
  <2>1. \A j \in MergedItems : ~Present(j)' => Unbound(j)'
    <3> SUFFICES ASSUME NEW j \in MergedItems, ~Present(j)', NEW c \in Backends
                 PROVE  children'[j][c] = NoChild
      BY DEF Unbound, Bound
    <3>1. ~Present(j)
      BY <1>1 DEF Present
    <3>2. children[j][c] = NoChild
      BY <3>1 DEF RebindInv, BindersInv, Unbound, Bound
    <3> QED
      BY <1>7, <3>2
  <2> QED
    BY <1>1, <1>7, <2>1, Zenon DEF RebindInv, BindersInv
<1>10. RebindTypes'
  BY <1>1, <1>7, <1>8 DEF RebindInv, RebindTypes
<1> QED
  BY <1>7, <1>8, <1>9, <1>10 DEF RebindInv

\* The invariant holds initially.
LEMMA RebindInvInit == RebindInit => RebindInv
<1> USE PumpsFacts
<1> SUFFICES ASSUME RebindInit PROVE RebindInv
  OBVIOUS
<1>1. <<>> \in Seq(Post) /\ Len(<<>>) = 0
  OBVIOUS
<1>2. PICK e \in Tally : e = NoChild
  BY TallyFacts, Zenon
<1>3. children = [i \in MergedItems |-> [b \in Backends |-> e]]
  BY <1>2 DEF RebindInit
<1>4. \A i \in MergedItems, b \in Backends : children[i][b] = NoChild
  BY <1>2, <1>3
<1>5. NoBinder \in BinderType
  BY DEF NoBinder, BinderType, Binders
<1>6. NoPump \in [backend : Backends \cup {Loop},
                  state : {"none", "live", "failed", "closed"}]
  BY DEF NoPump
<1>7. /\ binder = [k \in Binders |-> NoBinder] /\ pump = [p \in Pumps |-> NoPump]
      /\ pumps = [b \in Backends |-> 0] /\ posted = <<>> /\ todo = {}
      /\ served = [i \in MergedItems |-> [p \in Pumps |-> 0]]
      /\ item = [i \in MergedItems |-> "new"]
  BY DEF RebindInit
<1>8. NoBinder.pc = "off" /\ NoBinder.answer = "none" /\ NoPump.state = "none"
  BY DEF NoBinder, NoPump
<1>9. RebindTypes
  <2>1. children \in [MergedItems -> [Backends -> Tally]]
    BY <1>3
  <2>2. posted \in Seq(Post)
    BY <1>1, <1>7
  <2>3. /\ item \in [MergedItems -> {"new", "adding", "live", "gone"}]
        /\ pumps \in [Backends -> Pumps \cup {0}]
        /\ pump \in [Pumps -> [backend : Backends \cup {Loop},
                               state : {"none", "live", "failed", "closed"}]]
        /\ served \in [MergedItems -> [Pumps -> Nat]]
        /\ todo \subseteq MergedItems
    BY <1>6, <1>7
  <2>4. binder \in [Binders -> BinderType]
    BY <1>5, <1>7
  <2> QED
    BY <2>1, <2>2, <2>3, <2>4 DEF RebindTypes
<1>10. PumpsInv
  BY <1>7, <1>8 DEF PumpsInv, NoLeakedPump
<1>11. BindersInv
  <2>1. \A k \in Binders : binder[k].pc = "off" /\ binder[k].answer = "none"
    BY <1>7, <1>8
  <2>2. \A i \in MergedItems : Unbound(i) /\ i \in Binders
    BY <1>4 DEF Unbound, Bound, Binders
  <2> QED
    BY <2>1, <2>2 DEF BindersInv
<1>12. PostsInv
  BY <1>1, <1>7 DEF PostsInv
<1>13. ServedInv
  <2> SUFFICES ASSUME NEW i \in MergedItems, NEW p \in Pumps
               PROVE  /\ served[i][p] > 0 => pump[p].state = "live"
                      /\ served[i][p] <= (ChildrenOn(i, p) + Telling(i, i, p))
                                         + Telling(Loop, i, p)
    BY Zenon DEF ServedInv
  <2>1. served[i][p] = 0 /\ pump[p] = NoPump
    BY <1>7
  <2>2. ChildrenOn(i, p) = 0
    BY <2>1 DEF ChildrenOn
  <2>3. Telling(i, i, p) \in {0, 1} /\ Telling(Loop, i, p) \in {0, 1}
    BY DEF Telling
  <2> QED
    BY <2>1, <2>2, <2>3
<1> QED
  BY <1>9, <1>10, <1>11, <1>12, <1>13 DEF RebindInv

\* Every step keeps it.
LEMMA RebindStepKeeps == RebindInv /\ [RebindNext]_rebindVars => RebindInv'
<1> SUFFICES ASSUME RebindInv, [RebindNext]_rebindVars PROVE RebindInv'
  OBVIOUS
<1>1. CASE UNCHANGED rebindVars
  <2>1. UNCHANGED <<item, children, pumpVars, binder, posted>> /\ todo' = todo
    BY <1>1 DEF rebindVars, itemVars, loopVars
  <2> QED
    BY <2>1, SameRebind DEF RebindInv, RebindTypes
<1>2. ASSUME NEW k \in Binders, BindNext(k) PROVE RebindInv'
  BY <1>2, BindNextKeeps
<1>3. ASSUME NEW k \in Binders, BindDone(k) PROVE RebindInv'
  BY <1>3, BindDoneKeeps
<1>4. ASSUME NEW i \in MergedItems, AddItemReturns(i) PROVE RebindInv'
  BY <1>4, AddReturnsKeeps
<1>5. ASSUME NEW p \in Pumps, ReadFails(p) PROVE RebindInv'
  BY <1>5, ReadFailsKeeps
<1>6. ASSUME NEW p \in Pumps, OnBackendFailed(p) PROVE RebindInv'
  BY <1>6, OnFailedKeeps
<1>7. CASE RebindTimer
  <2>1. /\ UNCHANGED <<item, children, pumpVars, binder, posted>>
        /\ todo' \subseteq MergedItems
    BY <1>7 DEF RebindTimer, itemVars
  <2> QED
    BY <2>1, SameRebind
<1>8. CASE PassNext
  BY <1>8, PassNextKeeps
<1>9. CASE RebindReturns
  BY <1>9, RebindReturnsKeeps
<1>10. ASSUME NEW k \in Binders, BackendAccepts(k) PROVE RebindInv'
  BY <1>10, AcceptKeeps
<1>11. ASSUME NEW k \in Binders, BackendRefuses(k) PROVE RebindInv'
  BY <1>11, RefuseKeeps
<1>12. ASSUME NEW i \in MergedItems, AddMergedItem(i) PROVE RebindInv'
  BY <1>12, AddMergedKeeps
<1>13. ASSUME NEW i \in MergedItems, RemoveMergedItem(i) PROVE RebindInv'
  BY <1>13, RemoveMergedKeeps
<1>14. CASE CloseMerged
  BY <1>14, CloseMergedKeeps
<1>15. ASSUME NEW b \in Backends, BackendFails(b) PROVE RebindInv'
  BY <1>15, FailsKeeps
<1>16. ASSUME NEW b \in Backends, BackendRecovers(b) PROVE RebindInv'
  <2>1. UNCHANGED <<item, children, pumpVars, binder, posted>> /\ todo' = todo
    BY <1>16 DEF BackendRecovers, itemVars, loopVars
  <2> QED
    BY <2>1, SameRebind DEF RebindInv, RebindTypes
<1> QED
  BY <1>1, <1>2, <1>3, <1>4, <1>5, <1>6, <1>7, <1>8, <1>9, <1>10, <1>11, <1>12, <1>13,
     <1>14, <1>15, <1>16, Zenon DEF RebindNext, Run

\* Whatever fails, refuses, is removed or closed while AddItems is in flight,
\* no pump is left unpublished with a subscription open, and a backend serves
\* an item that is gone only while a coroutine is about to tell it so
\* (EnsurePump, BindRoutes, OnBackendFailed, RemoveItem, Close).
THEOREM NothingStaysBehind == RebindSpec => []NothingIsLeftBehind
<1>1. RebindInv => NothingIsLeftBehind
  <2> SUFFICES ASSUME RebindInv, NEW i \in MergedItems, NEW p \in Pumps,
                      item[i] = "gone", served[i][p] > 0
               PROVE  \E k \in Binders : binder[k].item = i /\ binder[k].at = p
                                         /\ binder[k].answer = "added"
    BY DEF NothingIsLeftBehind, RemovedIsUnserved, RebindInv, PumpsInv
  <2>1. Unbound(i)
    BY DEF RebindInv, BindersInv, Present
  <2>2. ChildrenOn(i, p) = 0
    <3>1. CASE pump[p] = NoPump \/ ~Published(p)
      BY <3>1 DEF ChildrenOn
    <3>2. CASE ~(pump[p] = NoPump \/ ~Published(p))
      <4>1. pump[p].backend \in Backends
        BY <3>2 DEF RebindInv, PumpsInv
      <4>2. children[i][pump[p].backend] = NoChild
        BY <2>1, <4>1 DEF Unbound, Bound
      <4>3. ChildrenOn(i, p) = NoChild[p]
        BY <3>2, <4>2 DEF ChildrenOn
      <4> QED
        BY <4>3, TallyFacts, Zenon
    <3> QED
      BY <3>1, <3>2
  <2>3. /\ served[i][p] \in Nat
        /\ served[i][p] <= (ChildrenOn(i, p) + Telling(i, i, p)) + Telling(Loop, i, p)
    BY DEF RebindInv, RebindTypes, ServedInv
  <2>4. Telling(i, i, p) \in {0, 1} /\ Telling(Loop, i, p) \in {0, 1}
    BY DEF Telling
  <2>5. Telling(i, i, p) = 1 \/ Telling(Loop, i, p) = 1
    BY <2>2, <2>3, <2>4
  <2> QED
    BY <2>5 DEF Telling, Tells, Binders
<1> QED
  BY <1>1, RebindInvInit, RebindStepKeeps, PTL DEF RebindSpec

\* A published pump goes only when its own subscription failed, when it refused
\* an item, or on Close: the late failure of a predecessor never takes it away
\* (OnBackendFailed's check that the pump is still the published one).
THEOREM SuccessorsSurvive == RebindSpec => SuccessorSurvives
<1> DEFINE Kept(b) == pumps[b] # 0 /\ pumps'[b] # pumps[b] =>
       \/ pump[pumps[b]].state = "failed" \/ merged_closed'
       \/ \E k \in Binders : /\ binder[k].at = pumps[b]
                              /\ binder[k].answer = "refused"
                              /\ binder'[k].answer = "none"
<1>1. RebindInv /\ [RebindNext]_rebindVars => [\A b \in Backends : Kept(b)]_rebindVars
  <2> SUFFICES ASSUME RebindInv, RebindNext, NEW b \in Backends,
                      pumps[b] # 0, pumps'[b] # pumps[b]
               PROVE  \/ pump[pumps[b]].state = "failed" \/ merged_closed'
                      \/ \E k \in Binders : /\ binder[k].at = pumps[b]
                                            /\ binder[k].answer = "refused"
                                            /\ binder'[k].answer = "none"
    OBVIOUS
  <2>1. pumps \in [Backends -> Pumps \cup {0}]
    BY DEF RebindInv, RebindTypes
  <2>2. ASSUME NEW k \in Binders, BindNext(k) PROVE FALSE
    <3>1. binder[k] \in BinderType
      BY DEF RebindInv, RebindTypes
    <3>2. ASSUME NEW c \in Backends, pumps[c] = 0,
                 pumps' = [pumps EXCEPT ![c] = NewPump]
          PROVE  FALSE
      BY <2>1, <3>2
    <3>3. binder[k].routes \subseteq Backends
      BY <3>1 DEF BinderType
    <3>4. \/ UNCHANGED pumps
          \/ \E c \in binder[k].routes : pumps[c] = 0 /\ pumps' = [pumps EXCEPT ![c] = NewPump]
      BY <2>2, Zenon DEF BindNext, EnsurePump, pumpVars
    <3> QED
      BY <3>2, <3>3, <3>4
  <2>3. ASSUME NEW k \in Binders, BindDone(k)
        PROVE  /\ binder[k].at = pumps[b]
               /\ binder[k].answer = "refused"
               /\ binder'[k].answer = "none"
    <3>1. binder[k] \in BinderType
      BY DEF RebindInv, RebindTypes
    <3>2. posted # <<>> /\ posted[1] = <<"bind", k>> /\ 1 \in 1..Len(posted)
      BY <2>3, RestOfPosts, Zenon DEF BindDone, MayPop, RebindInv, RebindTypes
    <3>3. binder[k].answer # "none"
      <4>1. posted[1][1] = "bind" /\ posted[1][2] = k
        BY <3>2
      <4> QED
        BY <3>2, <4>1, Zenon DEF RebindInv, PostsInv
    <3>4. /\ binder[k].at \in Pumps /\ pump[binder[k].at] # NoPump
      BY <3>3 DEF RebindInv, BindersInv
    <3>5. pump[binder[k].at].backend \in Backends
      BY <3>4 DEF RebindInv, PumpsInv
    <3>6. PICK c \in Backends : c = pump[binder[k].at].backend
      BY <3>5
    <3>7. /\ binder[k].answer # "added" /\ Leave(k, c, FALSE)
          /\ pumps[c] = binder[k].at /\ pumps' = [pumps EXCEPT ![c] = 0]
      BY <2>3, <3>6, Zenon DEF BindDone, pumpVars
    <3>8. b = c
      BY <2>1, <3>7
    <3>9. binder'[k].answer = "none"
      BY <3>7, LeaveEffect, Zenon DEF RebindInv
    <3> QED
      BY <3>1, <3>3, <3>7, <3>8, <3>9 DEF BinderType
  <2>4. ASSUME NEW p \in Pumps, OnBackendFailed(p)
        PROVE  pump[pumps[b]].state = "failed"
    <3>1. 1 \in 1..Len(posted) /\ posted[1] = <<"failed", p>>
      BY <2>4, RestOfPosts, Zenon DEF OnBackendFailed, MayPop, RebindInv, RebindTypes
    <3>2. pump[p].state \in {"failed", "closed"}
      <4>1. posted[1][1] = "failed" /\ posted[1][2] = p
        BY <3>1
      <4> QED
        BY <3>1, <4>1, Zenon DEF RebindInv, PostsInv
    <3>3. PICK c \in Backends : c = pump[p].backend
      BY <3>2 DEF RebindInv, PumpsInv, NoPump
    <3>4. pumps[c] = p /\ pumps' = [pumps EXCEPT ![c] = 0]
      BY <2>4, <3>3, Zenon DEF OnBackendFailed, pumpVars
    <3>5. b = c /\ pumps[b] = p
      BY <2>1, <3>4
    <3>6. pump[p].state \in {"live", "failed"}
      BY <3>5 DEF RebindInv, PumpsInv
    <3> QED
      BY <3>2, <3>5, <3>6
  <2>5. CASE CloseMerged
    BY <2>5 DEF CloseMerged
  <2>6. \/ \E k \in Binders : BindNext(k) \/ BindDone(k)
        \/ \E p \in Pumps : OnBackendFailed(p)
        \/ CloseMerged
    BY Zenon DEF RebindNext, Run, AddItemReturns, ReadFails, RebindTimer, PassNext, RebindReturns,
           BackendAccepts, BackendRefuses, Answer, AddMergedItem, RemoveMergedItem,
           BackendFails, BackendRecovers, pumpVars
  <2> QED
    BY <2>2, <2>3, <2>4, <2>5, <2>6
<1> QED
  BY <1>1, RebindInvInit, RebindStepKeeps, PTL DEF RebindSpec, SuccessorSurvives
=============================================================================
