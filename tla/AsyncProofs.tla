----------------------------- MODULE AsyncProofs ----------------------------
(***************************************************************************)
(* Proofs about what waits and what runs in a process: the waiters of a    *)
(* gate and of the async cache, and the threads that execute its tasks.    *)
(***************************************************************************)
EXTENDS AsyncGates, BaseThreads, TLAPS

\* A step that names no prover is tried with these.
USE SMTT(30), ZenonT(30)

(***************************************************************************)
(* Threads.  Immediate tasks run in the order of their posts, none is      *)
(* slept over, and a Shutdown that joins the worker returns only when      *)
(* every immediate task posted before it has run, for any tasks and        *)
(* delays.  Then the guards of BaseThreads, for any number of threads and  *)
(* any depth of nesting.                                                   *)
(***************************************************************************)

\* Append adds its task to those of the queue.
LEMMA TasksOfAppend ==
  ASSUME NEW S, NEW s \in Seq(S), NEW x \in S
  PROVE  TasksOf(Append(s, x)) = TasksOf(s) \cup {x}
<1>1. /\ DOMAIN Append(s, x) = 1 .. (Len(s) + 1)
      /\ \A n \in 1 .. Len(s) : Append(s, x)[n] = s[n]
      /\ Append(s, x)[Len(s) + 1] = x
      /\ DOMAIN s = 1 .. Len(s) /\ Len(s) \in Nat
  OBVIOUS
<1>2. 1 .. (Len(s) + 1) = 1 .. Len(s) \cup {Len(s) + 1}
  BY <1>1
<1> QED
  BY <1>1, <1>2 DEF TasksOf

\* A queue holds its first task and those of its tail.
LEMMA TasksOfTail ==
  ASSUME NEW S, NEW s \in Seq(S), s # <<>>
  PROVE  TasksOf(s) \subseteq TasksOf(Tail(s)) \cup {Head(s)}
<1>1. /\ DOMAIN s = 1 .. Len(s) /\ Len(s) \in Nat \ {0} /\ Head(s) = s[1]
      /\ DOMAIN Tail(s) = 1 .. (Len(s) - 1)
      /\ \A n \in 1 .. (Len(s) - 1) : Tail(s)[n] = s[n + 1]
  OBVIOUS
<1>2. ASSUME NEW n \in 1 .. Len(s), n # 1 PROVE s[n] \in TasksOf(Tail(s))
  <2>1. n - 1 \in 1 .. (Len(s) - 1) /\ s[n] = Tail(s)[n - 1]
    BY <1>1, <1>2
  <2> QED
    BY <1>1, <2>1, Zenon DEF TasksOf
<1> QED
  BY <1>1, <1>2 DEF TasksOf

\* The worker never sleeps over a queued task: whoever fills the queue holds
\* the mutex and notifies (PostDelayedTask, GetTask).
THEOREM NoTaskIsSleptOver == Spec => []NoMissedTask
<1>1. Init => NoMissedTask
  BY DEF Init, NoMissedTask
<1>2. NoMissedTask /\ [Next]_vars => NoMissedTask'
  <2> SUFFICES ASSUME NoMissedTask, [Next]_vars PROVE NoMissedTask'
    OBVIOUS
  <2> USE DEF NoMissedTask
  <2>1. ASSUME NEW t \in Tasks, PostDelayedTask(t) PROVE NoMissedTask'
    BY <2>1 DEF PostDelayedTask, Notified
  <2>2. ASSUME Worker PROVE NoMissedTask'
    BY <2>2 DEF Worker, WorkerLoop, GetTaskTest, MoveDueTask, GetTask, WaitTimeout,
                RunTask, GetImmediateTask
  <2>3. ASSUME Stop PROVE NoMissedTask'
    BY <2>3 DEF Stop, StopTest, StopSet, StopNotify, StopJoin, Notified
  <2>4. ASSUME Tick \/ UNCHANGED vars PROVE NoMissedTask'
    BY <2>4 DEF Tick, vars
  <2> QED
    BY <2>1, <2>2, <2>3, <2>4 DEF Next
<1> QED
  BY <1>1, <1>2, PTL DEF Spec

\* What the sequences hold, and that one task is in the worker's hand while it
\* runs, and none before and after.
QueueTypes ==
  /\ task_queue_ \in Seq(Tasks) /\ ran \in Seq(Tasks) /\ posted \in Seq(Tasks)
  /\ current \subseteq Tasks /\ (pc # "run" => current = {})
  /\ \A t, u \in current : t = u
  /\ \A p \in pending_task_queue_ : p.task \in Tasks

\* The queues of the executor hold tasks only (PostTask, PostDelayedTask).
LEMMA QueuesAreTyped == Spec => []QueueTypes
<1>1. Init => QueueTypes
  BY DEF Init, QueueTypes
<1>2. QueueTypes /\ [Next]_vars => QueueTypes'
  <2> SUFFICES ASSUME QueueTypes, [Next]_vars PROVE QueueTypes'
    OBVIOUS
  <2> USE DEF QueueTypes
  <2>1. ASSUME NEW t \in Tasks, PostDelayedTask(t) PROVE QueueTypes'
    <3>1. task_queue_' \in Seq(Tasks) /\ posted' \in Seq(Tasks)
      <4>1. task_queue_' \in {task_queue_, Append(task_queue_, t)}
            /\ posted' = Append(posted, t)
        BY <2>1 DEF PostDelayedTask
      <4>2. Append(task_queue_, t) \in Seq(Tasks) /\ Append(posted, t) \in Seq(Tasks)
        OBVIOUS
      <4> QED
        BY <4>1, <4>2, Zenon
    <3>2. \A p \in pending_task_queue_' : p.task \in Tasks
      BY <2>1 DEF PostDelayedTask
    <3>3. ran' = ran /\ current' = current /\ (pc' # "run" => pc # "run")
      BY <2>1 DEF PostDelayedTask, Notified
    <3> QED
      BY <3>1, <3>2, <3>3
  <2>2. ASSUME WorkerLoop \/ GetTaskTest \/ WaitTimeout PROVE QueueTypes'
    BY <2>2 DEF WorkerLoop, GetTaskTest, WaitTimeout
  <2>3. ASSUME MoveDueTask PROVE QueueTypes'
    BY <2>3 DEF MoveDueTask, DueTop
  <2>4. ASSUME GetTask PROVE QueueTypes'
    <3>1. CASE task_queue_ = <<>>
      BY <2>4, <3>1 DEF GetTask
    <3>2. CASE task_queue_ # <<>>
      <4>1. Head(task_queue_) \in Tasks /\ Tail(task_queue_) \in Seq(Tasks)
        BY <3>2
      <4> QED
        BY <2>4, <3>2, <4>1, Zenon DEF GetTask
    <3> QED
      BY <3>1, <3>2
  <2>5. ASSUME RunTask PROVE QueueTypes'
    BY <2>5 DEF RunTask
  <2>6. ASSUME GetImmediateTask PROVE QueueTypes'
    <3>1. CASE task_queue_ = <<>>
      BY <2>6, <3>1 DEF GetImmediateTask
    <3>2. CASE task_queue_ # <<>>
      <4>1. /\ Append(ran, Head(task_queue_)) \in Seq(Tasks)
            /\ Tail(task_queue_) \in Seq(Tasks)
        BY <3>2
      <4> QED
        BY <2>6, <3>2, <4>1, Zenon DEF GetImmediateTask
    <3> QED
      BY <3>1, <3>2
  <2>7. ASSUME Stop PROVE QueueTypes'
    BY <2>7 DEF Stop, StopTest, StopSet, StopNotify, StopJoin, Notified
  <2>8. ASSUME Tick \/ UNCHANGED vars PROVE QueueTypes'
    BY <2>8 DEF Tick, vars
  <2> QED
    BY <2>1, <2>2, <2>3, <2>4, <2>5, <2>6, <2>7, <2>8, Zenon DEF Next, Worker
<1> QED
  BY <1>1, <1>2, PTL DEF Spec

Kept == TasksOf(posted) \cap Immediate \subseteq
          TasksOf(ran) \cup TasksOf(task_queue_) \cup current

\* The strengthening of JoinDrains.  No immediate task is lost on its way from
\* the queue to `ran`; what Shutdown waits for was posted; only a stop on the
\* way to its join can have stopped a worker that is not detached; the worker
\* drains only once stopped, and has drained what Shutdown waits for when it
\* ends.
DrainInv ==
  /\ Kept
  /\ before \subseteq TasksOf(posted)
  /\ stopped_ /\ ~detached => stop \in {"notify", "join", "joined"}
  /\ pc \in {"drain", "done"} => stopped_
  /\ pc = "done" /\ ~detached => before \cap Immediate \subseteq TasksOf(ran)
  /\ stop = "joined" => pc = "done" /\ ~detached

\* No immediate task gets lost between its post and its run.
LEMMA StepKeepsTasks ==
  ASSUME QueueTypes, Kept, [Next]_vars PROVE Kept'
<1> USE DEF QueueTypes, Kept
<1>1. ASSUME NEW t \in Tasks, PostDelayedTask(t) PROVE Kept'
  <2>1. TasksOf(posted') = TasksOf(posted) \cup {t}
    BY <1>1, TasksOfAppend DEF PostDelayedTask
  <2>2. TasksOf(Append(task_queue_, t)) = TasksOf(task_queue_) \cup {t}
    BY TasksOfAppend
  <2>3. /\ TasksOf(task_queue_) \subseteq TasksOf(task_queue_')
        /\ t \in Immediate => t \in TasksOf(task_queue_')
    BY <1>1, <2>2, Zenon DEF PostDelayedTask, Immediate
  <2>4. ran' = ran /\ current' = current /\ Immediate' = Immediate
    BY <1>1, Zenon DEF PostDelayedTask, Immediate
  <2> QED
    BY <2>1, <2>2, <2>3, <2>4
<1>2. ASSUME MoveDueTask PROVE Kept'
  <2>1. TasksOf(task_queue_) \subseteq TasksOf(task_queue_')
    BY <1>2, TasksOfAppend DEF MoveDueTask, DueTop
  <2> QED
    BY <1>2, <2>1, Zenon DEF MoveDueTask, Immediate
<1>3. ASSUME GetTask PROVE Kept'
  <2>1. CASE task_queue_ = <<>>
    BY <1>3, <2>1 DEF GetTask, Immediate
  <2>2. CASE task_queue_ # <<>>
    <3>1. TasksOf(task_queue_) \subseteq TasksOf(Tail(task_queue_)) \cup {Head(task_queue_)}
      BY <2>2, TasksOfTail
    <3>2. current = {}
      BY <1>3 DEF GetTask
    <3> QED
      BY <1>3, <2>2, <3>1, <3>2, Zenon DEF GetTask, Immediate
  <2> QED
    BY <2>1, <2>2
<1>4. ASSUME RunTask PROVE Kept'
  <2>1. PICK t \in current : ran' = Append(ran, t)
    BY <1>4 DEF RunTask
  <2>2. TasksOf(ran') = TasksOf(ran) \cup {t}
    BY <2>1, TasksOfAppend
  <2> QED
    BY <1>4, <2>1, <2>2, Zenon DEF RunTask, Immediate
<1>5. ASSUME GetImmediateTask PROVE Kept'
  <2>1. CASE task_queue_ = <<>>
    BY <1>5, <2>1 DEF GetImmediateTask, Immediate
  <2>2. CASE task_queue_ # <<>>
    <3>1. TasksOf(task_queue_) \subseteq TasksOf(Tail(task_queue_)) \cup {Head(task_queue_)}
      BY <2>2, TasksOfTail
    <3>2. TasksOf(Append(ran, Head(task_queue_))) = TasksOf(ran) \cup {Head(task_queue_)}
      <4>1. Head(task_queue_) \in Tasks
        BY <2>2
      <4> QED
        BY <4>1, TasksOfAppend
    <3> QED
      BY <1>5, <2>2, <3>1, <3>2, Zenon DEF GetImmediateTask, Immediate
  <2> QED
    BY <2>1, <2>2
<1>6. ASSUME WorkerLoop \/ GetTaskTest \/ WaitTimeout PROVE Kept'
  BY <1>6, Zenon DEF WorkerLoop, GetTaskTest, WaitTimeout, Immediate
<1>7. ASSUME Stop PROVE Kept'
  BY <1>7, Zenon DEF Stop, StopTest, StopSet, StopNotify, StopJoin, Immediate
<1>8. ASSUME Tick \/ UNCHANGED vars PROVE Kept'
  BY <1>8, Zenon DEF Tick, vars, Immediate
<1> QED
  BY <1>1, <1>2, <1>3, <1>4, <1>5, <1>6, <1>7, <1>8, Zenon DEF Next, Worker

\* Every step of the executor keeps what the drain at shutdown relies on.
LEMMA StepKeepsDrainInv ==
  ASSUME QueueTypes, DrainInv, [Next]_vars PROVE DrainInv'
<1>1. Kept'
  BY StepKeepsTasks DEF DrainInv
<1>2. Immediate' = Immediate
  BY DEF Immediate
<1> USE DEF DrainInv
<1>3. ASSUME NEW t \in Tasks, PostDelayedTask(t) PROVE DrainInv'
  <2>1. TasksOf(posted') = TasksOf(posted) \cup {t}
    BY <1>3, TasksOfAppend DEF PostDelayedTask, QueueTypes
  <2>2. /\ UNCHANGED <<stopped_, ran, stop, detached, before>>
        /\ \A x \in {"drain", "done"} : pc' = x <=> pc = x
    BY <1>3 DEF PostDelayedTask, Notified
  <2> QED
    BY <1>1, <1>2, <2>1, <2>2
<1>4. ASSUME WorkerLoop \/ GetTaskTest \/ WaitTimeout \/ MoveDueTask \/ GetTask
      PROVE  DrainInv'
  BY <1>1, <1>2, <1>4
     DEF WorkerLoop, GetTaskTest, WaitTimeout, MoveDueTask, GetTask
<1>5. ASSUME RunTask PROVE DrainInv'
  BY <1>1, <1>2, <1>5 DEF RunTask
<1>6. ASSUME GetImmediateTask PROVE DrainInv'
  <2>1. CASE task_queue_ = <<>>
    <3>1. TasksOf(task_queue_) = {} /\ current = {}
      BY <1>6, <2>1 DEF GetImmediateTask, QueueTypes, TasksOf
    <3>2. before \cap Immediate \subseteq TasksOf(ran)
      BY <3>1 DEF Kept
    <3> QED
      BY <1>1, <1>2, <1>6, <2>1, <3>2 DEF GetImmediateTask
  <2>2. CASE task_queue_ # <<>>
    BY <1>1, <1>2, <1>6, <2>2 DEF GetImmediateTask
  <2> QED
    BY <2>1, <2>2
<1>7. ASSUME StopTest PROVE DrainInv'
  BY <1>1, <1>2, <1>7 DEF StopTest
<1>8. ASSUME StopSet \/ StopNotify PROVE DrainInv'
  BY <1>1, <1>2, <1>8 DEF StopSet, StopNotify, Notified
<1>9. ASSUME StopJoin PROVE DrainInv'
  BY <1>1, <1>2, <1>9 DEF StopJoin
<1>10. ASSUME Tick \/ UNCHANGED vars PROVE DrainInv'
  BY <1>1, <1>2, <1>10 DEF Tick, vars
<1> QED
  BY <1>3, <1>4, <1>5, <1>6, <1>7, <1>8, <1>9, <1>10, Zenon DEF Next, Worker, Stop

\* A Shutdown that joined the worker returns with every immediate task run that
\* was posted before the call, whatever is posted meanwhile (Start's second
\* loop, GetImmediateTask).
THEOREM ShutdownDrains == Spec => []JoinDrains
<1>1. Init => DrainInv
  BY DEF Init, DrainInv, Kept, TasksOf
<1>2. QueueTypes /\ DrainInv /\ [Next]_vars => DrainInv'
  BY StepKeepsDrainInv
<1>3. DrainInv => JoinDrains
  BY DEF DrainInv, JoinDrains
<1> QED
  BY <1>1, <1>2, <1>3, QueuesAreTyped, PTL DEF Spec

-----------------------------------------------------------------------------
(* The order of immediate tasks.                                           *)

\* Task x was posted before task y, s being the posts.
PostedBefore(s, x, y) ==
  \E p, q \in DOMAIN s : p < q /\ s[p] = x /\ s[q] = y

\* x may come before y on its way from the queue to `ran`.
InOrder(s, x, y) == x \in Immediate /\ y \in Immediate => PostedBefore(s, x, y)

\* The strengthening of RunsInOrder: a task is posted once; what is queued, in
\* the worker's hand or done was posted; no delayed task counts as immediate;
\* and what ran, then the task in hand, then the queue are in the order of the
\* posts.
OrderInv ==
  /\ \A p, q \in DOMAIN posted : posted[p] = posted[q] => p = q
  /\ TasksOf(ran) \cup current \cup TasksOf(task_queue_) \subseteq TasksOf(posted)
  /\ \A p \in pending_task_queue_ :
       p.task \notin Immediate /\ p.task \in TasksOf(posted)
  /\ \A i, j \in DOMAIN ran : i < j => InOrder(posted, ran[i], ran[j])
  /\ \A i \in DOMAIN ran, t \in current : InOrder(posted, ran[i], t)
  /\ \A i \in DOMAIN ran, k \in DOMAIN task_queue_ : InOrder(posted, ran[i], task_queue_[k])
  /\ \A t \in current, k \in DOMAIN task_queue_ : InOrder(posted, t, task_queue_[k])
  /\ \A k, l \in DOMAIN task_queue_ : k < l => InOrder(posted, task_queue_[k], task_queue_[l])

\* What Append and Tail do to the elements of a sequence.
LEMMA AppendElements ==
  ASSUME NEW S, NEW s \in Seq(S), NEW x \in S
  PROVE  /\ Append(s, x) \in Seq(S) /\ Len(s) \in Nat /\ Len(Append(s, x)) = Len(s) + 1
         /\ DOMAIN s = 1 .. Len(s) /\ DOMAIN Append(s, x) = 1 .. (Len(s) + 1)
         /\ \A i \in DOMAIN s : Append(s, x)[i] = s[i]
         /\ Append(s, x)[Len(s) + 1] = x
OBVIOUS

\* The elements of a list behind its head.
LEMMA TailElements ==
  ASSUME NEW S, NEW s \in Seq(S), s # <<>>
  PROVE  /\ Tail(s) \in Seq(S) /\ Len(s) \in Nat \ {0} /\ Head(s) = s[1]
         /\ 1 \in DOMAIN s
         /\ DOMAIN s = 1 .. Len(s) /\ DOMAIN Tail(s) = 1 .. (Len(s) - 1)
         /\ \A i \in DOMAIN Tail(s) : Tail(s)[i] = s[i + 1] /\ i + 1 \in DOMAIN s
OBVIOUS

\* A post adds its task behind all others.
LEMMA PostGrows ==
  ASSUME QueueTypes, NEW t \in Tasks, posted' = Append(posted, t)
  PROVE  /\ \A x, y : PostedBefore(posted, x, y) => PostedBefore(posted', x, y)
         /\ \A x \in TasksOf(posted) : PostedBefore(posted', x, t)
         /\ TasksOf(posted') = TasksOf(posted) \cup {t}
<1>1. /\ DOMAIN posted = 1 .. Len(posted) /\ DOMAIN posted' = 1 .. (Len(posted) + 1)
      /\ \A i \in DOMAIN posted : posted'[i] = posted[i]
      /\ posted'[Len(posted) + 1] = t /\ Len(posted) \in Nat
  BY AppendElements DEF QueueTypes
<1>2. TasksOf(posted') = TasksOf(posted) \cup {t}
  BY TasksOfAppend DEF QueueTypes
<1>3. ASSUME NEW x, NEW y, PostedBefore(posted, x, y) PROVE PostedBefore(posted', x, y)
  <2>1. PICK p, q \in DOMAIN posted : p < q /\ posted[p] = x /\ posted[q] = y
    BY <1>3 DEF PostedBefore
  <2>2. p \in DOMAIN posted' /\ q \in DOMAIN posted' /\ posted'[p] = x /\ posted'[q] = y
    BY <1>1, <2>1
  <2> QED
    BY <2>1, <2>2 DEF PostedBefore
<1>4. ASSUME NEW x \in TasksOf(posted) PROVE PostedBefore(posted', x, t)
  <2>1. PICK p \in DOMAIN posted : posted[p] = x
    BY <1>4 DEF TasksOf
  <2>2. /\ p \in DOMAIN posted' /\ Len(posted) + 1 \in DOMAIN posted'
        /\ p < Len(posted) + 1 /\ posted'[p] = x
    BY <1>1, <2>1
  <2> QED
    BY <1>1, <2>2 DEF PostedBefore
<1> QED
  BY <1>2, <1>3, <1>4

\* No step changes the order in which immediate tasks leave the queue.
LEMMA StepKeepsOrder ==
  ASSUME QueueTypes, OrderInv, [Next]_vars PROVE OrderInv'
<1>1. Immediate' = Immediate
  BY DEF Immediate
<1>2. ASSUME NEW t \in Tasks, PostDelayedTask(t) PROVE OrderInv'
  <2>1. /\ posted' = Append(posted, t) /\ t \notin TasksOf(posted)
        /\ ran' = ran /\ current' = current
    BY <1>2, Zenon DEF PostDelayedTask
  <2>2. /\ \A x, y : InOrder(posted, x, y) => InOrder(posted', x, y)
        /\ \A x \in TasksOf(posted) : InOrder(posted', x, t)
        /\ TasksOf(posted') = TasksOf(posted) \cup {t}
    BY <1>1, <2>1, PostGrows DEF InOrder
  <2>3. \A p, q \in DOMAIN posted' : posted'[p] = posted'[q] => p = q
    <3>1. /\ DOMAIN posted' = 1 .. (Len(posted) + 1) /\ DOMAIN posted = 1 .. Len(posted)
          /\ \A i \in DOMAIN posted : posted'[i] = posted[i] /\ posted[i] # t
          /\ posted'[Len(posted) + 1] = t /\ Len(posted) \in Nat
      BY <2>1, AppendElements DEF QueueTypes, TasksOf
    <3> QED
      BY <3>1 DEF OrderInv
  <2>4. CASE Delay[t] = 0
    <3>1. /\ task_queue_' = Append(task_queue_, t)
          /\ pending_task_queue_' = pending_task_queue_
      BY <1>2, <2>4, Zenon DEF PostDelayedTask
    <3>2. /\ DOMAIN task_queue_ = 1 .. Len(task_queue_) /\ Len(task_queue_) \in Nat
          /\ DOMAIN task_queue_' = 1 .. (Len(task_queue_) + 1)
          /\ \A i \in DOMAIN task_queue_ : task_queue_'[i] = task_queue_[i]
          /\ task_queue_'[Len(task_queue_) + 1] = t
      BY <3>1, AppendElements DEF QueueTypes
    <3>3. TasksOf(task_queue_') = TasksOf(task_queue_) \cup {t}
      BY <3>1, TasksOfAppend DEF QueueTypes
    <3>4. \A k \in DOMAIN task_queue_' :
            \/ k = Len(task_queue_) + 1 /\ task_queue_'[k] = t
            \/ k \in DOMAIN task_queue_ /\ task_queue_'[k] = task_queue_[k]
      BY <3>2
    <3>5. /\ \A i \in DOMAIN ran : ran[i] \in TasksOf(posted)
          /\ \A k \in DOMAIN task_queue_ : task_queue_[k] \in TasksOf(posted)
          /\ \A u \in current : u \in TasksOf(posted)
      BY Zenon DEF OrderInv, TasksOf
    <3>6. \A k, l \in DOMAIN task_queue_' :
            k < l => InOrder(posted', task_queue_'[k], task_queue_'[l])
      <4> SUFFICES ASSUME NEW k \in DOMAIN task_queue_', NEW l \in DOMAIN task_queue_', k < l
                   PROVE  InOrder(posted', task_queue_'[k], task_queue_'[l])
        OBVIOUS
      <4>1. k \in DOMAIN task_queue_ /\ task_queue_'[k] = task_queue_[k]
        BY <3>2
      <4>2. CASE l = Len(task_queue_) + 1
        BY <2>2, <3>2, <3>5, <4>1, <4>2, Zenon
      <4>3. CASE l \in DOMAIN task_queue_
        BY <2>2, <3>2, <4>1, <4>3, Zenon DEF OrderInv
      <4> QED
        BY <3>4, <4>2, <4>3
    <3>7. /\ \A i \in DOMAIN ran, k \in DOMAIN task_queue_' : InOrder(posted', ran[i], task_queue_'[k])
          /\ \A u \in current, k \in DOMAIN task_queue_' : InOrder(posted', u, task_queue_'[k])
      BY <2>2, <3>4, <3>5 DEF OrderInv
    <3> QED
      BY <1>1, <2>1, <2>2, <2>3, <3>1, <3>3, <3>6, <3>7, Zenon DEF OrderInv
  <2>5. CASE Delay[t] # 0
    <3>1. /\ task_queue_' = task_queue_
          /\ \A p \in pending_task_queue_' : p \in pending_task_queue_ \/ p.task = t
      BY <1>2, <2>5 DEF PostDelayedTask
    <3>2. t \notin Immediate
      BY <2>5 DEF Immediate
    <3> QED
      BY <1>1, <2>1, <2>2, <2>3, <3>1, <3>2, Zenon DEF OrderInv
  <2> QED
    BY <2>4, <2>5
<1>3. ASSUME posted' = posted PROVE \A x, y : InOrder(posted', x, y) <=> InOrder(posted, x, y)
  BY <1>1, <1>3 DEF InOrder, PostedBefore
<1>4. ASSUME MoveDueTask PROVE OrderInv'
  <2>1. PICK p \in pending_task_queue_ :
          /\ task_queue_' = Append(task_queue_, p.task)
          /\ pending_task_queue_' = pending_task_queue_ \ {p}
    BY <1>4 DEF MoveDueTask, DueTop
  <2>2. p.task \in Tasks /\ p.task \notin Immediate /\ p.task \in TasksOf(posted)
    BY Zenon DEF QueueTypes, OrderInv
  <2>3. /\ DOMAIN task_queue_ = 1 .. Len(task_queue_) /\ Len(task_queue_) \in Nat
        /\ DOMAIN task_queue_' = 1 .. (Len(task_queue_) + 1)
        /\ \A i \in DOMAIN task_queue_ : task_queue_'[i] = task_queue_[i]
        /\ task_queue_'[Len(task_queue_) + 1] = p.task
    <3>1. task_queue_ \in Seq(Tasks)
      BY Zenon DEF QueueTypes
    <3> QED
      BY ONLY <2>1, <2>2, <3>1, AppendElements
  <2>4. TasksOf(task_queue_') = TasksOf(task_queue_) \cup {p.task}
    BY <2>1, <2>2, TasksOfAppend DEF QueueTypes
  <2>5. \A k \in DOMAIN task_queue_' :
          \/ k = Len(task_queue_) + 1 /\ task_queue_'[k] = p.task
          \/ k \in DOMAIN task_queue_ /\ task_queue_'[k] = task_queue_[k]
    BY <2>3
  <2>6. UNCHANGED <<posted, ran, current>>
    BY <1>4 DEF MoveDueTask
  <2>7. \A x : InOrder(posted, x, p.task) /\ InOrder(posted, p.task, x)
    BY <2>2 DEF InOrder
  <2>8. \A k, l \in DOMAIN task_queue_' : k < l => InOrder(posted, task_queue_'[k], task_queue_'[l])
    BY <2>5, <2>7, Zenon DEF OrderInv
  <2>9. /\ \A i \in DOMAIN ran, k \in DOMAIN task_queue_' : InOrder(posted, ran[i], task_queue_'[k])
        /\ \A u \in current, k \in DOMAIN task_queue_' : InOrder(posted, u, task_queue_'[k])
    BY <2>5, <2>7, Zenon DEF OrderInv
  <2> QED
    BY <1>1, <1>3, <2>1, <2>2, <2>4, <2>6, <2>8, <2>9, Zenon DEF OrderInv
<1>5. ASSUME GetTask, task_queue_ # <<>> PROVE OrderInv'
  <2>1. /\ task_queue_' = Tail(task_queue_) /\ current' = {Head(task_queue_)}
        /\ UNCHANGED <<posted, ran, pending_task_queue_>>
    BY <1>5 DEF GetTask
  <2>2. /\ DOMAIN task_queue_' = 1 .. (Len(task_queue_) - 1) /\ Len(task_queue_) \in Nat
        /\ Head(task_queue_) = task_queue_[1] /\ 1 \in DOMAIN task_queue_
        /\ \A i \in DOMAIN task_queue_' :
             task_queue_'[i] = task_queue_[i + 1] /\ i + 1 \in DOMAIN task_queue_
    BY <1>5, <2>1, TailElements DEF QueueTypes
  <2>3. TasksOf(task_queue_') \cup current' \subseteq TasksOf(task_queue_)
    BY <2>1, <2>2 DEF TasksOf
  <2>4. /\ \A k, l \in DOMAIN task_queue_' : k < l => InOrder(posted, task_queue_'[k], task_queue_'[l])
        /\ \A i \in DOMAIN ran, k \in DOMAIN task_queue_' : InOrder(posted, ran[i], task_queue_'[k])
        /\ \A u \in current', k \in DOMAIN task_queue_' : InOrder(posted, u, task_queue_'[k])
        /\ \A i \in DOMAIN ran, u \in current' : InOrder(posted, ran[i], u)
    BY <2>1, <2>2 DEF OrderInv
  <2> QED
    BY <1>1, <1>3, <2>1, <2>3, <2>4, Zenon DEF OrderInv
<1>6. ASSUME NEW t \in Tasks, ran' = Append(ran, t), UNCHANGED <<posted, pending_task_queue_>>,
             current' = {}, t \in TasksOf(posted),
             TasksOf(task_queue_') \subseteq TasksOf(task_queue_),
             \A i \in DOMAIN ran : InOrder(posted, ran[i], t),
             \A k \in DOMAIN task_queue_' : InOrder(posted, t, task_queue_'[k]),
             \A i \in DOMAIN ran, k \in DOMAIN task_queue_' : InOrder(posted, ran[i], task_queue_'[k]),
             \A k, l \in DOMAIN task_queue_' : k < l => InOrder(posted, task_queue_'[k], task_queue_'[l])
      PROVE  OrderInv'
  <2>1. /\ DOMAIN ran = 1 .. Len(ran) /\ Len(ran) \in Nat
        /\ DOMAIN ran' = 1 .. (Len(ran) + 1)
        /\ \A i \in DOMAIN ran : ran'[i] = ran[i]
        /\ ran'[Len(ran) + 1] = t
    <3>1. ran \in Seq(Tasks)
      BY Zenon DEF QueueTypes
    <3> QED
      BY ONLY <1>6, <3>1, AppendElements
  <2>2. TasksOf(ran') = TasksOf(ran) \cup {t}
    BY <1>6, TasksOfAppend DEF QueueTypes
  <2>3. \A i \in DOMAIN ran' :
          \/ i = Len(ran) + 1 /\ ran'[i] = t
          \/ i \in DOMAIN ran /\ ran'[i] = ran[i]
    BY <2>1
  <2>4. \A i, j \in DOMAIN ran' : i < j => InOrder(posted, ran'[i], ran'[j])
    <3> SUFFICES ASSUME NEW i \in DOMAIN ran', NEW j \in DOMAIN ran', i < j
                 PROVE  InOrder(posted, ran'[i], ran'[j])
      OBVIOUS
    <3>1. i \in DOMAIN ran /\ ran'[i] = ran[i]
      BY <2>1
    <3> QED
      BY <1>6, <2>3, <3>1, Zenon DEF OrderInv
  <2>5. \A i \in DOMAIN ran', k \in DOMAIN task_queue_' : InOrder(posted, ran'[i], task_queue_'[k])
    BY <1>6, <2>3, Zenon
  <2> QED
    BY <1>1, <1>3, <1>6, <2>2, <2>4, <2>5, Zenon DEF OrderInv
<1>7. ASSUME RunTask PROVE OrderInv'
  <2>1. PICK t \in current : ran' = Append(ran, t)
    BY <1>7 DEF RunTask
  <2>2. UNCHANGED <<posted, task_queue_, pending_task_queue_>> /\ current' = {}
    BY <1>7 DEF RunTask
  <2>3. t \in Tasks /\ t \in TasksOf(posted)
    BY Zenon DEF QueueTypes, OrderInv
  <2>4. /\ \A i \in DOMAIN ran : InOrder(posted, ran[i], t)
        /\ \A k \in DOMAIN task_queue_' : InOrder(posted, t, task_queue_'[k])
        /\ \A i \in DOMAIN ran, k \in DOMAIN task_queue_' : InOrder(posted, ran[i], task_queue_'[k])
        /\ \A k, l \in DOMAIN task_queue_' : k < l => InOrder(posted, task_queue_'[k], task_queue_'[l])
    BY <2>2, Zenon DEF OrderInv
  <2> QED
    BY <1>6, <2>1, <2>2, <2>3, <2>4, Zenon
<1>8. ASSUME GetImmediateTask, task_queue_ # <<>> PROVE OrderInv'
  <2>1. /\ ran' = Append(ran, task_queue_[1]) /\ task_queue_' = Tail(task_queue_)
        /\ UNCHANGED <<posted, pending_task_queue_>> /\ current' = {}
    <3>1. Head(task_queue_) = task_queue_[1]
      BY <1>8, TailElements DEF QueueTypes
    <3> QED
      BY <1>8, <3>1, Zenon DEF GetImmediateTask, QueueTypes
  <2>2. /\ DOMAIN task_queue_' = 1 .. (Len(task_queue_) - 1) /\ Len(task_queue_) \in Nat
        /\ 1 \in DOMAIN task_queue_
        /\ \A i \in DOMAIN task_queue_' :
             task_queue_'[i] = task_queue_[i + 1] /\ i + 1 \in DOMAIN task_queue_
    BY <1>8, <2>1, TailElements DEF QueueTypes
  <2>3. /\ TasksOf(task_queue_') \subseteq TasksOf(task_queue_)
        /\ task_queue_[1] \in Tasks /\ task_queue_[1] \in TasksOf(posted)
    <3>1. TasksOf(task_queue_') \subseteq TasksOf(task_queue_)
      BY <2>2, Zenon DEF TasksOf
    <3>2. task_queue_[1] \in TasksOf(task_queue_)
      BY <2>2, Zenon DEF TasksOf
    <3>3. task_queue_[1] \in Tasks
      BY <2>2 DEF QueueTypes
    <3> QED
      BY <3>1, <3>2, <3>3, Zenon DEF OrderInv
  <2>4. /\ \A i \in DOMAIN ran : InOrder(posted, ran[i], task_queue_[1])
        /\ \A k \in DOMAIN task_queue_' : InOrder(posted, task_queue_[1], task_queue_'[k])
        /\ \A i \in DOMAIN ran, k \in DOMAIN task_queue_' : InOrder(posted, ran[i], task_queue_'[k])
        /\ \A k, l \in DOMAIN task_queue_' : k < l => InOrder(posted, task_queue_'[k], task_queue_'[l])
    BY <2>2 DEF OrderInv
  <2> QED
    BY <1>6, <2>1, <2>3, <2>4, Zenon
<1>9. ASSUME UNCHANGED <<posted, ran, current, task_queue_, pending_task_queue_>>
      PROVE  OrderInv'
  BY <1>1, <1>3, <1>9, Zenon DEF OrderInv
<1>10. CASE WorkerLoop \/ GetTaskTest \/ WaitTimeout \/ Stop \/ Tick \/ UNCHANGED vars
  BY <1>9, <1>10, Zenon DEF WorkerLoop, GetTaskTest, WaitTimeout, Stop, StopTest, StopSet,
     StopNotify, StopJoin, Tick, vars
<1>11. CASE (GetTask \/ GetImmediateTask) /\ task_queue_ = <<>>
  BY <1>9, <1>11, Zenon DEF GetTask, GetImmediateTask
<1> QED
  BY <1>2, <1>4, <1>5, <1>7, <1>8, <1>10, <1>11 DEF Next, Worker

\* What the order of the posts and the tasks kept say together.
LEMMA OrderSuffices ==
  ASSUME QueueTypes, Kept, OrderInv PROVE RunsInOrder
<1> SUFFICES ASSUME NEW j \in DOMAIN ran, ran[j] \in Immediate
             PROVE  \E q \in DOMAIN posted :
                      /\ posted[q] = ran[j]
                      /\ \A p \in 1 .. q - 1 : posted[p] \in Immediate =>
                           \E i \in 1 .. j - 1 : ran[i] = posted[p]
                      /\ \A i \in 1 .. j - 1 : ran[i] \in Immediate =>
                           \E p \in 1 .. q - 1 : posted[p] = ran[i]
  BY DEF RunsInOrder
<1>1. PICK q \in DOMAIN posted : posted[q] = ran[j]
  BY DEF OrderInv, TasksOf
<1>2. /\ DOMAIN posted = 1 .. Len(posted) /\ Len(posted) \in Nat
      /\ DOMAIN ran = 1 .. Len(ran) /\ Len(ran) \in Nat
  BY DEF QueueTypes
<1>3. ASSUME NEW p \in 1 .. q - 1, posted[p] \in Immediate
      PROVE  \E i \in 1 .. j - 1 : ran[i] = posted[p]
  <2>1. p \in DOMAIN posted /\ p < q
    BY <1>2
  <2>2. posted[p] \in TasksOf(ran) \cup TasksOf(task_queue_) \cup current
    BY <1>3, <2>1 DEF Kept, TasksOf
  <2>3. ~PostedBefore(posted, ran[j], posted[p])
    <3> SUFFICES ASSUME NEW u \in DOMAIN posted, NEW v \in DOMAIN posted, u < v,
                        posted[u] = ran[j], posted[v] = posted[p]
                 PROVE  FALSE
      BY DEF PostedBefore
    <3>1. u = q /\ v = p
      BY <1>1, <2>1 DEF OrderInv
    <3> QED
      BY <1>2, <2>1, <3>1
  <2>4. posted[p] \notin TasksOf(task_queue_) \cup current
    BY <1>3, <2>3 DEF OrderInv, InOrder, TasksOf
  <2>5. PICK i \in DOMAIN ran : ran[i] = posted[p]
    BY <2>2, <2>4 DEF TasksOf
  <2>6. ~(j < i)
    BY <1>3, <2>3, <2>5 DEF OrderInv, InOrder
  <2>7. i # j
    BY <1>1, <1>2, <2>1, <2>5 DEF OrderInv
  <2>8. i \in 1 .. j - 1
    BY <1>2, <2>6, <2>7
  <2> QED
    BY <2>5, <2>8
<1>4. ASSUME NEW i \in 1 .. j - 1, ran[i] \in Immediate
      PROVE  \E p \in 1 .. q - 1 : posted[p] = ran[i]
  <2>1. i \in DOMAIN ran /\ i < j
    BY <1>2
  <2>2. PostedBefore(posted, ran[i], ran[j])
    BY <1>4, <2>1 DEF OrderInv, InOrder
  <2>3. PICK u, v \in DOMAIN posted : u < v /\ posted[u] = ran[i] /\ posted[v] = ran[j]
    BY <2>2 DEF PostedBefore
  <2>4. v = q
    BY <1>1, <2>3 DEF OrderInv
  <2>5. u \in 1 .. q - 1
    BY <1>2, <2>3, <2>4
  <2> QED
    BY <2>3, <2>5
<1> QED
  BY <1>1, <1>3, <1>4, Zenon

\* The executor runs immediate tasks in the order of their posts, sleeps over
\* none and drains them before a joining Shutdown returns, however posts, the
\* worker and shutdowns interleave (PostDelayedTask, GetTask, Stop).
THEOREM TasksStaySound == Spec => []TasksAreSound
<1>1. Init => OrderInv /\ DrainInv
  BY DEF Init, OrderInv, DrainInv, Kept, TasksOf, Immediate
<1>2. QueueTypes /\ OrderInv /\ [Next]_vars => OrderInv'
  BY StepKeepsOrder
<1>3. QueueTypes /\ DrainInv /\ [Next]_vars => DrainInv'
  BY StepKeepsDrainInv
<1>4. QueueTypes /\ DrainInv /\ OrderInv => RunsInOrder
  BY OrderSuffices DEF DrainInv
<1> QED
  BY <1>1, <1>2, <1>3, <1>4, QueuesAreTyped, NoTaskIsSleptOver, ShutdownDrains, PTL
     DEF Spec, TasksAreSound

-----------------------------------------------------------------------------
(***************************************************************************)
(* The guards.  The inductive invariant says what the atomics stand for:   *)
(* only the bound thread has been let pass, and the owner, if there is     *)
(* one, is the only thread inside, as deep as depth_ counts.               *)
(***************************************************************************)

GuardTypes ==
  /\ thread_id_ \in GuardThreads \cup {NoThread}
  /\ owner_ \in GuardThreads \cup {NoThread}
  /\ rebinding \subseteq GuardThreads
  /\ recursive \in BOOLEAN
  /\ depth_ \in Nat
  /\ inside \in [GuardThreads -> Nat]

OnlyBoundPassed == \A t \in validated : t \in GuardThreads /\ t = thread_id_

OnlyOwnerInside ==
  /\ \A t \in GuardThreads : inside[t] > 0 <=> t = owner_
  /\ ~recursive => \A t \in GuardThreads : inside[t] <= 1
  /\ recursive => \A t \in GuardThreads : t = owner_ => depth_ = inside[t]
  /\ recursive /\ owner_ = NoThread => depth_ = 0

GuardInv == GuardTypes /\ OnlyBoundPassed /\ OnlyOwnerInside

\* A new checker is bound to its thread and nobody is in a section.
LEMMA GuardInvInit == TgInit => GuardInv
BY GuardsAssumption
DEF TgInit, GuardInv, GuardTypes, OnlyBoundPassed, OnlyOwnerInside

\* Every step of the checker and of the warner keeps the invariant.
LEMMA GuardInvStep == GuardInv /\ [TgNext]_tgvars => GuardInv'
<1> SUFFICES ASSUME GuardInv, [TgNext]_tgvars
             PROVE  GuardInv'
  OBVIOUS
<1> USE GuardsAssumption
    DEF GuardInv, GuardTypes, OnlyBoundPassed, OnlyOwnerInside, checkerVars,
        warnerVars
<1>1. CASE DetachFromThread
  BY <1>1 DEF DetachFromThread
<1>2. ASSUME NEW t \in GuardThreads, CalledOnValidThread(t)
      PROVE  GuardInv'
  BY <1>2 DEF CalledOnValidThread, CheckCalledOnValidThread
<1>3. ASSUME NEW t \in GuardThreads, Rebind(t)
      PROVE  GuardInv'
  BY <1>3 DEF Rebind, CheckCalledOnValidThread
<1>4. ASSUME NEW t \in GuardThreads, EnterSelf(t)
      PROVE  GuardInv'
  BY <1>4 DEF EnterSelf, MayEnter
<1>5. ASSUME NEW t \in GuardThreads, LeaveSelf(t)
      PROVE  GuardInv'
  BY <1>5 DEF LeaveSelf
<1>6. ASSUME NEW t \in GuardThreads, EnterSelfRecursive(t)
      PROVE  GuardInv'
  BY <1>6 DEF EnterSelfRecursive, MayEnter
<1>7. ASSUME NEW t \in GuardThreads, LeaveSelfRecursive(t)
      PROVE  GuardInv'
  BY <1>7 DEF LeaveSelfRecursive
<1>8. CASE UNCHANGED tgvars
  BY <1>8 DEF tgvars
<1> QED
  BY <1>1, <1>2, <1>3, <1>4, <1>5, <1>6, <1>7, <1>8, Zenon DEF TgNext

\* The invariant implies what the guards promise.
LEMMA GuardInvSuffices == GuardInv => OneThreadPasses /\ CollisionIsCaught
<1> SUFFICES ASSUME GuardInv
             PROVE  OneThreadPasses /\ CollisionIsCaught
  OBVIOUS
<1>1. OneThreadPasses
  BY DEF GuardInv, OnlyBoundPassed, OneThreadPasses
<1>2. \A t, u \in GuardThreads : inside[t] > 0 /\ inside[u] > 0 => t = u
  BY DEF GuardInv, GuardTypes, OnlyOwnerInside
<1>3. owner_ # NoThread => inside[owner_] > 0
  BY DEF GuardInv, GuardTypes, OnlyOwnerInside
<1> QED
  BY <1>1, <1>2, <1>3 DEF CollisionIsCaught

\* However many threads find an object unbound at once, or meet at a section,
\* one of them passes and the warner forgets nobody who is inside
\* (thread_checker.h, thread_collision_warner.h).
THEOREM GuardsHold == TgSpec => [](OneThreadPasses /\ CollisionIsCaught)
BY GuardInvInit, GuardInvStep, GuardInvSuffices, PTL DEF TgSpec

\* Both parts of ThreadsAreSound: the executor's tasks and the guards.
THEOREM ThreadsStaySound == Spec /\ TgSpec => []ThreadsAreSound
BY TasksStaySound, GuardsHold, PTL DEF ThreadsAreSound

-----------------------------------------------------------------------------
(***************************************************************************)
(* Gates.  A wait at a gate ends once and a key is fetched once, for any   *)
(* number of coroutines and keys.  GateWaitEndsOnce alone is not           *)
(* inductive: what makes it hold is that a waiter is in the list, or has   *)
(* one completion posted, or neither, and that the flag claimed tells      *)
(* which (ListedOnce, PostedOnce, ArmedIsListed).                          *)
(***************************************************************************)

Outcomes == {"done", "error", "cancelled", "value"}
Task == [waiter : GateWaiters \cup CacheWaiters, outcome : Outcomes]
Entry == [value : BOOLEAN, in_progress : BOOLEAN, waiters : Seq(CacheWaiters)]

GatesTypes ==
  /\ completed \in {"open", "done", "error"}
  /\ waiters \in Seq(GateWaiters)
  /\ claimed \subseteq GateWaiters /\ armed \subseteq GateWaiters
  /\ gate \in [GateWaiters -> {"idle", "waiting", "done", "error", "cancelled"}]
  /\ entries \in [Keys -> Entry]
  /\ fetching \in [Keys -> Nat] /\ fetches \in [Keys -> Nat]
  /\ tasks \in Seq(Task)

\* Who is in the list waits, is not taken, and is there once.
ListedOnce ==
  /\ \A i \in 1 .. Len(waiters) :
       gate[waiters[i]] = "waiting" /\ waiters[i] \notin claimed
  /\ \A i, j \in 1 .. Len(waiters) : waiters[i] = waiters[j] => i = j

\* A posted completion is the only one of its waiter, who still waits for it
\* and is not in the list; it carries the outcome of the gate or a cancellation.
PostedOnce ==
  \A i \in 1 .. Len(tasks) :
    tasks[i].waiter \in GateWaiters =>
      /\ gate[tasks[i].waiter] = "waiting"
      /\ \/ tasks[i].outcome = "cancelled"
         \/ completed # "open" /\ tasks[i].outcome = completed
      /\ \A j \in 1 .. Len(tasks) : tasks[i].waiter = tasks[j].waiter => i = j
      /\ \A j \in 1 .. Len(waiters) : waiters[j] # tasks[i].waiter

\* A waiter whose slot may still fire is in the list, or was taken.
ArmedIsListed ==
  /\ \A w \in armed \ claimed : \E i \in 1 .. Len(waiters) : waiters[i] = w
  /\ \A w \in claimed : gate[w] # "idle"

\* A fetch under way is counted once, and so is one that gave its value.
FetchIsCounted ==
  \A k \in Keys :
    /\ entries[k].in_progress => ~entries[k].value /\ fetching[k] = 1
    /\ ~entries[k].in_progress => fetching[k] = 0
    /\ entries[k].in_progress \/ entries[k].value => fetches[k] = 1
    /\ ~entries[k].in_progress /\ ~entries[k].value => fetches[k] = 0

GatesInv ==
  /\ GatesTypes /\ ListedOnce /\ PostedOnce /\ ArmedIsListed /\ FetchIsCounted
  /\ GateWaitEndsOnce

-----------------------------------------------------------------------------
(* What the steps do to the sequences *)

\* The completions posted for a list of waiters, one for each in its order.
LEMMA PostedAllIsSeq ==
  ASSUME NEW W, W \subseteq GateWaiters \cup CacheWaiters,
         NEW list \in Seq(W), NEW outcome \in Outcomes
  PROVE  /\ PostedAll(list, outcome) \in Seq(Task)
         /\ Len(PostedAll(list, outcome)) = Len(list)
         /\ \A i \in 1 .. Len(list) :
              /\ PostedAll(list, outcome)[i].waiter = list[i]
              /\ PostedAll(list, outcome)[i].outcome = outcome
<1> DEFINE f == PostedAll(list, outcome)
<1>1. DOMAIN list = 1 .. Len(list) /\ Len(list) \in Nat
  OBVIOUS
<1>2. \A i \in 1 .. Len(list) : list[i] \in GateWaiters \cup CacheWaiters
  BY <1>1
<1>3. /\ DOMAIN f = 1 .. Len(list)
      /\ \A i \in 1 .. Len(list) :
           f[i] = [waiter |-> list[i], outcome |-> outcome]
      /\ f = [i \in 1 .. Len(list) |-> f[i]]
  BY <1>1 DEF PostedAll, Posted
<1>4. \A i \in 1 .. Len(list) : f[i] \in Task
  BY <1>2, <1>3 DEF Task
<1>5. f \in [1 .. Len(list) -> Task]
  BY <1>3, <1>4
<1>6. f \in Seq(Task) /\ Len(f) = Len(list)
  BY <1>1, <1>5
<1> QED
  BY <1>3, <1>6

\* What is appended keeps its order after what was there.
LEMMA ConcatElements ==
  ASSUME NEW S, NEW s \in Seq(S), NEW t \in Seq(S)
  PROVE  /\ s \o t \in Seq(S)
         /\ Len(s \o t) = Len(s) + Len(t)
         /\ \A i \in 1 .. Len(s) : (s \o t)[i] = s[i]
         /\ \A i \in 1 .. Len(t) : (s \o t)[Len(s) + i] = t[i]
         /\ \A i \in 1 .. Len(s \o t) :
              i \in 1 .. Len(s) \/ (i - Len(s)) \in 1 .. Len(t)
OBVIOUS

\* Erasing an entry keeps the others, in order.
LEMMA ErasedAtElements ==
  ASSUME NEW S, NEW s \in Seq(S), NEW i \in 1 .. Len(s)
  PROVE  /\ ErasedAt(s, i) \in Seq(S)
         /\ Len(ErasedAt(s, i)) = Len(s) - 1
         /\ \A j \in 1 .. Len(s) - 1 :
              ErasedAt(s, i)[j] = IF j < i THEN s[j] ELSE s[j + 1]
<1> DEFINE a == SubSeq(s, 1, i - 1)
           b == SubSeq(s, i + 1, Len(s))
<1>1. /\ a \in Seq(S) /\ Len(a) = i - 1
      /\ \A j \in 1 .. i - 1 : a[j] = s[j]
  <2>1. \A j \in 1 .. i - 1 : s[j] \in S
    OBVIOUS
  <2> HIDE DEF a
  <2> QED
    BY <2>1 DEF a
<1>2. /\ b \in Seq(S) /\ Len(b) = Len(s) - i
      /\ \A j \in 1 .. Len(s) - i : b[j] = s[i + j]
  <2>1. \A j \in i + 1 .. Len(s) : s[j] \in S
    OBVIOUS
  <2> HIDE DEF b
  <2> QED
    BY <2>1 DEF b
<1>3. ErasedAt(s, i) = a \o b
  BY DEF ErasedAt
<1> HIDE DEF a, b
<1>4. /\ a \o b \in Seq(S) /\ Len(a \o b) = Len(a) + Len(b)
      /\ \A j \in 1 .. Len(a) : (a \o b)[j] = a[j]
      /\ \A j \in 1 .. Len(b) : (a \o b)[Len(a) + j] = b[j]
  <2>1. a \in Seq(S) /\ b \in Seq(S)
    BY <1>1, <1>2
  <2> QED
    BY ONLY <2>1, ConcatElements
<1>5. ASSUME NEW j \in 1 .. Len(s) - 1
      PROVE  (a \o b)[j] = IF j < i THEN s[j] ELSE s[j + 1]
  <2>1. CASE j < i
    BY <2>1, <1>1, <1>4
  <2>2. CASE ~(j < i)
    <3>1. PICK k \in 1 .. Len(s) - i : j = (i - 1) + k
      <4>1. j - (i - 1) \in 1 .. Len(s) - i /\ j = (i - 1) + (j - (i - 1))
        BY <2>2
      <4> QED
        BY <4>1
    <3>2. (a \o b)[j] = b[k]
      BY <3>1, <1>1, <1>2, <1>4, Zenon
    <3>3. i + k = j + 1
      BY <3>1
    <3>4. b[k] = s[i + k]
      BY <1>2
    <3> QED
      <4>1. (a \o b)[j] = s[j + 1]
        BY ONLY <3>2, <3>3, <3>4
      <4> QED
        BY <4>1, <2>2
  <2> QED
    BY <2>1, <2>2, Zenon
<1> QED
  BY <1>1, <1>2, <1>3, <1>4, <1>5

-----------------------------------------------------------------------------
\* Nobody waits and nothing is posted at first.
LEMMA GatesInvInit == GInit => GatesInv
BY DEF GInit, GatesInv, GatesTypes, ListedOnce, PostedOnce, ArmedIsListed,
       FetchIsCounted, GateWaitEndsOnce, Entry, Task

\* A coroutine that starts to wait is in no list and has nothing posted.
LEMMA WaitKeepsInv ==
  ASSUME GatesInv, NEW w \in GateWaiters, WaitOnState(w)
  PROVE  GatesInv'
<1> USE GatesAssumption DEF GatesInv, GatesTypes
<1>1. CASE completed # "open"
  <2>1. /\ tasks' = Append(tasks, [waiter |-> w, outcome |-> completed])
        /\ gate' = [gate EXCEPT ![w] = "waiting"]
        /\ UNCHANGED <<completed, waiters, claimed, armed, entries, fetching, fetches>>
    BY <1>1 DEF WaitOnState, Posted, cacheVars
  <2>2. [waiter |-> w, outcome |-> completed] \in Task
    BY <1>1 DEF Task, Outcomes
  <2>3. GatesTypes'
    BY <2>1, <2>2
  <2>4. \A i \in 1 .. Len(waiters) : waiters[i] # w
    BY DEF ListedOnce, WaitOnState
  <2>5. \A i \in 1 .. Len(tasks) : tasks[i].waiter # w
    BY DEF PostedOnce, WaitOnState
  <2>6. ListedOnce' /\ ArmedIsListed' /\ GateWaitEndsOnce'
    BY <2>1, <2>4 DEF ListedOnce, ArmedIsListed, GateWaitEndsOnce
  <2>7. PostedOnce'
    BY <2>1, <2>2, <2>4, <2>5, <1>1 DEF PostedOnce
  <2> QED
    BY <2>1, <2>3, <2>6, <2>7, Zenon DEF FetchIsCounted
<1>2. CASE completed = "open"
  <2>1. /\ waiters' = Append(waiters, w)
        /\ armed' = armed \cup ({w} \cap Slotted)
        /\ gate' = [gate EXCEPT ![w] = "waiting"]
        /\ UNCHANGED <<completed, claimed, tasks, entries, fetching, fetches>>
    BY <1>2 DEF WaitOnState, cacheVars
  <2>2. GatesTypes'
    BY <2>1
  <2>3. w \notin claimed /\ \A i \in 1 .. Len(waiters) : waiters[i] # w
    BY DEF ListedOnce, ArmedIsListed, WaitOnState
  <2>4. \A i \in 1 .. Len(tasks) : tasks[i].waiter # w
    BY DEF PostedOnce, WaitOnState
  <2>5. ListedOnce'
    BY <2>1, <2>3 DEF ListedOnce
  <2>6. PostedOnce'
    BY <2>1, <2>3, <2>4 DEF PostedOnce
  <2>7. ArmedIsListed'
    <3>1. ASSUME NEW v \in armed' \ claimed'
          PROVE  \E i \in 1 .. Len(waiters') : waiters'[i] = v
      <4>1. CASE v = w
        <5>1. waiters'[Len(waiters) + 1] = w /\ Len(waiters) + 1 \in 1 .. Len(waiters')
          BY <2>1
        <5> QED
          BY <4>1, <5>1
      <4>2. CASE v # w
        <5>1. PICK i \in 1 .. Len(waiters) : waiters[i] = v
          BY <4>2, <2>1 DEF ArmedIsListed
        <5>2. i \in 1 .. Len(waiters') /\ waiters'[i] = waiters[i]
          BY <2>1
        <5> QED
          BY <5>1, <5>2
      <4> QED
        BY <4>1, <4>2
    <3>2. \A v \in claimed' : gate'[v] # "idle"
      BY <2>1 DEF ArmedIsListed
    <3> QED
      BY <3>1, <3>2, Zenon DEF ArmedIsListed
  <2>8. GateWaitEndsOnce'
    BY <2>1 DEF GateWaitEndsOnce
  <2> QED
    BY <2>1, <2>2, <2>5, <2>6, <2>7, <2>8, Zenon DEF FetchIsCounted
<1> QED
  BY <1>1, <1>2, Zenon

\* A slot that fires finds its waiter taken, or takes it off the list.
LEMMA SlotKeepsInv ==
  ASSUME GatesInv, NEW w \in GateWaiters, SlotFires(w)
  PROVE  GatesInv'
<1> USE GatesAssumption DEF GatesInv, GatesTypes
<1>1. CASE w \in claimed
  <2>1. /\ armed' = armed \ {w}
        /\ UNCHANGED <<completed, waiters, claimed, gate, tasks, entries, fetching, fetches>>
    BY <1>1, Zenon DEF SlotFires, CancelWait, cacheVars
  <2> QED
    BY <2>1 DEF ListedOnce, PostedOnce, ArmedIsListed, FetchIsCounted, GateWaitEndsOnce
<1>2. CASE w \notin claimed
  <2>1. PICK n \in 1 .. Len(waiters) :
          /\ waiters[n] = w
          /\ waiters' = ErasedAt(waiters, n)
    <3>1. \E i \in DOMAIN waiters :
            waiters[i] = w /\ waiters' = ErasedAt(waiters, i)
      BY <1>2, Zenon DEF SlotFires, CancelWait
    <3>2. DOMAIN waiters = 1 .. Len(waiters)
      OBVIOUS
    <3> QED
      BY <3>1, <3>2, Zenon
  <2>2. /\ armed' = armed \ {w} /\ claimed' = claimed \cup {w}
        /\ tasks' = Append(tasks, [waiter |-> w, outcome |-> "cancelled"])
        /\ UNCHANGED <<completed, gate, entries, fetching, fetches>>
    BY <1>2, Zenon DEF SlotFires, CancelWait, Posted, cacheVars
  <2>3. /\ waiters' \in Seq(GateWaiters)
        /\ Len(waiters') = Len(waiters) - 1
        /\ \A j \in 1 .. Len(waiters) - 1 :
             waiters'[j] = IF j < n THEN waiters[j] ELSE waiters[j + 1]
    <3>1. waiters \in Seq(GateWaiters) /\ n \in 1 .. Len(waiters)
      OBVIOUS
    <3>2. /\ ErasedAt(waiters, n) \in Seq(GateWaiters)
          /\ Len(ErasedAt(waiters, n)) = Len(waiters) - 1
          /\ \A j \in 1 .. Len(waiters) - 1 :
               ErasedAt(waiters, n)[j] = IF j < n THEN waiters[j] ELSE waiters[j + 1]
      BY ONLY <3>1, ErasedAtElements
    <3> QED
      BY ONLY <2>1, <3>2
  <2>4. \A j \in 1 .. Len(waiters') : \E i \in 1 .. Len(waiters) :
          i # n /\ waiters'[j] = waiters[i]
    BY <2>3
  <2>5. \A i \in 1 .. Len(waiters) : i # n =>
          \E j \in 1 .. Len(waiters') : waiters'[j] = waiters[i]
    <3> SUFFICES ASSUME NEW i \in 1 .. Len(waiters), i # n
                 PROVE  \E j \in 1 .. Len(waiters') : waiters'[j] = waiters[i]
      BY Zenon
    <3>1. CASE i < n
      <4>1. i \in 1 .. Len(waiters') /\ i \in 1 .. Len(waiters) - 1
        BY <3>1, <2>3
      <4>2. waiters'[i] = waiters[i]
        BY <3>1, <4>1, <2>3, Zenon
      <4> QED
        BY <4>1, <4>2, Zenon
    <3>2. CASE ~(i < n)
      <4>1. i - 1 \in 1 .. Len(waiters') /\ ~(i - 1 < n) /\ (i - 1) + 1 = i
        BY <3>2, <2>3
      <4>2. waiters'[i - 1] = waiters[(i - 1) + 1]
        BY <4>1, <2>3, Zenon
      <4> QED
        BY <4>1, <4>2, Zenon
    <3> QED
      BY <3>1, <3>2, Zenon
  <2>6. \A i \in 1 .. Len(tasks) : tasks[i].waiter # w
    BY <2>1, Zenon DEF PostedOnce
  <2>7. [waiter |-> w, outcome |-> "cancelled"] \in Task
    BY Zenon DEF Task, Outcomes
  <2>8. GatesTypes'
    BY <2>2, <2>3, <2>7
  <2>9. \A j \in 1 .. Len(waiters') : waiters'[j] # w
    BY <2>1, <2>4 DEF ListedOnce
  <2>10. ListedOnce'
    <3>1. \A j \in 1 .. Len(waiters') :
            gate'[waiters'[j]] = "waiting" /\ waiters'[j] \notin claimed'
      <4>1. /\ \A i \in 1 .. Len(waiters) :
                 gate[waiters[i]] = "waiting" /\ waiters[i] \notin claimed
            /\ gate' = gate /\ claimed' = claimed \cup {w}
        BY <2>2, Zenon DEF ListedOnce
      <4> QED
        BY ONLY <4>1, <2>4, <2>9
    <3>2. ASSUME NEW i \in 1 .. Len(waiters'), NEW j \in 1 .. Len(waiters'),
                 waiters'[i] = waiters'[j]
          PROVE  i = j
      <4> DEFINE old(k) == IF k < n THEN k ELSE k + 1
      <4>1. /\ old(i) \in 1 .. Len(waiters) /\ old(j) \in 1 .. Len(waiters)
            /\ old(i) = old(j) => i = j
        BY ONLY <2>1, <2>3, <3>2
      <4>2. waiters'[i] = waiters[old(i)] /\ waiters'[j] = waiters[old(j)]
        BY <2>3, Zenon
      <4> HIDE DEF old
      <4> QED
        BY <3>2, <4>1, <4>2, Zenon DEF ListedOnce
    <3> QED
      BY <3>1, <3>2, Zenon DEF ListedOnce
  <2>11. PostedOnce'
    <3>1. gate[w] = "waiting"
      BY <2>1, Zenon DEF ListedOnce
    <3>2. ASSUME NEW i \in 1 .. Len(tasks), tasks[i].waiter \in GateWaiters
          PROVE  \A j \in 1 .. Len(waiters') : waiters'[j] # tasks[i].waiter
      <4>1. \A j \in 1 .. Len(waiters) : waiters[j] # tasks[i].waiter
        BY <3>2, Zenon DEF PostedOnce
      <4> QED
        BY <2>4, <4>1, Zenon
    <3> DEFINE N == Len(tasks) + 1
    <3>3. /\ \A i \in 1 .. Len(tasks') : i \in 1 .. Len(tasks) \/ i = N
          /\ \A i \in 1 .. Len(tasks) : tasks'[i] = tasks[i]
          /\ tasks'[N].waiter = w /\ tasks'[N].outcome = "cancelled"
      <4>1. PICK task \in Task : task = [waiter |-> w, outcome |-> "cancelled"]
        BY <2>7, Zenon
      <4>2. tasks \in Seq(Task) /\ tasks' = Append(tasks, task)
        BY <2>2, <4>1, Zenon
      <4>3. /\ Len(tasks') = Len(tasks) + 1 /\ Len(tasks) \in Nat
            /\ \A i \in 1 .. Len(tasks) : tasks'[i] = tasks[i]
            /\ tasks'[Len(tasks) + 1] = task
        BY ONLY <4>2
      <4>4. \A i \in 1 .. Len(tasks') : i \in 1 .. Len(tasks) \/ i = N
        BY ONLY <4>3
      <4>5. task.waiter = w /\ task.outcome = "cancelled"
        BY ONLY <4>1
      <4> QED
        BY <4>3, <4>4, <4>5, Zenon
    <3> HIDE DEF N
    <3>4. ASSUME NEW i \in 1 .. Len(tasks), tasks[i].waiter \in GateWaiters
          PROVE  /\ gate[tasks[i].waiter] = "waiting"
                 /\ \/ tasks[i].outcome = "cancelled"
                    \/ completed # "open" /\ tasks[i].outcome = completed
                 /\ \A j \in 1 .. Len(tasks) : tasks[i].waiter = tasks[j].waiter => i = j
      BY <3>4, Zenon DEF PostedOnce
    <3>5. gate' = gate /\ completed' = completed
      BY <2>2, Zenon
    <3> SUFFICES ASSUME NEW i \in 1 .. Len(tasks'), tasks'[i].waiter \in GateWaiters
                 PROVE  /\ gate[tasks'[i].waiter] = "waiting"
                        /\ \/ tasks'[i].outcome = "cancelled"
                           \/ completed # "open" /\ tasks'[i].outcome = completed
                        /\ \A j \in 1 .. Len(tasks') :
                             tasks'[i].waiter = tasks'[j].waiter => i = j
                        /\ \A j \in 1 .. Len(waiters') : waiters'[j] # tasks'[i].waiter
      BY <3>5, Zenon DEF PostedOnce
    <3>6. CASE i \in 1 .. Len(tasks)
      <4>1. tasks'[i] = tasks[i] /\ tasks[i].waiter \in GateWaiters /\ tasks[i].waiter # w
        BY <2>6, <3>3, <3>6, Zenon
      <4>2. ASSUME NEW j \in 1 .. Len(tasks'), tasks'[i].waiter = tasks'[j].waiter
            PROVE  i = j
        <5>1. CASE j \in 1 .. Len(tasks)
          BY <3>3, <3>4, <3>6, <4>1, <4>2, <5>1, Zenon
        <5>2. CASE j = N
          BY <3>3, <4>1, <4>2, <5>2, Zenon
        <5> QED
          BY <3>3, <5>1, <5>2, Zenon
      <4> QED
        BY <3>2, <3>4, <3>6, <4>1, <4>2, Zenon
    <3>7. CASE i = N
      BY <2>6, <2>9, <3>1, <3>3, <3>7, Zenon
    <3> QED
      BY <3>3, <3>6, <3>7, Zenon
  <2>12. ArmedIsListed'
    <3>1. ASSUME NEW v \in armed' \ claimed'
          PROVE  \E i \in 1 .. Len(waiters') : waiters'[i] = v
      <4>1. PICK i \in 1 .. Len(waiters) : waiters[i] = v
        BY <2>2, Zenon DEF ArmedIsListed
      <4>2. i # n
        BY <2>1, <2>2, <4>1, Zenon
      <4> QED
        BY <4>1, <4>2, <2>5, Zenon
    <3>2. gate[w] # "idle"
      BY <2>1, Zenon DEF ListedOnce
    <3> QED
      BY <2>2, <3>1, <3>2, Zenon DEF ArmedIsListed
  <2>13. GateWaitEndsOnce' /\ FetchIsCounted'
    BY <2>2, Zenon DEF GateWaitEndsOnce, FetchIsCounted
  <2> QED
    BY <2>8, <2>10, <2>11, <2>12, <2>13, Zenon
<1> QED
  BY <1>1, <1>2, Zenon

\* Settling the gate takes the whole list, none of which was taken before.
LEMMA FinishKeepsInv ==
  ASSUME GatesInv, NEW outcome \in {"done", "error"}, completed = "open",
         Finish(outcome)
  PROVE  GatesInv'
<1> USE GatesAssumption DEF GatesInv, GatesTypes
<1> DEFINE post == PostedAll(waiters, outcome)
<1>1. DOMAIN waiters = 1 .. Len(waiters) /\ Len(waiters) \in Nat
  OBVIOUS
<1>2. Unclaimed = waiters
  <2>1. Elements(waiters) \cap claimed = {}
    BY <1>1 DEF ListedOnce, Elements
  <2> QED
    BY <2>1 DEF Unclaimed
<1>3. /\ completed' = outcome /\ waiters' = <<>>
      /\ claimed' = claimed \cup Elements(waiters)
      /\ tasks' = tasks \o post
      /\ UNCHANGED <<armed, gate, entries, fetching, fetches>>
  BY <1>2 DEF Finish, cacheVars
<1>4. /\ post \in Seq(Task) /\ Len(post) = Len(waiters)
      /\ \A i \in 1 .. Len(waiters) :
           post[i].waiter = waiters[i] /\ post[i].outcome = outcome
  <2>1. outcome \in Outcomes /\ GateWaiters \subseteq GateWaiters \cup CacheWaiters
    BY DEF Outcomes
  <2> QED
    BY <2>1, PostedAllIsSeq
<1> HIDE DEF post
<1>5. /\ tasks' \in Seq(Task) /\ Len(tasks') = Len(tasks) + Len(waiters)
      /\ \A i \in 1 .. Len(tasks) : tasks'[i] = tasks[i]
      /\ \A i \in 1 .. Len(waiters) : tasks'[Len(tasks) + i] = post[i]
      /\ \A i \in 1 .. Len(tasks') :
           i \in 1 .. Len(tasks) \/ (i - Len(tasks)) \in 1 .. Len(waiters)
  <2>1. tasks \in Seq(Task) /\ post \in Seq(Task)
    BY <1>4
  <2>2. /\ tasks \o post \in Seq(Task)
        /\ Len(tasks \o post) = Len(tasks) + Len(post)
        /\ \A i \in 1 .. Len(tasks) : (tasks \o post)[i] = tasks[i]
        /\ \A i \in 1 .. Len(post) : (tasks \o post)[Len(tasks) + i] = post[i]
        /\ \A i \in 1 .. Len(tasks \o post) :
             i \in 1 .. Len(tasks) \/ (i - Len(tasks)) \in 1 .. Len(post)
    BY ONLY <2>1, ConcatElements
  <2>3. tasks' = tasks \o post /\ Len(post) = Len(waiters)
    BY <1>3, <1>4
  <2> QED
    BY ONLY <2>2, <2>3, Zenon
<1>5a. ASSUME NEW k \in 1 .. Len(tasks'), (k - Len(tasks)) \in 1 .. Len(waiters)
       PROVE  tasks'[k] = post[k - Len(tasks)]
  <2>1. tasks'[Len(tasks) + (k - Len(tasks))] = post[k - Len(tasks)]
    BY <1>5, <1>5a, Zenon
  <2>2. Len(tasks) \in Nat /\ Len(tasks') \in Nat
    BY <1>5
  <2>3. Len(tasks) + (k - Len(tasks)) = k
    BY ONLY <2>2, k \in 1 .. Len(tasks')
  <2> QED
    BY <2>1, <2>3, Zenon
<1>6. Elements(waiters) = {waiters[i] : i \in 1 .. Len(waiters)}
  BY <1>1 DEF Elements
<1>7. GatesTypes'
  BY <1>1, <1>3, <1>5, <1>6
<1>8. ListedOnce'
  BY <1>3 DEF ListedOnce
<1>9. ArmedIsListed'
  BY <1>3, <1>6 DEF ArmedIsListed, ListedOnce
<1>10. GateWaitEndsOnce' /\ FetchIsCounted'
  BY <1>3, Zenon DEF GateWaitEndsOnce, FetchIsCounted
<1>11. PostedOnce'
  <2>1. ASSUME NEW i \in 1 .. Len(tasks'), tasks'[i].waiter \in GateWaiters
        PROVE  /\ gate[tasks'[i].waiter] = "waiting"
               /\ tasks'[i].outcome \in {"cancelled", outcome}
               /\ \A j \in 1 .. Len(tasks') : tasks'[i].waiter = tasks'[j].waiter => i = j
    <3>1. CASE i \in 1 .. Len(tasks)
      <4>1. /\ gate[tasks[i].waiter] = "waiting" /\ tasks[i].outcome = "cancelled"
            /\ \A j \in 1 .. Len(tasks) : tasks[i].waiter = tasks[j].waiter => i = j
            /\ \A j \in 1 .. Len(waiters) : waiters[j] # tasks[i].waiter
        BY <2>1, <3>1, <1>5, Zenon DEF PostedOnce
      <4>2. ASSUME NEW j \in 1 .. Len(tasks'), tasks'[i].waiter = tasks'[j].waiter
            PROVE  i = j
        <5>1. CASE j \in 1 .. Len(tasks)
          <6>1. tasks[i].waiter = tasks[j].waiter
            BY <3>1, <4>2, <5>1, <1>5, Zenon
          <6> QED
            BY <4>1, <5>1, <6>1, Zenon
        <5>2. CASE (j - Len(tasks)) \in 1 .. Len(waiters)
          <6>1. tasks'[j] = post[j - Len(tasks)]
            BY <5>2, <1>5a, Zenon
          <6>2. tasks'[j].waiter = waiters[j - Len(tasks)]
            BY <6>1, <5>2, <1>4, Zenon
          <6> QED
            BY <6>2, <4>1, <4>2, <3>1, <1>5, <5>2, Zenon
        <5> QED
          BY <5>1, <5>2, <1>5, Zenon
      <4> QED
        BY <4>1, <4>2, <3>1, <1>5, Zenon
    <3>2. CASE (i - Len(tasks)) \in 1 .. Len(waiters)
      <4>1. tasks'[i] = post[i - Len(tasks)]
        BY <3>2, <1>5a, Zenon
      <4>2. /\ tasks'[i].waiter = waiters[i - Len(tasks)]
            /\ tasks'[i].outcome = outcome
        BY <4>1, <3>2, <1>4, Zenon
      <4>3. gate[waiters[i - Len(tasks)]] = "waiting"
        BY <3>2 DEF ListedOnce
      <4>4. ASSUME NEW j \in 1 .. Len(tasks'), tasks'[i].waiter = tasks'[j].waiter
            PROVE  i = j
        <5>1. CASE j \in 1 .. Len(tasks)
          <6>1. tasks[j].waiter = waiters[i - Len(tasks)]
            BY <4>2, <4>4, <5>1, <1>5, Zenon
          <6>2. waiters[i - Len(tasks)] \in GateWaiters
            BY <3>2
          <6> QED
            BY <6>1, <6>2, <3>2, <5>1, Zenon DEF PostedOnce
        <5>2. CASE (j - Len(tasks)) \in 1 .. Len(waiters)
          <6>1. tasks'[j] = post[j - Len(tasks)]
            BY <5>2, <1>5a, Zenon
          <6>2. tasks'[j].waiter = waiters[j - Len(tasks)]
            BY <6>1, <5>2, <1>4, Zenon
          <6>3. i - Len(tasks) = j - Len(tasks)
            BY <6>2, <4>2, <4>4, <3>2, <5>2, Zenon DEF ListedOnce
          <6> QED
            BY <6>3
        <5> QED
          BY <5>1, <5>2, <1>5
      <4> QED
        BY <4>2, <4>3, <4>4, Zenon
    <3> QED
      BY <3>1, <3>2, <1>5, Zenon
  <2> QED
    BY <2>1, <1>3 DEF PostedOnce
<1> QED
  BY <1>7, <1>8, <1>9, <1>10, <1>11, Zenon

\* Completions of waiters of the cache do not touch the gate's.
LEMMA CacheTasksKeepGate ==
  ASSUME GatesInv, UNCHANGED gateVars, tasks' \in Seq(Task),
         Len(tasks') >= Len(tasks),
         \A i \in 1 .. Len(tasks) : tasks'[i] = tasks[i],
         \A i \in 1 .. Len(tasks') :
           i \notin 1 .. Len(tasks) => tasks'[i].waiter \in CacheWaiters
  PROVE  ListedOnce' /\ PostedOnce' /\ ArmedIsListed' /\ GateWaitEndsOnce'
<1> USE GatesAssumption DEF GatesInv, GatesTypes, gateVars
<1>1. ListedOnce' /\ ArmedIsListed' /\ GateWaitEndsOnce'
  BY DEF ListedOnce, ArmedIsListed, GateWaitEndsOnce
<1>2. PostedOnce'
  <2>1. ASSUME NEW i \in 1 .. Len(tasks'), tasks'[i].waiter \in GateWaiters
        PROVE  i \in 1 .. Len(tasks) /\ tasks'[i] = tasks[i]
    BY <2>1
  <2> QED
    BY <2>1 DEF PostedOnce
<1> QED
  BY <1>1, <1>2

\* TryStart: the fetch of a key that has none and no value is its first one.
LEMMA StartedIsCounted ==
  ASSUME GatesInv, NEW k \in Keys, NEW table \in [Keys -> Entry],
         \A l \in Keys : /\ table[l].value <=> entries[l].value
                         /\ table[l].in_progress <=> entries[l].in_progress,
         ~entries[k].value, ~entries[k].in_progress, Started(k, table)
  PROVE  /\ entries' \in [Keys -> Entry] /\ fetching' \in [Keys -> Nat]
         /\ fetches' \in [Keys -> Nat] /\ FetchIsCounted'
<1> USE DEF GatesInv, GatesTypes
<1>1. /\ entries' = [table EXCEPT ![k] = [table[k] EXCEPT !.in_progress = TRUE]]
      /\ fetching' = [fetching EXCEPT ![k] = @ + 1]
      /\ fetches' = [fetches EXCEPT ![k] = @ + 1]
  BY DEF Started
<1>2. [table[k] EXCEPT !.in_progress = TRUE] \in Entry
  BY Zenon DEF Entry
<1>3. /\ entries' \in [Keys -> Entry] /\ fetching' \in [Keys -> Nat]
      /\ fetches' \in [Keys -> Nat]
  BY <1>1, <1>2
<1>4. ASSUME NEW l \in Keys
      PROVE  /\ entries'[l].value <=> entries[l].value
             /\ entries'[l].in_progress <=> (l = k \/ entries[l].in_progress)
  <2>1. CASE l = k
    <3>1. entries'[k] = [table[k] EXCEPT !.in_progress = TRUE]
      BY <1>1
    <3>2. table[k] \in Entry
      OBVIOUS
    <3>3. entries'[k].value = table[k].value /\ entries'[k].in_progress = TRUE
      BY <3>1, <3>2 DEF Entry
    <3> QED
      BY <2>1, <3>3, Zenon
  <2>2. CASE l # k
    <3>1. entries'[l] = table[l]
      BY <1>1, <2>2
    <3> QED
      BY <2>2, <3>1
  <2> QED
    BY <2>1, <2>2, Zenon
<1>5. FetchIsCounted'
  <2>1. ASSUME NEW l \in Keys
        PROVE  /\ fetching'[l] = fetching[l] + (IF l = k THEN 1 ELSE 0)
               /\ fetches'[l] = fetches[l] + (IF l = k THEN 1 ELSE 0)
    BY <1>1
  <2>2. fetching[k] = 0 /\ fetches[k] = 0
    BY Zenon DEF FetchIsCounted
  <2>3. ASSUME NEW l \in Keys
        PROVE  /\ entries'[l].in_progress => ~entries'[l].value /\ fetching'[l] = 1
               /\ ~entries'[l].in_progress => fetching'[l] = 0
               /\ entries'[l].in_progress \/ entries'[l].value => fetches'[l] = 1
               /\ ~entries'[l].in_progress /\ ~entries'[l].value => fetches'[l] = 0
    <3>1. CASE l = k
      <4>1. fetching'[k] = 1 /\ fetches'[k] = 1
        BY ONLY <2>1, <2>2
      <4> QED
        BY <3>1, <1>4, <4>1, Zenon
    <3>2. CASE l # k
      <4>1. /\ fetching'[l] = fetching[l] /\ fetches'[l] = fetches[l]
            /\ entries'[l].value <=> entries[l].value
            /\ entries'[l].in_progress <=> entries[l].in_progress
        BY <3>2, <1>4, <2>1
      <4>2. /\ entries[l].in_progress => ~entries[l].value /\ fetching[l] = 1
            /\ ~entries[l].in_progress => fetching[l] = 0
            /\ entries[l].in_progress \/ entries[l].value => fetches[l] = 1
            /\ ~entries[l].in_progress /\ ~entries[l].value => fetches[l] = 0
        BY Zenon DEF FetchIsCounted
      <4> QED
        BY ONLY <4>1, <4>2, Zenon
    <3> QED
      BY <3>1, <3>2, Zenon
  <2> QED
    BY <2>3, Zenon DEF FetchIsCounted
<1> QED
  BY <1>3, <1>5

\* Registering a waiter changes nothing else of an entry.
LEMMA JoinedIsEntry ==
  ASSUME NEW e \in Entry, NEW list \in Seq(CacheWaiters)
  PROVE  /\ [e EXCEPT !.waiters = list] \in Entry
         /\ [e EXCEPT !.waiters = list].value <=> e.value
         /\ [e EXCEPT !.waiters = list].in_progress <=> e.in_progress
BY Zenon DEF Entry

\* A waiter of the cache gets the value at once, or registers and may start
\* the fetch.
LEMMA WaitForKeyKeepsInv ==
  ASSUME GatesInv, NEW w \in CacheWaiters, NEW k \in Keys, WaitForKey(w, k)
  PROVE  GatesInv'
<1> USE GatesAssumption DEF GatesInv, GatesTypes
<1>1. CASE entries[k].value
  <2>1. /\ tasks' = Append(tasks, [waiter |-> w, outcome |-> "value"])
        /\ UNCHANGED <<entries, fetching, fetches, gateVars>>
    BY <1>1 DEF WaitForKey, Posted
  <2>2. [waiter |-> w, outcome |-> "value"] \in Task
    BY DEF Task, Outcomes
  <2>3. /\ tasks' \in Seq(Task) /\ Len(tasks') = Len(tasks) + 1
        /\ \A i \in 1 .. Len(tasks) : tasks'[i] = tasks[i]
        /\ tasks'[Len(tasks) + 1].waiter = w
    BY ONLY <2>1, <2>2, tasks \in Seq(Task)
  <2>4. ListedOnce' /\ PostedOnce' /\ ArmedIsListed' /\ GateWaitEndsOnce'
    <3>1. /\ Len(tasks') >= Len(tasks) /\ UNCHANGED gateVars
          /\ \A i \in 1 .. Len(tasks') :
               i \notin 1 .. Len(tasks) => tasks'[i].waiter \in CacheWaiters
      <4>1. Len(tasks) \in Nat
        OBVIOUS
      <4>2. ASSUME NEW i \in 1 .. Len(tasks'), i \notin 1 .. Len(tasks)
            PROVE  i = Len(tasks) + 1
        BY ONLY <4>1, <4>2, <2>3
      <4>3. \A i \in 1 .. Len(tasks') :
              i \notin 1 .. Len(tasks) => tasks'[i].waiter = w
        BY ONLY <4>2, <2>3
      <4>4. Len(tasks') >= Len(tasks)
        BY ONLY <4>1, <2>3
      <4> QED
        BY <4>3, <4>4, <2>1, Zenon
    <3> HIDE DEF GatesInv
    <3> QED
      BY ONLY GatesInv, <2>3, <3>1, CacheTasksKeepGate
  <2> QED
    BY <2>1, <2>3, <2>4, Zenon DEF gateVars, FetchIsCounted
<1>2. CASE ~entries[k].value
  <2> DEFINE joined == [entries[k] EXCEPT !.waiters = Append(entries[k].waiters, w)]
             table == [entries EXCEPT ![k] = joined]
  <2>1. /\ IF w \in Eager /\ CanStart(table[k])
           THEN Started(k, table) ELSE NotStarted(table)
        /\ UNCHANGED <<tasks, gateVars>>
    BY <1>2 DEF WaitForKey
  <2>2. /\ joined \in Entry /\ (joined.value <=> entries[k].value)
        /\ joined.in_progress <=> entries[k].in_progress
    <3>1. entries[k] \in Entry
      OBVIOUS
    <3>2. Append(entries[k].waiters, w) \in Seq(CacheWaiters)
      BY <3>1 DEF Entry
    <3> QED
      BY ONLY <3>1, <3>2, JoinedIsEntry, Zenon
  <2> HIDE DEF joined
  <2>3. /\ table \in [Keys -> Entry]
        /\ \A l \in Keys : /\ table[l].value <=> entries[l].value
                           /\ table[l].in_progress <=> entries[l].in_progress
    BY <2>2
  <2> HIDE DEF table
  <2>4. /\ entries' \in [Keys -> Entry] /\ fetching' \in [Keys -> Nat]
        /\ fetches' \in [Keys -> Nat] /\ FetchIsCounted'
    <3>1. CASE w \in Eager /\ CanStart(table[k])
      BY <3>1, <2>1, <2>3, <1>2, StartedIsCounted, Zenon DEF CanStart
    <3>2. CASE ~(w \in Eager /\ CanStart(table[k]))
      <4>1. entries' = table /\ UNCHANGED <<fetching, fetches>>
        BY <3>2, <2>1 DEF NotStarted
      <4> QED
        BY <4>1, <2>3, Zenon DEF FetchIsCounted
    <3> QED
      BY <3>1, <3>2, Zenon
  <2>5. ListedOnce' /\ PostedOnce' /\ ArmedIsListed' /\ GateWaitEndsOnce'
    BY <2>1, CacheTasksKeepGate
  <2> QED
    BY <2>1, <2>4, <2>5, Zenon DEF gateVars
<1> QED
  BY <1>1, <1>2, Zenon

\* A fetch started by a batch, or ahead of its waiters.
LEMMA StartKeepsInv ==
  ASSUME GatesInv, NEW k \in Keys, ~entries[k].value, ~entries[k].in_progress,
         Started(k, entries), UNCHANGED <<tasks, gateVars>>
  PROVE  GatesInv'
<1> USE GatesAssumption DEF GatesInv, GatesTypes
<1>1. /\ entries' \in [Keys -> Entry] /\ fetching' \in [Keys -> Nat]
      /\ fetches' \in [Keys -> Nat] /\ FetchIsCounted'
  BY StartedIsCounted, Zenon
<1>2. ListedOnce' /\ PostedOnce' /\ ArmedIsListed' /\ GateWaitEndsOnce'
  BY CacheTasksKeepGate
<1> QED
  BY <1>1, <1>2, Zenon DEF gateVars

\* The value of a key is stored and posted to those who wait for it.
LEMMA CompleteKeyKeepsInv ==
  ASSUME GatesInv, NEW k \in Keys, CompleteKey(k)
  PROVE  GatesInv'
<1> USE GatesAssumption DEF GatesInv, GatesTypes
<1> DEFINE filled == [value |-> TRUE, in_progress |-> FALSE, waiters |-> <<>>]
           post == PostedAll(entries[k].waiters, "value")
<1>1. /\ fetching[k] > 0
      /\ fetching' = [fetching EXCEPT ![k] = @ - 1]
      /\ entries' = [entries EXCEPT ![k] = filled]
      /\ tasks' = tasks \o post
      /\ UNCHANGED <<fetches, gateVars>>
  BY DEF CompleteKey
<1>2. /\ filled \in Entry /\ filled.value /\ ~filled.in_progress
  BY DEF Entry
<1> HIDE DEF filled
<1>3. entries[k].in_progress
  BY <1>1 DEF FetchIsCounted
<1>4. fetching[k] = 1 /\ fetches[k] = 1
  BY <1>3 DEF FetchIsCounted
<1>5. /\ entries' \in [Keys -> Entry] /\ fetching' \in [Keys -> Nat]
      /\ fetches' \in [Keys -> Nat]
  BY <1>1, <1>2, <1>4
<1>6. FetchIsCounted'
  <2>1. ASSUME NEW l \in Keys
        PROVE  /\ entries'[l].in_progress => ~entries'[l].value /\ fetching'[l] = 1
               /\ ~entries'[l].in_progress => fetching'[l] = 0
               /\ entries'[l].in_progress \/ entries'[l].value => fetches'[l] = 1
               /\ ~entries'[l].in_progress /\ ~entries'[l].value => fetches'[l] = 0
    <3>1. CASE l = k
      <4>1. entries'[l] = filled /\ fetching'[l] = 0 /\ fetches'[l] = 1
        BY <3>1, <1>1, <1>4
      <4> QED
        BY <4>1, <1>2, Zenon
    <3>2. CASE l # k
      <4>1. entries'[l] = entries[l] /\ fetching'[l] = fetching[l] /\ fetches'[l] = fetches[l]
        BY <3>2, <1>1, Zenon
      <4> QED
        BY <4>1, Zenon DEF FetchIsCounted
    <3> QED
      BY <3>1, <3>2, Zenon
  <2> QED
    BY <2>1, Zenon DEF FetchIsCounted
<1>7. /\ post \in Seq(Task)
      /\ \A i \in 1 .. Len(post) : post[i].waiter \in CacheWaiters
  <2>1. /\ entries[k].waiters \in Seq(CacheWaiters) /\ "value" \in Outcomes
        /\ CacheWaiters \subseteq GateWaiters \cup CacheWaiters
    BY DEF Entry, Outcomes
  <2>2. /\ post \in Seq(Task) /\ Len(post) = Len(entries[k].waiters)
        /\ \A i \in 1 .. Len(entries[k].waiters) : post[i].waiter = entries[k].waiters[i]
    BY ONLY <2>1, PostedAllIsSeq
  <2> HIDE DEF post
  <2>3. \A i \in 1 .. Len(entries[k].waiters) : entries[k].waiters[i] \in CacheWaiters
    BY <2>1
  <2> QED
    BY <2>2, <2>3, Zenon
<1> HIDE DEF post
<1>8. /\ tasks' \in Seq(Task) /\ Len(tasks') >= Len(tasks)
      /\ \A i \in 1 .. Len(tasks) : tasks'[i] = tasks[i]
      /\ \A i \in 1 .. Len(tasks') :
           i \notin 1 .. Len(tasks) => tasks'[i].waiter \in CacheWaiters
  <2>1. tasks \in Seq(Task) /\ post \in Seq(Task)
    BY <1>7
  <2>2. /\ tasks \o post \in Seq(Task)
        /\ Len(tasks \o post) = Len(tasks) + Len(post)
        /\ \A i \in 1 .. Len(tasks) : (tasks \o post)[i] = tasks[i]
        /\ \A i \in 1 .. Len(post) : (tasks \o post)[Len(tasks) + i] = post[i]
        /\ \A i \in 1 .. Len(tasks \o post) :
             i \in 1 .. Len(tasks) \/ (i - Len(tasks)) \in 1 .. Len(post)
    BY ONLY <2>1, ConcatElements
  <2>3. Len(tasks) \in Nat /\ Len(post) \in Nat
    BY <2>1
  <2>4. ASSUME NEW i \in 1 .. Len(tasks \o post), i \notin 1 .. Len(tasks)
        PROVE  (tasks \o post)[i].waiter \in CacheWaiters
    <3>1. i - Len(tasks) \in 1 .. Len(post)
      BY <2>2, <2>4
    <3>2. (tasks \o post)[Len(tasks) + (i - Len(tasks))] = post[i - Len(tasks)]
      BY <3>1, <2>2
    <3>3. Len(tasks) + (i - Len(tasks)) = i
      BY <2>2, <2>3
    <3> QED
      BY ONLY <3>1, <3>2, <3>3, <1>7
  <2> QED
    BY <1>1, <2>2, <2>3, <2>4
<1>9. ListedOnce' /\ PostedOnce' /\ ArmedIsListed' /\ GateWaitEndsOnce'
  BY <1>1, <1>8, CacheTasksKeepGate, Zenon
<1> QED
  BY <1>1, <1>5, <1>6, <1>8, <1>9, Zenon DEF gateVars

\* A coroutine that resumes had one completion, which is gone now.
LEMMA ResumeKeepsInv ==
  ASSUME GatesInv, Resume
  PROVE  GatesInv'
<1> USE GatesAssumption DEF GatesInv, GatesTypes
<1>1. /\ Head(tasks) = tasks[1] /\ tasks[1] \in Task /\ 1 \in 1 .. Len(tasks)
      /\ tasks' \in Seq(Task) /\ Len(tasks') = Len(tasks) - 1
      /\ \A i \in 1 .. Len(tasks') : tasks'[i] = tasks[i + 1] /\ i + 1 \in 1 .. Len(tasks)
  <2>1. tasks \in Seq(Task) /\ tasks # <<>> /\ tasks' = Tail(tasks)
    BY Zenon DEF Resume
  <2>2. Len(tasks) \in Nat \ {0} /\ Head(tasks) = tasks[1] /\ Head(tasks) \in Task
    BY ONLY <2>1
  <2>3. /\ tasks' \in Seq(Task) /\ Len(tasks') = Len(tasks) - 1
        /\ \A i \in 1 .. Len(tasks') : tasks'[i] = tasks[i + 1]
    BY ONLY <2>1
  <2> QED
    BY ONLY <2>2, <2>3
<1> DEFINE w == tasks[1].waiter
<1>2. UNCHANGED <<completed, waiters, claimed, entries, fetching, fetches>>
  BY Zenon DEF Resume
<1>3. ASSUME NEW i \in 1 .. Len(tasks'), tasks'[i].waiter \in GateWaiters
      PROVE  /\ gate[tasks'[i].waiter] = "waiting"
             /\ \/ tasks'[i].outcome = "cancelled"
                \/ completed # "open" /\ tasks'[i].outcome = completed
             /\ \A j \in 1 .. Len(tasks') :
                  tasks'[i].waiter = tasks'[j].waiter => i = j
             /\ \A j \in 1 .. Len(waiters) : waiters[j] # tasks'[i].waiter
  <2>1. /\ i + 1 \in 1 .. Len(tasks) /\ tasks'[i] = tasks[i + 1]
        /\ tasks[i + 1].waiter \in GateWaiters
    BY <1>1, <1>3, Zenon
  <2>2. /\ gate[tasks[i + 1].waiter] = "waiting"
        /\ \/ tasks[i + 1].outcome = "cancelled"
           \/ completed # "open" /\ tasks[i + 1].outcome = completed
        /\ \A j \in 1 .. Len(tasks) : tasks[i + 1].waiter = tasks[j].waiter => i + 1 = j
        /\ \A j \in 1 .. Len(waiters) : waiters[j] # tasks[i + 1].waiter
    BY <2>1, Zenon DEF PostedOnce
  <2>3. ASSUME NEW j \in 1 .. Len(tasks'), tasks'[i].waiter = tasks'[j].waiter
        PROVE  i = j
    <3>1. j + 1 \in 1 .. Len(tasks) /\ tasks'[j] = tasks[j + 1]
      BY <1>1, Zenon
    <3>2. i + 1 = j + 1
      BY <2>1, <2>2, <2>3, <3>1, Zenon
    <3> QED
      BY <3>2
  <2> QED
    BY <2>1, <2>2, <2>3, Zenon
<1>4. CASE w \in GateWaiters
  <2>1. /\ gate[w] = "waiting"
        /\ \/ tasks[1].outcome = "cancelled"
           \/ completed # "open" /\ tasks[1].outcome = completed
        /\ \A j \in 1 .. Len(tasks) : w = tasks[j].waiter => 1 = j
        /\ \A j \in 1 .. Len(waiters) : waiters[j] # w
    BY <1>1, <1>4, Zenon DEF PostedOnce
  <2>2. /\ gate' = [gate EXCEPT ![w] = tasks[1].outcome]
        /\ armed' = armed \ {w}
    BY <1>1, <1>4, <2>1, Zenon DEF Resume
  <2>3. \A i \in 1 .. Len(tasks') : tasks'[i].waiter # w
    <3> SUFFICES ASSUME NEW i \in 1 .. Len(tasks') PROVE tasks'[i].waiter # w
      OBVIOUS
    <3>1. i + 1 \in 1 .. Len(tasks) /\ tasks'[i] = tasks[i + 1]
      BY <1>1, Zenon
    <3>2. i + 1 # 1
      OBVIOUS
    <3> QED
      BY <2>1, <3>1, <3>2, Zenon
  <2>4. GatesTypes'
    BY <1>1, <1>2, <2>1, <2>2, Zenon
  <2>5. ListedOnce'
    BY <1>2, <2>1, <2>2 DEF ListedOnce
  <2>6. PostedOnce'
    BY <1>2, <1>3, <2>2, <2>3, Zenon DEF PostedOnce
  <2>7. ArmedIsListed'
    BY <1>2, <2>1, <2>2, Zenon DEF ArmedIsListed
  <2>8. GateWaitEndsOnce' /\ FetchIsCounted'
    BY <1>2, <2>1, <2>2, Zenon DEF GateWaitEndsOnce, FetchIsCounted
  <2> QED
    BY <2>4, <2>5, <2>6, <2>7, <2>8, Zenon
<1>5. CASE w \notin GateWaiters
  <2>1. UNCHANGED <<gate, armed>>
    BY <1>1, <1>5, Zenon DEF Resume
  <2>2. PostedOnce'
    BY <1>2, <1>3, <2>1, Zenon DEF PostedOnce
  <2> QED
    BY <1>1, <1>2, <2>1, <2>2
    DEF ListedOnce, ArmedIsListed, GateWaitEndsOnce, FetchIsCounted
<1> QED
  BY <1>4, <1>5, Zenon

\* Every step of the gate, of the cache and of their executor.
LEMMA GatesInvStep == GatesInv /\ [GateNext \/ CacheNext]_gvars => GatesInv'
<1> SUFFICES ASSUME GatesInv, [GateNext \/ CacheNext]_gvars
             PROVE  GatesInv'
  OBVIOUS
<1>1. ASSUME NEW w \in GateWaiters, WaitOnState(w)
      PROVE  GatesInv'
  BY <1>1, WaitKeepsInv
<1>2. ASSUME NEW w \in GateWaiters, SlotFires(w)
      PROVE  GatesInv'
  BY <1>2, SlotKeepsInv
<1>3. CASE UNCHANGED gvars
  BY <1>3 DEF gvars, GatesInv, GatesTypes, ListedOnce, PostedOnce, ArmedIsListed,
              FetchIsCounted, GateWaitEndsOnce
<1>4. CASE Complete \/ Fail
  BY <1>4, FinishKeepsInv DEF Complete, Fail
<1>5. CASE TryComplete
  BY <1>3, <1>5, FinishKeepsInv DEF TryComplete
<1>6. CASE Resume
  BY <1>6, ResumeKeepsInv
<1>7. ASSUME NEW w \in CacheWaiters, NEW k \in Keys, WaitForKey(w, k)
      PROVE  GatesInv'
  BY <1>7, WaitForKeyKeepsInv
<1>8. CASE StartPending
  BY <1>8, StartKeepsInv DEF StartPending, PendingKeys, CanStart
<1>9. ASSUME NEW k \in Keys, TryStartPrefetch(k)
      PROVE  GatesInv'
  BY <1>9, StartKeepsInv DEF TryStartPrefetch, CanStartPrefetch
<1>10. CASE Fetched
  BY <1>10, CompleteKeyKeepsInv DEF Fetched
<1> QED
  BY <1>1, <1>2, <1>3, <1>4, <1>5, <1>6, <1>7, <1>8, <1>9, <1>10, Zenon
  DEF GateNext, CacheNext

\* However completions, cancellations and deadlines race at a gate, each wait
\* ends once and with the gate's outcome or its own cancellation; and a key is
\* fetched once, for any number of waiters, batches and prefetches
\* (async_completion.h, MakeWaitStart and Finish; async_cache.h, TryStart).
THEOREM EveryWaitEndsOnce == GSpec => []WaitsEndOnce
<1>1. GatesInv => WaitsEndOnce
  <2> SUFFICES ASSUME GatesInv, NEW k \in Keys
               PROVE  fetches[k] <= 1
    BY DEF GatesInv, WaitsEndOnce, KeyIsFetchedOnce
  <2>1. fetches[k] = 0 \/ fetches[k] = 1
    BY DEF GatesInv, FetchIsCounted
  <2> QED
    BY <2>1
<1> QED
  BY <1>1, GatesInvInit, GatesInvStep, PTL DEF GSpec

=============================================================================
