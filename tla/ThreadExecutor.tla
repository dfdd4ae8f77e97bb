--------------------------- MODULE ThreadExecutor ---------------------------
(***************************************************************************)
(* base/thread_executor.cpp: one worker thread that runs posted tasks, a   *)
(* queue of immediate tasks, a priority queue of delayed ones, one mutex   *)
(* and one condition variable, and Shutdown from another thread or from a  *)
(* task of the executor's own.                                             *)
(*                                                                         *)
(* stopped_ is atomic and is set outside the mutex, so the worker can test *)
(* it and begin to wait with a whole Stop in between: that is why GetTask  *)
(* is several actions, the test and the rest of the critical section.      *)
(***************************************************************************)
EXTENDS Naturals, Sequences, FiniteSets

CONSTANTS
  Tasks,       \* the tasks that may be posted, each once
  Delay,       \* the delay of each task; zero is an immediate task
  MaxTime,     \* bound: the clock stops here, and nothing is due later
  OwnStop      \* the tasks that may call Shutdown themselves

ASSUME ThreadExecutorAssumption ==
  /\ IsFiniteSet(Tasks) /\ Delay \in [Tasks -> Nat] /\ MaxTime \in Nat
  /\ OwnStop \subseteq Tasks

VARIABLES
  task_queue_,          \* tasks to run at once
  pending_task_queue_,  \* delayed tasks: [task, time, sequence]
  sequence_,            \* orders delayed tasks of one time
  stopped_,
  pc,        \* the worker: "outer", "lock", "hold", "waiting", "run", "drain", "done"
  current,   \* the task the worker runs, as a set of at most one
  ran,       \* the tasks that ran, in order
  stop,      \* the other thread's Shutdown: "idle", "set", "notify", "join",
             \* then "early", "joined" or "invalid" (joins a detached thread)
  detached,  \* thread_.detach() happened
  before,    \* ghost: the tasks posted before the other thread's Shutdown
  posted,    \* ghost: the tasks posted, in order
  now        \* Clock::now()

vars == <<task_queue_, pending_task_queue_, sequence_, stopped_, pc, current,
          ran, stop, detached, before, posted, now>>

\* The tasks of a queue.
TasksOf(queue) == {queue[i] : i \in DOMAIN queue}

Immediate == {t \in Tasks : Delay[t] = 0}

TypeOK ==
  /\ task_queue_ \in Seq(Tasks)
  /\ pending_task_queue_ \subseteq [task : Tasks, time : Nat, sequence : Nat]
  /\ sequence_ \in Nat /\ now \in 0 .. MaxTime
  /\ stopped_ \in BOOLEAN /\ detached \in BOOLEAN
  /\ pc \in {"outer", "lock", "hold", "waiting", "run", "drain", "done"}
  /\ current \subseteq Tasks /\ (pc = "run" <=> current # {})
  /\ ran \in Seq(Tasks) /\ posted \in Seq(Tasks) /\ before \subseteq Tasks
  /\ stop \in {"idle", "set", "notify", "join", "early", "joined", "invalid"}

Init ==
  /\ task_queue_ = <<>> /\ pending_task_queue_ = {} /\ sequence_ = 0
  /\ stopped_ = FALSE /\ pc = "outer" /\ current = {} /\ ran = <<>>
  /\ stop = "idle" /\ detached = FALSE
  /\ before = {} /\ posted = <<>> /\ now = 0

\* condition_.notify_one and notify_all: they reach a worker that waits, and
\* are lost on one that does not.
Notified == IF pc = "waiting" THEN "lock" ELSE pc

\* PostDelayedTask from any thread, the tasks of the executor included. The
\* mutex is free except between the worker's test of stopped_ and its wait.
PostDelayedTask(t) ==
  /\ pc # "hold" /\ t \notin TasksOf(posted) /\ now + Delay[t] <= MaxTime
  /\ IF Delay[t] = 0
     THEN /\ task_queue_' = Append(task_queue_, t)
          /\ UNCHANGED <<pending_task_queue_, sequence_>>
     ELSE /\ pending_task_queue_' = pending_task_queue_ \cup
               {[task |-> t, time |-> now + Delay[t], sequence |-> sequence_]}
          /\ sequence_' = sequence_ + 1
          /\ UNCHANGED task_queue_
  /\ pc' = Notified
  /\ posted' = Append(posted, t)
  /\ UNCHANGED <<stopped_, current, ran, stop, detached, before, now>>

\* The order of PendingTask. std::priority_queue keeps its greatest element on
\* top: the task with the latest time, and of those the last one posted.
Precedes(p, q) ==
  IF p.time # q.time THEN p.time < q.time ELSE p.sequence < q.sequence

IsDue(p) == now >= p.time

\* The delayed tasks that are due and on top: at most one.
DueTop == {p \in pending_task_queue_ :
             IsDue(p) /\ \A q \in pending_task_queue_ : q = p \/ Precedes(q, p)}

\* The worker's outer loop tests stopped_ without the mutex.
WorkerLoop ==
  /\ pc = "outer"
  /\ pc' = IF stopped_ THEN "drain" ELSE "lock"
  /\ UNCHANGED <<task_queue_, pending_task_queue_, sequence_, stopped_, current,
                 ran, stop, detached, before, posted, now>>

\* GetTask takes the mutex, at entry or as the wait returns, and tests stopped_.
GetTaskTest ==
  /\ pc = "lock"
  /\ pc' = IF stopped_ THEN "outer" ELSE "hold"
  /\ UNCHANGED <<task_queue_, pending_task_queue_, sequence_, stopped_, current,
                 ran, stop, detached, before, posted, now>>

\* GetTask moves a due task, under the mutex. It looks at the top only.
MoveDueTask ==
  /\ pc = "hold"
  /\ \E p \in DueTop : /\ task_queue_' = Append(task_queue_, p.task)
                        /\ pending_task_queue_' = pending_task_queue_ \ {p}
  /\ UNCHANGED <<sequence_, stopped_, pc, current, ran, stop, detached, before,
                 posted, now>>

\* The rest of an iteration of GetTask: it takes a task, or waits.
GetTask ==
  /\ pc = "hold" /\ DueTop = {}
  /\ IF task_queue_ = <<>>
     THEN pc' = "waiting" /\ UNCHANGED <<task_queue_, current>>
     ELSE /\ pc' = "run" /\ current' = {Head(task_queue_)}
          /\ task_queue_' = Tail(task_queue_)
  /\ UNCHANGED <<pending_task_queue_, sequence_, stopped_, ran, stop, detached,
                 before, posted, now>>

\* wait_for ends at the time of the top of the queue, the latest one.
WaitTimeout ==
  /\ pc = "waiting" /\ DueTop # {}
  /\ pc' = "lock"
  /\ UNCHANGED <<task_queue_, pending_task_queue_, sequence_, stopped_, current,
                 ran, stop, detached, before, posted, now>>

\* The worker runs a task of its loop. The task may call Shutdown: Stop on the
\* worker's own thread, which detaches it.
RunTask ==
  /\ pc = "run" /\ pc' = "outer"
  /\ \E t \in current : ran' = Append(ran, t)
  /\ current' = {}
  /\ \/ UNCHANGED <<stopped_, detached>>
     \/ /\ current \subseteq OwnStop /\ ~stopped_
        /\ stopped_' = TRUE /\ detached' = TRUE
  /\ UNCHANGED <<task_queue_, pending_task_queue_, sequence_, stop, before,
                 posted, now>>

\* Mutant: the queue is drained from its back.
DrainNewestFirst ==
  /\ pc = "drain"
  /\ IF task_queue_ = <<>>
     THEN pc' = "done" /\ UNCHANGED <<task_queue_, ran>>
     ELSE /\ ran' = Append(ran, task_queue_[Len(task_queue_)])
          /\ task_queue_' = SubSeq(task_queue_, 1, Len(task_queue_) - 1)
          /\ UNCHANGED pc
  /\ UNCHANGED <<pending_task_queue_, sequence_, stopped_, current, stop,
                 detached, before, posted, now>>

\* The loop after it: GetImmediateTask and the run of what it returns, until
\* the queue is empty. A Shutdown by these tasks finds stopped_ set.
GetImmediateTask ==
  /\ pc = "drain"
  /\ IF task_queue_ = <<>>
     THEN pc' = "done" /\ UNCHANGED <<task_queue_, ran>>
     ELSE /\ ran' = Append(ran, Head(task_queue_))
          /\ task_queue_' = Tail(task_queue_)
          /\ UNCHANGED pc
  /\ UNCHANGED <<pending_task_queue_, sequence_, stopped_, current, stop,
                 detached, before, posted, now>>

\* Stop on another thread: the test of stopped_, its assignment, notify_all and
\* join, each a step of its own.
StopTest ==
  /\ stop = "idle"
  /\ before' = TasksOf(posted)
  /\ stop' = IF stopped_ THEN "early" ELSE "set"
  /\ UNCHANGED <<task_queue_, pending_task_queue_, sequence_, stopped_, pc,
                 current, ran, detached, posted, now>>

StopSet ==
  /\ stop = "set" /\ stop' = "notify" /\ stopped_' = TRUE
  /\ UNCHANGED <<task_queue_, pending_task_queue_, sequence_, pc, current, ran,
                 detached, before, posted, now>>

StopNotify ==
  /\ stop = "notify" /\ stop' = "join" /\ pc' = Notified
  /\ UNCHANGED <<task_queue_, pending_task_queue_, sequence_, stopped_, current,
                 ran, detached, before, posted, now>>

StopJoin ==
  /\ stop = "join" /\ (pc = "done" \/ detached)
  /\ stop' = IF detached THEN "invalid" ELSE "joined"
  /\ UNCHANGED <<task_queue_, pending_task_queue_, sequence_, stopped_, pc,
                 current, ran, detached, before, posted, now>>

Tick ==
  /\ now < MaxTime /\ now' = now + 1
  /\ UNCHANGED <<task_queue_, pending_task_queue_, sequence_, stopped_, pc,
                 current, ran, stop, detached, before, posted>>

Worker == \/ WorkerLoop \/ GetTaskTest \/ MoveDueTask \/ GetTask
          \/ WaitTimeout \/ RunTask \/ GetImmediateTask

Stop == StopTest \/ StopSet \/ StopNotify \/ StopJoin

Next == Worker \/ Stop \/ Tick \/ \E t \in Tasks : PostDelayedTask(t)

Spec == Init /\ [][Next]_vars

\* The threads are scheduled: the worker always, the other one once it has
\* called Shutdown. Whether anyone posts or calls Shutdown is not assumed.
Fairness == /\ WF_vars(Worker)
            /\ WF_vars(StopSet \/ StopNotify \/ StopJoin)
            /\ WF_vars(Tick)

FairSpec == Spec /\ Fairness
-----------------------------------------------------------------------------
\* Immediate tasks run in the order in which they were posted, each at most
\* once, across the change from the worker's loop to the draining of the queue.
RunsInOrder ==
  \A j \in DOMAIN ran : ran[j] \in Immediate =>
    \E q \in DOMAIN posted :
      /\ posted[q] = ran[j]
      /\ \A p \in 1 .. q - 1 : posted[p] \in Immediate =>
           \E i \in 1 .. j - 1 : ran[i] = posted[p]
      /\ \A i \in 1 .. j - 1 : ran[i] \in Immediate =>
           \E p \in 1 .. q - 1 : posted[p] = ran[i]

\* A worker that waits without a notification has no task to run: a task posted
\* between its look at the queue and its wait is not missed (the mutex of
\* PostDelayedTask and GetTask).
NoMissedTask == pc = "waiting" => task_queue_ = <<>>

\* A Shutdown that joined the worker returns with every immediate task run that
\* was posted before the call (the loop after the worker's outer loop).
JoinDrains == stop = "joined" => before \cap Immediate \subseteq TasksOf(ran)

\* Tasks are run in order, not slept over, and drained by a shutdown.
TasksAreSound == RunsInOrder /\ NoMissedTask /\ JoinDrains

\* "Blocks until all pending tasks are executed and stops the executor":
\* Shutdown returns with every task run that was posted before the call.  TLC
\* refutes it: delayed tasks are dropped.
ShutdownRunsPending ==
  stop \in {"early", "joined"} => before \subseteq TasksOf(ran)

\* A task posted to an executor that is not stopped runs; a delayed one unless
\* the executor is stopped first, however late the other delayed tasks are that
\* the priority queue puts before it (wait_for).
AcceptedIsRun ==
  \A t \in Tasks :
    (t \in TasksOf(posted) /\ ~stopped_)
      ~> (t \in TasksOf(ran) \/ (t \notin Immediate /\ stopped_))

\* Shutdown on another thread returns.
ShutdownReturns == stop \in {"set", "notify", "join"} ~> stop \in {"joined", "invalid"}
=============================================================================
