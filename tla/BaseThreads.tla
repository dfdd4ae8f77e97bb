----------------------------- MODULE BaseThreads ----------------------------
(***************************************************************************)
(* Threads below the executors: the guards that notice a call on the wrong *)
(* thread, and an executor with an I/O thread of its own.                  *)
(***************************************************************************)
EXTENDS ThreadExecutor

(***************************************************************************)
(* The two guards against calls on the wrong thread: ThreadChecker, which  *)
(* binds an object to a thread (base/threading/thread_checker.h), and      *)
(* ThreadCollisionWarner, which fails when two threads are in a section at *)
(* once (base/threading/thread_collision_warner.h, debug builds).  The     *)
(* accesses of the atomics are separate steps where the code makes two.    *)
(* A failed Check ends the process: nothing happens after it.              *)
(***************************************************************************)
CONSTANTS GuardThreads,   \* the threads
          MaxSections     \* bound on the sections a thread nests

VARIABLES
  thread_id_,  \* ThreadChecker: the thread bound, or NoThread
  rebinding,   \* the threads that saw none bound and will try to bind
  validated,   \* the threads that a check has let pass since the last detach
  recursive,   \* the warner is used through the recursive lock
  owner_,      \* ThreadCollisionWarner: the thread inside, or NoThread
  depth_,      \* its depth, for the recursive lock
  inside,      \* the sections each thread is in
  panicked     \* a Check has failed

checkerVars == <<thread_id_, rebinding, validated>>
warnerVars == <<recursive, owner_, depth_, inside>>
tgvars == <<checkerVars, warnerVars, panicked>>

\* A default std::thread::id.
NoThread == "no thread"

ASSUME GuardsAssumption ==
  /\ NoThread \notin GuardThreads
  /\ MaxSections \in Nat

TgInit ==
  /\ thread_id_ \in GuardThreads /\ rebinding = {} /\ validated = {}
  /\ recursive \in BOOLEAN /\ owner_ = NoThread /\ depth_ = 0
  /\ inside = [t \in GuardThreads |-> 0]
  /\ panicked = FALSE

-----------------------------------------------------------------------------
(* ThreadChecker *)

\* CheckCalledOnValidThread with the answer of CalledOnValidThread.
CheckCalledOnValidThread(t, valid) ==
  /\ validated' = (IF valid THEN validated \cup {t} ELSE validated)
  /\ panicked' = ~valid

\* The load.  A thread that finds none bound tries to bind itself next.
CalledOnValidThread(t) ==
  /\ ~panicked /\ t \notin rebinding
  /\ IF thread_id_ = NoThread
     THEN rebinding' = rebinding \cup {t} /\ UNCHANGED <<validated, panicked>>
     ELSE CheckCalledOnValidThread(t, thread_id_ = t) /\ UNCHANGED rebinding
  /\ UNCHANGED <<thread_id_, warnerVars>>

\* compare_exchange_strong: the first one is bound, another is compared with it.
Rebind(t) ==
  /\ ~panicked /\ t \in rebinding
  /\ rebinding' = rebinding \ {t}
  /\ thread_id_' = (IF thread_id_ = NoThread THEN t ELSE thread_id_)
  /\ CheckCalledOnValidThread(t, thread_id_' = t)
  /\ UNCHANGED warnerVars

\* The object is handed over: its owner makes no call to it meanwhile.
DetachFromThread ==
  /\ ~panicked /\ rebinding = {}
  /\ thread_id_' = NoThread /\ validated' = {}
  /\ UNCHANGED <<rebinding, warnerVars, panicked>>

-----------------------------------------------------------------------------
(* ThreadCollisionWarner.  A section of the plain lock is not nested: its   *)
(* LeaveSelf would clear the owner while the outer section goes on.         *)

MayEnter(t) == owner_ \in {NoThread, t}

EnterSelf(t) ==
  /\ ~panicked /\ ~recursive /\ inside[t] = 0
  /\ panicked' = ~MayEnter(t)
  /\ IF MayEnter(t) THEN owner_' = t /\ inside' = [inside EXCEPT ![t] = @ + 1]
     ELSE UNCHANGED <<owner_, inside>>
  /\ UNCHANGED <<checkerVars, recursive, depth_>>

LeaveSelf(t) ==
  /\ ~panicked /\ ~recursive /\ inside[t] > 0
  /\ owner_' = NoThread /\ inside' = [inside EXCEPT ![t] = @ - 1]
  /\ UNCHANGED <<checkerVars, recursive, depth_, panicked>>

EnterSelfRecursive(t) ==
  /\ ~panicked /\ recursive /\ inside[t] < MaxSections
  /\ panicked' = ~MayEnter(t)
  /\ IF MayEnter(t)
     THEN owner_' = t /\ depth_' = depth_ + 1 /\ inside' = [inside EXCEPT ![t] = @ + 1]
     ELSE UNCHANGED <<owner_, depth_, inside>>
  /\ UNCHANGED <<checkerVars, recursive>>

LeaveSelfRecursive(t) ==
  /\ ~panicked /\ recursive /\ inside[t] > 0
  /\ depth_' = depth_ - 1 /\ inside' = [inside EXCEPT ![t] = @ - 1]
  /\ owner_' = (IF depth_' = 0 THEN NoThread ELSE owner_)
  /\ UNCHANGED <<checkerVars, recursive, panicked>>

TgNext ==
  \/ DetachFromThread
  \/ \E t \in GuardThreads :
       \/ CalledOnValidThread(t) \/ Rebind(t)
       \/ EnterSelf(t) \/ LeaveSelf(t)
       \/ EnterSelfRecursive(t) \/ LeaveSelfRecursive(t)

TgSpec == TgInit /\ [][TgNext]_tgvars

-----------------------------------------------------------------------------
(* Properties *)

\* Between two detaches at most one thread gets past the checks of an object,
\* although several may find it unbound at the same time: the others are
\* stopped (ThreadChecker::CalledOnValidThread).
OneThreadPasses == \A t, u \in validated : t = u

\* Two threads are never in a section without a panic, and the warner holds
\* nobody who has left: there is no panic without a collision
\* (ThreadCollisionWarner, both locks).
CollisionIsCaught ==
  /\ \A t, u \in GuardThreads : inside[t] > 0 /\ inside[u] > 0 => t = u
  /\ owner_ # NoThread => inside[owner_] > 0

-----------------------------------------------------------------------------
(***************************************************************************)
(* An executor over a task queue with an io_context of its own             *)
(* (AnyExecutorAdapter and PostDelayedTask of base/any_executor.h) and the *)
(* thread that runs the context (IoThread, base/io_thread.cpp).  Copies of *)
(* the executor share a State, which owns the thread and is destroyed with *)
(* the last copy: one held by the user, one by every timer that is waiting *)
(* or whose handler is queued, and one by the I/O thread while it hands a  *)
(* handler over.  asio itself is external; a timer keeps its executor, and *)
(* its wait, until its handler has been called or destroyed.               *)
(***************************************************************************)
CONSTANT IoTasks    \* the tasks posted, each once

VARIABLES
  held,      \* the user holds a copy of the executor
  delay,     \* per task: "unposted", "zero" or "later"
  waits,     \* the tasks whose steady_timer waits
  handing,   \* the task whose handler the I/O thread has just queued, if any
  taskQueue, \* the queue of the wrapped executor
  taskRun,   \* the tasks that have run
  foreign,   \* somebody else waits on the context for what will not come
  guard,     \* work_guard_ holds the context
  stopped,   \* context_.stop() was called
  ioRuns,    \* the I/O thread is in context_.run()
  ending     \* ~State: "no", "begun", "joining", "done", or "self": the I/O thread joins itself

iovars == <<held, delay, waits, handing, taskQueue, taskRun, foreign, guard,
            stopped, ioRuns, ending>>

IoInit ==
  /\ held = TRUE /\ delay = [t \in IoTasks |-> "unposted"]
  /\ waits = {} /\ handing = {} /\ taskQueue = <<>> /\ taskRun = {}
  /\ foreign = FALSE /\ guard = TRUE /\ stopped = FALSE /\ ioRuns = TRUE
  /\ ending = "no"

\* The tasks that keep a copy of the executor: through the timer their handler
\* captures.
Keeping(waiting, giving, queue) ==
  {t \in waiting \cup giving \cup TasksOf(queue) : delay[t] = "later"}

\* A copy is dropped.  The last one begins ~State on the thread that drops it.
Released(by) ==
  ending' = IF ending = "no" /\ ~held' /\ Keeping(waits', handing', taskQueue') = {}
            THEN by ELSE ending

-----------------------------------------------------------------------------

PostLater(t, later) ==
  /\ held /\ delay[t] = "unposted"
  /\ delay' = [delay EXCEPT ![t] = IF later THEN "later" ELSE "zero"]
  /\ waits' = (IF later THEN waits \cup {t} ELSE waits)
  /\ taskQueue' = (IF later THEN taskQueue ELSE Append(taskQueue, t))
  /\ UNCHANGED <<held, handing, taskRun, foreign, guard, stopped, ioRuns, ending>>

\* The timer expires: the I/O thread passes its handler to execute().
Expire(t) ==
  /\ ioRuns /\ ~stopped /\ handing = {} /\ t \in waits
  /\ waits' = waits \ {t} /\ handing' = {t} /\ taskQueue' = Append(taskQueue, t)
  /\ UNCHANGED <<held, delay, taskRun, foreign, guard, stopped, ioRuns, ending>>

\* And then drops its own copy of the executor.
HandedOver ==
  /\ handing # {} /\ handing' = {}
  /\ UNCHANGED <<held, delay, waits, taskQueue, taskRun, foreign, guard, stopped, ioRuns>>
  /\ Released("self")

\* The thread that drains the queue runs a task and destroys it.
DrainTask ==
  /\ taskQueue # <<>> /\ ending # "self"
  /\ taskRun' = taskRun \cup {Head(taskQueue)} /\ taskQueue' = Tail(taskQueue)
  /\ UNCHANGED <<held, delay, waits, handing, foreign, guard, stopped, ioRuns>>
  /\ Released("begun")

DropExecutor ==
  /\ held /\ held' = FALSE
  /\ UNCHANGED <<delay, waits, handing, taskQueue, taskRun, foreign, guard, stopped, ioRuns>>
  /\ Released("begun")

\* Something that does not keep the executor waits on its context.
WaitOnContext ==
  /\ held /\ ~foreign /\ foreign' = TRUE
  /\ UNCHANGED <<held, delay, waits, handing, taskQueue, taskRun, guard, stopped, ioRuns, ending>>

-----------------------------------------------------------------------------

\* ~IoThread up to the join.
StopContext ==
  /\ ending = "begun" /\ ending' = "joining"
  /\ guard' = FALSE /\ stopped' = TRUE
  /\ UNCHANGED <<held, delay, waits, handing, taskQueue, taskRun, foreign, ioRuns>>

\* run() returns when it is stopped, or has nothing left to wait for.
RunReturns ==
  /\ ioRuns /\ handing = {}
  /\ stopped \/ (~guard /\ ~foreign /\ waits = {})
  /\ ioRuns' = FALSE
  /\ UNCHANGED <<held, delay, waits, handing, taskQueue, taskRun, foreign, guard, stopped, ending>>

JoinReturns ==
  /\ ending = "joining" /\ ~ioRuns /\ ending' = "done"
  /\ UNCHANGED <<held, delay, waits, handing, taskQueue, taskRun, foreign, guard, stopped, ioRuns>>

\* What the I/O thread does.
IoStep == HandedOver \/ RunReturns \/ \E t \in IoTasks : Expire(t)

IoNext ==
  \/ \E t \in IoTasks, later \in BOOLEAN : PostLater(t, later)
  \/ IoStep \/ DrainTask \/ DropExecutor \/ WaitOnContext
  \/ StopContext \/ JoinReturns

-----------------------------------------------------------------------------
(* Properties, when the queue is drained, timers expire and the I/O thread *)
(* is scheduled                                                            *)

\* A task posted with a delay runs, even if its poster drops the executor at
\* once: the wait keeps the timer, and the timer the context it waits on
\* (PostDelayedTask of any_executor.h).
DelayedIsRun == \A t \in IoTasks : delay[t] = "later" ~> t \in taskRun

\* Once the user has dropped the executor its thread is joined, whatever else
\* waits on the context (IoThread::~IoThread, AnyExecutorAdapter::State), unless
\* the I/O thread is the last to hold it.
ContextEnds == ~held ~> ending \in {"done", "self"}

\* The I/O thread never joins itself.  TLC refutes this: when the draining
\* thread runs and destroys the last handler before the I/O thread, which
\* queued it, drops its own copy of the executor, ~IoThread runs there.
NeverJoinsItself == ending # "self"

\* A worker runs its tasks in order and sleeps over none, no second thread gets
\* past the guard of an object, and no collision of threads goes unnoticed
\* (thread_executor.cpp, thread_checker.h, thread_collision_warner.h).
ThreadsAreSound == TasksAreSound /\ OneThreadPasses /\ CollisionIsCaught
=============================================================================
