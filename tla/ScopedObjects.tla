---------------------------- MODULE ScopedObjects ---------------------------
(***************************************************************************)
(* Objects whose lifetime is a promise: timers and cancellations of an      *)
(* executor, and what a scope sets and restores.                           *)
(***************************************************************************)
EXTENDS Naturals, Sequences, FiniteSets, SequencesExt

(***************************************************************************)
(* Timers and cancellable tasks of an executor: AnyExecutorTimer           *)
(* (base/any_executor_timer.h; base/timer.h has the same shape on an       *)
(* io_context), PostDelayedTask (base/any_executor.h), StartRepeatableTimer*)
(* and tasks bound to a Cancelation (base/cancelation.h,                   *)
(* base/any_executor_dispatch.h).                                          *)
(*                                                                         *)
(* A callback may stop or restart its own timer, and cancel its own tasks. *)
(* A wait that expired is queued; cancelling its timer comes too late.     *)
(***************************************************************************)
CONSTANTS
  MaxCores,    \* bound: timer starts in a behaviour
  MaxTasks     \* bound: tasks posted in a behaviour

VARIABLES
  timer_core_, \* AnyExecutorTimer::core_, 0 when there is none
  cores,       \* number of cores made so far
  repeating,   \* the cores started by StartRepeating
  waits,       \* waits of the cores' timers: <<core, "armed" | "expired">>
  running_core,\* the core whose callback runs, 0 when none does
  generation,  \* Cancelation::shared_ptr_, replaced by Cancel
  tasks_,      \* tasks on their way: what they are, and what they are bound to
  posts,       \* number of tasks posted so far
  ran_late     \* something ran after its owner had given it up

tvars == <<timer_core_, cores, repeating, waits, running_core, generation, tasks_, posts,
           ran_late>>

timerVars == <<timer_core_, cores, repeating, waits, running_core>>

TInit ==
  /\ timer_core_ = 0 /\ cores = 0 /\ repeating = {} /\ waits = {} /\ running_core = 0
  /\ generation = 0 /\ tasks_ = <<>> /\ posts = 0 /\ ran_late = FALSE

-----------------------------------------------------------------------------
(* AnyExecutorTimer *)

\* A core is kept by the timer object and by its own running callback.
Alive(core, owner, callback) == core # 0 /\ core \in {owner, callback}

\* Mutant: a core that goes away leaves its wait armed.
NotDestroyed(owner, callback, pending) == pending

\* ~Core cancels the wait that is still armed.
CoreDestroyed(owner, callback, pending) ==
  {w \in pending : w[2] = "expired" \/ Alive(w[1], owner, callback)}

\* StartOne and StartRepeating: a new core takes the place of the old one.
StartTimer(again) ==
  /\ cores < MaxCores
  /\ cores' = cores + 1 /\ timer_core_' = cores'
  /\ repeating' = IF again THEN repeating \cup {cores'} ELSE repeating
  /\ waits' = CoreDestroyed(timer_core_', running_core, waits \cup {<<cores', "armed">>})
  /\ UNCHANGED <<running_core, generation, tasks_, posts, ran_late>>

StopTimer ==
  /\ timer_core_ # 0
  /\ timer_core_' = 0
  /\ waits' = CoreDestroyed(0, running_core, waits)
  /\ UNCHANGED <<cores, repeating, running_core, generation, tasks_, posts, ran_late>>

Expires ==
  \E w \in waits :
    /\ w[2] = "armed"
    /\ waits' = (waits \ {w}) \cup {<<w[1], "expired">>}
    /\ UNCHANGED <<timer_core_, cores, repeating, running_core, generation, tasks_, posts,
                   ran_late>>

\* weak_core.lock()
Lock(core) == Alive(core, timer_core_, running_core)

\* The handler of an expired wait calls the callback of a core that is alive.
CallbackStarts ==
  /\ running_core = 0
  /\ \E w \in waits :
       /\ w[2] = "expired"
       /\ waits' = waits \ {w}
       /\ IF Lock(w[1])
          THEN running_core' = w[1] /\ ran_late' = (ran_late \/ w[1] # timer_core_)
          ELSE UNCHANGED <<running_core, ran_late>>
  /\ UNCHANGED <<timer_core_, cores, repeating, generation, tasks_, posts>>

\* The callback returned: a repeating core that is still there starts again.
CallbackReturns ==
  /\ running_core # 0
  /\ running_core' = 0
  /\ waits' = CoreDestroyed(timer_core_, 0,
                waits \cup (IF running_core \in repeating /\ running_core = timer_core_
                            THEN {<<running_core, "armed">>} ELSE {}))
  /\ UNCHANGED <<timer_core_, cores, repeating, generation, tasks_, posts, ran_late>>

-----------------------------------------------------------------------------
(* Bound tasks *)

\* Dispatch, BindExecutor and CoSpawn with a Cancelation, a weak pointer or a
\* stop token, and StartRepeatableTimer, all hand over a task with a reference
\* to what may cancel it.
Bind(again) == [bound |-> generation, again |-> again]

Dispatch(again) ==
  /\ posts < MaxTasks
  /\ posts' = posts + 1
  /\ tasks_' = Append(tasks_, Bind(again))
  /\ UNCHANGED <<timerVars, generation, ran_late>>

Cancel ==
  /\ generation = 0
  /\ generation' = generation + 1
  /\ UNCHANGED <<timerVars, tasks_, posts, ran_late>>

Canceled(task) == task.bound # generation

\* A posted task runs if its reference is still alive; a repeatable one posts
\* itself again, with the reference it has.
RunTimerTask ==
  /\ running_core = 0 /\ tasks_ # <<>>
  /\ LET task == Head(tasks_)
     IN IF Canceled(task)
        THEN tasks_' = Tail(tasks_) /\ UNCHANGED ran_late
        ELSE /\ ran_late' = (ran_late \/ task.bound # generation)
             /\ tasks_' = Tail(tasks_) \o (IF task.again THEN <<task>> ELSE <<>>)
  /\ UNCHANGED <<timerVars, generation, posts>>

TNext ==
  \/ \E again \in BOOLEAN : StartTimer(again)
  \/ StopTimer \/ Expires \/ CallbackStarts \/ CallbackReturns
  \/ \E again \in BOOLEAN : Dispatch(again)
  \/ Cancel \/ RunTimerTask

-----------------------------------------------------------------------------
(* Properties *)

\* Nothing runs after its owner gave it up: a timer that was stopped or started
\* anew does not call its old callback, though the old wait had expired and was
\* queued, and a cancelled task does not run (any_executor_timer.h, Core::Start;
\* cancelation.h, CancelationWrapper).
GivenUpIsSilent == ~ran_late

\* A timer has one live wait: a callback that restarts its own repeating timer
\* leaves no second chain of callbacks, and a stopped timer keeps nothing armed
\* that would hold up the shutdown of its executor (any_executor_timer.h,
\* Core::Start and ~Core).
OneWaitIsArmed ==
  /\ Cardinality({w \in waits : w[2] = "armed"}) <= 1
  /\ (timer_core_ = 0 /\ running_core = 0) => \A w \in waits : w[2] = "expired"

-----------------------------------------------------------------------------
(***************************************************************************)
(* Objects whose destructor undoes or finishes something: AutoReset and    *)
(* the meter provider of OpenTelemetryMetrics, which save a value and put  *)
(* it back; Cell, which tells a handler of every change; AtExitManager,    *)
(* which runs callbacks at the end; the exporting runtimes                 *)
(* OpenTelemetryTraces and OpenTelemetryLogs, which flush what they hold.  *)
(***************************************************************************)
CONSTANTS
  CellValues,     \* a set with FALSE, the value of a new cell
  MaxScopes,      \* bound: scopes open at once, callbacks registered
  MaxTold         \* bound: changes told, spans ended

VARIABLES
  covered,         \* the value an AutoReset, or the global provider, covers
  scopes,         \* the open scopes, the innermost last: the value each saved
  cell,           \* Cell: alive, value_ and what the handler was told
  exits,          \* AtExitManager: callbacks_, the ones that ran, state
  runtime         \* a batch processor: alive, ended spans, buffer, exported

\* OpenTelemetryLogs::Impl, and in the same shape OpenTelemetryTraces::Impl: a
\* provider with a batch processor, flushed and shut down by the destructor.
BatchRuntime == [alive |-> TRUE, ended |-> 0, buffer |-> 0, exported |-> 0]

svars == <<covered, scopes, cell, exits, runtime>>

SInit ==
  /\ covered = 0 /\ scopes = <<>>
  /\ cell = [alive |-> TRUE, value_ |-> FALSE, told |-> <<>>]
  /\ exits = [callbacks_ |-> <<>>, registered |-> <<>>, ran |-> <<>>, state |-> "open",
              late |-> FALSE]
  /\ runtime = BatchRuntime

-----------------------------------------------------------------------------
(* Saving and restoring *)

\* AutoReset::AutoReset, and the meter provider that OpenTelemetryMetrics
\* installs while it lives.
OpenScope(value) ==
  /\ Len(scopes) < MaxScopes
  /\ scopes' = Append(scopes, covered) /\ covered' = value
  /\ UNCHANGED <<cell, exits, runtime>>

AutoResetScope == OpenScope(1)
MeterScope == OpenScope(2)

\* The destructors; scopes of a thread end in the order opposite to their start.
CloseScope ==
  /\ scopes # <<>>
  /\ covered' = Last(scopes) /\ scopes' = Front(scopes)
  /\ UNCHANGED <<cell, exits, runtime>>

-----------------------------------------------------------------------------
(* Cell *)

ChangeHandler(c, value) == [c EXCEPT !.told = Append(@, value)]

\* Cell::Set, from a handler that sets the cell to `again` when told of a value
\* (to the value itself when it does not).
SetCell(c, value, again) ==
  IF c.value_ = value THEN c
  ELSE LET told == ChangeHandler([c EXCEPT !.value_ = value], value) IN
       IF again = told.value_ THEN told
       ELSE ChangeHandler([told EXCEPT !.value_ = again], again)

Set(value, again) ==
  /\ cell.alive /\ Len(cell.told) < MaxTold
  /\ cell' = SetCell(cell, value, again)
  /\ UNCHANGED <<covered, scopes, exits, runtime>>

DestroyCell ==
  /\ cell.alive
  /\ cell' = [IF cell.value_ # FALSE THEN ChangeHandler(cell, FALSE) ELSE cell
              EXCEPT !.alive = FALSE]
  /\ UNCHANGED <<covered, scopes, exits, runtime>>

-----------------------------------------------------------------------------
(* AtExitManager *)

RegisterCallback(id) ==
  /\ exits.state = "open" /\ id = Len(exits.registered) + 1 /\ id <= MaxScopes
  /\ exits' = [exits EXCEPT !.callbacks_ = Append(@, id), !.registered = Append(@, id)]
  /\ UNCHANGED <<covered, scopes, cell, runtime>>

\* ~AtExitManager: runs the top callback, then pops the top.  A callback that
\* registers another one has that one popped in its place.
RunTop ==
  /\ exits.state # "done" /\ exits.callbacks_ # <<>> /\ Len(exits.ran) <= MaxScopes
  /\ exits' = [exits EXCEPT !.ran = Append(@, Last(exits.callbacks_)),
                            !.callbacks_ = Front(@), !.state = "exiting"]
  /\ UNCHANGED <<covered, scopes, cell, runtime>>

RunRegistering ==
  /\ exits.state # "done" /\ exits.callbacks_ # <<>> /\ Len(exits.ran) <= MaxScopes
  /\ exits' = [exits EXCEPT !.ran = Append(@, Last(exits.callbacks_)),
                            !.state = "exiting", !.late = TRUE]
  /\ UNCHANGED <<covered, scopes, cell, runtime>>

EndExit ==
  /\ exits.state # "done" /\ exits.callbacks_ = <<>>
  /\ exits' = [exits EXCEPT !.state = "done"]
  /\ UNCHANGED <<covered, scopes, cell, runtime>>

-----------------------------------------------------------------------------
(* Exporting runtimes: a batch processor exports what it has from time to   *)
(* time; a shutdown drops the rest (external).                              *)

Flushed(r) == [r EXCEPT !.exported = @ + r.buffer, !.buffer = 0]
Shutdown(r) == [r EXCEPT !.buffer = 0, !.alive = FALSE]

EmitSpan ==
  /\ runtime.alive /\ runtime.ended < MaxTold
  /\ runtime' = [runtime EXCEPT !.ended = @ + 1, !.buffer = @ + 1]
  /\ UNCHANGED <<covered, scopes, cell, exits>>

ForceFlush ==
  /\ runtime.alive /\ runtime.buffer > 0
  /\ runtime' = Flushed(runtime)
  /\ UNCHANGED <<covered, scopes, cell, exits>>

\* ~Impl of the traces and of the logs, whose flush ends within its five seconds.
DestroyRuntime ==
  /\ runtime.alive
  /\ runtime' = Shutdown(Flushed(runtime))
  /\ UNCHANGED <<covered, scopes, cell, exits>>

-----------------------------------------------------------------------------
SNext ==
  \/ AutoResetScope \/ MeterScope
  \/ CloseScope
  \/ \E value, again \in CellValues : Set(value, again)
  \/ DestroyCell
  \/ \E id \in 1..MaxScopes : RegisterCallback(id)
  \/ RunTop \/ RunRegistering \/ EndExit
  \/ EmitSpan \/ ForceFlush \/ DestroyRuntime

-----------------------------------------------------------------------------
(* Properties *)

\* Whatever was covered, told, registered or buffered is settled by the
\* destructors: the covered value is back when the last scope ends; the handler
\* of a cell knows its value at every moment, even one that sets the cell
\* again, is never told the same value twice in a row and ends with FALSE;
\* exit callbacks run once each, the latest first, unless one of them registers
\* another; every span ended is exported before its runtime is gone (AutoReset,
\* Cell, AtExitManager, OpenTelemetryTraces, OpenTelemetryMetrics).
EverythingIsSettled ==
  /\ scopes = <<>> => covered = 0
  /\ IF cell.told = <<>> THEN cell.value_ = FALSE
     ELSE Last(cell.told) = (IF cell.alive THEN cell.value_ ELSE FALSE)
  /\ \A n \in 1..Len(cell.told) - 1 : cell.told[n] # cell.told[n + 1]
  /\ exits.state = "done" /\ ~exits.late => exits.ran = Reverse(exits.registered)
  /\ ~runtime.alive => runtime.exported = runtime.ended
=============================================================================
