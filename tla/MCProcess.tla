------------------------------- MODULE MCProcess -------------------------------
(***************************************************************************)
(* The parts of one process that work without a connection, on small       *)
(* instances: the client facade, its events and its debugger; the serving  *)
(* gate and the merged stream it guards; telemetry, logging, paths and the *)
(* objects that clean up; timers, observer lists, containers and the view  *)
(* event queue.  They share no state, so a behavior follows the one that   *)
(* focus names.                                                            *)
(***************************************************************************)
EXTENDS ClientApi, Telemetry, Logging, WireEvents, ServingGates, ProcessSetup,
        ScopedObjects, Containers, MultiplexStream

VARIABLE focus

processVars == <<focus, cvars, ivars, uvars, lrvars, mvars, evvars, dvars, gavars, pvars,
          svars, lsvars, psvars, tvars, ovars, nvars, vvars, vars>>

\* Names of executables with the parentheses and spaces the line is split at.
MCCommTexts == UNION {[1..n -> {CloseSymbol, SpaceSymbol, OpenSymbol, 1}] : n \in 0..4}
MCTicksPerSecond == {-1, 0, 2, 3}

-----------------------------------------------------------------------------
\* A part that is not followed starts in one of its initial states.
ProcessInit ==
  /\ focus \in {"calls", "items", "tracing", "logs", "meter", "summary", "events", "debugger", "gates",
               "paths", "scopes", "sinks", "start", "timers", "observers", "containers", "view", "merged"}
  /\ CInit /\ IInit /\ UInit /\ LrInit
  /\ EvInit /\ DInit /\ GaInit /\ PInit /\ SInit /\ LsInit /\ TInit /\ OInit
  /\ NInit /\ VInit /\ Init
  /\ focus # "merged" => one_thread
  /\ focus # "calls" => services_ = {} /\ stored = <<>>
  /\ focus # "items" => offered
  /\ focus # "tracing" => timeout_
  /\ focus # "debugger" => log_params = {}
  /\ focus # "containers" => part = "mru"
  /\ IF focus = "meter" THEN MInit
     ELSE MInit /\ attributes_ = "m"
                /\ \A t \in Recorders : recorder[t].record.kind = "counter"
                                        /\ recorder[t].call = "unset"
  /\ IF focus = "start" THEN PsInit
     ELSE PsInit /\ proc.comm = <<>> /\ proc.ticks = 0 /\ proc.boot = <<>>
                 /\ proc.before = <<>> /\ proc.tick_rate = 0

ProcessNext ==
  \/ /\ focus = "calls" /\ CNext
     /\ UNCHANGED <<focus, ivars, uvars, lrvars, mvars, evvars, dvars, gavars, pvars,
                    svars, lsvars, psvars, tvars, ovars, nvars, vvars, vars>>
  \/ /\ focus = "items" /\ INext
     /\ UNCHANGED <<focus, cvars, uvars, lrvars, mvars, evvars, dvars, gavars, pvars,
                    svars, lsvars, psvars, tvars, ovars, nvars, vvars, vars>>
  \/ /\ focus = "tracing" /\ UNext
     /\ UNCHANGED <<focus, cvars, ivars, lrvars, mvars, evvars, dvars, gavars, pvars,
                    svars, lsvars, psvars, tvars, ovars, nvars, vvars, vars>>
  \/ /\ focus = "logs" /\ LrNext
     /\ UNCHANGED <<focus, cvars, ivars, uvars, mvars, evvars, dvars, gavars, pvars,
                    svars, lsvars, psvars, tvars, ovars, nvars, vvars, vars>>
  \/ /\ focus = "meter" /\ MNext
     /\ UNCHANGED <<focus, cvars, ivars, uvars, lrvars, evvars, dvars, gavars, pvars,
                    svars, lsvars, psvars, tvars, ovars, nvars, vvars, vars>>
  \/ /\ focus = "summary" /\ SummaryNext
     /\ UNCHANGED <<focus, cvars, ivars, uvars, lrvars, evvars, dvars, gavars, pvars,
                    svars, lsvars, psvars, tvars, ovars, nvars, vvars, vars>>
  \/ /\ focus = "events" /\ EvNext
     /\ UNCHANGED <<focus, cvars, ivars, uvars, lrvars, mvars, dvars, gavars, pvars,
                    svars, lsvars, psvars, tvars, ovars, nvars, vvars, vars>>
  \/ /\ focus = "debugger" /\ DNext
     /\ UNCHANGED <<focus, cvars, ivars, uvars, lrvars, mvars, evvars, gavars, pvars,
                    svars, lsvars, psvars, tvars, ovars, nvars, vvars, vars>>
  \/ /\ focus = "gates" /\ GaNext
     /\ UNCHANGED <<focus, cvars, ivars, uvars, lrvars, mvars, evvars, dvars, pvars,
                    svars, lsvars, psvars, tvars, ovars, nvars, vvars, vars>>
  \/ /\ focus = "paths" /\ PNext
     /\ UNCHANGED <<focus, cvars, ivars, uvars, lrvars, mvars, evvars, dvars, gavars,
                    svars, lsvars, psvars, tvars, ovars, nvars, vvars, vars>>
  \/ /\ focus = "scopes" /\ SNext
     /\ UNCHANGED <<focus, cvars, ivars, uvars, lrvars, mvars, evvars, dvars, gavars,
                    pvars, lsvars, psvars, tvars, ovars, nvars, vvars, vars>>
  \/ /\ focus = "sinks" /\ LsNext
     /\ UNCHANGED <<focus, cvars, ivars, uvars, lrvars, mvars, evvars, dvars, gavars,
                    pvars, svars, psvars, tvars, ovars, nvars, vvars, vars>>
  \/ /\ focus = "start" /\ PsNext
     /\ UNCHANGED <<focus, cvars, ivars, uvars, lrvars, mvars, evvars, dvars, gavars,
                    pvars, svars, lsvars, tvars, ovars, nvars, vvars, vars>>
  \/ /\ focus = "timers" /\ TNext
     /\ UNCHANGED <<focus, cvars, ivars, uvars, lrvars, mvars, evvars, dvars, gavars,
                    pvars, svars, lsvars, psvars, ovars, nvars, vvars, vars>>
  \/ /\ focus = "observers" /\ ONext
     /\ UNCHANGED <<focus, cvars, ivars, uvars, lrvars, mvars, evvars, dvars, gavars,
                    pvars, svars, lsvars, psvars, tvars, nvars, vvars, vars>>
  \/ /\ focus = "containers" /\ NNext
     /\ UNCHANGED <<focus, cvars, ivars, uvars, lrvars, mvars, evvars, dvars, gavars,
                    pvars, svars, lsvars, psvars, tvars, ovars, vvars, vars>>
  \/ /\ focus = "view" /\ VNext
     /\ UNCHANGED <<focus, cvars, ivars, uvars, lrvars, mvars, evvars, dvars, gavars,
                    pvars, svars, lsvars, psvars, tvars, ovars, nvars, vars>>
  \/ /\ focus = "merged" /\ Next
     /\ UNCHANGED <<focus, cvars, ivars, uvars, lrvars, mvars, evvars, dvars, gavars,
                    pvars, svars, lsvars, psvars, tvars, ovars, nvars, vvars>>

ProcessSpec == ProcessInit /\ [][ProcessNext]_processVars

-----------------------------------------------------------------------------
(* The properties of the parts, by what they promise. *)

\* A gate that is blocked is closed for everyone: every subscription is swept,
\* with the status it was blocked with, no live value outlasts the sweep, and a
\* reader that sleeps can be woken (serving_gate.h and the merged queue).
GateIsEnforced ==
  /\ EveryoneIsSwept /\ BlockedStatusIsGiven /\ NoLiveValueWhileBlocked
  /\ WaitingIsWoken

\* Nothing comes after its end: no handler is called after its subscription was
\* given up or failed, no span is reported late after it ended.
NothingComesLate == HandlerIsQuiet /\ EndedIsNotLate

\* The client sees its session as it is: events in order, each once, and the
\* requests somebody waits for in the debugger.
SessionIsFollowed == EventsArriveInOrder /\ DebuggerShowsWaiting

\* Telemetry says what happened: spans in the trace of their parent and no timer
\* left for one that ended, log records that no tag can falsify, metrics that
\* lose no sample of any thread.
TelemetryIsTrue ==
  /\ EndedIsDisarmed /\ TraceIsJoined /\ RecordIsWhole /\ NothingIsLost
  /\ ToldIsReadable /\ SummaryIsExact

\* The process-wide services answer for one moment and settle what they took:
\* paths, scopes and exit callbacks, log sinks, the start time.
ProcessIsInOrder ==
  /\ AnswerIsOfOneMoment /\ EverythingIsSettled /\ ConsoleIsAsConfigured
  /\ StartTimeIsTheKernels

\* The objects of base/ keep their word under any sequence of calls, their own
\* callbacks' included: timers, observer lists, caches, the rate limiter,
\* interval lists, the queue of view events.
ObjectsKeepTheirWord ==
  /\ GivenUpIsSilent /\ OneWaitIsArmed /\ LoopReachesAll /\ MostRecentAreKept
  /\ OnlyUnusedIsDropped /\ RateIsBounded /\ UnionIsExact /\ NoChangeIsForgotten
=============================================================================
