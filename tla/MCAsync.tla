--------------------------- MODULE MCAsync ---------------------------------
(***************************************************************************)
(* What waits for something else, on small instances: coroutines at gates  *)
(* and in the async cache, the worker of the thread executor, an executor  *)
(* with an I/O thread of its own, the guards against calls on the wrong    *)
(* thread, the reads of a connection, and the start and stop of listeners. *)
(* They share no state, so a behavior follows the one that focus names.    *)
(***************************************************************************)
EXTENDS AsyncGates, MCThreadExecutor, Connections, BaseThreads

VARIABLE focus

asyncVars == <<focus, gvars, vars, fvars, lvars, tgvars, iovars>>

\* Two messages, one of the largest size, or one that exceeds the buffer.
MCOutboxes ==
  {<<>>, <<<<1>>, <<0, 1>>>>, <<<<1, 0, 1>>, <<1>>>>, <<<<0, 1, 1, 0>>, <<1>>>>}

AsyncInit ==
  /\ focus \in {"gate", "cache", "thread", "framing", "listeners", "guards", "io"}
  /\ GInit /\ Init /\ FInit /\ LInit /\ TgInit /\ IoInit
  /\ focus # "framing" => outbox = <<>>
  /\ focus # "guards" => thread_id_ = (CHOOSE t \in GuardThreads : TRUE) /\ recursive

InGates(A) == focus \in {"gate", "cache"} /\ A
                /\ UNCHANGED <<focus, vars, fvars, lvars, tgvars, iovars>>
InThread(A) == focus = "thread" /\ A
                 /\ UNCHANGED <<focus, gvars, fvars, lvars, tgvars, iovars>>
InFraming(A) == focus = "framing" /\ A
                  /\ UNCHANGED <<focus, gvars, vars, lvars, tgvars, iovars>>
InListeners(A) == focus = "listeners" /\ A
                    /\ UNCHANGED <<focus, gvars, vars, fvars, tgvars, iovars>>
InIo(A) == focus = "io" /\ A
             /\ UNCHANGED <<focus, gvars, vars, fvars, lvars, tgvars>>

AsyncNext ==
  \/ focus = "gate" /\ GateNext /\ UNCHANGED <<focus, vars, fvars, lvars, tgvars, iovars>>
  \/ focus = "cache" /\ CacheNext /\ UNCHANGED <<focus, vars, fvars, lvars, tgvars, iovars>>
  \/ focus = "thread" /\ Next /\ UNCHANGED <<focus, gvars, fvars, lvars, tgvars, iovars>>
  \/ focus = "framing" /\ FNext /\ UNCHANGED <<focus, gvars, vars, lvars, tgvars, iovars>>
  \/ focus = "listeners" /\ LNext /\ UNCHANGED <<focus, gvars, vars, fvars, tgvars, iovars>>
  \/ focus = "guards" /\ TgNext /\ UNCHANGED <<focus, gvars, vars, fvars, lvars, iovars>>
  \/ focus = "io" /\ IoNext /\ UNCHANGED <<focus, gvars, vars, fvars, lvars, tgvars>>

\* An executor runs what is posted, a deadline passes, an owner of the cache
\* starts what is pending and completes what it started.  The worker thread is
\* scheduled, and a thread that called Shutdown too; time passes.  A session's
\* loop reads again, a read with bytes or an end to report returns, an acceptor
\* that was told to open or close does so, and coroutines resume.  Timers of an
\* io_context expire, its thread is scheduled and the executor's queue drained.
AsyncFairness ==
  /\ WF_asyncVars(InGates(Resume)) /\ WF_asyncVars(InGates(Fetched))
  /\ WF_asyncVars(InGates(StartPending))
  /\ \A w \in Slotted : WF_asyncVars(InGates(SlotFires(w)))
  /\ WF_asyncVars(InThread(Worker)) /\ WF_asyncVars(InThread(Tick))
  /\ WF_asyncVars(InThread(StopSet \/ StopNotify \/ StopJoin))
  /\ WF_asyncVars(InFraming(StartRead)) /\ WF_asyncVars(InFraming(ReadExact))
  /\ WF_asyncVars(InListeners(InitResumes)) /\ WF_asyncVars(InListeners(ShutdownResumes))
  /\ \A i \in Listener :
       /\ WF_asyncVars(InListeners(run[i] = "opening" /\ (Opened(i) \/ RunEnds(i))))
       /\ WF_asyncVars(InListeners(i \in acceptor_ /\ RunEnds(i)))
  /\ WF_asyncVars(InIo(IoStep)) /\ WF_asyncVars(InIo(DrainTask))
  /\ WF_asyncVars(InIo(StopContext \/ JoinReturns))

AsyncSpec == AsyncInit /\ [][AsyncNext]_asyncVars /\ AsyncFairness

-----------------------------------------------------------------------------
\* Who waits comes back, an accepted task runs, a whole message on an open
\* stream is delivered, starting and stopping the server return, a delayed task
\* runs and the thread behind its timer is joined; and a read aborted by the end
\* of its transport touches nothing.
EverythingReturns ==
  /\ WaitsReturn /\ AcceptedIsRun /\ SentIsDelivered /\ StartAndStopReturn
  /\ DelayedIsRun /\ ContextEnds /\ AbortedReadIsSilent
=============================================================================
