---------------------------- MODULE RunLifecycle ----------------------------
(***************************************************************************)
(* engine/src/run.rs: RunController::start spawns the engine task, the     *)
(* consumer of its events and a supervisor that joins both, persists the   *)
(* trace and commits one terminal.  Child runs write into the same trace.  *)
(***************************************************************************)
EXTENDS Naturals

CONSTANT MaxEvents    \* bound: events an engine says before it ends

NotEnded == "none"

VARIABLES
    engineTask,      \* "running", "closing" (an Err is being reported), "ok", "error", "panicked"
    engineSaysCancelled, \* the Err was reported as a cancellation
    said,            \* events recorded in the trace by the engine
    eventQueue,      \* length of the unbounded channel
    consumer,        \* "idle", "handling", "ended", "panicked"
    supervisor,      \* "engine" (awaits it), "consumer", "persist", "commit", "ended", "failed"
    runCancelled,    \* the token of the run
    terminal,        \* the OnceLock
    traceTail,       \* last record of the shared trace: "event" or "finished"
    tracePersisted   \* times persist_run_trace_to has run

runVars == <<engineTask, engineSaysCancelled, said, eventQueue, consumer, supervisor,
             runCancelled, terminal, traceTail, tracePersisted>>

LifecycleInit ==
    /\ engineTask = "running" /\ engineSaysCancelled = FALSE /\ said = 0
    /\ eventQueue = 0 /\ consumer = "idle" /\ supervisor = "engine"
    /\ runCancelled = FALSE /\ terminal = NotEnded
    /\ traceTail = "event" /\ tracePersisted = 0

(* One envelope for the trace and the channel; a dead consumer is ignored. *)
Emit(kind) ==
    /\ traceTail' = kind
    /\ eventQueue' = IF consumer = "panicked" THEN eventQueue ELSE eventQueue + 1
    /\ said' = said + 1

EngineEmits ==
    /\ engineTask = "running" /\ said < MaxEvents /\ Emit("event")
    /\ UNCHANGED <<engineTask, engineSaysCancelled, consumer, supervisor, runCancelled,
                   terminal, tracePersisted>>

(* run_with_context returns: Ok ends with a RunFinished of its own.        *)
EngineSucceeds ==
    /\ engineTask = "running" /\ engineTask' = "ok" /\ Emit("finished")
    /\ UNCHANGED <<engineSaysCancelled, consumer, supervisor, runCancelled, terminal, tracePersisted>>

EngineFails ==
    /\ engineTask = "running" /\ engineTask' = "closing" /\ Emit("event")
    /\ engineSaysCancelled' = runCancelled
    /\ UNCHANGED <<consumer, supervisor, runCancelled, terminal, tracePersisted>>

EngineReports ==
    /\ engineTask = "closing" /\ engineTask' = "error" /\ Emit("finished")
    /\ UNCHANGED <<engineSaysCancelled, consumer, supervisor, runCancelled, terminal, tracePersisted>>

EnginePanics ==
    /\ engineTask = "running" /\ engineTask' = "panicked"
    /\ UNCHANGED <<engineSaysCancelled, said, eventQueue, consumer, supervisor, runCancelled,
                   terminal, traceTail, tracePersisted>>

(* A child shares the collector and may outlive the engine that awaits it. *)
ChildRecords ==
    /\ supervisor # "ended"
    /\ traceTail' \in {"event", "finished"}
    /\ UNCHANGED <<engineTask, engineSaysCancelled, said, eventQueue, consumer, supervisor,
                   runCancelled, terminal, tracePersisted>>

EngineEnded == engineTask \in {"ok", "error", "panicked"}

ConsumerStep(from, to, left) ==
    /\ consumer = from /\ consumer' = to /\ eventQueue' = left
    /\ UNCHANGED <<engineTask, engineSaysCancelled, said, supervisor, runCancelled, terminal,
                   traceTail, tracePersisted>>
TakeEvent   == eventQueue > 0 /\ ConsumerStep("idle", "handling", eventQueue - 1)
HandleEvent == ConsumerStep("handling", "idle", eventQueue)
\* Mutant: the consumer waits for the event of a run that succeeded.
ConsumerEnds_OnSuccess ==
    eventQueue = 0 /\ engineTask = "ok" /\ ConsumerStep("idle", "ended", 0)
ConsumerEnds == eventQueue = 0 /\ EngineEnded /\ ConsumerStep("idle", "ended", 0)
ConsumerPanics == ConsumerStep("handling", "panicked", 0)    \* the receiver goes with its queue

SupervisorStep(from, to) ==
    /\ supervisor = from /\ supervisor' = to
    /\ UNCHANGED <<engineTask, engineSaysCancelled, said, eventQueue, consumer, runCancelled>>

AwaitEngine ==
    /\ EngineEnded /\ SupervisorStep("engine", "consumer")
    /\ UNCHANGED <<terminal, traceTail, tracePersisted>>
\* Mutant: only the engine is joined.
AwaitConsumer_NotAwaited ==
    SupervisorStep("consumer", "persist") /\ UNCHANGED <<terminal, traceTail, tracePersisted>>
AwaitConsumer ==
    /\ consumer \in {"ended", "panicked"} /\ SupervisorStep("consumer", "persist")
    /\ UNCHANGED <<terminal, traceTail, tracePersisted>>
PersistTrace ==
    /\ SupervisorStep("persist", "commit") /\ tracePersisted' = tracePersisted + 1
    /\ UNCHANGED <<terminal, traceTail>>

(* commit: the trace gets a RunFinished unless its last record is one, the *)
(* first terminal stays.                                                   *)
Commit(status) ==
    /\ traceTail' = "finished"
    /\ terminal' = IF terminal = NotEnded THEN status ELSE terminal
    /\ UNCHANGED tracePersisted

Verdict ==
    IF consumer = "panicked" \/ engineTask = "panicked" THEN "error"
    ELSE IF engineTask = "ok" THEN "done"
    ELSE IF runCancelled \/ engineSaysCancelled THEN "cancelled" ELSE "error"

CommitTerminal == SupervisorStep("commit", "ended") /\ Commit(Verdict)

(* RunHandle::wait commits for a supervisor that died.                     *)
SupervisorFails ==
    /\ SupervisorStep("persist", "failed")
    /\ UNCHANGED <<terminal, traceTail, tracePersisted>>
WaitCommits == SupervisorStep("failed", "ended") /\ Commit("error")

(* The token is set by a client, a disconnect, a switch or a shutdown.     *)
CancelRun ==
    /\ ~runCancelled /\ runCancelled' = TRUE
    /\ UNCHANGED <<engineTask, engineSaysCancelled, said, eventQueue, consumer, supervisor,
                   terminal, traceTail, tracePersisted>>

EngineEnds == EngineSucceeds \/ EngineFails \/ EngineReports \/ EnginePanics
ConsumerWorks == TakeEvent \/ HandleEvent \/ ConsumerEnds \/ ConsumerPanics
SupervisorWorks == AwaitEngine \/ AwaitConsumer \/ PersistTrace \/ CommitTerminal \/ WaitCommits

LifecycleNext ==
    \/ EngineEmits \/ EngineSucceeds \/ EngineFails \/ EngineReports \/ EnginePanics
    \/ ChildRecords \/ CancelRun
    \/ TakeEvent \/ HandleEvent \/ ConsumerEnds \/ ConsumerPanics
    \/ AwaitEngine \/ AwaitConsumer \/ PersistTrace \/ CommitTerminal
    \/ SupervisorFails \/ WaitCommits

(* A cancelled engine returns; a consumer's sends return; the supervisor   *)
(* is a task of the runtime, and whoever started the run awaits it.        *)
LifecycleFairness ==
    /\ WF_runVars(runCancelled /\ EngineEnds)
    /\ WF_runVars(ConsumerWorks)
    /\ WF_runVars(SupervisorWorks)

LifecycleSpec == LifecycleInit /\ [][LifecycleNext]_runVars /\ LifecycleFairness

----------------------------------------------------------------------------
LifecycleTypeOK ==
    /\ engineTask \in {"running", "closing", "ok", "error", "panicked"}
    /\ engineSaysCancelled \in BOOLEAN /\ runCancelled \in BOOLEAN
    /\ said \in Nat /\ eventQueue \in Nat /\ tracePersisted \in {0, 1}
    /\ consumer \in {"idle", "handling", "ended", "panicked"}
    /\ supervisor \in {"engine", "consumer", "persist", "commit", "ended", "failed"}
    /\ terminal \in {NotEnded, "done", "cancelled", "error"}
    /\ traceTail \in {"event", "finished"}

Promise == INSTANCE Run WITH
    requested <- runCancelled,
    listening <- consumer # "panicked",
    unheard   <- eventQueue + (IF consumer = "handling" THEN 1 ELSE 0),
    outcome   <- terminal

(* The three tasks keep the promise of a run, whatever panics and whenever *)
(* it is cancelled: one terminal, after the last event was delivered, and  *)
(* `cancelled` only for a run that somebody cancelled.                     *)
RunKeepsPromise == Promise!RunSafety

(* A cancelled run reaches its terminal.                                   *)
CancelledRunEnds == Promise!RunStops
=============================================================================
