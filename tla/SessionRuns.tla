---------------------------- MODULE SessionRuns ----------------------------
(***************************************************************************)
(* Who may work on a session: the slot of SessionHub::active_runs in       *)
(* cli/src/serve_http/session_hub.rs, the project-transition mutex that    *)
(* fences run start-up against project switches, and the handlers that     *)
(* contend for both - Run, Cancel, Clear, Compact, SwitchProject and the   *)
(* end of a WebSocket connection (connection.rs), POST /api/run and its    *)
(* cancellation (run_api.rs), and the idle dream run, which is a POST.     *)
(*                                                                         *)
(* A run has three parties: the handler that reserves the slot, the task   *)
(* that owns the lease and reports the outcome, and the engine under its   *)
(* supervisor (engine/src/run.rs), which outlives the task if that panics. *)
(***************************************************************************)
EXTENDS Integers, FiniteSets

CONSTANTS
    Conns,         \* WebSocket connections
    Posts,         \* clients of POST /api/run
    Dreams,        \* the posts made by the dream scheduler
    Sessions,
    FirstSession,  \* the session every connection starts on
    MaxLeases,     \* bound: leases handed out, and requests that might want one
    MaxSays,       \* bound: messages an engine says before it ends
    MaxPanics,     \* bound: run-owning tasks that panic
    MaxSwitches    \* bound: project switches

Clients == Conns \cup Posts
Leases  == 1..MaxLeases
Nobody  == "nobody"

ASSUME ClientsAssumption ==
    /\ IsFiniteSet(Conns) /\ IsFiniteSet(Posts)
    /\ Conns \cap Posts = {} /\ Dreams \subseteq Posts /\ Nobody \notin Clients
    /\ FirstSession \in Sessions
ASSUME BoundsAssumption ==
    MaxLeases \in Nat /\ MaxSays \in Nat /\ MaxPanics \in Nat /\ MaxSwitches \in Nat

VARIABLES
    slot,         \* active_runs: for each session the lease that holds it, or 0
    runs,         \* everything about a lease and its run
    lastLease,    \* next_lease_id
    fence,        \* the client whose handler holds the transition mutex
    generation,   \* of the published project
    known,        \* the generation each connection, or dream, was set up with
    session,      \* the session each client has selected
    pc, op,       \* where each client's handler stands, and in which request
    awaited,      \* the lease whose end a handler waits for
    transcript,   \* for each session, the number of changes made to its messages
    panics

vars == <<slot, runs, lastLease, fence, generation, known, session, pc, op, awaited,
          transcript, panics>>
handlers == <<pc, op, awaited>>
selected == <<generation, known, session>>
projects == <<fence, selected>>

Free == 0
Requests == {"run", "clear", "compact", "cancel", "resume", "switch", "close", "none"}

\* A lease that was never handed out.
NoRun == [owner |-> Nobody, on |-> FirstSession, controlled |-> FALSE,
          cancelled |-> FALSE, engine |-> "none", task |-> "none", view |-> 0,
          said |-> 0, made |-> 0, told |-> FALSE, done |-> FALSE]

TaskLives(l) == runs[l].task \in {"setup", "ready", "running", "reported"}
OwnTask(c) == {l \in Leases : runs[l].owner = c /\ TaskLives(l)}
HasActiveRuns == \E s \in Sessions : slot[s] # Free

Init ==
    /\ slot = [s \in Sessions |-> Free]
    /\ runs = [l \in Leases |-> NoRun]
    /\ lastLease = 0
    /\ fence = Nobody
    /\ generation = 0
    /\ known = [c \in Clients |-> 0]
    /\ session = [c \in Clients |-> FirstSession]
    /\ pc = [c \in Clients |-> "idle"]
    /\ op = [c \in Clients |-> "none"]
    /\ awaited = [c \in Clients |-> Free]
    /\ transcript = [s \in Sessions |-> 0]
    /\ panics = 0
-----------------------------------------------------------------------------
At(c, place) == pc[c] = place
Goto(c, next) == pc' = [pc EXCEPT ![c] = next] /\ UNCHANGED <<op, awaited>>
Return(c) ==
    /\ pc' = [pc EXCEPT ![c] = IF op[c] = "close" THEN "gone" ELSE "idle"]
    /\ op' = [op EXCEPT ![c] = "none"]
    /\ awaited' = [awaited EXCEPT ![c] = Free]
Unlock(c) == fence' = IF fence = c THEN Nobody ELSE fence

\* RunController::cancel on the runs in a set.
Cancelled(set) ==
    [l \in Leases |-> IF l \in set THEN [runs[l] EXCEPT !.cancelled = TRUE]
                      ELSE runs[l]]

(* A request arrives.  Run and Compact first stop the session's run; the     *)
(* others but Cancel lock the fence first; a POST does not stop anyone.      *)

Stale(c) == c \notin Posts \ Dreams /\ known[c] # generation
Leasing == {"run", "clear", "compact"}

Receive(c, request) ==
    /\ At(c, "idle")
    /\ ~Stale(c)
    /\ request \in Leasing =>
          lastLease + Cardinality({d \in Clients : op[d] \in Leasing}) < MaxLeases
    /\ pc' = [pc EXCEPT ![c] =
                 IF c \in Posts \/ request \in {"clear", "resume", "switch"} THEN "fence"
                 ELSE IF request \in {"cancel", "close"} THEN "cancel" ELSE "stop"]
    /\ op' = [op EXCEPT ![c] = request]
    /\ IF c \in Posts THEN \E s \in Sessions : session' = [session EXCEPT ![c] = s]
       ELSE UNCHANGED session
    /\ UNCHANGED <<slot, runs, lastLease, fence, generation, known, awaited, transcript,
                   panics>>

\* A connection whose project was replaced is told to reconnect and closed; a
\* dream scheduler reads the new project.
Expire(c) ==
    /\ At(c, "idle")
    /\ Stale(c)
    /\ IF c \in Dreams
       THEN known' = [known EXCEPT ![c] = generation] /\ UNCHANGED <<pc, op>>
       ELSE /\ pc' = [pc EXCEPT ![c] = "cancel"]
            /\ op' = [op EXCEPT ![c] = "close"]
            /\ UNCHANGED known
    /\ UNCHANGED <<slot, runs, lastLease, fence, generation, session, awaited, transcript,
                   panics>>

\* cancel_run_and_wait: nothing to stop, work that cannot be stopped, or a run
\* that is told to stop.
StopNothing(c) ==
    /\ At(c, "stop")
    /\ slot[session[c]] = Free
    /\ Goto(c, "join")
    /\ UNCHANGED <<slot, runs, lastLease, projects, transcript, panics>>

StopRefused(c) ==
    /\ At(c, "stop")
    /\ LET l == slot[session[c]] IN l # Free /\ ~runs[l].controlled
    /\ Return(c)
    /\ Unlock(c)
    /\ UNCHANGED <<slot, runs, lastLease, selected, transcript, panics>>

StopRun(c) ==
    /\ At(c, "stop")
    /\ LET l == slot[session[c]]
       IN  /\ l # Free /\ runs[l].controlled
           /\ runs' = Cancelled({l})
           /\ awaited' = [awaited EXCEPT ![c] = l]
    /\ pc' = [pc EXCEPT ![c] = "wait"]
    /\ UNCHANGED <<slot, lastLease, projects, op, transcript, panics>>

\* Mutant: the handler does not wait for the run it cancelled.
Stopped_NotAwaited(c) ==
    /\ At(c, "wait")
    /\ Goto(c, "join")
    /\ UNCHANGED <<slot, runs, lastLease, projects, transcript, panics>>

Stopped(c) ==
    /\ At(c, "wait")
    /\ runs[awaited[c]].done
    /\ Goto(c, "join")
    /\ UNCHANGED <<slot, runs, lastLease, projects, transcript, panics>>

\* RUN_CANCEL_WAIT_TIMEOUT.
StopTimesOut(c) ==
    /\ At(c, "wait")
    /\ ~runs[awaited[c]].done
    /\ Return(c)
    /\ Unlock(c)
    /\ UNCHANGED <<slot, runs, lastLease, selected, transcript, panics>>

\* Cancel, from a connection: the session's run, and the connection's own.
CancelRun(c) ==
    /\ At(c, "cancel")
    /\ LET mine == OwnTask(c)
           shared == IF op[c] = "cancel" THEN {slot[session[c]]} ELSE {}
       IN  runs' = Cancelled({l \in mine \cup (shared \ {Free}) : runs[l].controlled})
    /\ Goto(c, "join")
    /\ UNCHANGED <<slot, lastLease, projects, transcript, panics>>

\* DELETE: cancellation from outside, at any time.
CancelPost(s) ==
    /\ LET l == slot[s]
       IN  l # Free /\ runs[l].controlled /\ ~runs[l].cancelled /\ runs' = Cancelled({l})
    /\ UNCHANGED <<slot, lastLease, projects, handlers, transcript, panics>>

\* The connection's own run is cancelled ...
JoinCancels(c) ==
    /\ At(c, "join")
    /\ \E l \in OwnTask(c) : runs[l].controlled /\ ~runs[l].cancelled
    /\ runs' = Cancelled(OwnTask(c))
    /\ UNCHANGED <<slot, lastLease, projects, handlers, transcript, panics>>

\* ... and its task awaited.
Join(c) ==
    /\ At(c, "join")
    /\ OwnTask(c) = {}
    /\ CASE op[c] \in {"run", "compact"} -> Goto(c, "fence")
         [] op[c] = "clear" -> Goto(c, "acquire")
         [] OTHER -> Return(c)
    /\ UNCHANGED <<slot, runs, lastLease, projects, transcript, panics>>
-----------------------------------------------------------------------------
(* Under the fence. *)

Lock(c) ==
    /\ At(c, "fence")
    /\ fence = Nobody
    /\ ~Stale(c)
    /\ fence' = c
    /\ Goto(c, CASE op[c] = "clear" -> "stop"
                 [] op[c] \in {"resume", "switch"} -> op[c]
                 [] OTHER -> "acquire")
    /\ UNCHANGED <<slot, runs, lastLease, selected, transcript, panics>>

\* The generation is compared as soon as the mutex is held.
LockTooLate(c) ==
    /\ At(c, "fence")
    /\ fence = Nobody
    /\ Stale(c)
    /\ Return(c)
    /\ UNCHANGED <<slot, runs, lastLease, projects, transcript, panics>>

\* Mutant: the project is switched whatever is active.
MaySwitch_Always == TRUE
MaySwitch == ~HasActiveRuns

Switch(c) ==
    /\ At(c, "switch")
    /\ MaySwitch
    /\ generation < MaxSwitches
    /\ generation' = generation + 1
    /\ known' = [known EXCEPT ![c] = generation + 1]
    /\ \E s \in Sessions : session' = [session EXCEPT ![c] = s]
    /\ Unlock(c)
    /\ Return(c)
    /\ UNCHANGED <<slot, runs, lastLease, transcript, panics>>

\* NewSession and ResumeSession: another session is selected, whatever runs.
\* Connections that joined a session share its handle, and one that selects another
\* turns the handle for all (connection.rs:1318).  A request looks at the handle when
\* it begins, so for another connection that is as if it had resumed the session
\* itself before its next request.
Resume(c) ==
    /\ At(c, "resume")
    /\ \E s \in Sessions : session' = [session EXCEPT ![c] = s]
    /\ Unlock(c)
    /\ Return(c)
    /\ UNCHANGED <<slot, runs, lastLease, generation, known, transcript, panics>>

\* A run is active, or the other session or project could not be opened.
SelectionRefused(c) ==
    /\ At(c, "switch") \/ At(c, "resume")
    /\ Unlock(c)
    /\ Return(c)
    /\ UNCHANGED <<slot, runs, lastLease, selected, transcript, panics>>

\* Mutant: a slot is taken although another lease holds it.
MayAcquire_Always(c) == TRUE
MayAcquire(c) == slot[session[c]] = Free /\ (c \in Dreams => ~HasActiveRuns)

TakeLease == lastLease' = lastLease + 1

\* try_acquire_run fails; so does a dream while anything is active.
AcquireRefused(c) ==
    /\ At(c, "acquire")
    /\ ~MayAcquire(c)
    /\ Unlock(c)
    /\ Return(c)
    /\ UNCHANGED <<slot, runs, lastLease, selected, transcript, panics>>

\* Clear drops the fence as soon as it owns the slot, the others after the snapshot.
Acquire(c) ==
    /\ At(c, "acquire")
    /\ MayAcquire(c)
    /\ TakeLease
    /\ slot' = [slot EXCEPT ![session[c]] = lastLease + 1]
    /\ runs' = [runs EXCEPT ![lastLease + 1] =
                   [NoRun EXCEPT !.owner = c, !.on = session[c], !.made = generation,
                                 !.task = "setup"]]
    /\ Goto(c, IF op[c] = "clear" THEN "mutate" ELSE "snapshot")
    /\ IF op[c] = "clear" THEN Unlock(c) ELSE UNCHANGED fence
    /\ UNCHANGED <<selected, transcript, panics>>

\* The lease of a handler that has one.
Mine(c) == CHOOSE l \in OwnTask(c) : runs[l].task = "setup"

Snapshot(c) ==
    /\ At(c, "snapshot")
    /\ runs' = [runs EXCEPT ![Mine(c)].view = transcript[session[c]]]
    /\ Goto(c, IF op[c] = "compact" THEN "mutate" ELSE "register")
    /\ IF op[c] = "compact" THEN Unlock(c) ELSE UNCHANGED fence
    /\ UNCHANGED <<slot, lastLease, selected, transcript, panics>>

\* set_controller: the run can be cancelled from now on and the fence is dropped.
Register(c) ==
    /\ At(c, "register")
    /\ runs' = [runs EXCEPT ![Mine(c)].controlled = TRUE, ![Mine(c)].task = "ready",
                            ![Mine(c)].engine = "ready"]
    /\ Unlock(c)
    /\ Return(c)
    /\ UNCHANGED <<slot, lastLease, selected, transcript, panics>>

\* Mutant: those who wait for the lease are not told.
Finished_Unsignalled(l, task) ==
    /\ slot' = [slot EXCEPT ![runs[l].on] = IF @ = l THEN Free ELSE @]
    /\ runs' = [runs EXCEPT ![l].task = task]

\* RunLease::finish.
Finished(l, task) ==
    /\ slot' = [slot EXCEPT ![runs[l].on] = IF @ = l THEN Free ELSE @]
    /\ runs' = [runs EXCEPT ![l].task = task, ![l].done = TRUE]

\* The snapshot fails, and the handler finishes its lease.
SnapshotFails(c) ==
    /\ At(c, "snapshot")
    /\ Finished(Mine(c), "finished")
    /\ Unlock(c)
    /\ Return(c)
    /\ UNCHANGED <<lastLease, selected, transcript, panics>>

\* The client cannot be built, or the HTTP request goes away: the lease is dropped.
SetupDropped(c) ==
    /\ At(c, "register") \/ (At(c, "snapshot") /\ c \in Posts)
    /\ runs' = [runs EXCEPT ![Mine(c)].task = "dropped"]
    /\ Unlock(c)
    /\ Return(c)
    /\ UNCHANGED <<slot, lastLease, selected, transcript, panics>>

\* Clear, or compact_now with its compare-and-swap; either may fail.
Mutate(c) ==
    /\ At(c, "mutate")
    /\ \/ /\ op[c] = "compact" => runs[Mine(c)].view = transcript[session[c]]
          /\ transcript' = [transcript EXCEPT ![session[c]] = @ + 1]
       \/ UNCHANGED transcript
    /\ Finished(Mine(c), "finished")
    /\ Return(c)
    /\ UNCHANGED <<lastLease, projects, panics>>
-----------------------------------------------------------------------------
(* The run: its task, its engine, and what is left when the task panics. *)

Start(l) ==
    /\ runs[l].task = "ready"
    /\ runs' = [runs EXCEPT ![l].task = "running", ![l].engine = "running"]
    /\ UNCHANGED <<slot, lastLease, projects, handlers, transcript, panics>>

\* A cancelled engine may still say what it was about to say.
Say(l) ==
    /\ runs[l].engine = "running"
    /\ runs[l].said < MaxSays
    /\ runs' = [runs EXCEPT ![l].said = @ + 1]
    /\ transcript' = [transcript EXCEPT ![runs[l].on] = @ + 1]
    /\ UNCHANGED <<slot, lastLease, projects, handlers, panics>>

\* The engine returns, or panics, and its supervisor commits the terminal.
Commit(l) ==
    /\ runs[l].engine = "running"
    /\ runs' = [runs EXCEPT ![l].engine = "terminal"]
    /\ UNCHANGED <<slot, lastLease, projects, handlers, transcript, panics>>

\* The outcome and the usage are stored, and the client is sent the terminal.
Report(l) ==
    /\ runs[l].task = "running" /\ runs[l].engine = "terminal"
    /\ runs' = [runs EXCEPT ![l].task = "reported", ![l].told = TRUE]
    /\ UNCHANGED <<slot, lastLease, projects, handlers, transcript, panics>>

\* Mutant: the slot is given up before the client is told.
Finish_Unreported(l) ==
    /\ runs[l].task = "running" /\ runs[l].engine = "terminal"
    /\ Finished(l, "finished")
    /\ UNCHANGED <<lastLease, projects, handlers, transcript, panics>>

Finish(l) ==
    /\ runs[l].task = "reported"
    /\ Finished(l, "finished")
    /\ UNCHANGED <<lastLease, projects, handlers, transcript, panics>>

\* Drop for RunLease: the run is cancelled, its slot stays reserved.
Panic(l) ==
    /\ runs[l].task \in {"running", "reported"}
    /\ panics < MaxPanics
    /\ panics' = panics + 1
    /\ runs' = [runs EXCEPT ![l].task = "dropped", ![l].cancelled = TRUE]
    /\ UNCHANGED <<slot, lastLease, projects, handlers, transcript>>

\* Mutant: the dropped lease is released at once.
Release_AtOnce(l) ==
    /\ runs[l].task = "dropped"
    /\ Finished(l, "released")
    /\ UNCHANGED <<lastLease, projects, handlers, transcript, panics>>

\* Mutant: the terminal is awaited even when no run was ever attached.
Release_AlwaysWaits(l) ==
    /\ runs[l].task = "dropped" /\ runs[l].engine = "terminal"
    /\ Finished(l, "released")
    /\ UNCHANGED <<lastLease, projects, handlers, transcript, panics>>

\* The task spawned by Drop waits for the terminal of a run that has a controller.
Release(l) ==
    /\ runs[l].task = "dropped"
    /\ runs[l].controlled => runs[l].engine = "terminal"
    /\ Finished(l, "released")
    /\ UNCHANGED <<lastLease, projects, handlers, transcript, panics>>
-----------------------------------------------------------------------------
Request(c) ==
    IF c \in Posts THEN Receive(c, "run")
    ELSE \E request \in Requests \ {"none"} :
            Receive(c, request)

Handle(c) ==
    \/ StopNothing(c) \/ StopRefused(c) \/ StopRun(c) \/ Stopped(c)
    \/ CancelRun(c) \/ JoinCancels(c) \/ Join(c)
    \/ Lock(c) \/ LockTooLate(c)
    \/ Switch(c) \/ SelectionRefused(c) \/ Resume(c)
    \/ Acquire(c) \/ AcquireRefused(c)
    \/ Snapshot(c) \/ SnapshotFails(c) \/ Register(c) \/ SetupDropped(c)
    \/ Mutate(c)

TaskStep(l) == Start(l) \/ Report(l) \/ Finish(l) \/ Release(l)

Next ==
    \/ \E c \in Clients : Request(c) \/ Expire(c) \/ Handle(c) \/ StopTimesOut(c)
    \/ \E l \in Leases : TaskStep(l) \/ Commit(l) \/ Say(l) \/ Panic(l)
    \/ \E s \in Sessions : CancelPost(s)

Spec == Init /\ [][Next]_vars

\* Handlers and run tasks are scheduled by the async runtime, whose mutex queues
\* its waiters.  An engine that nobody cancels may run for as long as it likes.
Fairness ==
    /\ \A c \in Clients : WF_vars(Handle(c)) /\ SF_vars(Lock(c))
    /\ \A l \in Leases : WF_vars(TaskStep(l)) /\ WF_vars(runs[l].cancelled /\ Commit(l))
FairSpec == Spec /\ Fairness
-----------------------------------------------------------------------------
Run ==
    [owner : Clients \cup {Nobody}, on : Sessions, controlled : BOOLEAN, cancelled : BOOLEAN,
     engine : {"none", "ready", "running", "terminal"},
     task : {"none", "setup", "ready", "running", "reported", "dropped",
             "finished", "released"},
     view : Nat, said : 0..MaxSays, made : 0..MaxSwitches, told : BOOLEAN, done : BOOLEAN]
Places ==
    {"idle", "fence", "stop", "cancel", "wait", "join", "resume", "switch", "acquire",
     "snapshot", "register", "mutate", "gone"}

\* The shape of the state; only a lease that was handed out holds a slot.
TypeOK ==
    /\ slot \in [Sessions -> 0..lastLease]
    /\ runs \in [Leases -> Run]
    /\ lastLease \in 0..MaxLeases
    /\ fence \in Clients \cup {Nobody}
    /\ generation \in 0..MaxSwitches
    /\ known \in [Clients -> 0..generation]
    /\ session \in [Clients -> Sessions]
    /\ pc \in [Clients -> Places]
    /\ op \in [Clients -> Requests]
    /\ awaited \in [Clients -> 0..lastLease]
    /\ transcript \in [Sessions -> Nat]
    /\ panics \in 0..MaxPanics

\* session_hub.rs:43-44: no second writer enters early.  The engines and the
\* mutating handlers at work on one session are never two, not even after the
\* task that owned a run has panicked and left its engine behind.
OneWriter ==
    \A s \in Sessions :
        Cardinality({l \in Leases : runs[l].engine \in {"ready", "running"}
                                    /\ runs[l].on = s}
                    \cup {c \in Conns : At(c, "mutate") /\ session[c] = s}) <= 1

\* session_hub.rs:55-57: the snapshot is taken while owning the slot.  An engine
\* that has said nothing yet was built from the transcript as it still stands.
SnapshotCurrent ==
    \A l \in Leases :
        runs[l].engine \in {"ready", "running"} /\ runs[l].said = 0 =>
            runs[l].view = transcript[runs[l].on]

\* connection.rs:3085-3087: no new writer can enter between the wait and the clear,
\* so a Clear whose run has stopped never finds the slot taken.
ClearFindsSlotFree ==
    \A c \in Conns : At(c, "acquire") /\ op[c] = "clear" => slot[session[c]] = Free

\* connection.rs:2773-2776: the check for active runs cannot race with a run that
\* acquires its lease.  Whoever holds a slot was started in the published project.
RunsInPublishedProject ==
    \A s \in Sessions : slot[s] # Free => runs[slot[s]].made = generation

\* connection.rs:944-946: the terminal is sent before Clear or a replacement run.
\* Nobody is handed a session while the client of an earlier run waits for its
\* terminal, unless the task that should have sent it died.
TerminalBeforeNextLease ==
    \A l, m \in Leases :
        /\ l < m /\ m <= lastLease /\ runs[l].on = runs[m].on
        /\ runs[l].engine # "none"
        => runs[l].told \/ runs[l].task = "released"

\* session_hub.rs:94-144: a slot is given up in the end once its run is cancelled,
\* and when its owner dropped it in the middle of the set-up or of the run.
SlotReleased ==
    \A l \in Leases : runs[l].cancelled \/ runs[l].task = "dropped" ~> runs[l].done

\* Every handler returns: nobody waits for ever for the fence, for a run it has
\* told to stop or for its own run's task.
HandlersReturn ==
    \A c \in Clients : ~At(c, "idle") ~> (At(c, "idle") \/ At(c, "gone"))
=============================================================================
