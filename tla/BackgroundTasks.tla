-------------------------- MODULE BackgroundTasks --------------------------
(***************************************************************************)
(* tools/src/background.rs: shell commands that run on while the model     *)
(* continues.  A monitor per task owns the shell, reaps it and commits one *)
(* terminal state; tools stop a task or wait for it; the runs of all       *)
(* sessions of the server drain the notifications of one shared registry.  *)
(***************************************************************************)
EXTENDS FiniteSets

CONSTANTS BgTasks, BgSessions

NotStarted == "not started"

VARIABLES
    bgStatus,      \* what the registry says: NotStarted, "running" or a terminal state
    bgCancelled,   \* tasks whose token is cancelled, by stop, by their run or by Drop
    monitor,       \* "none", "starting", "watching", "terminating", "committing", "done"
    exitStatus,    \* the terminal state the monitor is about to commit
    shell,         \* the child process of the monitor: "none", "alive", "dead"
    descendants,   \* tasks whose shell has left other processes running
    told,          \* sessions whose run was told that the task has ended
    managerAlive,  \* somebody still owns the registry
    waiter         \* TaskOutput with block: "idle", "read", "waiting", "told"

bgVars == <<bgStatus, bgCancelled, monitor, exitStatus, shell, descendants, told,
            managerAlive, waiter>>

Terminal == {"completed", "failed", "killed"}

BgInit ==
    /\ bgStatus = [t \in BgTasks |-> NotStarted]
    /\ bgCancelled = {} /\ descendants = {}
    /\ monitor = [t \in BgTasks |-> "none"]
    /\ exitStatus = [t \in BgTasks |-> NotStarted]
    /\ shell = [t \in BgTasks |-> "none"]
    /\ told = [t \in BgTasks |-> {}]
    /\ managerAlive = TRUE
    /\ waiter = [t \in BgTasks |-> "idle"]

SpawnTask(t) ==
    /\ managerAlive /\ bgStatus[t] = NotStarted
    /\ bgStatus' = [bgStatus EXCEPT ![t] = "running"]
    /\ monitor' = [monitor EXCEPT ![t] = "starting"]
    /\ UNCHANGED <<bgCancelled, exitStatus, shell, descendants, told, managerAlive, waiter>>

(* monitor_task: the output file and the shell, or no shell at all.        *)
StartShell(t) ==
    /\ monitor[t] = "starting"
    /\ \/ /\ monitor' = [monitor EXCEPT ![t] = "watching"]
          /\ shell' = [shell EXCEPT ![t] = "alive"]
          /\ descendants' \in {descendants, descendants \cup {t}}
          /\ UNCHANGED exitStatus
       \/ /\ monitor' = [monitor EXCEPT ![t] = "committing"]
          /\ exitStatus' = [exitStatus EXCEPT ![t] = "failed"]
          /\ UNCHANGED <<shell, descendants>>
    /\ UNCHANGED <<bgStatus, bgCancelled, told, managerAlive, waiter>>

(* The shell ends by itself, whatever it has started may go on.            *)
ShellExits(t) ==
    /\ shell[t] = "alive"
    /\ shell' = [shell EXCEPT ![t] = "dead"]
    /\ descendants' \in {descendants, descendants \ {t}}
    /\ UNCHANGED <<bgStatus, bgCancelled, monitor, exitStatus, told, managerAlive, waiter>>

(* The select of the monitor: child.wait(), the token, the timeout.        *)
SeeExit(t) ==
    /\ monitor[t] = "watching" /\ shell[t] = "dead"
    /\ monitor' = [monitor EXCEPT ![t] = "committing"]
    /\ \E s \in {"completed", "failed"} : exitStatus' = [exitStatus EXCEPT ![t] = s]
    /\ UNCHANGED <<bgStatus, bgCancelled, shell, descendants, told, managerAlive, waiter>>

SeeCancel(t) ==
    /\ monitor[t] = "watching" /\ t \in bgCancelled
    /\ monitor' = [monitor EXCEPT ![t] = "terminating"]
    /\ UNCHANGED <<bgStatus, bgCancelled, exitStatus, shell, descendants, told, managerAlive, waiter>>

TaskTimesOut(t) ==
    /\ monitor[t] = "watching"
    /\ monitor' = [monitor EXCEPT ![t] = "terminating"]
    /\ UNCHANGED <<bgStatus, bgCancelled, exitStatus, shell, descendants, told, managerAlive, waiter>>

(* terminate_and_reap: TERM to the group; if the shell is gone within half *)
(* a second nothing more is sent, otherwise KILL ends the whole group.     *)
\* Mutant: the child is signalled but not awaited.
TerminateAndReap_NotReaped(t) ==
    /\ monitor[t] = "terminating"
    /\ monitor' = [monitor EXCEPT ![t] = "committing"]
    /\ exitStatus' = [exitStatus EXCEPT ![t] = "killed"]
    /\ UNCHANGED <<bgStatus, bgCancelled, shell, descendants, told, managerAlive, waiter>>
TerminateAndReap(t) ==
    /\ monitor[t] = "terminating"
    /\ descendants' \in {descendants, descendants \ {t}}
    /\ shell' = [shell EXCEPT ![t] = "dead"]
    /\ monitor' = [monitor EXCEPT ![t] = "committing"]
    /\ exitStatus' = [exitStatus EXCEPT ![t] = "killed"]
    /\ UNCHANGED <<bgStatus, bgCancelled, told, managerAlive, waiter>>

(* finish_task: commit and wake, unless the registry is gone.              *)
FinishTask(t) ==
    /\ monitor[t] = "committing"
    /\ monitor' = [monitor EXCEPT ![t] = "done"]
    /\ bgStatus' = IF managerAlive THEN [bgStatus EXCEPT ![t] = exitStatus[t]] ELSE bgStatus
    /\ waiter' = IF managerAlive
                 THEN [w \in BgTasks |-> IF waiter[w] = "waiting" THEN "reading" ELSE waiter[w]]
                 ELSE waiter
    /\ UNCHANGED <<bgCancelled, exitStatus, shell, descendants, told, managerAlive>>

(* stop, or the cancellation of the run that started the task.             *)
StopTask(t) ==
    /\ bgStatus[t] = "running" /\ t \notin bgCancelled
    /\ bgCancelled' = bgCancelled \cup {t}
    /\ UNCHANGED <<bgStatus, monitor, exitStatus, shell, descendants, told, managerAlive, waiter>>

(* Drop for ManagerInner; a waiting tool call keeps the registry alive.    *)
\* Mutant: Drop does not cancel the tasks.
DropManager_Silent ==
    /\ managerAlive /\ \A t \in BgTasks : waiter[t] \in {"idle", "told"}
    /\ managerAlive' = FALSE
    /\ UNCHANGED <<bgStatus, bgCancelled, monitor, exitStatus, shell, descendants, told, waiter>>
DropManager ==
    /\ managerAlive /\ \A t \in BgTasks : waiter[t] \in {"idle", "told"}
    /\ managerAlive' = FALSE
    /\ bgCancelled' = bgCancelled \cup {t \in BgTasks : bgStatus[t] = "running"}
    /\ UNCHANGED <<bgStatus, monitor, exitStatus, shell, descendants, told, waiter>>

(* The head of a turn of any session: each end is told once.               *)
DrainNotifications(s) ==
    /\ managerAlive
    /\ told' = [t \in BgTasks |-> IF bgStatus[t] \in Terminal /\ told[t] = {}
                                  THEN {s} ELSE told[t]]
    /\ told' # told
    /\ UNCHANGED <<bgStatus, bgCancelled, monitor, exitStatus, shell, descendants, managerAlive, waiter>>

SetWaiter(t, from, to) ==
    /\ waiter[t] = from /\ waiter' = [waiter EXCEPT ![t] = to]
    /\ UNCHANGED <<bgStatus, bgCancelled, monitor, exitStatus, shell, descendants, told, managerAlive>>

(* wait_for_terminal: the state is read, then the change is waited for; an *)
(* end in between is seen only when the deadline has passed.               *)
BeginWait(t) == managerAlive /\ bgStatus[t] # NotStarted /\ SetWaiter(t, "idle", "reading")
ReadStatus(t) ==
    \/ bgStatus[t] \in Terminal /\ SetWaiter(t, "reading", "told")
    \/ bgStatus[t] \notin Terminal /\ SetWaiter(t, "reading", "read")
Register(t)  == SetWaiter(t, "read", "waiting")
WaitTimesOut(t) == SetWaiter(t, "waiting", "told")

MonitorStep(t) ==
    StartShell(t) \/ SeeExit(t) \/ SeeCancel(t) \/ TerminateAndReap(t) \/ FinishTask(t)
WaitStep(t) == ReadStatus(t) \/ Register(t) \/ WaitTimesOut(t)

BgNext ==
    \/ \E t \in BgTasks :
          \/ SpawnTask(t) \/ MonitorStep(t) \/ ShellExits(t) \/ TaskTimesOut(t)
          \/ StopTask(t) \/ BeginWait(t) \/ WaitStep(t)
    \/ \E s \in BgSessions : DrainNotifications(s)
    \/ DropManager

BgSpec == BgInit /\ [][BgNext]_bgVars /\ \A t \in BgTasks : WF_bgVars(MonitorStep(t))

----------------------------------------------------------------------------
BgTypeOK ==
    /\ bgStatus \in [BgTasks -> Terminal \cup {NotStarted, "running"}]
    /\ bgCancelled \subseteq BgTasks /\ descendants \subseteq BgTasks
    /\ monitor \in [BgTasks -> {"none", "starting", "watching", "terminating", "committing", "done"}]
    /\ exitStatus \in [BgTasks -> Terminal \cup {NotStarted}]
    /\ shell \in [BgTasks -> {"none", "alive", "dead"}]
    /\ told \in [BgTasks -> SUBSET BgSessions] /\ managerAlive \in BOOLEAN
    /\ waiter \in [BgTasks -> {"idle", "reading", "read", "waiting", "told"}]

(* "The monitor owns/reaps the child until a terminal state is committed": *)
(* a task that is reported as ended, and one nobody monitors any more, has *)
(* no shell left, however exit, stop, timeout and Drop fell together.      *)
EndedTaskReaped ==
    \A t \in BgTasks : (bgStatus[t] \in Terminal \/ monitor[t] = "done") => shell[t] # "alive"

(* A task that was stopped, or whose registry is gone, loses its shell.    *)
StoppedShellEnds ==
    \A t \in BgTasks : (t \in bgCancelled \/ ~managerAlive) ~> (shell[t] # "alive")
=============================================================================
