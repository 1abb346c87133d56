------------------------------ MODULE TaskStore ------------------------------
(***************************************************************************)
(* tools/src/task_store.rs: the task graph shared by all processes of a    *)
(* user: a file per task and `.highwater`, the last number given out.  A   *)
(* process does one operation at a time under its mutex; nothing keeps two *)
(* processes apart, and fs::write empties a file before it fills it.       *)
(***************************************************************************)
EXTENDS Naturals

CONSTANTS
    Processes,
    MaxTasks      \* bound: calls of TaskCreate

ASSUME TaskStoreAssumption == MaxTasks \in Nat

NoTask == 0                       \* no file
Torn   == MaxTasks + 1            \* a file that does not parse
Creations == 1..MaxTasks

VARIABLES
    highwater,    \* what .highwater parses to, 0 when it does not
    taskFile,     \* of each number, the creation whose task the file holds
    storeStage,   \* of each process: "idle", "numbering", "saving"
    storeNumber,  \* the number the operation is about
    storeTask,    \* the task it is about to save
    creations,
    numberOf,     \* history: the number TaskCreate answered with, 0 if it did not
    cutShort,     \* history: a write of .highwater was cut short
    overlapped    \* history: two processes have read the same .highwater

operation == <<storeStage, storeNumber, storeTask>>
taskHistory == <<creations, numberOf, cutShort, overlapped>>
taskVars == <<highwater, taskFile, operation, taskHistory>>

TaskInit ==
    /\ highwater = 0 /\ taskFile = [n \in Creations |-> NoTask]
    /\ storeStage = [p \in Processes |-> "idle"]
    /\ storeNumber = [p \in Processes |-> 0] /\ storeTask = [p \in Processes |-> NoTask]
    /\ creations = 0 /\ numberOf = [k \in Creations |-> 0]
    /\ cutShort = FALSE /\ overlapped = FALSE

Operate(p, from, to, number, task) ==
    /\ storeStage[p] = from /\ storeStage' = [storeStage EXCEPT ![p] = to]
    /\ storeNumber' = [storeNumber EXCEPT ![p] = number]
    /\ storeTask' = [storeTask EXCEPT ![p] = task]
EndOperation(p, from) == Operate(p, from, "idle", 0, NoTask)

(* create_task: next_id_locked reads, adds one and writes; then the task   *)
(* is saved under the number.                                              *)
\* Mutant: the first number without a readable file.
NextNumber_FirstFree ==
    CHOOSE n \in 1..(MaxTasks + 1) :
        /\ n \in Creations => taskFile[n] \in {NoTask, Torn}
        /\ \A m \in 1..(n - 1) : taskFile[m] \notin {NoTask, Torn}
NextNumber == highwater + 1

BeginCreate(p) ==
    /\ creations < MaxTasks /\ creations' = creations + 1
    /\ Operate(p, "idle", "numbering", NextNumber, creations')
    /\ overlapped' = (overlapped \/ \E q \in Processes : storeStage[q] = "numbering")
    /\ UNCHANGED <<highwater, taskFile, numberOf, cutShort>>

WriteHighwater(p) ==
    /\ Operate(p, "numbering", "saving", storeNumber[p], storeTask[p])
    /\ highwater' = storeNumber[p]
    /\ UNCHANGED <<taskFile, taskHistory>>

(* The write fails, or the process dies: before the file was opened, or    *)
(* when it was already emptied.                                            *)
LoseHighwater(p) ==
    /\ EndOperation(p, "numbering")
    /\ \/ UNCHANGED <<highwater, cutShort>>
       \/ highwater' = 0 /\ cutShort' = TRUE
    /\ UNCHANGED <<taskFile, creations, numberOf, overlapped>>

(* save_unlocked, and the answer to the model.                             *)
SaveTask(p) ==
    /\ EndOperation(p, "saving")
    /\ taskFile' = [taskFile EXCEPT ![storeNumber[p]] = storeTask[p]]
    /\ numberOf' = [numberOf EXCEPT ![storeTask[p]] = storeNumber[p]]
    /\ UNCHANGED <<highwater, creations, cutShort, overlapped>>

(* The write fails, or the process dies before, in or after it.            *)
LoseTask(p) ==
    /\ EndOperation(p, "saving")
    /\ \E left \in {taskFile[storeNumber[p]], Torn, storeTask[p]} :
          taskFile' = [taskFile EXCEPT ![storeNumber[p]] = left]
    /\ UNCHANGED <<highwater, taskHistory>>

(* update_task: a file that does not parse is "not found", and what        *)
(* another process saves in the meantime is overwritten.                   *)
BeginUpdate(p) ==
    /\ \E n \in Creations :
        /\ taskFile[n] \in Creations
        /\ Operate(p, "idle", "saving", n, taskFile[n])
    /\ UNCHANGED <<highwater, taskFile, taskHistory>>

TaskNext ==
    \E p \in Processes :
        \/ BeginCreate(p) \/ WriteHighwater(p) \/ LoseHighwater(p)
        \/ SaveTask(p) \/ LoseTask(p) \/ BeginUpdate(p)

TaskSpec == TaskInit /\ [][TaskNext]_taskVars

----------------------------------------------------------------------------
TaskTypeOK ==
    /\ highwater \in 0..MaxTasks /\ creations \in 0..MaxTasks
    /\ taskFile \in [Creations -> 0..(MaxTasks + 1)]
    /\ storeStage \in [Processes -> {"idle", "numbering", "saving"}]
    /\ storeNumber \in [Processes -> 0..MaxTasks] /\ storeTask \in [Processes -> 0..MaxTasks]
    /\ numberOf \in [Creations -> 0..MaxTasks]
    /\ cutShort \in BOOLEAN /\ overlapped \in BOOLEAN

(* Two tasks never get the same number, so that none overwrites another    *)
(* and none is updated in the name of another, as long as no write of      *)
(* .highwater was cut short and no two processes numbered at once: task    *)
(* files that are lost or torn, creations that fail half-way and updates   *)
(* that run beside them do not matter.                                     *)
NumbersDistinct ==
    (~cutShort /\ ~overlapped) =>
        \A j, k \in Creations : (j # k /\ numberOf[j] # 0) => numberOf[j] # numberOf[k]
=============================================================================
