---------------------------- MODULE LedgerProofs ----------------------------
(***************************************************************************)
(* Proofs about records on disk that outlive their writers: the numbers of *)
(* TaskStore, the marker of DreamLedger, the proposals of Evolution, and   *)
(* the instances of VirtualMachines.                                       *)
(***************************************************************************)
EXTENDS TaskStore, DreamLedger, Evolution, VirtualMachines, FiniteSetTheorems, TLAPS

----------------------------------------------------------------------------
(* TaskStore.  The number n is claimed for the task k by an answer, by a   *)
(* file, or by an operation that is about to save the task.                *)
HasClaim(n, k) ==
    \/ numberOf[k] = n /\ n # 0
    \/ n \in Creations /\ taskFile[n] = k
    \/ \E p \in Processes : storeStage[p] = "saving" /\ storeNumber[p] = n /\ storeTask[p] = k

Undisturbed == ~cutShort /\ ~overlapped

TaskShapes ==
    /\ highwater \in Nat /\ creations \in Nat
    /\ taskFile \in [Creations -> Nat] /\ numberOf \in [Creations -> Nat]
    /\ storeStage \in [Processes -> {"idle", "numbering", "saving"}]
    /\ storeNumber \in [Processes -> Nat] /\ storeTask \in [Processes -> Nat]

(* Nothing is about a number or a task that is still to come.              *)
Past(n) == n \in Creations /\ n <= creations
TaskBounds ==
    /\ highwater <= creations /\ creations <= MaxTasks
    /\ \A p \in Processes : storeStage[p] # "idle" => Past(storeNumber[p]) /\ Past(storeTask[p])
    /\ \A n \in Creations : taskFile[n] \in Creations => Past(n) /\ Past(taskFile[n])

LEMMA CreationsAre ==
    /\ Creations \subseteq Nat
    /\ \A n \in Nat : n \in Creations <=> 1 <= n /\ n <= MaxTasks
    /\ NoTask \in Nat /\ NoTask \notin Creations /\ Torn \in Nat /\ Torn \notin Creations
  BY TaskStoreAssumption DEF Creations, NoTask, Torn

(* One process numbers at a time, with the number behind .highwater.       *)
NumberingInv ==
    \A p \in Processes : storeStage[p] = "numbering" =>
        /\ storeNumber[p] = highwater + 1
        /\ \A q \in Processes : storeStage[q] = "numbering" => p = q

(* What is claimed was numbered before, for a task that is not numbered.   *)
ClaimedInv ==
    \A n \in Nat, k \in Creations : HasClaim(n, k) =>
        /\ k <= creations /\ n <= highwater
        /\ \A p \in Processes : storeStage[p] = "numbering" => storeTask[p] # k

ClaimsAgree ==
    \A n, m \in Nat, k, j \in Creations : (HasClaim(n, k) /\ HasClaim(m, j)) => (n = m <=> k = j)

NumbersInv == NumberingInv /\ ClaimedInv /\ ClaimsAgree
TaskInv == TaskShapes /\ TaskBounds /\ (Undisturbed => NumbersInv)

LEMMA TaskInvInit == TaskInit => TaskInv
<1> SUFFICES ASSUME TaskInit PROVE TaskInv
  OBVIOUS
<1>1. TaskShapes
  BY TaskStoreAssumption DEF TaskInit, TaskShapes, Creations, NoTask
<1>2. TaskBounds
  BY TaskStoreAssumption, CreationsAre DEF TaskInit, TaskBounds, Past
<1>3. \A n \in Nat, k \in Creations : ~HasClaim(n, k)
  BY TaskStoreAssumption DEF TaskInit, HasClaim, Creations, NoTask
<1>4. NumberingInv
  BY DEF TaskInit, NumberingInv
<1> QED
  BY <1>1, <1>2, <1>3, <1>4 DEF TaskInv, NumbersInv, ClaimedInv, ClaimsAgree

(* What the steps do.                                                      *)
Now(p, stage, number, task) ==
    /\ storeStage' = [storeStage EXCEPT ![p] = stage]
    /\ storeNumber' = [storeNumber EXCEPT ![p] = number]
    /\ storeTask' = [storeTask EXCEPT ![p] = task]

LEMMA CreateChanges ==
    ASSUME NEW p \in Processes, BeginCreate(p)
    PROVE  /\ creations < MaxTasks /\ creations' = creations + 1
           /\ Now(p, "numbering", highwater + 1, creations + 1)
           /\ UNCHANGED <<highwater, taskFile, numberOf>>
  BY DEF BeginCreate, NextNumber, Operate, Now

LEMMA NumberedChanges ==
    ASSUME NEW p \in Processes, WriteHighwater(p)
    PROVE  /\ storeStage[p] = "numbering" /\ Now(p, "saving", storeNumber[p], storeTask[p])
           /\ highwater' = storeNumber[p] /\ UNCHANGED <<creations, taskFile, numberOf>>
  BY DEF WriteHighwater, Operate, Now, taskHistory

LEMMA LoseNumberChanges ==
    ASSUME NEW p \in Processes, LoseHighwater(p)
    PROVE  /\ storeStage[p] = "numbering" /\ Now(p, "idle", 0, NoTask)
           /\ highwater' = highwater \/ (highwater' = 0 /\ cutShort')
           /\ UNCHANGED <<creations, taskFile, numberOf>>
  BY DEF LoseHighwater, EndOperation, Operate, Now

LEMMA SaveChanges ==
    ASSUME NEW p \in Processes, SaveTask(p)
    PROVE  /\ storeStage[p] = "saving" /\ Now(p, "idle", 0, NoTask)
           /\ taskFile' = [taskFile EXCEPT ![storeNumber[p]] = storeTask[p]]
           /\ numberOf' = [numberOf EXCEPT ![storeTask[p]] = storeNumber[p]]
           /\ UNCHANGED <<highwater, creations>>
  BY DEF SaveTask, EndOperation, Operate, Now

LEMMA LoseChanges ==
    ASSUME NEW p \in Processes, LoseTask(p)
    PROVE  /\ storeStage[p] = "saving" /\ Now(p, "idle", 0, NoTask)
           /\ \E left \in {taskFile[storeNumber[p]], Torn, storeTask[p]} :
                  taskFile' = [taskFile EXCEPT ![storeNumber[p]] = left]
           /\ UNCHANGED <<highwater, creations, numberOf>>
  BY DEF LoseTask, EndOperation, Operate, Now, taskHistory

LEMMA UpdateChanges ==
    ASSUME NEW p \in Processes, BeginUpdate(p)
    PROVE  /\ \E n \in Creations :
                taskFile[n] \in Creations /\ Now(p, "saving", n, taskFile[n])
           /\ storeStage[p] = "idle" /\ UNCHANGED <<highwater, creations, taskFile, numberOf>>
  BY DEF BeginUpdate, Operate, Now, taskHistory

(* An operation that goes on, with files that are not about the future.    *)
Others(p) == \A q \in Processes \ {p} : /\ storeStage'[q] = storeStage[q]
                                        /\ storeNumber'[q] = storeNumber[q]
                                        /\ storeTask'[q] = storeTask[q]
Operations ==
    /\ storeStage \in [Processes -> {"idle", "numbering", "saving"}]
    /\ storeNumber \in [Processes -> Nat] /\ storeTask \in [Processes -> Nat]

LEMMA IdleNow ==
    ASSUME Operations, NEW p \in Processes, Now(p, "idle", 0, NoTask)
    PROVE  Operations' /\ Others(p) /\ storeStage'[p] = "idle"
  BY DEF Operations, Others, Now, NoTask

LEMMA BusyNow ==
    ASSUME Operations, NEW p \in Processes, NEW n \in Nat, NEW k \in Nat
    PROVE  \A stage \in {"numbering", "saving"} : Now(p, stage, n, k) =>
               Operations' /\ Others(p) /\ storeStage'[p] = stage /\ storeNumber'[p] = n /\ storeTask'[p] = k
  BY DEF Operations, Others, Now

LEMMA BoundsOf ==
    ASSUME TaskShapes, TaskBounds, NEW p \in Processes, Operations', Others(p),
           creations' \in Nat, highwater' \in Nat,
           creations <= creations', highwater' <= creations', creations' <= MaxTasks,
           taskFile' \in [Creations -> Nat], numberOf' \in [Creations -> Nat],
           storeStage'[p] = "idle" \/ (Past(storeNumber[p])' /\ Past(storeTask[p])'),
           \A m \in Creations : taskFile'[m] \in Creations =>
               taskFile'[m] = taskFile[m] \/ (m <= creations' /\ taskFile'[m] <= creations')
    PROVE  TaskShapes' /\ TaskBounds'
<1>1. TaskShapes'
  BY DEF TaskShapes, Operations
<1>2. ASSUME NEW q \in Processes, storeStage'[q] # "idle"
      PROVE  Past(storeNumber[q])' /\ Past(storeTask[q])'
  <2>1. CASE q = p
    BY <1>2, <2>1
  <2>2. CASE q # p
    <3>1. /\ storeNumber'[q] = storeNumber[q] /\ storeTask'[q] = storeTask[q]
          /\ storeStage[q] # "idle"
      BY <1>2, <2>2 DEF Others
    <3>2. /\ storeNumber[q] \in Creations /\ storeNumber[q] <= creations
          /\ storeTask[q] \in Creations /\ storeTask[q] <= creations
      BY <3>1 DEF TaskBounds, Past
    <3> QED
      BY <3>1, <3>2, CreationsAre DEF TaskShapes, Past
  <2> QED
    BY <2>1, <2>2
<1>3. ASSUME NEW m \in Creations, taskFile'[m] \in Creations
      PROVE  m <= creations' /\ taskFile'[m] <= creations'
  <2>1. CASE taskFile'[m] = taskFile[m]
    <3>1. m <= creations /\ taskFile[m] <= creations
      BY <1>3, <2>1 DEF TaskBounds, Past
    <3> QED
      BY <2>1, <3>1, CreationsAre DEF TaskShapes
  <2> QED
    BY <1>3, <2>1
<1> QED
  BY <1>1, <1>2, <1>3 DEF TaskBounds, Past

LEMMA TaskTypesStep ==
    TaskShapes /\ TaskBounds /\ [TaskNext]_taskVars => TaskShapes' /\ TaskBounds'
<1> SUFFICES ASSUME TaskShapes, TaskBounds, [TaskNext]_taskVars PROVE TaskShapes' /\ TaskBounds'
  OBVIOUS
<1>0. /\ creations \in Nat /\ highwater \in Nat /\ highwater <= creations /\ creations <= MaxTasks
      /\ taskFile \in [Creations -> Nat] /\ numberOf \in [Creations -> Nat]
      /\ MaxTasks \in Nat /\ creations <= creations /\ Operations
  BY TaskStoreAssumption DEF TaskShapes, TaskBounds, Operations
<1>1. ASSUME NEW p \in Processes, BeginCreate(p) PROVE TaskShapes' /\ TaskBounds'
  <2>1. /\ highwater + 1 \in Creations /\ highwater + 1 <= creations + 1
        /\ creations + 1 \in Creations /\ creations' = creations + 1 /\ creations' <= MaxTasks
    BY <1>0, <1>1, CreateChanges, CreationsAre
  <2>2. /\ Operations' /\ Others(p)
        /\ storeNumber'[p] = highwater + 1 /\ storeTask'[p] = creations + 1
    BY <1>0, <1>1, <2>1, CreateChanges, CreationsAre, BusyNow
  <2>3. Past(storeNumber[p])' /\ Past(storeTask[p])'
    BY <1>0, <2>1, <2>2 DEF Past
  <2>4. /\ creations' \in Nat /\ highwater' \in Nat /\ creations <= creations' /\ highwater' <= creations'
        /\ taskFile' = taskFile /\ numberOf' = numberOf
    BY <1>0, <1>1, <2>1, CreateChanges
  <2> QED
    BY <1>0, <2>1, <2>2, <2>3, <2>4, BoundsOf
<1>2. ASSUME NEW p \in Processes, WriteHighwater(p) PROVE TaskShapes' /\ TaskBounds'
  <2>1. Past(storeNumber[p]) /\ Past(storeTask[p])
    BY <1>2, NumberedChanges DEF TaskBounds
  <2>2. /\ Operations' /\ Others(p)
        /\ storeNumber'[p] = storeNumber[p] /\ storeTask'[p] = storeTask[p]
    BY <1>0, <1>2, <2>1, NumberedChanges, CreationsAre, BusyNow DEF Past
  <2>3. /\ creations' = creations /\ highwater' \in Nat /\ highwater' <= creations
        /\ taskFile' = taskFile /\ numberOf' = numberOf
    BY <1>2, <2>1, NumberedChanges, CreationsAre DEF Past
  <2>4. Past(storeNumber[p])' /\ Past(storeTask[p])'
    BY <2>1, <2>2, <2>3 DEF Past
  <2> QED
    BY <1>0, <2>2, <2>3, <2>4, BoundsOf
<1>3. ASSUME NEW p \in Processes, LoseHighwater(p) PROVE TaskShapes' /\ TaskBounds'
  <2>1. Operations' /\ Others(p) /\ storeStage'[p] = "idle"
    BY <1>0, <1>3, LoseNumberChanges, IdleNow
  <2>2. /\ creations' = creations /\ highwater' \in Nat /\ highwater' <= creations
        /\ taskFile' = taskFile /\ numberOf' = numberOf
    BY <1>0, <1>3, LoseNumberChanges
  <2> QED
    BY <1>0, <2>1, <2>2, BoundsOf
<1>4. ASSUME NEW p \in Processes, SaveTask(p) PROVE TaskShapes' /\ TaskBounds'
  <2>1. /\ storeNumber[p] \in Creations /\ storeNumber[p] <= creations
        /\ storeTask[p] \in Creations /\ storeTask[p] <= creations
    BY <1>4, SaveChanges DEF TaskBounds, Past
  <2>2. taskFile' \in [Creations -> Nat] /\ numberOf' \in [Creations -> Nat]
    BY <1>0, <1>4, <2>1, SaveChanges, CreationsAre
  <2>3. \A m \in Creations : taskFile'[m] \in Creations =>
            taskFile'[m] = taskFile[m] \/ (m <= creations /\ taskFile'[m] <= creations)
    BY <1>0, <1>4, <2>1, SaveChanges
  <2>4. Operations' /\ Others(p) /\ storeStage'[p] = "idle"
    BY <1>0, <1>4, SaveChanges, IdleNow
  <2>5. creations' = creations /\ highwater' = highwater
    BY <1>4, SaveChanges
  <2> QED
    BY <1>0, <2>2, <2>3, <2>4, <2>5, BoundsOf
<1>5. ASSUME NEW p \in Processes, LoseTask(p) PROVE TaskShapes' /\ TaskBounds'
  <2>1. /\ storeNumber[p] \in Creations /\ storeNumber[p] <= creations
        /\ storeTask[p] \in Creations /\ storeTask[p] <= creations
    BY <1>5, LoseChanges DEF TaskBounds, Past
  <2>2. PICK left \in {taskFile[storeNumber[p]], Torn, storeTask[p]} :
            taskFile' = [taskFile EXCEPT ![storeNumber[p]] = left]
    BY <1>5, LoseChanges
  <2>3. taskFile' \in [Creations -> Nat]
    BY <1>0, <2>1, <2>2, CreationsAre
  <2>4. \A m \in Creations : taskFile'[m] \in Creations =>
            taskFile'[m] = taskFile[m] \/ (m <= creations /\ taskFile'[m] <= creations)
    BY <1>0, <2>1, <2>2, CreationsAre
  <2>5. Operations' /\ Others(p) /\ storeStage'[p] = "idle"
    BY <1>0, <1>5, LoseChanges, IdleNow
  <2>6. creations' = creations /\ highwater' = highwater /\ numberOf' = numberOf
    BY <1>5, LoseChanges
  <2> QED
    BY <1>0, <2>3, <2>4, <2>5, <2>6, BoundsOf
<1>6. ASSUME NEW p \in Processes, BeginUpdate(p) PROVE TaskShapes' /\ TaskBounds'
  <2>1. PICK n \in Creations : taskFile[n] \in Creations /\ Now(p, "saving", n, taskFile[n])
    BY <1>6, UpdateChanges
  <2>2. Past(n) /\ Past(taskFile[n])
    BY <2>1 DEF TaskBounds
  <2>3. /\ Operations' /\ Others(p)
        /\ storeNumber'[p] = n /\ storeTask'[p] = taskFile[n]
    BY <1>0, <2>1, CreationsAre, BusyNow
  <2>4. /\ creations' = creations /\ highwater' = highwater
        /\ taskFile' = taskFile /\ numberOf' = numberOf
    BY <1>6, UpdateChanges
  <2>5. Past(storeNumber[p])' /\ Past(storeTask[p])'
    BY <2>2, <2>3, <2>4 DEF Past
  <2> QED
    BY <1>0, <2>3, <2>4, <2>5, BoundsOf
<1>7. CASE UNCHANGED taskVars
  BY <1>7 DEF taskVars, operation, taskHistory, TaskShapes, TaskBounds, Past
<1> QED
  BY <1>1, <1>2, <1>3, <1>4, <1>5, <1>6, <1>7 DEF TaskNext

LEMMA StaysUndisturbed == [TaskNext]_taskVars /\ Undisturbed' => Undisturbed
<1> SUFFICES ASSUME [TaskNext]_taskVars, ~cutShort', ~overlapped' PROVE ~cutShort /\ ~overlapped
  BY DEF Undisturbed
<1>1. ASSUME NEW p \in Processes, BeginCreate(p) PROVE ~cutShort /\ ~overlapped
  BY <1>1, Zenon DEF BeginCreate
<1>2. ASSUME NEW p \in Processes, WriteHighwater(p) PROVE ~cutShort /\ ~overlapped
  BY <1>2, Zenon DEF WriteHighwater, taskHistory
<1>3. ASSUME NEW p \in Processes, LoseHighwater(p) PROVE ~cutShort /\ ~overlapped
  <2>1. overlapped' = overlapped
    BY <1>3, Zenon DEF LoseHighwater
  <2>2. CASE cutShort' = cutShort
    BY <2>1, <2>2, Zenon
  <2>3. CASE cutShort' = TRUE
    BY <2>3, Zenon
  <2> QED
    BY <1>3, <2>2, <2>3, Zenon DEF LoseHighwater
<1>4. ASSUME NEW p \in Processes, SaveTask(p) PROVE ~cutShort /\ ~overlapped
  BY <1>4, Zenon DEF SaveTask
<1>5. ASSUME NEW p \in Processes, LoseTask(p) PROVE ~cutShort /\ ~overlapped
  BY <1>5, Zenon DEF LoseTask, taskHistory
<1>6. ASSUME NEW p \in Processes, BeginUpdate(p) PROVE ~cutShort /\ ~overlapped
  BY <1>6, Zenon DEF BeginUpdate, taskHistory
<1>7. CASE UNCHANGED taskVars
  BY <1>7, Zenon DEF taskVars, taskHistory
<1> QED
  BY <1>1, <1>2, <1>3, <1>4, <1>5, <1>6, <1>7, Zenon DEF TaskNext

(* A step without a new claim and without a new number.                    *)
LEMMA FewerClaims ==
    ASSUME NumbersInv, highwater' = highwater, creations' = creations,
           \A n \in Nat, k \in Creations : HasClaim(n, k)' => HasClaim(n, k),
           \A p \in Processes : storeStage'[p] = "numbering" =>
               /\ storeStage[p] = "numbering"
               /\ storeNumber'[p] = storeNumber[p] /\ storeTask'[p] = storeTask[p]
    PROVE  NumbersInv'
<1>1. NumberingInv'
  BY DEF NumbersInv, NumberingInv
<1>2. ClaimedInv'
  BY DEF NumbersInv, ClaimedInv
<1>3. ClaimsAgree'
  BY DEF NumbersInv, ClaimsAgree
<1> QED
  BY <1>1, <1>2, <1>3 DEF NumbersInv

LEMMA CreateNumbers ==
    ASSUME TaskInv, NumbersInv, NEW p \in Processes, BeginCreate(p), Undisturbed'
    PROVE  NumbersInv'
<1>1. /\ Others(p) /\ storeStage'[p] = "numbering"
      /\ storeNumber'[p] = highwater + 1 /\ storeTask'[p] = creations + 1
      /\ highwater' = highwater /\ creations' = creations + 1
      /\ creations \in Nat /\ highwater \in Nat
  BY CreateChanges, BusyNow DEF TaskInv, TaskShapes, Operations
<1>2. \A q \in Processes : storeStage[q] # "numbering"
  BY DEF BeginCreate, Undisturbed
<1>3. \A q \in Processes \ {p} : storeStage'[q] # "numbering"
  BY <1>1, <1>2 DEF Others
<1>4. \A n, k : HasClaim(n, k)' => HasClaim(n, k)
  <2>1. \A q \in Processes : storeStage'[q] = "saving" =>
           storeStage[q] = "saving" /\ storeNumber'[q] = storeNumber[q] /\ storeTask'[q] = storeTask[q]
    BY <1>1 DEF Others
  <2> QED
    BY <2>1, CreateChanges DEF HasClaim
<1>5. NumberingInv'
  BY <1>1, <1>3 DEF NumberingInv
<1>6. ClaimedInv'
  <2> SUFFICES ASSUME NEW n \in Nat, NEW k \in Creations, HasClaim(n, k)'
               PROVE  /\ k <= creations' /\ n <= highwater'
                      /\ \A q \in Processes : storeStage'[q] = "numbering" => storeTask'[q] # k
    BY DEF ClaimedInv
  <2>1. k \in Nat /\ k <= creations /\ n <= highwater
    BY <1>4, CreationsAre DEF NumbersInv, ClaimedInv
  <2> QED
    BY <1>1, <1>3, <2>1
<1>7. ClaimsAgree'
  BY <1>4 DEF NumbersInv, ClaimsAgree
<1> QED
  BY <1>5, <1>6, <1>7 DEF NumbersInv

LEMMA NumberedNumbers ==
    ASSUME TaskInv, NumbersInv, NEW p \in Processes, WriteHighwater(p)
    PROVE  NumbersInv'
<1> DEFINE n0 == storeNumber[p]
           k0 == storeTask[p]
<1>1. /\ storeStage[p] = "numbering" /\ n0 = highwater + 1 /\ n0 \in Nat /\ k0 \in Creations
      /\ k0 \in Nat /\ k0 <= creations /\ highwater \in Nat /\ creations \in Nat
  BY NumberedChanges, CreationsAre
     DEF TaskInv, TaskShapes, TaskBounds, Past, NumbersInv, NumberingInv
<1>2. /\ Others(p) /\ storeStage'[p] = "saving" /\ storeNumber'[p] = n0 /\ storeTask'[p] = k0
      /\ highwater' = n0 /\ creations' = creations
  BY <1>1, NumberedChanges, BusyNow DEF TaskInv, TaskShapes, Operations
<1>3. \A q \in Processes : storeStage'[q] # "numbering"
  BY <1>1, <1>2 DEF Others, NumbersInv, NumberingInv
<1>4. \A n, k : HasClaim(n, k)' => HasClaim(n, k) \/ (n = n0 /\ k = k0)
  <2>1. \A q \in Processes : storeStage'[q] = "saving" =>
           \/ storeStage[q] = "saving" /\ storeNumber'[q] = storeNumber[q] /\ storeTask'[q] = storeTask[q]
           \/ storeNumber'[q] = n0 /\ storeTask'[q] = k0
    BY <1>2 DEF Others
  <2> QED
    BY <2>1, NumberedChanges DEF HasClaim
<1>5. \A n \in Nat, k \in Creations : HasClaim(n, k) => n <= highwater /\ n # n0 /\ k # k0 /\ k <= creations
  BY <1>1 DEF NumbersInv, ClaimedInv
<1> HIDE DEF n0, k0
<1>6. NumberingInv'
  BY <1>3 DEF NumberingInv
<1>7. ClaimedInv'
  BY <1>1, <1>2, <1>3, <1>4, <1>5 DEF ClaimedInv
<1>8. ClaimsAgree'
  BY <1>4, <1>5 DEF NumbersInv, ClaimsAgree
<1> QED
  BY <1>6, <1>7, <1>8 DEF NumbersInv

LEMMA NumbersStep ==
    ASSUME TaskInv, NumbersInv, [TaskNext]_taskVars, Undisturbed'
    PROVE  NumbersInv'
<1>0. Operations /\ TaskShapes /\ TaskBounds
  BY DEF TaskInv, TaskShapes, Operations
<1>1. ASSUME NEW p \in Processes, LoseHighwater(p) PROVE NumbersInv'
  <2>1. highwater' = highwater
    BY <1>1, LoseNumberChanges DEF Undisturbed
  <2>2. Others(p) /\ storeStage'[p] = "idle"
    BY <1>0, <1>1, LoseNumberChanges, IdleNow
  <2>3. \A n, k : HasClaim(n, k)' => HasClaim(n, k)
    BY <1>1, <2>2, LoseNumberChanges DEF HasClaim, Others
  <2> QED
    BY <1>1, <2>1, <2>2, <2>3, LoseNumberChanges, FewerClaims DEF Others
<1>2. ASSUME NEW p \in Processes, SaveTask(p) PROVE NumbersInv'
  <2>1. Others(p) /\ storeStage'[p] = "idle"
    BY <1>0, <1>2, SaveChanges, IdleNow
  <2>2. \A n \in Nat, k \in Creations : HasClaim(n, k)' => HasClaim(n, k)
    <3> SUFFICES ASSUME NEW n \in Nat, NEW k \in Creations, HasClaim(n, k)' PROVE HasClaim(n, k)
      OBVIOUS
    <3>1. CASE numberOf'[k] = n /\ n # 0
      BY <1>0, <1>2, <3>1, SaveChanges DEF HasClaim, TaskShapes
    <3>2. CASE n \in Creations /\ taskFile'[n] = k
      BY <1>0, <1>2, <3>2, SaveChanges DEF HasClaim, TaskShapes
    <3>3. CASE \E q \in Processes : storeStage'[q] = "saving" /\ storeNumber'[q] = n /\ storeTask'[q] = k
      BY <2>1, <3>3 DEF HasClaim, Others
    <3> QED
      BY <3>1, <3>2, <3>3 DEF HasClaim
  <2> QED
    BY <1>2, <2>1, <2>2, SaveChanges, FewerClaims DEF Others
<1>3. ASSUME NEW p \in Processes, LoseTask(p) PROVE NumbersInv'
  <2>1. Others(p) /\ storeStage'[p] = "idle"
    BY <1>0, <1>3, LoseChanges, IdleNow
  <2>2. PICK left \in {taskFile[storeNumber[p]], Torn, storeTask[p]} :
            taskFile' = [taskFile EXCEPT ![storeNumber[p]] = left]
    BY <1>3, LoseChanges
  <2>3. \A n \in Nat, k \in Creations : HasClaim(n, k)' => HasClaim(n, k)
    <3> SUFFICES ASSUME NEW n \in Nat, NEW k \in Creations, HasClaim(n, k)' PROVE HasClaim(n, k)
      OBVIOUS
    <3>1. CASE numberOf'[k] = n /\ n # 0
      BY <1>3, <3>1, LoseChanges DEF HasClaim
    <3>2. CASE n \in Creations /\ taskFile'[n] = k
      <4>1. CASE n = storeNumber[p] /\ left = storeTask[p]
        BY <1>0, <1>3, <2>2, <3>2, <4>1, LoseChanges DEF HasClaim, TaskShapes
      <4>2. CASE ~(n = storeNumber[p] /\ left = storeTask[p])
        BY <1>0, <2>2, <3>2, <4>2, CreationsAre DEF HasClaim, TaskShapes
      <4> QED
        BY <4>1, <4>2
    <3>3. CASE \E q \in Processes : storeStage'[q] = "saving" /\ storeNumber'[q] = n /\ storeTask'[q] = k
      BY <2>1, <3>3 DEF HasClaim, Others
    <3> QED
      BY <3>1, <3>2, <3>3 DEF HasClaim
  <2> QED
    BY <1>3, <2>1, <2>3, LoseChanges, FewerClaims DEF Others
<1>4. ASSUME NEW p \in Processes, BeginUpdate(p) PROVE NumbersInv'
  <2>1. PICK m \in Creations : taskFile[m] \in Creations /\ Now(p, "saving", m, taskFile[m])
    BY <1>4, UpdateChanges
  <2>2. /\ Others(p) /\ storeStage'[p] = "saving"
        /\ storeNumber'[p] = m /\ storeTask'[p] = taskFile[m]
    BY <1>0, <2>1, CreationsAre, BusyNow
  <2>3. \A n, k : HasClaim(n, k)' => HasClaim(n, k)
    BY <1>4, <2>2, UpdateChanges DEF HasClaim, Others
  <2> QED
    BY <1>4, <2>2, <2>3, UpdateChanges, FewerClaims DEF Others
<1>5. CASE UNCHANGED taskVars
  <2>1. \A n, k : HasClaim(n, k)' => HasClaim(n, k)
    BY <1>5 DEF taskVars, operation, taskHistory, HasClaim
  <2> QED
    BY <1>5, <2>1, FewerClaims DEF taskVars, operation, taskHistory
<1> QED
  BY <1>1, <1>2, <1>3, <1>4, <1>5, CreateNumbers, NumberedNumbers DEF TaskNext

(* Numbers that .highwater has given out stay apart for any number of      *)
(* processes and creations, through any failures and crashes that leave    *)
(* .highwater itself whole.                                                *)
THEOREM NumbersStayDistinct == TaskSpec => []NumbersDistinct
<1>1. TaskInv /\ [TaskNext]_taskVars => TaskInv'
  <2> SUFFICES ASSUME TaskInv, [TaskNext]_taskVars PROVE TaskInv'
    OBVIOUS
  <2>1. TaskShapes' /\ TaskBounds'
    BY TaskTypesStep DEF TaskInv
  <2>2. Undisturbed' => NumbersInv'
    BY StaysUndisturbed, NumbersStep DEF TaskInv
  <2> QED
    BY <2>1, <2>2 DEF TaskInv
<1>2. TaskInv => NumbersDistinct
  <2> SUFFICES ASSUME TaskInv, Undisturbed, NEW j \in Creations, NEW k \in Creations,
                      j # k, numberOf[j] # 0, numberOf[j] = numberOf[k]
               PROVE  FALSE
    BY DEF NumbersDistinct, Undisturbed
  <2>1. numberOf[j] \in Nat /\ HasClaim(numberOf[j], j) /\ HasClaim(numberOf[j], k)
    BY DEF TaskInv, TaskShapes, HasClaim
  <2> QED
    BY <2>1 DEF TaskInv, NumbersInv, ClaimsAgree
<1> QED
  BY <1>1, <1>2, TaskInvInit, PTL DEF TaskSpec

----------------------------------------------------------------------------
(* DreamLedger: the ledger of reviewed sessions.                           *)
DreamStages == {"watching", "looked", "locked", "dreaming", "done", "marked"}
Holding == {"locked", "dreaming", "done", "marked"}

DreamShapes ==
    /\ clock \in Nat /\ finishedAt \in Nat /\ finishedAt <= clock
    /\ dreamStage \in [Servers -> DreamStages] /\ listed \in [Servers -> SUBSET outcomes]
    /\ reviewed \subseteq outcomes
OutcomesPast == \A o \in outcomes : o[2] \in Nat /\ o[2] <= clock
(* The flock admits one dreamer.                                           *)
OneDreamer == \A p \in Servers : dreamStage[p] \in Holding => dreamLock = p
(* The marker is never older than what was reviewed under it.              *)
ReviewedExcluded == \A o \in reviewed : Excluded(o)
DreamInv == DreamShapes /\ OutcomesPast /\ OneDreamer /\ ReviewedExcluded /\ NothingReviewedTwice

LEMMA DreamInvInit == DreamInit => DreamInv
BY DEF DreamInit, DreamInv, DreamShapes, DreamStages, OutcomesPast, OneDreamer, Holding,
   ReviewedExcluded, NothingReviewedTwice

(* Steps that leave the lists, the marker and the outcomes alone.          *)
LEMMA LedgerUntouched ==
    ASSUME DreamInv, dreamStage' \in [Servers -> DreamStages], OneDreamer',
           UNCHANGED <<clock, outcomes, listed, marker, reviewed>>,
           \A p \in Servers : dreamStage'[p] = "dreaming" => dreamStage[p] = "dreaming"
    PROVE  DreamInv'
BY DEF DreamInv, DreamShapes, OutcomesPast, ReviewedExcluded, Excluded, NothingReviewedTwice, marker

LEMMA DreamStep == DreamInv /\ [DreamNext]_dreamVars => DreamInv'
<1> SUFFICES ASSUME DreamInv, [DreamNext]_dreamVars PROVE DreamInv'
  OBVIOUS
<1>0. /\ dreamStage \in [Servers -> DreamStages] /\ listed \in [Servers -> SUBSET outcomes]
      /\ \A p \in Servers : Unlocked # p
  BY DreamAssumption DEF DreamInv, DreamShapes
<1>1. CASE ClockTicks
  BY <1>1 DEF ClockTicks, scheduler, sessionFiles, marker, DreamInv, DreamShapes, OutcomesPast,
     OneDreamer, ReviewedExcluded, Excluded, NothingReviewedTwice
<1>2. ASSUME NEW p \in Servers, NEW c \in Chats, RunStarts(p, c) PROVE DreamInv'
  BY <1>2 DEF RunStarts, scheduler, sessionFiles, marker, DreamInv, DreamShapes, OutcomesPast,
     OneDreamer, ReviewedExcluded, Excluded, NothingReviewedTwice
<1>3. ASSUME NEW p \in Servers, NEW c \in Chats, RunEnds(p, c) PROVE DreamInv'
  <2>1. /\ outcomes' = outcomes \cup {<<c, clock>>}
        /\ UNCHANGED <<clock, dreamLock, reviewed, dreamStage, listed, analyzed, finishedAt>>
    BY <1>3 DEF RunEnds, scheduler, marker
  <2>2. OutcomesPast'
    BY <2>1 DEF DreamInv, DreamShapes, OutcomesPast
  <2>3. DreamShapes'
    BY <1>0, <2>1 DEF DreamInv, DreamShapes
  <2> QED
    BY <2>1, <2>2, <2>3 DEF DreamInv, OneDreamer, ReviewedExcluded, Excluded, NothingReviewedTwice
<1>4. ASSUME NEW p \in Servers, Look(p) PROVE DreamInv'
  <2>1. /\ dreamStage' = [dreamStage EXCEPT ![p] = "looked"]
        /\ UNCHANGED <<clock, outcomes, listed, marker, reviewed, dreamLock>>
    BY <1>4 DEF Look, Stage
  <2>2. /\ dreamStage' \in [Servers -> DreamStages] /\ dreamStage'[p] = "looked"
        /\ \A q \in Servers \ {p} : dreamStage'[q] = dreamStage[q]
    BY <1>0, <2>1 DEF DreamStages
  <2>3. OneDreamer'
    BY <2>1, <2>2 DEF DreamInv, OneDreamer, Holding
  <2> QED
    BY <2>1, <2>2, <2>3, LedgerUntouched
<1>5. ASSUME NEW p \in Servers, SkipClean(p) PROVE DreamInv'
  <2>1. /\ dreamStage' = [dreamStage EXCEPT ![p] = "watching"]
        /\ UNCHANGED <<clock, outcomes, listed, marker, reviewed, dreamLock>>
    BY <1>5 DEF SkipClean, Stage
  <2>2. /\ dreamStage' \in [Servers -> DreamStages] /\ dreamStage'[p] = "watching"
        /\ \A q \in Servers \ {p} : dreamStage'[q] = dreamStage[q]
    BY <1>0, <2>1 DEF DreamStages
  <2>3. OneDreamer'
    BY <2>1, <2>2 DEF DreamInv, OneDreamer, Holding
  <2> QED
    BY <2>1, <2>2, <2>3, LedgerUntouched
<1>6. ASSUME NEW p \in Servers, AcquireLock(p) PROVE DreamInv'
  <2>1. UNCHANGED <<clock, outcomes, listed, marker, reviewed>>
    BY <1>6 DEF AcquireLock, sessionFiles
  <2>2. CASE dreamLock = Unlocked /\ dreamLock' = p /\ dreamStage' = [dreamStage EXCEPT ![p] = "locked"]
    <3>1. /\ dreamStage' \in [Servers -> DreamStages] /\ dreamStage'[p] = "locked"
          /\ \A q \in Servers \ {p} : dreamStage'[q] = dreamStage[q]
      BY <1>0, <2>2 DEF DreamStages
    <3>2. OneDreamer'
      BY <1>0, <2>2, <3>1 DEF DreamInv, OneDreamer
    <3> QED
      BY <2>1, <3>1, <3>2, LedgerUntouched
  <2>3. CASE dreamLock' = dreamLock /\ dreamStage' = [dreamStage EXCEPT ![p] = "watching"]
    <3>1. /\ dreamStage' \in [Servers -> DreamStages] /\ dreamStage'[p] = "watching"
          /\ \A q \in Servers \ {p} : dreamStage'[q] = dreamStage[q]
      BY <1>0, <2>3 DEF DreamStages
    <3>2. OneDreamer'
      BY <2>3, <3>1 DEF DreamInv, OneDreamer, Holding
    <3> QED
      BY <2>1, <3>1, <3>2, LedgerUntouched
  <2> QED
    BY <1>6, <2>2, <2>3 DEF AcquireLock, Stage
<1>7. ASSUME NEW p \in Servers, Brief(p) PROVE DreamInv'
  <2>1. /\ dreamStage[p] = "locked" /\ dreamStage' = [dreamStage EXCEPT ![p] = "dreaming"]
        /\ listed' = [listed EXCEPT ![p] = BriefOf]
        /\ UNCHANGED <<clock, outcomes, analyzed, finishedAt, reviewed, dreamLock>>
    BY <1>7 DEF Brief, Stage, sessionFiles, marker
  <2>2. /\ dreamStage' \in [Servers -> DreamStages] /\ dreamStage'[p] = "dreaming"
        /\ \A q \in Servers \ {p} : dreamStage'[q] = dreamStage[q]
    BY <1>0, <2>1 DEF DreamStages
  <2>3. BriefOf \subseteq outcomes /\ BriefOf \cap reviewed = {}
    BY DEF BriefOf, DreamInv, ReviewedExcluded
  <2>4. OneDreamer'
    BY <2>1, <2>2 DEF DreamInv, OneDreamer, Holding
  <2>5. NothingReviewedTwice'
    BY <1>0, <2>1, <2>2, <2>3 DEF DreamInv, NothingReviewedTwice
  <2>6. listed' \in [Servers -> SUBSET outcomes]
    BY <1>0, <2>1, <2>3
  <2> QED
    BY <2>1, <2>2, <2>4, <2>5, <2>6
       DEF DreamInv, DreamShapes, OutcomesPast, ReviewedExcluded, Excluded
<1>8. ASSUME NEW p \in Servers, DreamEnds(p) PROVE DreamInv'
  <2>1. /\ dreamStage[p] = "dreaming" /\ dreamStage' = [dreamStage EXCEPT ![p] = "done"]
        /\ UNCHANGED <<clock, outcomes, listed, marker, reviewed, dreamLock>>
    BY <1>8 DEF DreamEnds, Stage
  <2>2. /\ dreamStage' \in [Servers -> DreamStages] /\ dreamStage'[p] = "done"
        /\ \A q \in Servers \ {p} : dreamStage'[q] = dreamStage[q]
    BY <1>0, <2>1 DEF DreamStages
  <2>3. OneDreamer'
    BY <2>1, <2>2 DEF DreamInv, OneDreamer, Holding
  <2> QED
    BY <2>1, <2>2, <2>3, LedgerUntouched
<1>9. ASSUME NEW p \in Servers, WriteMarker(p) PROVE DreamInv'
  <2>1. /\ dreamStage[p] = "done" /\ dreamStage' = [dreamStage EXCEPT ![p] = "marked"]
        /\ finishedAt' = clock /\ UNCHANGED <<clock, outcomes, listed, dreamLock>>
    BY <1>9 DEF WriteMarker, Stage, sessionFiles
  <2>2. /\ dreamStage' \in [Servers -> DreamStages] /\ dreamStage'[p] = "marked"
        /\ \A q \in Servers \ {p} : dreamStage'[q] = dreamStage[q]
    BY <1>0, <2>1 DEF DreamStages
  <2>3. OneDreamer'
    BY <2>1, <2>2 DEF DreamInv, OneDreamer, Holding
  <2>4. \A q \in Servers : dreamStage'[q] # "dreaming"
    BY <2>1, <2>2 DEF DreamInv, OneDreamer, Holding
  <2>5. NothingReviewedTwice'
    BY <2>4 DEF NothingReviewedTwice
  <2>6. /\ analyzed \subseteq analyzed' /\ reviewed' \subseteq reviewed \cup listed[p]
        /\ \A o \in reviewed' \ reviewed : o[1] \in analyzed'
    BY <1>9 DEF WriteMarker, ChatsOf
  <2>7. listed[p] \subseteq outcomes
    BY <1>0
  <2>8. DreamShapes'
    BY <2>1, <2>2, <2>6, <2>7 DEF DreamInv, DreamShapes
  <2>9. \A o \in reviewed : o[1] \in analyzed' /\ o[2] <= clock
    BY <2>6 DEF DreamInv, DreamShapes, OutcomesPast, ReviewedExcluded, Excluded
  <2>10. \A o \in reviewed' \ reviewed : o[1] \in analyzed' /\ o[2] <= clock
    BY <2>6, <2>7 DEF DreamInv, OutcomesPast
  <2>11. ReviewedExcluded'
    BY <2>1, <2>9, <2>10 DEF ReviewedExcluded, Excluded
  <2>12. OutcomesPast'
    BY <2>1 DEF DreamInv, OutcomesPast
  <2> QED
    BY <2>3, <2>5, <2>8, <2>11, <2>12 DEF DreamInv
<1>10. ASSUME NEW p \in Servers, Conclude(p) \/ StartOver(p) PROVE DreamInv'
  <2>1. /\ dreamStage' = [dreamStage EXCEPT ![p] = "watching"] /\ listed' = [listed EXCEPT ![p] = {}]
        /\ UNCHANGED <<clock, outcomes, analyzed, finishedAt, reviewed>>
    BY <1>10 DEF Conclude, StartOver, Stage, Forget, marker
  <2>2. \/ dreamStage[p] = "marked" /\ dreamLock' = Unlocked
        \/ dreamLock' = IF dreamLock = p THEN Unlocked ELSE dreamLock
    BY <1>10 DEF Conclude, StartOver, Stage
  <2>3. /\ dreamStage' \in [Servers -> DreamStages] /\ dreamStage'[p] = "watching"
        /\ \A q \in Servers \ {p} : dreamStage'[q] = dreamStage[q]
    BY <1>0, <2>1 DEF DreamStages
  <2>4. OneDreamer'
    BY <2>2, <2>3 DEF DreamInv, OneDreamer, Holding
  <2>5. listed' \in [Servers -> SUBSET outcomes] /\ \A q \in Servers \ {p} : listed'[q] = listed[q]
    BY <1>0, <2>1
  <2>6. NothingReviewedTwice'
    BY <2>1, <2>3, <2>5 DEF DreamInv, NothingReviewedTwice
  <2> QED
    BY <2>1, <2>3, <2>4, <2>5, <2>6
       DEF DreamInv, DreamShapes, OutcomesPast, ReviewedExcluded, Excluded
<1>11. CASE UNCHANGED dreamVars
  BY <1>11 DEF dreamVars, scheduler, sessionFiles, marker, DreamInv, DreamShapes, OutcomesPast,
     OneDreamer, ReviewedExcluded, Excluded, NothingReviewedTwice
<1> QED
  BY <1>1, <1>2, <1>3, <1>4, <1>5, <1>6, <1>7, <1>8, <1>9, <1>10, <1>11 DEF DreamNext

(* For any servers, sessions and number of dreams, an outcome a completed  *)
(* dream was shown is in no later brief: the time and the sessions of the  *)
(* marker cover it, and the flock keeps a second brief from being drawn up *)
(* before the marker is written.                                           *)
THEOREM NothingIsReviewedTwice == DreamSpec => []NothingReviewedTwice
<1>1. DreamInv => NothingReviewedTwice
  BY DEF DreamInv
<1> QED
  BY <1>1, DreamInvInit, DreamStep, PTL DEF DreamSpec

----------------------------------------------------------------------------
(* Evolution: proposals, the gate and the commit.                          *)
BeforeCutOver == {"claimed", "accepted", "copying", "snapshotted", "promoting", "prepared", "recorded"}
AfterCutOver == {"exchanged", "synced", "cleaning"}
Ever == written \cup {Missing, Truncated}

WrittenInOrder == \E n \in Nat : written = 2..(n + 1)
NamesWritten ==
    /\ liveFile \in Ever /\ promotion \in Ever /\ newest \in Ever
    /\ savedLive \in Ever /\ savedShadow \in written \cup {Missing}
    /\ shadow \in written \cup {Missing}
    /\ rejected \subseteq written /\ wentLive \subseteq written /\ revived \subseteq written
(* What is refused as far as anything but the power has to do with it.     *)
Refused == rejected \ revived
(* What is in use, or may come back into use, was not refused.             *)
InUseNotRefused ==
    /\ {liveFile, savedLive, newest} \cap Refused = {}
    /\ commitStage \in AfterCutOver => promotion \notin Refused
(* A proposal that waits, or that a loss of power would bring back, is     *)
(* known under no other name; only the second may have been refused.       *)
WaitingIsUnjudged ==
    /\ shadow # Missing =>
          shadow \notin Refused \cup wentLive \cup {liveFile, savedLive, newest, promotion}
    /\ savedShadow # Missing => savedShadow \notin wentLive \cup {liveFile, savedLive, newest}
ClaimedIsUnjudged ==
    commitStage \in BeforeCutOver =>
        /\ claimed \in written
        /\ claimed \notin Refused \cup wentLive \cup {liveFile, savedLive, newest, shadow}
        /\ commitStage \in {"prepared", "recorded"} => promotion = claimed
        /\ commitStage = "recorded" => savedShadow # claimed
EditorKnown == editor = "promotion" => commitStage \in AfterCutOver

EvolutionInv ==
    /\ WrittenInOrder /\ NamesWritten /\ InUseNotRefused /\ WaitingIsUnjudged
    /\ ClaimedIsUnjudged /\ EditorKnown

LEMMA EvolutionInvInit == EvolutionInit => EvolutionInv
<1> SUFFICES ASSUME EvolutionInit PROVE EvolutionInv
  OBVIOUS
<1>1. written = 2..(1 + 1)
  BY DEF EvolutionInit
<1>2. WrittenInOrder
  BY <1>1 DEF WrittenInOrder
<1> QED
  BY <1>2 DEF EvolutionInit, EvolutionInv, NamesWritten, Ever, Missing, InUseNotRefused, Refused,
     WaitingIsUnjudged, ClaimedIsUnjudged, BeforeCutOver, AfterCutOver, EditorKnown

(* Contents are numbered in the order in which they are written.           *)
LEMMA FreshIsNew ==
    ASSUME WrittenInOrder, NEW c, Fresh(c)
    PROVE  /\ c \notin Ever /\ written' = written \cup {c} /\ WrittenInOrder'
           /\ Missing \notin written /\ Truncated \notin written
<1>1. PICK n \in Nat : written = 2..(n + 1)
  BY DEF WrittenInOrder
<1>2. Cardinality(written) = n
  <2>1. Cardinality(2..(n + 1)) = IF 2 > n + 1 THEN 0 ELSE (n + 1) - 2 + 1
    BY <1>1, FS_Interval
  <2> QED
    BY <1>1, <2>1
<1>3. c = n + 2 /\ written' = written \cup {c}
  BY <1>2 DEF Fresh
<1>4. written' = 2..((n + 1) + 1)
  BY <1>1, <1>3
<1>5. WrittenInOrder'
  BY <1>1, <1>4 DEF WrittenInOrder
<1> QED
  BY <1>1, <1>3, <1>5 DEF Ever, Missing, Truncated

LEMMA NeverWritten == WrittenInOrder => Missing \notin written /\ Truncated \notin written
BY DEF WrittenInOrder, Missing, Truncated

(* The editor, the dream and a restored snapshot.                          *)
LEMMA OthersKeepEvolutionInv ==
    ASSUME EvolutionInv, Propose \/ EditorOpens \/ EditorWrites \/ WriteBack \/ Restore
    PROVE  EvolutionInv'
<1>0. Missing \notin written /\ Truncated \notin written /\ Truncated # Missing
  BY NeverWritten DEF EvolutionInv, Missing, Truncated
<1>1. CASE Propose
  <2>1. PICK c : Fresh(c) /\ shadow' = c
    BY <1>1 DEF Propose
  <2>2. /\ c \notin Ever /\ written' = written \cup {c} /\ WrittenInOrder'
    BY <2>1, FreshIsNew DEF EvolutionInv
  <2> QED
    BY <1>1, <2>1, <2>2 DEF Propose, savedVars, EvolutionInv, NamesWritten, Ever, InUseNotRefused, Refused,
       WaitingIsUnjudged, ClaimedIsUnjudged, EditorKnown
<1>2. CASE EditorOpens
  <2>1. /\ liveFile' = Truncated /\ savedLive' \in {savedLive, Truncated} /\ editor' = "live"
        /\ UNCHANGED <<commitStage, shadow, savedShadow, claimed, promotion, newest, written, rejected,
                       wentLive, revived>>
    BY <1>2 DEF EditorOpens, pastVars
  <2>2. WrittenInOrder' /\ NamesWritten' /\ EditorKnown'
    BY <2>1 DEF EvolutionInv, WrittenInOrder, NamesWritten, Ever, EditorKnown
  <2>3. Refused' = Refused /\ Refused \subseteq written /\ wentLive \subseteq written
    BY <2>1 DEF EvolutionInv, NamesWritten, Refused
  <2>4. InUseNotRefused'
    BY <1>0, <2>1, <2>3 DEF EvolutionInv, InUseNotRefused
  <2>5. WaitingIsUnjudged' /\ ClaimedIsUnjudged'
    <3>1. shadow # Truncated /\ savedShadow # Truncated
      BY <1>0 DEF EvolutionInv, NamesWritten
    <3> QED
      BY <1>0, <2>1, <2>3, <3>1 DEF EvolutionInv, WaitingIsUnjudged, ClaimedIsUnjudged
  <2> QED
    BY <2>2, <2>4, <2>5 DEF EvolutionInv
<1>3. CASE EditorWrites
  <2>1. PICK c : /\ Fresh(c)
                 /\ liveFile' = IF editor = "live" THEN c ELSE liveFile
                 /\ promotion' = IF editor = "promotion" THEN c ELSE promotion
                 /\ savedLive' \in {savedLive, c}
    BY <1>3 DEF EditorWrites
  <2>2. /\ c \notin Ever /\ written' = written \cup {c} /\ WrittenInOrder'
    BY <2>1, FreshIsNew DEF EvolutionInv
  <2>3. /\ editor' = "nowhere" /\ savedLive' \in {savedLive, c}
        /\ UNCHANGED <<commitStage, shadow, savedShadow, claimed, newest, rejected, wentLive, revived>>
    BY <1>3, <2>1 DEF EditorWrites
  <2>4. editor = "promotion" => commitStage \notin BeforeCutOver
    BY DEF EvolutionInv, EditorKnown, BeforeCutOver, AfterCutOver
  <2>5. NamesWritten' /\ InUseNotRefused' /\ WaitingIsUnjudged' /\ EditorKnown'
    BY <2>1, <2>2, <2>3 DEF EvolutionInv, NamesWritten, Ever, InUseNotRefused, Refused, WaitingIsUnjudged,
       EditorKnown
  <2>6. ClaimedIsUnjudged'
    <3>1. Refused' = Refused
      BY <2>3 DEF Refused
    <3> QED
      BY <2>1, <2>2, <2>3, <2>4, <3>1 DEF EvolutionInv, Ever, ClaimedIsUnjudged
  <2> QED
    BY <2>2, <2>5, <2>6 DEF EvolutionInv
<1>4. CASE Restore
  <2>1. /\ commitStage = "idle" /\ liveFile' = newest
        /\ UNCHANGED <<commitStage, shadow, claimed, promotion, newest, written, rejected, wentLive,
                       revived>>
        /\ editor' \in {editor, "unlinked"}
    BY <1>4 DEF Restore, EditorIn, pastVars
  <2>2. /\ savedLive' \in {savedLive, newest}
        /\ savedShadow' \in {savedShadow, shadow}
        /\ savedShadow' = savedShadow \/ savedLive' = newest
    BY <1>4 DEF Restore, SyncedAs, NotSynced, savedVars
  <2>3. WrittenInOrder' /\ NamesWritten' /\ EditorKnown'
    BY <2>1, <2>2 DEF EvolutionInv, WrittenInOrder, NamesWritten, Ever, EditorKnown
  <2>4. InUseNotRefused' /\ WaitingIsUnjudged'
    BY <2>1, <2>2 DEF EvolutionInv, InUseNotRefused, Refused, WaitingIsUnjudged
  <2>5. ClaimedIsUnjudged'
    BY <2>1 DEF ClaimedIsUnjudged, BeforeCutOver
  <2> QED
    BY <2>3, <2>4, <2>5 DEF EvolutionInv
<1>5. CASE WriteBack
  BY <1>0, <1>5 DEF WriteBack, Synced, SyncedAs, nameVars, pastVars, EvolutionInv, WrittenInOrder,
     NamesWritten, Ever, InUseNotRefused, Refused, WaitingIsUnjudged, ClaimedIsUnjudged, EditorKnown
<1> QED
  BY <1>1, <1>2, <1>3, <1>4, <1>5

(* A commit before it touches the live file: what it does not claim it     *)
(* returns, to its name or out of the way.                                 *)
LEMMA BeforeKeepsEvolutionInv ==
    ASSUME EvolutionInv,
           \/ Claim \/ Reject \/ Accept \/ OpenLive \/ PublishSnapshot \/ CheckSnapshot
           \/ CopyCandidate \/ WriteRecord \/ CommitFails
    PROVE  EvolutionInv'
<1>0. Missing \notin written /\ Truncated \notin written /\ Truncated # Missing
  BY NeverWritten DEF EvolutionInv, Missing, Truncated
<1> USE DEF Unharmed, Synced, SyncedAs, NotSynced, nameVars, savedVars, diskVars, pastVars, EvolutionInv, NamesWritten, Ever, InUseNotRefused, Refused,
     WaitingIsUnjudged, ClaimedIsUnjudged, EditorKnown, BeforeCutOver, AfterCutOver, Go
<1>1. CASE Claim
  <2>1. /\ commitStage = "idle" /\ commitStage' = "claimed" /\ shadow # Missing
        /\ claimed' = shadow /\ shadow' = Missing
        /\ UNCHANGED <<liveFile, promotion, newest, editor, written, savedLive, savedShadow,
                       rejected, wentLive, revived>>
    BY <1>1 DEF Claim
  <2> QED
    BY <1>0, <2>1 DEF WrittenInOrder
<1>2. CASE Reject
  BY <1>0, <1>2 DEF Reject, WrittenInOrder
<1>3. CASE Accept
  BY <1>3 DEF Accept, WrittenInOrder
<1>4. CASE OpenLive
  BY <1>4 DEF OpenLive, WrittenInOrder
<1>5. CASE PublishSnapshot
  BY <1>5 DEF PublishSnapshot, WrittenInOrder
<1>6. CASE CheckSnapshot
  BY <1>6 DEF CheckSnapshot, WrittenInOrder
<1>7. CASE CopyCandidate
  BY <1>7 DEF CopyCandidate, WrittenInOrder
<1>8. CASE WriteRecord
  BY <1>8 DEF WriteRecord, WrittenInOrder
<1>9. CASE CommitFails
  BY <1>0, <1>9 DEF CommitFails, GiveUpCommit, Requeue, WrittenInOrder
<1> QED
  BY <1>1, <1>2, <1>3, <1>4, <1>5, <1>6, <1>7, <1>8, <1>9

(* The cutover and what comes after it: the claim is never returned,       *)
(* except by a cutover that did nothing.                                   *)
LEMMA AfterKeepsEvolutionInv ==
    ASSUME EvolutionInv,
           \/ Exchange \/ CutOverFails \/ CheckCutOver \/ SyncFails \/ ClearFails \/ ClearRecord
           \/ CleanUp \/ CrashCommit \/ PowerLoss
    PROVE  EvolutionInv'
<1>0. Missing \notin written /\ Truncated \notin written /\ Truncated # Missing
  BY NeverWritten DEF EvolutionInv, Missing, Truncated
<1> USE DEF Unharmed, Synced, SyncedAs, NotSynced, nameVars, savedVars, diskVars, pastVars, EvolutionInv, NamesWritten, Ever, InUseNotRefused, Refused,
     WaitingIsUnjudged, ClaimedIsUnjudged, EditorKnown, BeforeCutOver, AfterCutOver, Go, EditorIn
<1>1. ASSUME NEW kept, LeaveForRecovery(kept) PROVE EvolutionInv'
  BY <1>0, <1>1 DEF LeaveForRecovery, WrittenInOrder
<1>2. CASE Exchange
  BY <1>0, <1>2 DEF Exchange, CutOver, WrittenInOrder
<1>3. CASE CutOverFails
  BY <1>0, <1>1, <1>3 DEF CutOverFails, WrittenInOrder
<1>4. CASE CheckCutOver
  <2>1. CASE commitStage = "exchanged" /\ commitStage' = "synced" /\ Synced
             /\ UNCHANGED <<editor, nameVars, pastVars>>
    BY <2>1 DEF WrittenInOrder
  <2> QED
    BY <1>1, <1>4, <2>1 DEF CheckCutOver
<1>5. CASE SyncFails \/ ClearFails \/ CrashCommit
  BY <1>1, <1>5 DEF SyncFails, ClearFails, CrashCommit
<1>6. CASE ClearRecord
  BY <1>6 DEF ClearRecord, WrittenInOrder
<1>7. CASE CleanUp
  BY <1>0, <1>7 DEF CleanUp, WrittenInOrder
<1>8. CASE PowerLoss
  BY <1>0, <1>8 DEF PowerLoss, Kept, WrittenInOrder
<1> QED
  BY <1>2, <1>3, <1>4, <1>5, <1>6, <1>7, <1>8

LEMMA EvolutionInvStep ==
    ASSUME EvolutionInv, [EvolutionNext]_evolutionVars
    PROVE  EvolutionInv'
<1>1. CASE UNCHANGED evolutionVars
  BY <1>1 DEF evolutionVars, nameVars, savedVars, diskVars, pastVars, EvolutionInv, WrittenInOrder, NamesWritten, Ever,
     InUseNotRefused, Refused, WaitingIsUnjudged, ClaimedIsUnjudged, EditorKnown
<1>2. CASE Propose \/ EditorOpens \/ EditorWrites \/ WriteBack \/ Restore
  BY <1>2, OthersKeepEvolutionInv
<1>3. CASE \/ Claim \/ Reject \/ Accept \/ OpenLive \/ PublishSnapshot \/ CheckSnapshot
           \/ CopyCandidate \/ WriteRecord \/ CommitFails
  BY <1>3, BeforeKeepsEvolutionInv
<1>4. CASE \/ Exchange \/ CutOverFails \/ CheckCutOver \/ SyncFails \/ ClearFails \/ ClearRecord
           \/ CleanUp \/ CrashCommit \/ PowerLoss
  BY <1>4, AfterKeepsEvolutionInv
<1> QED
  BY <1>1, <1>2, <1>3, <1>4 DEF EvolutionNext

(* However many contents are written, and wherever a commit fails, is      *)
(* interrupted or loses power: no proposal that has gone live comes back   *)
(* as a proposal, and none that was refused comes back or goes live,       *)
(* except those that a loss of power brought back after their refusal.     *)
THEOREM NoProposalIsJudgedTwice == EvolutionSpec => []ProposalsJudgedOnce
<1>1. EvolutionInv => ProposalsJudgedOnce
  BY NeverWritten DEF EvolutionInv, NamesWritten, InUseNotRefused, Refused, WaitingIsUnjudged,
     ProposalsJudgedOnce
<1>2. EvolutionInv /\ [EvolutionNext]_evolutionVars => EvolutionInv'
  BY EvolutionInvStep
<1> QED
  BY <1>1, <1>2, EvolutionInvInit, PTL DEF EvolutionSpec

(* What a cutover takes from under the live name.  Until the cutover is    *)
(* checked it is the promotion, or it is in the history; from then on it   *)
(* is what was snapshotted, or it was never there.                         *)
Published == {"snapshotted", "promoting", "prepared", "recorded"} \cup AfterCutOver
EditorHasTruncated ==
    /\ editor = "live" => liveFile = Truncated
    /\ editor = "promotion" => promotion = Truncated
ExpectedIsPublished == commitStage \in Published => expected \in snapshots \cup {Missing}
NothingWasThere == commitStage \in AfterCutOver /\ expected = Missing => promotion = Missing
HeldBack ==
    /\ displaced \subseteq written
    /\ \A c \in displaced :
          c \in snapshots \cup quarantine \/ (commitStage = "exchanged" /\ c = promotion)

DisplacedInv == EditorHasTruncated /\ ExpectedIsPublished /\ NothingWasThere /\ HeldBack

LEMMA OthersKeepDisplacedInv ==
    ASSUME EvolutionInv, DisplacedInv, Propose \/ EditorOpens \/ EditorWrites \/ WriteBack \/ Restore
    PROVE  DisplacedInv'
<1>0. /\ Missing \notin written /\ Truncated \notin written /\ Truncated # Missing
      /\ displaced \subseteq written
  BY NeverWritten DEF EvolutionInv, DisplacedInv, HeldBack, Missing, Truncated
<1> USE DEF DisplacedInv, EditorHasTruncated, ExpectedIsPublished, NothingWasThere, HeldBack
<1>1. CASE Propose
  <2>1. written \subseteq written'  BY <1>1 DEF Propose, Fresh
  <2> QED  BY <1>1, <2>1 DEF Propose
<1>2. CASE EditorOpens
  BY <1>2 DEF EditorOpens, pastVars
<1>3. CASE EditorWrites
  <2>1. PICK c : /\ Fresh(c)
                 /\ promotion' = IF editor = "promotion" THEN c ELSE promotion
                 /\ quarantine \subseteq quarantine'
    BY <1>3 DEF EditorWrites
  <2>2. written \subseteq written'  BY <2>1 DEF Fresh
  <2>3. editor' = "nowhere" /\ UNCHANGED <<commitStage, expected, snapshots, displaced>>
    BY <1>3 DEF EditorWrites
  <2>4. editor = "promotion" => promotion \notin displaced /\ promotion # Missing
    BY <1>0
  <2> QED
    BY <2>1, <2>2, <2>3, <2>4
<1>4. CASE Restore
  BY <1>4 DEF Restore, EditorIn, pastVars
<1>5. CASE WriteBack
  BY <1>5 DEF WriteBack, nameVars, pastVars
<1> QED
  BY <1>1, <1>2, <1>3, <1>4, <1>5

LEMMA BeforeKeepsDisplacedInv ==
    ASSUME EvolutionInv, DisplacedInv,
           \/ Claim \/ Reject \/ Accept \/ OpenLive \/ PublishSnapshot \/ CheckSnapshot
           \/ CopyCandidate \/ WriteRecord \/ CommitFails
    PROVE  DisplacedInv'
<1>0. editor = "promotion" => commitStage \in AfterCutOver
  BY DEF EvolutionInv, EditorKnown
<1> USE DEF Unharmed, nameVars, savedVars, diskVars, pastVars, DisplacedInv, EditorHasTruncated, ExpectedIsPublished,
     NothingWasThere, HeldBack, Published, AfterCutOver, Go
<1>1. CASE Claim            BY <1>1 DEF Claim
<1>2. CASE Reject           BY <1>2 DEF Reject
<1>3. CASE Accept           BY <1>3 DEF Accept
<1>4. CASE OpenLive         BY <1>4 DEF OpenLive
<1>5. CASE PublishSnapshot  BY <1>5 DEF PublishSnapshot
<1>6. CASE CheckSnapshot    BY <1>6 DEF CheckSnapshot
<1>7. CASE CopyCandidate    BY <1>0, <1>7 DEF CopyCandidate
<1>8. CASE WriteRecord      BY <1>8 DEF WriteRecord
<1>9. CASE CommitFails      BY <1>0, <1>9 DEF CommitFails, GiveUpCommit, Requeue
<1> QED
  BY <1>1, <1>2, <1>3, <1>4, <1>5, <1>6, <1>7, <1>8, <1>9

LEMMA AfterKeepsDisplacedInv ==
    ASSUME EvolutionInv, DisplacedInv,
           \/ Exchange \/ CutOverFails \/ CheckCutOver \/ SyncFails \/ ClearFails \/ ClearRecord
           \/ CleanUp \/ CrashCommit \/ PowerLoss
    PROVE  DisplacedInv'
<1>0. /\ Missing \notin written /\ Truncated \notin written /\ Truncated # Missing
      /\ displaced \subseteq written /\ liveFile \in Ever
      /\ editor = "promotion" => commitStage \in AfterCutOver
  BY NeverWritten DEF EvolutionInv, DisplacedInv, HeldBack, NamesWritten, EditorKnown,
     Missing, Truncated
<1> USE DEF Unharmed, nameVars, savedVars, diskVars, pastVars, DisplacedInv, EditorHasTruncated, ExpectedIsPublished,
     NothingWasThere, HeldBack, Published, AfterCutOver, Go, EditorIn
<1>1. ASSUME NEW kept, LeaveForRecovery(kept) PROVE DisplacedInv'
  <2>1. \A c \in displaced : c = promotion => c \in Kept(promotion)
    BY <1>0 DEF Kept
  <2> QED
    BY <1>1, <2>1 DEF LeaveForRecovery
<1>2. CASE Exchange
  <2>1. Kept(liveFile) \subseteq written /\ \A c \in Kept(liveFile) : c = liveFile
    BY <1>0 DEF Kept, Ever
  <2>2. expected = Missing => liveFile = Missing
    BY <1>2 DEF Exchange, MayCutOver
  <2> QED
    BY <1>0, <1>2, <2>1, <2>2 DEF Exchange, CutOver
<1>3. CASE CutOverFails
  BY <1>0, <1>1, <1>3 DEF CutOverFails
<1>4. CASE CheckCutOver
  <2>1. CASE /\ commitStage = "exchanged" /\ commitStage' = "synced" /\ ~Conflict
             /\ UNCHANGED <<expected, editor, nameVars, pastVars>>
    <3>1. promotion \in snapshots \cup {Missing}
      BY <2>1 DEF Conflict
    <3> QED
      BY <1>0, <2>1, <3>1
  <2> QED
    BY <1>1, <1>4, <2>1 DEF CheckCutOver
<1>5. CASE SyncFails \/ ClearFails \/ CrashCommit
  BY <1>1, <1>5 DEF SyncFails, ClearFails, CrashCommit
<1>6. CASE ClearRecord
  BY <1>6 DEF ClearRecord
<1>7. CASE CleanUp
  BY <1>0, <1>7 DEF CleanUp
<1>8. CASE PowerLoss
  <2>1. \A d \in displaced' : d \in displaced /\ d # liveFile' /\ d \in written
    BY <1>0, <1>8 DEF PowerLoss
  <2>2. \A d \in displaced' : d \in snapshots' \cup quarantine'
    BY <1>0, <1>8, <2>1 DEF PowerLoss, Kept
  <2> QED
    BY <1>8, <2>1, <2>2 DEF PowerLoss
<1> QED
  BY <1>2, <1>3, <1>4, <1>5, <1>6, <1>7, <1>8

(* Whoever writes the live file in the middle of a commit, and wherever    *)
(* the commit fails or is interrupted: what its cutover displaced stays    *)
(* in the history or under a name of its own.                              *)
THEOREM NothingDisplacedIsLost == EvolutionSpec => []DisplacedIsKept
<1>1. EvolutionInit => EvolutionInv /\ DisplacedInv
  BY EvolutionInvInit DEF EvolutionInit, DisplacedInv, EditorHasTruncated, ExpectedIsPublished,
     NothingWasThere, HeldBack, Published, AfterCutOver
<1>2. EvolutionInv /\ DisplacedInv /\ [EvolutionNext]_evolutionVars
          => EvolutionInv' /\ DisplacedInv'
  <2> SUFFICES ASSUME EvolutionInv, DisplacedInv, [EvolutionNext]_evolutionVars
               PROVE  DisplacedInv'
    BY EvolutionInvStep
  <2>1. CASE UNCHANGED evolutionVars
    BY <2>1 DEF evolutionVars, nameVars, savedVars, diskVars, pastVars, DisplacedInv, EditorHasTruncated,
       ExpectedIsPublished, NothingWasThere, HeldBack
  <2>2. CASE Propose \/ EditorOpens \/ EditorWrites \/ WriteBack \/ Restore
    BY <2>2, OthersKeepDisplacedInv
  <2>3. CASE \/ Claim \/ Reject \/ Accept \/ OpenLive \/ PublishSnapshot \/ CheckSnapshot
             \/ CopyCandidate \/ WriteRecord \/ CommitFails
    BY <2>3, BeforeKeepsDisplacedInv
  <2>4. CASE \/ Exchange \/ CutOverFails \/ CheckCutOver \/ SyncFails \/ ClearFails \/ ClearRecord
             \/ CleanUp \/ CrashCommit \/ PowerLoss
    BY <2>4, AfterKeepsDisplacedInv
  <2> QED
    BY <2>1, <2>2, <2>3, <2>4 DEF EvolutionNext
<1>3. DisplacedInv => DisplacedIsKept
  BY DEF DisplacedInv, HeldBack, DisplacedIsKept
<1> QED
  BY <1>1, <1>2, <1>3, PTL DEF EvolutionSpec

----------------------------------------------------------------------------
(* VirtualMachines.                                                        *)
Creating == {"copy", "copying", "record"}
Existing == {"reload", "start", "clean", "boot", "wait", "up", "failed", "stop", "save", "remove"}
Busy(c, n) == vmCall[c].step # "idle" /\ vmCall[c].name = n

(* On an instance whose operations never overlapped: one caller is busy    *)
(* with it; while it creates there is no record that can be read, and from *)
(* then on there is one; without any record no guest runs and no data is   *)
(* on the disk.                                                            *)
KeptApart(n) ==
    /\ \A c, d \in VmCallers : Busy(c, n) /\ Busy(d, n) => c = d
    /\ \A c \in VmCallers : Busy(c, n) =>
          \/ vmCall[c].step \in Creating /\ vmRecord[n] \in {"none", "torn"}
          \/ vmCall[c].step \in Existing /\ vmRecord[n] # "none"
    /\ vmRecord[n] = "none" => vmDisk[n] # "data" /\ vmGuest[n] # "on"
VmInv == VmTypeOK /\ \A n \in VmNames \ overlaps : KeptApart(n)

LEMMA VmInvInit == VmInit => VmInv
  BY DEF VmInit, VmInv, VmTypeOK, KeptApart, Busy, VmRecords, VmSteps, VmActions

LEMMA FirstSteps ==
    ASSUME VmTypeOK, NEW n \in VmNames, NEW action \in VmActions
    PROVE  /\ LoadedState(n) \in Loadable
           /\ LoadedState(n) = "none" <=> vmRecord[n] \in {"none", "torn"}
           /\ FirstStep(action, LoadedState(n)) \in {"idle", "copy"} \cup Existing
           /\ FirstStep(action, LoadedState(n)) = "copy" => vmRecord[n] \in {"none", "torn"}
           /\ FirstStep(action, LoadedState(n)) \in Existing => vmRecord[n] # "none"
<1>1. LoadedState(n) \in Loadable /\ (LoadedState(n) = "none" <=> vmRecord[n] \in {"none", "torn"})
  BY DEF VmTypeOK, LoadedState, VmRecords, Loadable
<1>2. CASE LoadedState(n) = "none"
  BY <1>1, <1>2 DEF FirstStep, Existing, VmActions
<1>3. CASE LoadedState(n) = "running"
  BY <1>1, <1>3 DEF FirstStep, Existing, VmActions
<1>4. CASE LoadedState(n) \in {"stopped", "starting"}
  BY <1>1, <1>4 DEF FirstStep, Existing, VmActions
<1> QED
  BY <1>1, <1>2, <1>3, <1>4 DEF Loadable

LEMMA CallerStepKeeps ==
    ASSUME VmInv, NEW c \in VmCallers, NEW m \in VmNames, CallerStep(c, m)
    PROVE  VmInv'
<1> USE DEF VmTypeOK, VmRecords, VmSteps
<1>t. VmTypeOK
  BY DEF VmInv
<1>k. ASSUME NEW n \in VmNames \ overlaps PROVE KeptApart(n)
  BY <1>k DEF VmInv
<1>1. ASSUME NEW action \in VmActions, CallVm(c, action, m) PROVE VmInv'
  <2>1. VmTypeOK'
    BY <1>t, <1>1, FirstSteps DEF CallVm, Existing
  <2>2. ASSUME NEW n \in VmNames \ overlaps' PROVE KeptApart(n)'
    <3>1. n \notin overlaps
      BY <1>1, <2>2 DEF CallVm
    <3>2. CASE n = m
      BY <1>t, <1>1, <1>k, <2>2, <3>1, <3>2, FirstSteps DEF CallVm, KeptApart, Busy, Creating, Existing
    <3>3. CASE n # m
      BY <1>t, <1>1, <1>k, <2>2, <3>1, <3>3 DEF CallVm, KeptApart, Busy
    <3> QED BY <3>2, <3>3
  <2> QED BY <2>1, <2>2 DEF VmInv
<1>2. CASE CopyStarts(c, m)
  <2>1. VmTypeOK'
    BY <1>t, <1>2 DEF CopyStarts, Goes
  <2>2. ASSUME NEW n \in VmNames \ overlaps' PROVE KeptApart(n)'
    BY <1>t, <1>2, <1>k, <2>2 DEF CopyStarts, At, Goes, KeptApart, Busy, Creating, Existing
  <2> QED BY <2>1, <2>2 DEF VmInv
<1>3. CASE CopyEnds(c, m)
  <2>1. VmTypeOK'
    BY <1>t, <1>3 DEF CopyEnds, Goes, At
  <2>2. ASSUME NEW n \in VmNames \ overlaps' PROVE KeptApart(n)'
    BY <1>t, <1>3, <1>k, <2>2 DEF CopyEnds, At, Goes, KeptApart, Busy, Creating, Existing
  <2> QED BY <2>1, <2>2 DEF VmInv
<1>4. CASE UnlinkedCopyEnds(c, m)
  <2>1. VmTypeOK'
    BY <1>t, <1>4 DEF UnlinkedCopyEnds, Goes, At
  <2>2. ASSUME NEW n \in VmNames \ overlaps' PROVE KeptApart(n)'
    BY <1>t, <1>4, <1>k, <2>2 DEF UnlinkedCopyEnds, At, Goes, KeptApart, Busy, Creating, Existing
  <2> QED BY <2>1, <2>2 DEF VmInv
<1>5. CASE RecordCreated(c, m)
  <2>1. VmTypeOK'
    BY <1>t, <1>5 DEF RecordCreated, Goes, At
  <2>2. ASSUME NEW n \in VmNames \ overlaps' PROVE KeptApart(n)'
    <3>1. KeptApart(n) /\ n \in VmNames
      BY <1>5, <1>k, <2>2 DEF RecordCreated
    <3>2. CASE n = m
      <4>1. \A d \in VmCallers : d # c => ~Busy(d, n)
        BY <1>5, <3>1, <3>2 DEF RecordCreated, At, KeptApart, Busy
      <4>2. \A d \in VmCallers : Busy(d, n)' => d = c /\ vmCall'[d].step = "reload"
        BY <1>t, <1>5, <3>2, <4>1 DEF RecordCreated, At, Goes, Busy
      <4> QED BY <1>t, <1>5, <3>2, <4>2 DEF RecordCreated, KeptApart, Existing
    <3>3. CASE n # m
      BY <1>t, <1>5, <3>1, <3>3, SMTT(30) DEF RecordCreated, At, Goes, KeptApart, Busy
    <3> QED BY <3>2, <3>3
  <2> QED BY <2>1, <2>2 DEF VmInv
<1>6. CASE Reload(c, m)
  <2>1. VmTypeOK'
    BY <1>t, <1>6 DEF Reload, Goes, At
  <2>2. ASSUME NEW n \in VmNames \ overlaps' PROVE KeptApart(n)'
    BY <1>t, <1>6, <1>k, <2>2 DEF Reload, At, Goes, KeptApart, Busy, Creating, Existing
  <2> QED BY <2>1, <2>2 DEF VmInv
<1>7. CASE RecordStarting(c, m)
  <2>1. VmTypeOK'
    BY <1>t, <1>7 DEF RecordStarting, Goes, At
  <2>2. ASSUME NEW n \in VmNames \ overlaps' PROVE KeptApart(n)'
    BY <1>t, <1>7, <1>k, <2>2 DEF RecordStarting, At, Goes, KeptApart, Busy, Creating, Existing
  <2> QED BY <2>1, <2>2 DEF VmInv
<1>8. CASE RemoveContainer(c, m)
  <2>1. VmTypeOK'
    BY <1>t, <1>8 DEF RemoveContainer, Goes, At
  <2>2. ASSUME NEW n \in VmNames \ overlaps' PROVE KeptApart(n)'
    BY <1>t, <1>8, <1>k, <2>2 DEF RemoveContainer, At, Goes, KeptApart, Busy, Creating, Existing
  <2> QED BY <2>1, <2>2 DEF VmInv
<1>9. CASE RunContainer(c, m)
  <2>1. VmTypeOK'
    BY <1>t, <1>9 DEF RunContainer, Goes, At
  <2>2. ASSUME NEW n \in VmNames \ overlaps' PROVE KeptApart(n)'
    BY <1>t, <1>9, <1>k, <2>2 DEF RunContainer, At, Goes, KeptApart, Busy, Creating, Existing
  <2> QED BY <2>1, <2>2 DEF VmInv
<1>10. CASE BootFails(c, m)
  <2>1. VmTypeOK'
    BY <1>t, <1>10 DEF BootFails, Goes, At
  <2>2. ASSUME NEW n \in VmNames \ overlaps' PROVE KeptApart(n)'
    BY <1>t, <1>10, <1>k, <2>2 DEF BootFails, At, Goes, KeptApart, Busy, Creating, Existing
  <2> QED BY <2>1, <2>2 DEF VmInv
<1>11. CASE GuestAnswers(c, m)
  <2>1. VmTypeOK'
    BY <1>t, <1>11 DEF GuestAnswers, Goes, At
  <2>2. ASSUME NEW n \in VmNames \ overlaps' PROVE KeptApart(n)'
    BY <1>t, <1>11, <1>k, <2>2 DEF GuestAnswers, At, Goes, KeptApart, Busy, Creating, Existing
  <2> QED BY <2>1, <2>2 DEF VmInv
<1>12. CASE RecordStarted(c, m)
  <2>1. VmTypeOK'
    BY <1>t, <1>12 DEF RecordStarted, Goes, At
  <2>2. ASSUME NEW n \in VmNames \ overlaps' PROVE KeptApart(n)'
    BY <1>t, <1>12, <1>k, <2>2 DEF RecordStarted, At, Goes, KeptApart, Busy, Creating, Existing
  <2> QED BY <2>1, <2>2 DEF VmInv
<1>13. CASE StopGuest(c, m)
  <2>1. VmTypeOK'
    BY <1>t, <1>13 DEF StopGuest, Goes, At
  <2>2. ASSUME NEW n \in VmNames \ overlaps' PROVE KeptApart(n)'
    BY <1>t, <1>13, <1>k, <2>2 DEF StopGuest, At, Goes, KeptApart, Busy, Creating, Existing
  <2> QED BY <2>1, <2>2 DEF VmInv
<1>14. CASE StopFails(c, m)
  <2>1. VmTypeOK'
    BY <1>t, <1>14 DEF StopFails, Goes, At
  <2>2. ASSUME NEW n \in VmNames \ overlaps' PROVE KeptApart(n)'
    BY <1>t, <1>14, <1>k, <2>2 DEF StopFails, At, Goes, KeptApart, Busy, Creating, Existing
  <2> QED BY <2>1, <2>2 DEF VmInv
<1>15. CASE RecordStopped(c, m)
  <2>1. VmTypeOK'
    BY <1>t, <1>15 DEF RecordStopped, Goes, At
  <2>2. ASSUME NEW n \in VmNames \ overlaps' PROVE KeptApart(n)'
    BY <1>t, <1>15, <1>k, <2>2 DEF RecordStopped, At, Goes, KeptApart, Busy, Creating, Existing
  <2> QED BY <2>1, <2>2 DEF VmInv
<1>16. CASE RemoveDirectory(c, m)
  <2>1. VmTypeOK'
    BY <1>t, <1>16 DEF RemoveDirectory, Goes, At
  <2>2. ASSUME NEW n \in VmNames \ overlaps' PROVE KeptApart(n)'
    BY <1>t, <1>16, <1>k, <2>2 DEF RemoveDirectory, At, Goes, KeptApart, Busy, Creating, Existing
  <2> QED BY <2>1, <2>2 DEF VmInv
<1>17. CASE CallBreaksOff(c, m)
  <2>1. VmTypeOK'
    BY <1>t, <1>17 DEF CallBreaksOff, Goes, At
  <2>2. ASSUME NEW n \in VmNames \ overlaps' PROVE KeptApart(n)'
    BY <1>t, <1>17, <1>k, <2>2 DEF CallBreaksOff, At, Goes, KeptApart, Busy, Creating, Existing
  <2> QED BY <2>1, <2>2 DEF VmInv
<1>18. CASE TruncateRecord(c, m)
  <2>1. VmTypeOK'
    BY <1>t, <1>18 DEF TruncateRecord
  <2>2. ASSUME NEW n \in VmNames \ overlaps' PROVE KeptApart(n)'
    BY <1>t, <1>18, <1>k, <2>2 DEF TruncateRecord, At, KeptApart, Busy, Creating, Existing
  <2> QED BY <2>1, <2>2 DEF VmInv
<1> QED
  BY <1>1, <1>2, <1>3, <1>4, <1>5, <1>6, <1>7, <1>8, <1>9, <1>10, <1>11, <1>12, <1>13, <1>14, <1>15,
     <1>16, <1>17, <1>18 DEF CallerStep

LEMMA VmStep == VmInv /\ [VmNext]_vmVars => VmInv'
<1> SUFFICES ASSUME VmInv, [VmNext]_vmVars PROVE VmInv'
  OBVIOUS
<1> USE DEF VmTypeOK, VmRecords, VmSteps
<1>1. ASSUME NEW c \in VmCallers, NEW n \in VmNames, CallerStep(c, n) PROVE VmInv'
  BY <1>1, CallerStepKeeps
<1>2. ASSUME NEW n \in VmNames, GuestWrites(n) \/ GuestExits(n) PROVE VmInv'
  BY <1>2 DEF VmInv, GuestWrites, GuestExits, KeptApart, Busy
<1>3. CASE HostRestarts
  BY <1>3 DEF VmInv, HostRestarts, KeptApart, Busy
<1>4. CASE UNCHANGED vmVars
  BY <1>4 DEF VmInv, vmVars, KeptApart, Busy
<1> QED
  BY <1>1, <1>2, <1>3, <1>4 DEF VmNext

(* A step that loses a guest's data is a copy over it; the instance then   *)
(* has no record, or a torn one.                                           *)
LEMMA DiskKeptByStep ==
    VmInv /\ [VmNext]_vmVars =>
        [\A n \in VmNames \ overlaps' :
            vmDisk[n] = "data" /\ vmRecord[n] # "torn" => vmDisk'[n] \in {"data", "none"}]_vmVars
<1> SUFFICES ASSUME VmInv, VmNext, NEW n \in VmNames \ overlaps', vmDisk[n] = "data",
                    vmRecord[n] # "torn"
             PROVE  vmDisk'[n] \in {"data", "none"} \/ UNCHANGED vmVars
  OBVIOUS
<1> USE DEF VmTypeOK
<1>1. ASSUME NEW c \in VmCallers, NEW m \in VmNames, CallerStep(c, m)
      PROVE  vmDisk'[n] \in {"data", "none"}
  <2>1. CASE CopyStarts(c, m)
    BY <2>1 DEF VmInv, KeptApart, Busy, CopyStarts, At, Creating, Existing
  <2>2. CASE CopyEnds(c, m)
    BY <2>2 DEF VmInv, KeptApart, Busy, CopyEnds, At, Creating, Existing
  <2>3. CASE RemoveDirectory(c, m)
    BY <2>3 DEF VmInv, RemoveDirectory
  <2> QED
    BY <1>1, <2>1, <2>2, <2>3 DEF CallerStep, CallVm, UnlinkedCopyEnds, RecordCreated, Reload,
       RecordStarting, RemoveContainer, RunContainer, BootFails, GuestAnswers, RecordStarted,
       StopGuest, StopFails, RecordStopped, CallBreaksOff, TruncateRecord
<1>2. ASSUME NEW m \in VmNames, GuestWrites(m) \/ GuestExits(m)
      PROVE  vmDisk'[n] \in {"data", "none"}
  BY <1>2 DEF VmInv, GuestWrites, GuestExits
<1>3. CASE HostRestarts
  BY <1>3 DEF HostRestarts
<1> QED
  BY <1>1, <1>2, <1>3 DEF VmNext

(* For any instances and callers: what a guest has written is kept until   *)
(* its instance is destroyed, if no two operations on it overlapped and    *)
(* its record was not left torn.                                           *)
THEOREM DiskIsKept == VmSpec => DiskKept
<1>1. VmSpec => []VmInv
  BY VmInvInit, VmStep, PTL DEF VmSpec
<1> QED
  BY <1>1, DiskKeptByStep, PTL DEF VmSpec, DiskKept

----------------------------------------------------------------------------
(* Types.  Every variable of TaskStore, DreamLedger and Evolution keeps    *)
(* its type and its bound, in every behaviour.                             *)

TaskRanges ==
    /\ taskFile \in [Creations -> 0..(MaxTasks + 1)] /\ numberOf \in [Creations -> 0..MaxTasks]
    /\ storeNumber \in [Processes -> 0..MaxTasks] /\ storeTask \in [Processes -> 0..MaxTasks]
    /\ cutShort \in BOOLEAN /\ overlapped \in BOOLEAN
TaskTyped == TaskShapes /\ TaskBounds /\ TaskRanges

LEMMA TaskTypedInit == TaskInit => TaskTyped
<1> SUFFICES ASSUME TaskInit PROVE TaskRanges
  BY TaskInvInit DEF TaskTyped, TaskInv
<1>1. 0 \in 0..MaxTasks /\ 0 \in 0..(MaxTasks + 1)
  BY TaskStoreAssumption
<1>2. cutShort \in BOOLEAN /\ overlapped \in BOOLEAN
  BY DEF TaskInit
<1> QED
  BY <1>1, <1>2 DEF TaskInit, TaskRanges, NoTask

LEMMA TaskRangesStep ==
    ASSUME TaskTyped, [TaskNext]_taskVars
    PROVE  TaskRanges'
<1>0. /\ TaskShapes /\ TaskBounds /\ TaskRanges /\ MaxTasks \in Nat
      /\ Creations = 1..MaxTasks /\ highwater \in Nat /\ creations \in Nat
      /\ highwater <= creations /\ creations <= MaxTasks
  BY TaskStoreAssumption DEF TaskTyped, TaskShapes, TaskBounds, Creations
<1>o. ASSUME NEW p \in Processes, NEW from, NEW to, NEW number \in 0..MaxTasks,
             NEW task \in 0..MaxTasks, Operate(p, from, to, number, task)
      PROVE  /\ storeNumber' \in [Processes -> 0..MaxTasks]
             /\ storeTask' \in [Processes -> 0..MaxTasks]
  BY <1>0, <1>o DEF Operate, TaskRanges
<1>z. NoTask \in 0..MaxTasks /\ 0 \in 0..MaxTasks
  BY <1>0 DEF NoTask
<1>1. ASSUME NEW p \in Processes, BeginCreate(p) PROVE TaskRanges'
  <2>1. NextNumber \in 0..MaxTasks /\ creations' \in 0..MaxTasks
    BY <1>0, <1>1 DEF BeginCreate, NextNumber
  <2>2. Operate(p, "idle", "numbering", NextNumber, creations')
        /\ UNCHANGED <<taskFile, numberOf, cutShort>>
    BY <1>1 DEF BeginCreate
  <2>3. overlapped' \in BOOLEAN
    <3>1. overlapped' = (overlapped \/ \E q \in Processes : storeStage[q] = "numbering")
      BY <1>1 DEF BeginCreate
    <3> QED
      BY <3>1
  <2>4. storeNumber' \in [Processes -> 0..MaxTasks] /\ storeTask' \in [Processes -> 0..MaxTasks]
    BY <2>1, <2>2, <1>o
  <2> QED
    BY <1>0, <2>2, <2>3, <2>4 DEF TaskRanges
<1>2. ASSUME NEW p \in Processes, WriteHighwater(p) PROVE TaskRanges'
  <2>1. storeNumber[p] \in 0..MaxTasks /\ storeTask[p] \in 0..MaxTasks
    BY <1>0 DEF TaskRanges
  <2>2. storeNumber' \in [Processes -> 0..MaxTasks] /\ storeTask' \in [Processes -> 0..MaxTasks]
    BY <1>2, <2>1, <1>o DEF WriteHighwater
  <2> QED
    BY <1>0, <1>2, <2>2 DEF WriteHighwater, taskHistory, TaskRanges
<1>3. ASSUME NEW p \in Processes, LoseHighwater(p) PROVE TaskRanges'
  <2>1. storeNumber' \in [Processes -> 0..MaxTasks] /\ storeTask' \in [Processes -> 0..MaxTasks]
    BY <1>3, <1>z, <1>o DEF LoseHighwater, EndOperation
  <2>2. cutShort' = cutShort \/ cutShort' = TRUE
    BY <1>3 DEF LoseHighwater
  <2>3. UNCHANGED <<taskFile, overlapped, numberOf>>
    BY <1>3 DEF LoseHighwater
  <2> QED
    BY <1>0, <2>1, <2>2, <2>3 DEF TaskRanges
<1>4. ASSUME NEW p \in Processes, SaveTask(p) \/ LoseTask(p) PROVE TaskRanges'
  <2>1. storeNumber[p] \in 0..MaxTasks /\ storeTask[p] \in 0..MaxTasks
        /\ taskFile \in [Creations -> 0..(MaxTasks + 1)] /\ numberOf \in [Creations -> 0..MaxTasks]
    BY <1>0 DEF TaskRanges
  <2>2. storeNumber[p] \in Creations
    BY <1>0, <1>4 DEF SaveTask, LoseTask, EndOperation, Operate, TaskBounds, Past
  <2>3. storeNumber' \in [Processes -> 0..MaxTasks] /\ storeTask' \in [Processes -> 0..MaxTasks]
    BY <1>4, <1>z, <1>o DEF SaveTask, LoseTask, EndOperation
  <2>4. ASSUME NEW left \in 0..(MaxTasks + 1)
        PROVE  [taskFile EXCEPT ![storeNumber[p]] = left] \in [Creations -> 0..(MaxTasks + 1)]
    BY <2>1
  <2>5. storeTask[p] \in 0..(MaxTasks + 1) /\ Torn \in 0..(MaxTasks + 1)
        /\ taskFile[storeNumber[p]] \in 0..(MaxTasks + 1)
    BY <1>0, <2>1, <2>2 DEF Torn
  <2>6. taskFile' \in [Creations -> 0..(MaxTasks + 1)]
    BY <1>4, <2>4, <2>5 DEF SaveTask, LoseTask
  <2>7. numberOf' \in [Creations -> 0..MaxTasks] /\ UNCHANGED <<cutShort, overlapped>>
    BY <1>4, <2>1 DEF SaveTask, LoseTask, taskHistory
  <2> QED
    BY <1>0, <2>3, <2>6, <2>7 DEF TaskRanges
<1>5. ASSUME NEW p \in Processes, BeginUpdate(p) PROVE TaskRanges'
  <2>1. PICK n \in Creations : taskFile[n] \in Creations
                               /\ Operate(p, "idle", "saving", n, taskFile[n])
    BY <1>5 DEF BeginUpdate
  <2>2. n \in 0..MaxTasks /\ taskFile[n] \in 0..MaxTasks
    BY <1>0, <2>1
  <2>3. storeNumber' \in [Processes -> 0..MaxTasks] /\ storeTask' \in [Processes -> 0..MaxTasks]
    BY <2>1, <2>2, <1>o
  <2> QED
    BY <1>0, <1>5, <2>3 DEF BeginUpdate, taskHistory, TaskRanges
<1>6. CASE UNCHANGED taskVars
  BY <1>0, <1>6 DEF taskVars, operation, taskHistory, TaskRanges
<1> QED
  BY <1>1, <1>2, <1>3, <1>4, <1>5, <1>6 DEF TaskNext

LEMMA TaskTypedStep == TaskTyped /\ [TaskNext]_taskVars => TaskTyped'
  BY TaskTypesStep, TaskRangesStep DEF TaskTyped

LEMMA TaskTypedTypes == TaskTyped => TaskTypeOK
<1> SUFFICES ASSUME TaskTyped PROVE highwater \in 0..MaxTasks /\ creations \in 0..MaxTasks
  BY DEF TaskTyped, TaskShapes, TaskRanges, TaskTypeOK
<1> QED
  BY TaskStoreAssumption DEF TaskTyped, TaskShapes, TaskBounds

(* The numbers of tasks stay within what was created, and what the         *)
(* processes hold and the files keep has its shape (task_store.rs).        *)
THEOREM TaskTypes == TaskSpec => []TaskTypeOK
<1> QED
  BY TaskTypedInit, TaskTypedStep, TaskTypedTypes, PTL DEF TaskSpec

(* DreamLedger: DreamInv knows the shapes of the ledger; the rest are the  *)
(* clocks, the counters and the schedulers.                                *)
DreamOutcomes == {"none", "completed", "truncated", "failed"}
DreamRanges ==
    /\ clock \in 1..MaxClock /\ outcomes \subseteq Chats \X (1..MaxClock)
    /\ fresh \subseteq Servers /\ moved \subseteq Servers
    /\ chatRunning \in [Servers -> SUBSET Chats]
    /\ analyzed \subseteq Chats /\ dreamLock \in Servers \cup {Unlocked}
    /\ truncations \in [Servers -> 0..(MaxTruncations - 1)]
    /\ dreamOutcome \in [Servers -> DreamOutcomes]
    /\ dreams \in 0..MaxDreams
DreamTyped == DreamInv /\ DreamRanges

LEMMA DreamTypedInit == DreamInit => DreamTyped
<1> SUFFICES ASSUME DreamInit PROVE DreamRanges
  BY DreamInvInit DEF DreamTyped
<1>1. 1 \in 1..MaxClock /\ 0 \in 0..(MaxTruncations - 1) /\ 0 \in 0..MaxDreams
  BY DreamAssumption
<1> QED
  BY <1>1 DEF DreamInit, DreamRanges, DreamOutcomes

LEMMA DreamRangesStep ==
    ASSUME DreamTyped, [DreamNext]_dreamVars
    PROVE  DreamRanges'
<1>0. /\ DreamRanges /\ listed \in [Servers -> SUBSET outcomes]
      /\ MaxClock \in Nat \ {0} /\ MaxTruncations \in Nat \ {0} /\ MaxDreams \in Nat
  BY DreamAssumption DEF DreamTyped, DreamInv, DreamShapes
<1>1. CASE ClockTicks
  BY <1>0, <1>1 DEF ClockTicks, scheduler, sessionFiles, marker, DreamRanges
<1>2. ASSUME NEW p \in Servers, NEW c \in Chats, RunStarts(p, c) PROVE DreamRanges'
  BY <1>0, <1>2 DEF RunStarts, scheduler, sessionFiles, marker, DreamRanges
<1>3. ASSUME NEW p \in Servers, NEW c \in Chats, RunEnds(p, c) PROVE DreamRanges'
  <2>1. outcomes' \subseteq Chats \X (1..MaxClock)
    BY <1>0, <1>3 DEF RunEnds, DreamRanges
  <2>2. chatRunning' \in [Servers -> SUBSET Chats]
    BY <1>0, <1>3 DEF RunEnds, DreamRanges
  <2> QED
    BY <1>0, <1>3, <2>1, <2>2 DEF RunEnds, SessionsChange, scheduler, marker, DreamRanges
<1>4. ASSUME NEW p \in Servers, Look(p) \/ SkipClean(p) PROVE DreamRanges'
  BY <1>0, <1>4 DEF Look, SkipClean, marker, DreamRanges
<1>5. ASSUME NEW p \in Servers, AcquireLock(p) PROVE DreamRanges'
  BY <1>0, <1>5 DEF AcquireLock, sessionFiles, marker, DreamRanges
<1>6. ASSUME NEW p \in Servers, Brief(p) PROVE DreamRanges'
  BY <1>0, <1>6 DEF Brief, sessionFiles, marker, DreamRanges
<1>7. ASSUME NEW p \in Servers, DreamEnds(p) PROVE DreamRanges'
  <2>1. PICK outcome \in {"completed", "truncated", "failed"} :
            /\ dreamOutcome' = [dreamOutcome EXCEPT ![p] = outcome]
            /\ SessionsChange \/ (outcome = "failed" /\ UNCHANGED <<fresh, moved>>)
    BY <1>7 DEF DreamEnds
  <2>2. dreamOutcome' \in [Servers -> DreamOutcomes]
    BY <1>0, <2>1 DEF DreamRanges, DreamOutcomes
  <2>3. fresh' \subseteq Servers /\ moved' \subseteq Servers
    BY <1>0, <2>1 DEF SessionsChange, DreamRanges
  <2> QED
    BY <1>0, <1>7, <2>2, <2>3 DEF DreamEnds, marker, DreamRanges
<1>8. ASSUME NEW p \in Servers, WriteMarker(p) PROVE DreamRanges'
  <2>1. ChatsOf(listed[p]) \subseteq Chats
    BY <1>0 DEF ChatsOf, DreamRanges
  <2>2. analyzed' \subseteq Chats
    BY <1>0, <1>8, <2>1 DEF WriteMarker, DreamRanges
  <2> QED
    BY <1>0, <1>8, <2>2 DEF WriteMarker, sessionFiles, DreamRanges
<1>f. ASSUME NEW p \in Servers, Forget(p) PROVE dreamOutcome' \in [Servers -> DreamOutcomes]
  BY <1>0, <1>f DEF Forget, DreamRanges, DreamOutcomes
<1>9. ASSUME NEW p \in Servers, Conclude(p) PROVE DreamRanges'
  <2>1. (IF Again(p) THEN truncations[p] + 1 ELSE 0) \in 0..(MaxTruncations - 1)
    BY <1>0 DEF Again, DreamRanges
  <2>2. truncations' = [truncations EXCEPT ![p] = IF Again(p) THEN truncations[p] + 1 ELSE 0]
    BY <1>9 DEF Conclude
  <2>3. truncations' \in [Servers -> 0..(MaxTruncations - 1)]
    BY <1>0, <2>1, <2>2 DEF DreamRanges
  <2>4. fresh' \subseteq Servers /\ dreamLock' = Unlocked /\ Forget(p)
        /\ UNCHANGED <<clock, chatRunning, dreams, outcomes, moved, marker>>
    BY <1>0, <1>9 DEF Conclude, DreamRanges
  <2> QED
    BY <1>0, <1>f, <2>3, <2>4 DEF marker, DreamRanges
<1>10. ASSUME NEW p \in Servers, StartOver(p) PROVE DreamRanges'
  <2>1. truncations' \in [Servers -> 0..(MaxTruncations - 1)]
    BY <1>0, <1>10 DEF StartOver, DreamRanges
  <2>2. fresh' \subseteq Servers /\ dreamLock' \in Servers \cup {Unlocked} /\ Forget(p)
        /\ UNCHANGED <<clock, chatRunning, dreams, outcomes, moved, marker>>
    BY <1>0, <1>10 DEF StartOver, DreamRanges
  <2> QED
    BY <1>0, <1>f, <2>1, <2>2 DEF marker, DreamRanges
<1>11. CASE UNCHANGED dreamVars
  BY <1>0, <1>11 DEF dreamVars, scheduler, sessionFiles, marker, DreamRanges
<1> QED
  BY <1>1, <1>2, <1>3, <1>4, <1>5, <1>6, <1>7, <1>8, <1>9, <1>10, <1>11 DEF DreamNext

LEMMA DreamTypedStep == DreamTyped /\ [DreamNext]_dreamVars => DreamTyped'
  BY DreamStep, DreamRangesStep DEF DreamTyped

LEMMA DreamTypedTypes == DreamTyped => DreamTypeOK
<1> SUFFICES ASSUME DreamTyped PROVE finishedAt \in 0..MaxClock
  BY DEF DreamTyped, DreamInv, DreamShapes, DreamStages, DreamRanges, DreamOutcomes, DreamTypeOK
<1> QED
  BY DreamAssumption DEF DreamTyped, DreamInv, DreamShapes, DreamRanges

(* What the marker, the lock, the briefs and the servers of the dream hold *)
(* has its shape, and no time is ahead of the clock (dream.rs).            *)
THEOREM DreamTypes == DreamSpec => []DreamTypeOK
<1> QED
  BY DreamTypedInit, DreamTypedStep, DreamTypedTypes, PTL DEF DreamSpec

(* Evolution: what is on the disk was written, and what was written is a   *)
(* content, an empty file or nothing.                                      *)
Editors == {"nowhere", "live", "promotion", "quarantine", "unlinked"}
EvolutionRanges ==
    /\ commitStage \in CommitStages /\ editor \in Editors /\ record \in BOOLEAN
    /\ written \subseteq Contents /\ expected \in Ever /\ claimed \in written \cup {Missing}
    /\ snapshots \subseteq Ever /\ quarantine \subseteq written /\ displaced \subseteq written
EvolutionTyped == EvolutionInv /\ EvolutionRanges

LEMMA EvolutionTypedInit == EvolutionInit => EvolutionTyped
<1> SUFFICES ASSUME EvolutionInit PROVE EvolutionRanges
  BY EvolutionInvInit DEF EvolutionTyped
<1>1. 2 \in Contents
  BY EvolutionAssumption DEF Contents
<1> QED
  BY <1>1 DEF EvolutionInit, EvolutionRanges, CommitStages, Editors, Ever

LEMMA EvolutionRangesStep ==
    ASSUME EvolutionTyped, [EvolutionNext]_evolutionVars
    PROVE  EvolutionRanges'
<1>0. /\ EvolutionRanges /\ NamesWritten /\ InUseNotRefused
      /\ commitStage \in BeforeCutOver => claimed \in written
  BY DEF EvolutionTyped, EvolutionInv, ClaimedIsUnjudged
<1>k. \A c \in Ever : Kept(c) \subseteq written
  BY DEF Kept, Ever
<1>s. "idle" \in CommitStages
  BY DEF CommitStages
<1> USE DEF EvolutionRanges, NamesWritten
<1>1. CASE Propose \/ EditorWrites
  <2>1. PICK c \in Contents : Fresh(c)
    BY <1>1 DEF Propose, EditorWrites
  <2>2. written' = written \cup {c} /\ written' \subseteq Contents
    BY <1>0, <2>1 DEF Fresh
  <2>3. \A d \in Contents : Fresh(d) => d = c
    BY <2>1 DEF Fresh
  <2>4. quarantine' \subseteq written' /\ editor' \in Editors
    BY <1>0, <1>1, <2>2, <2>3 DEF Propose, EditorWrites, Editors
  <2>5. UNCHANGED <<commitStage, record, expected, claimed, snapshots, displaced>>
    BY <1>1 DEF Propose, EditorWrites
  <2> QED
    BY <1>0, <2>2, <2>4, <2>5 DEF Ever
<1>2. CASE EditorOpens
  BY <1>0, <1>2 DEF EditorOpens, pastVars, Editors, Ever
<1>3. CASE Claim \/ Accept \/ OpenLive \/ PublishSnapshot \/ CheckSnapshot \/ CopyCandidate \/ WriteRecord
  BY <1>0, <1>3 DEF Claim, Accept, OpenLive, PublishSnapshot, CheckSnapshot, CopyCandidate,
     WriteRecord, Go, Unharmed, nameVars, savedVars, diskVars, pastVars, CommitStages, Ever
<1>4. CASE Reject
  <2>1. claimed \in written
    BY <1>0, <1>4 DEF Reject, Go, BeforeCutOver
  <2> QED
    BY <1>0, <1>4, <1>s, <2>1 DEF Reject, Go, Ever
<1>5. CASE CommitFails
  <2>1. PICK from \in CommitStages : GiveUpCommit(from)
    BY <1>5 DEF CommitFails, CommitStages
  <2>2. claimed \in Ever
    BY <1>0 DEF Ever
  <2>3. quarantine' \subseteq written
    BY <1>0, <1>k, <2>1, <2>2 DEF GiveUpCommit, Requeue
  <2> QED
    BY <1>0, <1>s, <2>1, <2>3 DEF GiveUpCommit, Requeue, Go, Unharmed, pastVars, Ever
<1>6. CASE Exchange
  <2>1. displaced' \subseteq written /\ written' = written
    BY <1>0, <1>6, <1>k DEF Exchange, CutOver
  <2>2. editor' \in Editors /\ commitStage' \in CommitStages
    BY <1>0, <1>6 DEF Exchange, CutOver, EditorIn, Editors, Go, CommitStages
  <2> QED
    BY <1>0, <1>6, <2>1, <2>2 DEF Exchange, CutOver, Ever
<1>7. ASSUME NEW kept \in BOOLEAN, LeaveForRecovery(kept) PROVE EvolutionRanges'
  <2>1. claimed \in Ever
    BY <1>0 DEF Ever
  <2>2. quarantine' \subseteq written
    BY <1>0, <1>7, <1>k, <2>1 DEF LeaveForRecovery
  <2>3. editor' \in Editors
    BY <1>0, <1>7 DEF LeaveForRecovery, EditorIn, Editors
  <2>4. record' \in BOOLEAN
    BY <1>7 DEF LeaveForRecovery
  <2> QED
    BY <1>0, <1>7, <1>s, <2>2, <2>3, <2>4 DEF LeaveForRecovery, pastVars, Ever
<1>8. CASE CutOverFails
  <2>1. CASE LeaveForRecovery(TRUE)
    BY <1>7, <2>1
  <2>2. CASE ~LeaveForRecovery(TRUE)
    <3>1. quarantine' \subseteq written
      BY <1>0, <1>8, <1>k, <2>2 DEF CutOverFails
    <3> QED
      BY <1>0, <1>8, <1>s, <2>2, <3>1 DEF CutOverFails, Unharmed, pastVars, Ever
  <2> QED
    BY <2>1, <2>2
<1>9. CASE CheckCutOver
  <2>1. CASE LeaveForRecovery(TRUE)
    BY <1>7, <2>1
  <2>2. CASE ~LeaveForRecovery(TRUE)
    BY <1>0, <1>9, <2>2 DEF CheckCutOver, nameVars, savedVars, diskVars, pastVars, CommitStages, Ever
  <2> QED
    BY <2>1, <2>2
<1>10. CASE SyncFails \/ ClearFails
  BY <1>7, <1>10 DEF SyncFails, ClearFails
<1>11. CASE CrashCommit
  BY <1>0, <1>7, <1>11 DEF CrashCommit
<1>12. CASE ClearRecord
  BY <1>0, <1>12 DEF ClearRecord, Go, Unharmed, pastVars, CommitStages, Ever
<1>13. CASE CleanUp
  <2>1. claimed \in Ever
    BY <1>0 DEF Ever
  <2>2. quarantine' \subseteq written
    BY <1>0, <1>13, <1>k, <2>1 DEF CleanUp
  <2>3. editor' \in Editors
    BY <1>0, <1>13 DEF CleanUp, EditorIn, Editors
  <2> QED
    BY <1>0, <1>13, <1>s, <2>2, <2>3 DEF CleanUp, Go, pastVars, Ever
<1>14. CASE PowerLoss
  <2>1. claimed \in Ever
    BY <1>0 DEF Ever
  <2>2. quarantine' \subseteq written
    BY <1>0, <1>14, <1>k, <2>1 DEF PowerLoss
  <2> QED
    BY <1>0, <1>14, <1>s, <2>2 DEF PowerLoss, Ever, Editors
<1>15. CASE Restore
  BY <1>0, <1>15 DEF Restore, EditorIn, Editors, pastVars, Ever
<1>16. CASE UNCHANGED evolutionVars
  BY <1>0, <1>16 DEF evolutionVars, nameVars, savedVars, diskVars, pastVars, Ever
<1>17. CASE WriteBack
  BY <1>0, <1>17 DEF WriteBack, nameVars, pastVars, Ever
<1> QED
  BY <1>1, <1>2, <1>3, <1>4, <1>5, <1>6, <1>8, <1>9, <1>10, <1>11, <1>12, <1>13, <1>14, <1>15,
     <1>16, <1>17 DEF EvolutionNext

LEMMA EvolutionTypedStep == EvolutionTyped /\ [EvolutionNext]_evolutionVars => EvolutionTyped'
  BY EvolutionInvStep, EvolutionRangesStep DEF EvolutionTyped

LEMMA EvolutionTypedTypes == EvolutionTyped => EvolutionTypeOK
  BY DEF EvolutionTyped, EvolutionInv, NamesWritten, EvolutionRanges, Editors, Ever, OnDisk,
     EvolutionTypeOK

(* Whatever a commit is interrupted in, the names of the store hold        *)
(* contents that somebody wrote (evolution.rs).                            *)
THEOREM EvolutionTypes == EvolutionSpec => []EvolutionTypeOK
<1> QED
  BY EvolutionTypedInit, EvolutionTypedStep, EvolutionTypedTypes, PTL DEF EvolutionSpec
=============================================================================
