------------------------------ MODULE RunProofs ------------------------------
(***************************************************************************)
(* Proofs about a run, for any bounds.  RunLifecycle: the three tasks of a *)
(* run implement the abstract Run.  GraphRun, for any graph that           *)
(* validates: a node waits for all its predecessors, and a router starts   *)
(* one branch.  ProviderTurn: which calls of a turn run, and that what the *)
(* clients were shown is what the transcript gets.  ToolTurn: the serial   *)
(* barriers, the grants calls run on, and that what a client is shown can  *)
(* be decided.  BackgroundTasks: a shell left behind ends with its task.   *)
(***************************************************************************)
EXTENDS RunLifecycle, GraphRun, ProviderTurn, ToolTurn, BackgroundTasks,
        FiniteSetTheorems, SequenceTheorems, WellFoundedInduction, TLAPS

----------------------------------------------------------------------------
(* RunLifecycle. *)

(* In which order the three tasks end, and what each of them leaves.       *)
JoinOrder ==
    /\ supervisor # "engine" => EngineEnded
    /\ supervisor \notin {"engine", "consumer"} => consumer \in {"ended", "panicked"}
    /\ consumer = "ended" => EngineEnded
    /\ consumer \in {"ended", "panicked"} => eventQueue = 0
    /\ terminal # NotEnded => supervisor = "ended"
    /\ tracePersisted = 1 => supervisor \in {"commit", "ended"}
    /\ engineSaysCancelled = TRUE => runCancelled = TRUE

LifecycleInv == LifecycleTypeOK /\ JoinOrder

(* The flags apart from the rest: the provers take them separately.        *)
Flags  == engineSaysCancelled \in BOOLEAN /\ runCancelled \in BOOLEAN
Shapes ==
    /\ engineTask \in {"running", "closing", "ok", "error", "panicked"}
    /\ said \in Nat /\ eventQueue \in Nat /\ tracePersisted \in {0, 1}
    /\ consumer \in {"idle", "handling", "ended", "panicked"}
    /\ supervisor \in {"engine", "consumer", "persist", "commit", "ended", "failed"}
    /\ terminal \in {NotEnded, "done", "cancelled", "error"}
    /\ traceTail \in {"event", "finished"}

LEMMA InvParts == LifecycleInv <=> Flags /\ Shapes /\ JoinOrder
  BY Zenon DEF LifecycleInv, LifecycleTypeOK, Flags, Shapes

LEMMA LifecycleInvInit == LifecycleInit => LifecycleInv
<1>1. LifecycleInit => Flags
  BY DEF LifecycleInit, Flags
<1>2. LifecycleInit => Shapes /\ JoinOrder
  BY DEF LifecycleInit, Shapes, JoinOrder, EngineEnded, NotEnded
<1> QED
  BY <1>1, <1>2, InvParts

LEMMA EngineKeeps ==
    ASSUME LifecycleInv, EngineEmits \/ EngineEnds \/ ChildRecords \/ CancelRun
    PROVE  LifecycleInv'
<1> USE DEF EngineEmits, EngineEnds, EngineSucceeds, EngineFails, EngineReports, EnginePanics,
            ChildRecords, CancelRun
<1>1. Flags /\ Shapes /\ JoinOrder
  BY InvParts
<1>2. Flags'
  BY <1>1 DEF Flags
<1>3. Shapes' /\ JoinOrder'
  BY <1>1 DEF Shapes, JoinOrder, EngineEnded, NotEnded, Emit
<1> QED
  BY <1>2, <1>3, Zenon DEF LifecycleInv, LifecycleTypeOK, Flags, Shapes

LEMMA ConsumerKeeps ==
    ASSUME LifecycleInv, ConsumerWorks PROVE LifecycleInv'
<1> USE DEF ConsumerWorks, TakeEvent, HandleEvent, ConsumerEnds, ConsumerPanics, ConsumerStep
<1>1. Flags /\ Shapes /\ JoinOrder
  BY InvParts
<1>2. Flags'
  BY <1>1 DEF Flags
<1>3. Shapes' /\ JoinOrder'
  BY <1>1 DEF Shapes, JoinOrder, EngineEnded, NotEnded
<1> QED
  BY <1>2, <1>3, Zenon DEF LifecycleInv, LifecycleTypeOK, Flags, Shapes

LEMMA SupervisorKeeps ==
    ASSUME LifecycleInv, SupervisorWorks \/ SupervisorFails PROVE LifecycleInv'
<1> USE DEF SupervisorWorks, AwaitEngine, AwaitConsumer, PersistTrace, CommitTerminal,
            SupervisorFails, WaitCommits, SupervisorStep
<1>1. Flags /\ Shapes /\ JoinOrder
  BY InvParts
<1>2. Flags'
  BY <1>1 DEF Flags
<1>3. Shapes' /\ JoinOrder'
  BY <1>1 DEF Shapes, JoinOrder, EngineEnded, NotEnded, Commit, Verdict
<1> QED
  BY <1>2, <1>3, Zenon DEF LifecycleInv, LifecycleTypeOK, Flags, Shapes

LEMMA LifecycleInvStep == LifecycleInv /\ [LifecycleNext]_runVars => LifecycleInv'
<1> SUFFICES ASSUME LifecycleInv, [LifecycleNext]_runVars PROVE LifecycleInv'
  OBVIOUS
<1>1. CASE EngineEmits \/ EngineEnds \/ ChildRecords \/ CancelRun
  BY <1>1, EngineKeeps
<1>2. CASE ConsumerWorks
  BY <1>2, ConsumerKeeps
<1>3. CASE SupervisorWorks \/ SupervisorFails
  BY <1>3, SupervisorKeeps
<1>4. CASE UNCHANGED runVars
  BY <1>4 DEF LifecycleInv, LifecycleTypeOK, JoinOrder, EngineEnded, runVars
<1> QED
  BY <1>1, <1>2, <1>3, <1>4 DEF LifecycleNext, EngineEnds, ConsumerWorks, SupervisorWorks

(* The state of a run keeps its shape and its tasks end in order, for any  *)
(* number of events and wherever a task panics.                            *)
THEOREM LifecycleCorrect == LifecycleSpec => []LifecycleInv
  BY LifecycleInvInit, LifecycleInvStep, PTL DEF LifecycleSpec

----------------------------------------------------------------------------
(* The refinement: which step of Run each step of the tasks is.            *)

LEMMA EngineImplements ==
    ASSUME LifecycleInv, EngineEmits \/ EngineEnds \/ ChildRecords \/ CancelRun
    PROVE  Promise!RunNext \/ UNCHANGED Promise!abstractVars
<1>1. CASE EngineEmits \/ EngineSucceeds \/ EngineFails \/ EngineReports
  <2>1. CASE consumer = "panicked"
    BY <1>1, <2>1 DEF Promise!abstractVars, EngineEmits, EngineSucceeds, EngineFails,
       EngineReports, Emit
  <2>2. CASE consumer # "panicked"
    <3>1. terminal = NotEnded
      BY <1>1 DEF LifecycleInv, JoinOrder, EngineEnded, EngineEmits, EngineSucceeds,
         EngineFails, EngineReports
    <3>2. Promise!Say
      BY <1>1, <2>2, <3>1 DEF Promise!Say, LifecycleInv, LifecycleTypeOK, EngineEmits,
         EngineSucceeds, EngineFails, EngineReports, Emit, NotEnded
    <3> QED
      BY <3>2 DEF Promise!RunNext
  <2> QED
    BY <2>1, <2>2
<1>2. CASE EnginePanics \/ ChildRecords
  BY <1>2 DEF Promise!abstractVars, EnginePanics, ChildRecords
<1>3. CASE CancelRun
  BY <1>3 DEF Promise!RunNext, Promise!Request, CancelRun
<1> QED
  BY <1>1, <1>2, <1>3 DEF EngineEnds

LEMMA ConsumerImplements ==
    ASSUME LifecycleInv, ConsumerWorks
    PROVE  Promise!RunNext \/ UNCHANGED Promise!abstractVars
<1> USE DEF LifecycleInv, LifecycleTypeOK, ConsumerStep
<1>1. CASE TakeEvent
  BY <1>1 DEF Promise!abstractVars, TakeEvent
<1>2. CASE HandleEvent
  BY <1>2 DEF Promise!RunNext, Promise!Hear, HandleEvent
<1>3. CASE ConsumerEnds
  BY <1>3 DEF Promise!abstractVars, ConsumerEnds
<1>4. CASE ConsumerPanics
  BY <1>4 DEF Promise!RunNext, Promise!StopListening, ConsumerPanics
<1> QED
  BY <1>1, <1>2, <1>3, <1>4 DEF ConsumerWorks

LEMMA SupervisorImplements ==
    ASSUME LifecycleInv, SupervisorWorks \/ SupervisorFails
    PROVE  Promise!RunNext \/ UNCHANGED Promise!abstractVars
<1>1. CASE AwaitEngine \/ AwaitConsumer \/ PersistTrace \/ SupervisorFails
  BY <1>1 DEF Promise!abstractVars, AwaitEngine, AwaitConsumer, PersistTrace, SupervisorFails,
     SupervisorStep
<1>2. CASE CommitTerminal \/ WaitCommits
  <2>1. /\ terminal = NotEnded
        /\ consumer \in {"ended", "panicked"} /\ eventQueue = 0
        /\ engineSaysCancelled = TRUE => runCancelled = TRUE
    BY <1>2 DEF LifecycleInv, JoinOrder, CommitTerminal, WaitCommits, SupervisorStep
  <2>2. Promise!Finish
    BY <1>2, <2>1 DEF Promise!Finish, CommitTerminal, WaitCommits, SupervisorStep, Commit,
       Verdict, NotEnded
  <2> QED
    BY <2>2 DEF Promise!RunNext
<1> QED
  BY <1>1, <1>2 DEF SupervisorWorks

LEMMA StepImplements ==
    LifecycleInv /\ [LifecycleNext]_runVars => [Promise!RunNext]_(Promise!abstractVars)
<1> SUFFICES ASSUME LifecycleInv, [LifecycleNext]_runVars
             PROVE  Promise!RunNext \/ UNCHANGED Promise!abstractVars
  OBVIOUS
<1>1. CASE EngineEmits \/ EngineEnds \/ ChildRecords \/ CancelRun
  BY <1>1, EngineImplements
<1>2. CASE ConsumerWorks
  BY <1>2, ConsumerImplements
<1>3. CASE SupervisorWorks \/ SupervisorFails
  BY <1>3, SupervisorImplements
<1>4. CASE UNCHANGED runVars
  BY <1>4 DEF runVars, Promise!abstractVars
<1> QED
  BY <1>1, <1>2, <1>3, <1>4 DEF LifecycleNext, EngineEnds, ConsumerWorks, SupervisorWorks

(* The engine task, the consumer and the supervisor of run.rs implement a  *)
(* run: whatever panics and whenever it is cancelled, one terminal follows *)
(* the last event that was delivered.                                      *)
THEOREM LifecycleImplementsRun == LifecycleSpec => RunKeepsPromise
<1>1. LifecycleInit => Promise!RunInit
  BY DEF LifecycleInit, Promise!RunInit, NotEnded
<1> QED
  BY <1>1, LifecycleCorrect, StepImplements, PTL DEF LifecycleSpec, RunKeepsPromise, Promise!RunSafety
----------------------------------------------------------------------------
(* GraphRun: the counts by which run_graph decides that a node is ready    *)
(* are those of its predecessors that have not completed, whatever was     *)
(* interrupted and resumed before.                                         *)

Counting == {"loop", "batch", "take"}    \* phases in which the counts are kept

GraphShapes ==
    /\ completed \subseteq Nodes /\ checkpoint.completed \subseteq Nodes
    /\ predRemaining \in [Nodes -> Nat] /\ DOMAIN batch \subseteq Nodes
(* The results still to be taken are of nodes that are not completed.      *)
BatchIsNew == graphPhase \in {"batch", "take"} => DOMAIN batch \cap completed = {}
BatchIsPending ==
    /\ graphPhase \in {"batch", "take"} => DOMAIN batch # {}
    /\ graphPhase \notin {"batch", "take"} => DOMAIN batch = {}
CountsExact ==
    graphPhase \in Counting =>
        \A n \in Nodes : predRemaining[n] = Cardinality(Predecessors(n) \ completed)
GraphInv ==
    /\ GraphShapes /\ BatchIsNew /\ BatchIsPending /\ CountsExact /\ PredecessorsComplete

LEMMA PredecessorsFinite ==
    \A n \in Nodes : \A done :
        /\ IsFiniteSet(Predecessors(n) \ done)
        /\ Cardinality(Predecessors(n) \ done) \in Nat
<1> SUFFICES ASSUME NEW n \in Nodes, NEW done
             PROVE  /\ IsFiniteSet(Predecessors(n) \ done)
                    /\ Cardinality(Predecessors(n) \ done) \in Nat
  OBVIOUS
<1>1. Predecessors(n) \ done \in SUBSET Nodes
  BY DEF Predecessors
<1>2. IsFiniteSet(Predecessors(n) \ done)
  BY <1>1, FS_Subset, GraphAssumption
<1> QED
  BY <1>2, FS_CardinalityType

(* Results are taken in the order of the keys.                             *)
LEMMA FirstIsInBatch ==
    ASSUME DOMAIN batch \subseteq Nodes, DOMAIN batch # {}
    PROVE  FirstOfBatch \in DOMAIN batch
<1> DEFINE R == {ss \in Nat \X Nat : ss[1] < ss[2]}
<1>1. IsWellFoundedOn(R, Nat)
  BY NatLessThanWellFounded DEF OpToRel
<1>2. DOMAIN batch \subseteq Nat
  BY GraphAssumption
<1>3. \E n \in DOMAIN batch : \A m \in DOMAIN batch : ~(<<m, n>> \in R)
  <2> HIDE DEF R
  <2> QED
    BY <1>1, <1>2, WFMin
<1>4. \A m, n \in Nat : <<m, n>> \in R <=> m < n
  OBVIOUS
<1>5. \A m, n \in Nat : ~(m < n) => n <= m
  OBVIOUS
<1>6. \E n \in DOMAIN batch : \A m \in DOMAIN batch : n <= m
  <2> HIDE DEF R
  <2>1. PICK n \in DOMAIN batch : \A m \in DOMAIN batch : ~(<<m, n>> \in R)
    BY <1>3
  <2> QED
    BY <1>2, <1>4, <1>5, <2>1
<1> QED
  BY <1>6 DEF FirstOfBatch

(* A step that leaves the running phases and takes no node as completed    *)
(* that is not one.                                                        *)
LEMMA ReturnKeeps ==
    ASSUME GraphInv, NEW result, Return(result), checkpoint' \in {checkpoint, NoCheckpoint}
    PROVE  GraphInv'
<1>1. /\ graphPhase' = "returned" /\ batch' = <<>> /\ UNCHANGED <<completed, predRemaining>>
  BY DEF Return
<1>2. DOMAIN batch' = {}
  BY <1>1
<1>3. checkpoint'.completed \subseteq Nodes
  BY DEF GraphInv, GraphShapes, NoCheckpoint
<1> QED
  BY <1>1, <1>2, <1>3 DEF GraphInv, GraphShapes, BatchIsNew, BatchIsPending, CountsExact, Counting,
     PredecessorsComplete

LEMMA BeginKeeps ==
    ASSUME GraphInv, NEW done \in SUBSET Nodes, NEW choice, Begin(done, choice)
    PROVE  GraphInv'
<1>1. /\ graphPhase' = "loop" /\ completed' = done /\ predRemaining' = PredecessorsLeft(done)
      /\ UNCHANGED <<batch, checkpoint>> /\ DOMAIN batch = {}
  BY DEF Begin, GraphInv, BatchIsPending
<1>2. \A n \in Nodes : Cardinality(Predecessors(n) \ done) \in Nat
  BY PredecessorsFinite
<1>3. GraphShapes'
  BY <1>1, <1>2 DEF PredecessorsLeft, GraphInv, GraphShapes
<1>4. CountsExact'
  BY <1>1 DEF PredecessorsLeft, CountsExact, Predecessors
<1> QED
  BY <1>1, <1>3, <1>4 DEF GraphInv, BatchIsNew, BatchIsPending, PredecessorsComplete

(* The frontier: no predecessor is left to complete.                       *)
LEMMA StartKeeps ==
    ASSUME GraphInv, StartBatch
    PROVE  GraphInv'
<1>1. /\ graphPhase = "loop" /\ graphPhase' = IF Frontier = {} THEN "summary" ELSE "batch"
      /\ batch' = [n \in Frontier |-> Running]
      /\ UNCHANGED <<completed, predRemaining, checkpoint>>
  BY DEF StartBatch
<1>2. DOMAIN batch' = Frontier /\ Frontier \subseteq Nodes \ completed
  BY <1>1 DEF Frontier
<1>3. \A n \in Frontier : Predecessors(n) \subseteq completed
  <2> SUFFICES ASSUME NEW n \in Frontier PROVE Predecessors(n) \ completed = {}
    OBVIOUS
  <2>1. n \in Nodes /\ Cardinality(Predecessors(n) \ completed) = 0
    BY <1>1 DEF Frontier, GraphInv, CountsExact, Counting
  <2> QED
    BY <2>1, PredecessorsFinite, FS_EmptySet
<1>4. PredecessorsComplete'
  BY <1>1, <1>2, <1>3 DEF PredecessorsComplete, Predecessors
<1>5. CountsExact'
  BY <1>1 DEF GraphInv, CountsExact, Predecessors, Counting
<1> QED
  BY <1>1, <1>2, <1>4, <1>5 DEF GraphInv, GraphShapes, BatchIsNew, BatchIsPending

LEMMA JoinKeeps ==
    ASSUME GraphInv, JoinBatch
    PROVE  GraphInv'
<1>1. /\ graphPhase = "batch" /\ graphPhase' = "take" /\ DOMAIN batch' = DOMAIN batch
      /\ UNCHANGED <<completed, predRemaining, checkpoint>>
  BY DEF JoinBatch
<1>2. GraphShapes' /\ BatchIsNew' /\ BatchIsPending'
  BY <1>1 DEF GraphInv, GraphShapes, BatchIsNew, BatchIsPending
<1>3. CountsExact' /\ PredecessorsComplete'
  BY <1>1 DEF GraphInv, CountsExact, Counting, PredecessorsComplete, Predecessors
<1> QED
  BY <1>2, <1>3 DEF GraphInv

(* A node completes once, so that it counts once at each successor.        *)
LEMMA CountGoesDown ==
    ASSUME GraphInv, graphPhase \in Counting, NEW n \in Nodes \ completed, NEW answer,
           Activate(n, answer), completed' = completed \cup {n}
    PROVE  /\ predRemaining' \in [Nodes -> Nat]
           /\ \A m \in Nodes : predRemaining'[m] = Cardinality(Predecessors(m) \ completed')
<1>1. /\ predRemaining \in [Nodes -> Nat]
      /\ \A m \in Nodes : predRemaining[m] = Cardinality(Predecessors(m) \ completed)
  BY DEF GraphInv, GraphShapes, CountsExact
<1> SUFFICES ASSUME NEW m \in Nodes
             PROVE  predRemaining'[m] = Cardinality(Predecessors(m) \ completed')
  <2>1. predRemaining' \in [Nodes -> Nat]
    BY <1>1 DEF Activate
  <2> QED
    BY <2>1
<1> DEFINE left == Predecessors(m) \ completed
<1>2. IsFiniteSet(left) /\ Cardinality(left) \in Nat /\ predRemaining[m] = Cardinality(left)
  BY <1>1, PredecessorsFinite
<1>3. Predecessors(m) \ completed' = left \ {n}
  OBVIOUS
<1>4. Cardinality(left \ {n}) = IF n \in left THEN Cardinality(left) - 1 ELSE Cardinality(left)
  BY <1>2, FS_RemoveElement
<1>5. CASE m \in NextOf[n]
  <2>1. n \in left
    BY <1>5 DEF Predecessors
  <2>2. Cardinality(left) # 0
    BY <1>2, <2>1, FS_EmptySet
  <2>3. predRemaining'[m] = predRemaining[m] - 1
    BY <1>1, <1>2, <1>5, <2>2 DEF Activate
  <2> QED
    BY <1>2, <1>3, <1>4, <2>1, <2>3
<1>6. CASE m \notin NextOf[n]
  <2>1. n \notin left
    BY <1>6 DEF Predecessors
  <2>2. predRemaining'[m] = predRemaining[m]
    BY <1>1, <1>6 DEF Activate
  <2> QED
    BY <1>2, <1>3, <1>4, <2>1, <2>2
<1> QED
  BY <1>5, <1>6

LEMMA TakeKeeps ==
    ASSUME GraphInv, TakeResult
    PROVE  GraphInv'
<1> DEFINE n == FirstOfBatch
           left == [m \in DOMAIN batch \ {n} |-> batch[m]]
<1>1. graphPhase = "take" /\ n \in DOMAIN batch /\ n \in Nodes \ completed
  BY FirstIsInBatch DEF TakeResult, GraphInv, GraphShapes, BatchIsNew, BatchIsPending
<1>2. /\ completed' = completed \cup {n} /\ checkpoint'.completed = completed'
      /\ \/ UNCHANGED predRemaining /\ graphPhase' = "summary" /\ batch' = <<>>
         \/ Activate(n, batch[n]) /\ graphPhase' = "summary" /\ batch' = <<>>
         \/ Activate(n, batch[n]) /\ graphPhase' = "loop" /\ batch' = left /\ DOMAIN left = {}
         \/ Activate(n, batch[n]) /\ graphPhase' = "take" /\ batch' = left /\ DOMAIN left # {}
  BY DEF TakeResult, Checkpoint
<1>3. DOMAIN left = DOMAIN batch \ {n} /\ DOMAIN <<>> = {}
  OBVIOUS
<1> HIDE DEF n, left
<1>4. /\ DOMAIN batch' \subseteq DOMAIN batch \ {n}
      /\ graphPhase' \in {"summary", "loop", "take"}
      /\ graphPhase' = "take" => DOMAIN batch' # {}
      /\ graphPhase' # "take" => DOMAIN batch' = {}
  BY <1>2, <1>3
<1>5. predRemaining' \in [Nodes -> Nat] /\ CountsExact'
  <2>1. CASE UNCHANGED predRemaining /\ graphPhase' = "summary"
    BY <2>1 DEF GraphInv, GraphShapes, CountsExact, Counting
  <2>2. CASE Activate(n, batch[n])
    <3>1. graphPhase \in Counting
      BY <1>1 DEF Counting
    <3>2. /\ predRemaining' \in [Nodes -> Nat]
          /\ \A m \in Nodes : predRemaining'[m] = Cardinality(Predecessors(m) \ completed')
      BY <1>1, <1>2, <2>2, <3>1, CountGoesDown
    <3> QED
      BY <3>2 DEF CountsExact, Predecessors
  <2> QED
    BY <1>2, <2>1, <2>2
<1>6. PredecessorsComplete'
  BY <1>2, <1>4 DEF GraphInv, PredecessorsComplete, Predecessors
<1>7. GraphShapes'
  BY <1>1, <1>2, <1>4, <1>5 DEF GraphInv, GraphShapes
<1>8. BatchIsNew' /\ BatchIsPending'
  BY <1>1, <1>2, <1>4 DEF GraphInv, BatchIsNew, BatchIsPending
<1> QED
  BY <1>5, <1>6, <1>7, <1>8 DEF GraphInv

LEMMA GraphStep == GraphInv /\ [GraphNext]_graphVars => GraphInv'
<1> SUFFICES ASSUME GraphInv, [GraphNext]_graphVars PROVE GraphInv'
  OBVIOUS
<1>1. CASE RunGraph
  BY <1>1, BeginKeeps DEF RunGraph
<1>2. CASE ResumeGraph
  BY <1>2, BeginKeeps DEF ResumeGraph, GraphInv, GraphShapes
<1>3. CASE CancelGraph \/ InterruptGraph \/ TakeError \/ Summarise
  BY <1>3, ReturnKeeps DEF CancelGraph, InterruptGraph, TakeError, Summarise
<1>4. CASE StartBatch
  BY <1>4, StartKeeps
<1>5. CASE JoinBatch
  BY <1>5, JoinKeeps
<1>6. CASE TakeResult
  BY <1>6, TakeKeeps
<1>7. CASE UNCHANGED graphVars
  BY <1>7 DEF graphVars, GraphInv, GraphShapes, BatchIsNew, BatchIsPending, CountsExact,
     PredecessorsComplete, Predecessors
<1> QED
  BY <1>1, <1>2, <1>3, <1>4, <1>5, <1>6, <1>7 DEF GraphNext

(* In any graph that validates, over any number of runs, interruptions and *)
(* resumptions, a node starts only behind all its predecessors.            *)
THEOREM GraphWaitsForPredecessors == GraphSpec => []PredecessorsComplete
<1>1. GraphInit => GraphInv
  BY DEF GraphInit, GraphInv, GraphShapes, BatchIsNew, BatchIsPending, CountsExact, Counting,
     PredecessorsComplete, NoCheckpoint
<1>2. GraphInv => PredecessorsComplete
  BY DEF GraphInv
<1> QED
  BY <1>1, <1>2, GraphStep, PTL DEF GraphSpec
----------------------------------------------------------------------------
(* One branch of a router.  A choice is recorded once its router has       *)
(* completed, in the run and in the file; only the chosen branch becomes   *)
(* reachable; and a branch that was started belongs to a router that is    *)
(* completed, so that no run that follows asks it again.  A checkpoint may *)
(* know the router without its choice (it is saved before): then no branch *)
(* is reachable any more.                                                  *)
ChoicesFit(done, choice) ==
    /\ choice \in [Routers -> Nodes \cup {NoNode}]
    /\ \A r \in Routers : choice[r] # NoNode => r \in done /\ choice[r] \in BranchesOf[r]
StartedFits(done, choice, started) ==
    \A r \in Routers : \A b \in OnlyBehind(r) \cap started : r \in done /\ choice[r] \in {NoNode, b}

ChoicesMade ==
    /\ ChoicesFit(completed, routerChoice)
    /\ ChoicesFit(checkpoint.completed, checkpoint.choice)
    /\ ~checkpoint.exists => \A r \in Routers : checkpoint.choice[r] = NoNode
AnswersFit == graphPhase = "take" => \A n \in DOMAIN batch : batch[n] \in OutcomesOf(n)
ChoiceReached ==
    graphPhase \in Counting =>
        \A r \in Routers : \A b \in OnlyBehind(r) \cap reachable : routerChoice[r] = b
ChoiceSaved ==
    graphPhase \in Counting =>
        \A r \in Routers : routerChoice[r] # NoNode =>
            /\ checkpoint.exists /\ r \in checkpoint.completed
            /\ checkpoint.choice[r] \in {NoNode, routerChoice[r]}
StartedChosen ==
    /\ graphPhase \in Counting => StartedFits(completed, routerChoice, startedNodes)
    /\ checkpoint.exists => StartedFits(checkpoint.completed, checkpoint.choice, startedNodes)
    /\ \A r \in Routers : \A b, c \in OnlyBehind(r) \cap startedNodes : b = c
BranchInv ==
    ChoicesMade /\ AnswersFit /\ ChoiceReached /\ ChoiceSaved /\ StartedChosen

(* A node of a router's own is a node, which no edge and no other router   *)
(* leads to.                                                               *)
LEMMA BehindOnly ==
    ASSUME NEW r \in Routers, NEW b \in OnlyBehind(r)
    PROVE  /\ b \in Nodes /\ b # NoNode /\ b # StartNode /\ b \in BranchesOf[r]
           /\ \A n \in Nodes : b \notin NextOf[n]
           /\ \A q \in Routers \ {r} : b \notin BranchesOf[q]
<1>1. r \in Nodes /\ b \in BranchesOf[r] /\ BranchesOf[r] \subseteq Nodes /\ Nodes \subseteq Nat
  BY GraphAssumption DEF OnlyBehind, Routers
<1>2. b \in Nat
  BY <1>1
<1> QED
  BY <1>1, <1>2 DEF OnlyBehind, NoNode

LEMMA ReturnKeepsBranch ==
    ASSUME BranchInv, NEW result, Return(result), checkpoint' \in {checkpoint, NoCheckpoint}
    PROVE  BranchInv'
<1>1. graphPhase' = "returned" /\ UNCHANGED <<completed, routerChoice, reachable, startedNodes>>
  BY DEF Return
<1>2. ChoicesMade'
  BY <1>1 DEF BranchInv, ChoicesMade, ChoicesFit, NoCheckpoint
<1>3. StartedChosen'
  BY <1>1 DEF BranchInv, StartedChosen, StartedFits, Counting, NoCheckpoint
<1> QED
  BY <1>1, <1>2, <1>3 DEF BranchInv, AnswersFit, ChoiceReached, ChoiceSaved, Counting

(* A run from nothing, and one from what the file says: the replay makes a *)
(* branch reachable only for the choice that is recorded.                  *)
LEMMA BeginKeepsBranch ==
    ASSUME BranchInv, GraphShapes, RunGraph \/ ResumeGraph
    PROVE  BranchInv'
<1> DEFINE done == completed'
           choice == routerChoice'
<1>1. /\ graphPhase' = "loop" /\ UNCHANGED <<checkpoint, batch>>
      /\ reachable' = ReplayedFrom(done, choice) \cup ({StartNode} \ done)
      /\ \/ done = {} /\ choice = NoCheckpoint.choice /\ startedNodes' = {}
         \/ /\ done = checkpoint.completed /\ choice = checkpoint.choice
            /\ startedNodes' = IF checkpoint.exists THEN startedNodes ELSE {}
  BY DEF RunGraph, ResumeGraph, Begin
<1>2. ChoicesFit(done, choice) /\ done \subseteq Nodes
  BY <1>1 DEF BranchInv, ChoicesMade, ChoicesFit, NoCheckpoint, GraphShapes
<1>3. ChoiceReached'
  <2> SUFFICES ASSUME NEW r \in Routers, NEW b \in OnlyBehind(r) \cap reachable'
               PROVE  choice[r] = b
    BY DEF ChoiceReached, OnlyBehind, Routers
  <2>1. b \in ReplayedFrom(done, choice)
    BY <1>1, BehindOnly
  <2>2. b \notin UNION {NextOf[n] : n \in done}
    BY <1>2, BehindOnly
  <2>3. PICK q \in done \cap Routers : b = choice[q] /\ b # NoNode
    BY <2>1, <2>2 DEF ReplayedFrom
  <2>4. b \in BranchesOf[q]
    BY <1>2, <2>3 DEF ChoicesFit
  <2> QED
    BY <2>3, <2>4, BehindOnly
<1>4. ChoiceSaved'
  BY <1>1 DEF ChoiceSaved, BranchInv, ChoicesMade, ChoicesFit, NoCheckpoint, Routers
<1>5. StartedChosen'
  BY <1>1 DEF BranchInv, StartedChosen, StartedFits, OnlyBehind, Routers
<1>6. ChoicesMade'
  BY <1>1, <1>2 DEF BranchInv, ChoicesMade, ChoicesFit, Routers
<1> QED
  BY <1>1, <1>3, <1>4, <1>5, <1>6 DEF BranchInv, AnswersFit

LEMMA StartKeepsBranch ==
    ASSUME BranchInv, StartBatch
    PROVE  BranchInv'
<1>1. /\ graphPhase = "loop" /\ graphPhase' \in {"summary", "batch"}
      /\ startedNodes' = startedNodes \cup Frontier
      /\ UNCHANGED <<completed, routerChoice, reachable, checkpoint>>
  BY DEF StartBatch
<1>2. \A r \in Routers : \A b \in OnlyBehind(r) \cap Frontier :
          /\ routerChoice[r] = b /\ r \in completed
          /\ checkpoint.exists /\ r \in checkpoint.completed /\ checkpoint.choice[r] \in {NoNode, b}
  BY <1>1, BehindOnly DEF Frontier, BranchInv, ChoicesMade, ChoicesFit, ChoiceReached, ChoiceSaved,
     Counting
<1>3. \A r \in Routers : \A b, c \in OnlyBehind(r) \cap startedNodes' : b = c
  <2> SUFFICES ASSUME NEW r \in Routers, NEW b \in OnlyBehind(r) \cap startedNodes',
                      NEW c \in OnlyBehind(r) \cap startedNodes', c \in Frontier
               PROVE  b = c
    BY <1>1 DEF BranchInv, StartedChosen
  <2>1. routerChoice[r] = c /\ c # NoNode
    BY <1>2, BehindOnly
  <2>2. routerChoice[r] \in {NoNode, b}
    BY <1>1, <1>2 DEF BranchInv, StartedChosen, StartedFits, Counting
  <2> QED
    BY <2>1, <2>2
<1>4. StartedChosen'
  BY <1>1, <1>2, <1>3 DEF BranchInv, StartedChosen, StartedFits, Counting, OnlyBehind, Routers
<1> QED
  BY <1>1, <1>4 DEF BranchInv, ChoicesMade, AnswersFit, ChoiceReached, ChoiceSaved, Counting,
     OnlyBehind, Routers

(* A router that is taken has not completed before: it has no choice, and  *)
(* none of its branches is reachable or was started.                       *)
LEMMA ActivateKeepsBranch ==
    ASSUME BranchInv, graphPhase = "take", NEW n \in Nodes \ completed, n \in DOMAIN batch,
           batch[n] # Failed, Activate(n, batch[n]),
           completed' = completed \cup {n}, checkpoint' = Checkpoint(completed'),
           UNCHANGED startedNodes
    PROVE  ChoicesMade' /\ ChoiceReached' /\ ChoiceSaved' /\ StartedChosen'
<1> DEFINE a == batch[n].branch
<1>1. /\ checkpoint'.completed = completed' /\ checkpoint'.choice = routerChoice
      /\ checkpoint'.exists = TRUE
  BY DEF Checkpoint
<1>2. /\ ChoicesFit(completed, routerChoice)
      /\ StartedFits(completed, routerChoice, startedNodes)
      /\ \A r \in Routers : \A b \in OnlyBehind(r) \cap reachable : routerChoice[r] = b
      /\ \A r \in Routers : \A b, c \in OnlyBehind(r) \cap startedNodes : b = c
  BY DEF BranchInv, ChoicesMade, ChoiceReached, StartedChosen, Counting
<1>3. n \in Routers => a \in BranchesOf[n]
  <2>1. batch[n] \in OutcomesOf(n)
    BY DEF BranchInv, AnswersFit
  <2>2. ASSUME n \in Routers
        PROVE  \E b \in BranchesOf[n] : batch[n] = [result |-> "ok", branch |-> b]
    <3>1. n \notin GateNodes
      BY <2>2, GraphAssumption
    <3>2. OutcomesOf(n) = {Failed} \cup {[result |-> "ok", branch |-> b] : b \in BranchesOf[n]}
      BY <2>2, <3>1 DEF OutcomesOf
    <3> QED
      BY <2>1, <3>2
  <2> QED
    BY <2>2
<1>4. n \in Routers => BranchesOf[n] \subseteq Nodes
  BY GraphAssumption DEF Routers
<1>5. routerChoice' = IF n \in Routers THEN [routerChoice EXCEPT ![n] = a] ELSE routerChoice
  BY DEF Activate
<1>6. reachable' = reachable \cup NextOf[n] \cup ({a} \cap BranchesOf[n])
  BY DEF Activate
<1> HIDE DEF a
<1>7. ChoicesFit(completed', routerChoice') /\ ChoicesFit(completed', routerChoice)
  BY <1>2, <1>3, <1>4, <1>5 DEF ChoicesFit
<1>8. ChoicesMade'
  BY <1>1, <1>7 DEF ChoicesMade, ChoicesFit, Routers
<1>9. ASSUME NEW r \in Routers, NEW b \in OnlyBehind(r) \cap reachable' PROVE routerChoice'[r] = b
  <2>1. CASE r = n
    <3>1. b \notin reachable
      BY <1>2, <2>1, BehindOnly DEF ChoicesFit
    <3> QED
      BY <1>2, <1>5, <1>6, <2>1, <3>1, BehindOnly DEF ChoicesFit
  <2>2. CASE r # n
    <3>1. b \notin NextOf[n] /\ (n \in Routers => b \notin BranchesOf[n])
      BY <2>2, BehindOnly
    <3>2. n \notin Routers => BranchesOf[n] = {}
      BY DEF Routers
    <3> QED
      BY <1>2, <1>5, <1>6, <2>2, <3>1, <3>2 DEF ChoicesFit
  <2> QED
    BY <2>1, <2>2
<1>10. StartedFits(completed', routerChoice', startedNodes)
       /\ StartedFits(completed', routerChoice, startedNodes)
  BY <1>2, <1>5 DEF StartedFits, ChoicesFit
<1>11. \A r \in Routers : routerChoice'[r] # NoNode =>
           r \in completed' /\ routerChoice[r] \in {NoNode, routerChoice'[r]}
  BY <1>2, <1>5, <1>7 DEF ChoicesFit
<1>12. ChoiceReached'
  BY <1>9 DEF ChoiceReached, OnlyBehind, Routers
<1>13. ChoiceSaved'
  BY <1>1, <1>11 DEF ChoiceSaved, Routers
<1>14. StartedChosen'
  <2>1. StartedFits(completed, routerChoice, startedNodes)'
    BY <1>10 DEF StartedFits, OnlyBehind, Routers
  <2>2. StartedFits(checkpoint.completed, checkpoint.choice, startedNodes)'
    BY <1>1, <1>10 DEF StartedFits, OnlyBehind, Routers
  <2>3. (\A r \in Routers : \A b, c \in OnlyBehind(r) \cap startedNodes : b = c)'
    BY <1>2 DEF OnlyBehind, Routers
  <2> QED
    BY <2>1, <2>2, <2>3 DEF StartedChosen
<1> QED
  BY <1>8, <1>12, <1>13, <1>14

LEMMA TakeKeepsBranch ==
    ASSUME GraphInv, BranchInv, TakeResult
    PROVE  BranchInv'
<1> DEFINE n == FirstOfBatch
           left == [m \in DOMAIN batch \ {n} |-> batch[m]]
<1>1. graphPhase = "take" /\ n \in DOMAIN batch /\ n \in Nodes \ completed
  BY FirstIsInBatch DEF TakeResult, GraphInv, GraphShapes, BatchIsNew, BatchIsPending
<1>2. /\ batch[n] # Failed /\ completed' = completed \cup {n}
      /\ checkpoint' = Checkpoint(completed') /\ UNCHANGED startedNodes
      /\ \/ UNCHANGED <<reachable, routerChoice>> /\ graphPhase' = "summary"
         \/ Activate(n, batch[n])
      /\ graphPhase' = "take" => batch' = left
  BY DEF TakeResult
<1>3. AnswersFit'
  <2> SUFFICES ASSUME graphPhase' = "take", NEW m \in DOMAIN left PROVE left[m] \in OutcomesOf(m)
    BY <1>2 DEF AnswersFit, OutcomesOf, Routers
  <2> QED
    BY <1>1 DEF BranchInv, AnswersFit
<1> HIDE DEF n, left
<1>4. CASE Activate(n, batch[n])
  BY <1>1, <1>2, <1>3, <1>4, ActivateKeepsBranch DEF BranchInv
<1>5. CASE UNCHANGED <<reachable, routerChoice>> /\ graphPhase' = "summary"
  <2>1. /\ checkpoint'.completed = completed' /\ checkpoint'.choice = routerChoice
        /\ checkpoint'.exists = TRUE
    BY <1>2 DEF Checkpoint
  <2>2. ChoicesMade'
    BY <1>2, <1>5, <2>1 DEF BranchInv, ChoicesMade, ChoicesFit, Routers
  <2>3. /\ StartedFits(completed, routerChoice, startedNodes)
        /\ \A r \in Routers : \A b, c \in OnlyBehind(r) \cap startedNodes : b = c
    BY <1>1 DEF BranchInv, StartedChosen, Counting
  <2>4. StartedFits(completed', routerChoice, startedNodes)
    BY <1>2, <2>3 DEF StartedFits
  <2>5. StartedFits(completed, routerChoice, startedNodes)'
    BY <1>2, <1>5, <2>4 DEF StartedFits, OnlyBehind, Routers
  <2>6. StartedFits(checkpoint.completed, checkpoint.choice, startedNodes)'
    BY <1>2, <2>1, <2>4 DEF StartedFits, OnlyBehind, Routers
  <2>7. (\A r \in Routers : \A b, c \in OnlyBehind(r) \cap startedNodes : b = c)'
    BY <1>2, <2>3 DEF OnlyBehind, Routers
  <2>8. StartedChosen'
    BY <2>5, <2>6, <2>7 DEF StartedChosen
  <2> QED
    BY <1>3, <1>5, <2>2, <2>8 DEF BranchInv, ChoiceReached, ChoiceSaved, Counting
<1> QED
  BY <1>2, <1>4, <1>5

LEMMA BranchStep == GraphInv /\ BranchInv /\ [GraphNext]_graphVars => BranchInv'
<1> SUFFICES ASSUME GraphInv, BranchInv, [GraphNext]_graphVars PROVE BranchInv'
  OBVIOUS
<1>1. CASE RunGraph \/ ResumeGraph
  BY <1>1, BeginKeepsBranch DEF GraphInv
<1>2. CASE CancelGraph \/ InterruptGraph \/ TakeError \/ Summarise
  BY <1>2, ReturnKeepsBranch DEF CancelGraph, InterruptGraph, TakeError, Summarise
<1>3. CASE StartBatch
  BY <1>3, StartKeepsBranch
<1>4. CASE JoinBatch
  <2>1. /\ graphPhase = "batch" /\ graphPhase' = "take"
        /\ UNCHANGED <<completed, routerChoice, reachable, checkpoint, startedNodes>>
    BY <1>4 DEF JoinBatch
  <2>2. AnswersFit'
    BY <1>4 DEF JoinBatch, AnswersFit, OutcomesOf, Routers
  <2> QED
    BY <2>1, <2>2 DEF BranchInv, ChoicesMade, ChoiceReached, ChoiceSaved, StartedChosen, Counting,
       OnlyBehind, Routers
<1>5. CASE TakeResult
  BY <1>5, TakeKeepsBranch
<1>6. CASE UNCHANGED graphVars
  BY <1>6 DEF graphVars, BranchInv, ChoicesMade, AnswersFit, OutcomesOf, ChoiceReached, ChoiceSaved,
     StartedChosen, Counting, OnlyBehind, Routers
<1> QED
  BY <1>1, <1>2, <1>3, <1>4, <1>5, <1>6 DEF GraphNext

LEMMA BranchInit == GraphInit => GraphInv /\ BranchInv
<1> SUFFICES ASSUME GraphInit PROVE GraphInv /\ BranchInv
  OBVIOUS
<1>1. GraphInv
  BY DEF GraphInit, GraphInv, GraphShapes, BatchIsNew, BatchIsPending, CountsExact, Counting,
     PredecessorsComplete, NoCheckpoint
<1> QED
  BY <1>1 DEF GraphInit, BranchInv, ChoicesMade, ChoicesFit, AnswersFit, ChoiceReached, ChoiceSaved,
     StartedChosen, StartedFits, Counting, NoCheckpoint

(* In any graph that validates, over a run and all its resumptions, at     *)
(* most one of the nodes that only one router leads to is started.         *)
THEOREM RouterTakesOneBranch == GraphSpec => []OneBranchTaken
<1>1. BranchInv => OneBranchTaken
  <2> SUFFICES ASSUME BranchInv, NEW r \in Routers
               PROVE  Cardinality(OnlyBehind(r) \cap startedNodes) <= 1
    BY DEF OneBranchTaken
  <2> DEFINE S == OnlyBehind(r) \cap startedNodes
  <2>1. \A b, c \in S : b = c
    BY DEF BranchInv, StartedChosen
  <2> SUFFICES Cardinality(S) <= 1
    OBVIOUS
  <2> HIDE DEF S
  <2>2. CASE S = {}
    BY <2>2, FS_EmptySet
  <2>3. CASE S # {}
    <3> PICK b : b \in S
      BY <2>3
    <3>1. S = {b}
      BY <2>1
    <3>2. Cardinality(S) = 1
      BY <3>1, FS_Singleton
    <3> QED
      BY <3>2
  <2> QED
    BY <2>2, <2>3
<1> QED
  BY <1>1, BranchInit, GraphStep, BranchStep, PTL DEF GraphSpec
----------------------------------------------------------------------------
(* ProviderTurn.                                                           *)
(* The stop reason after which calls run is said behind the last of them.  *)
StopSaid == stop = "tool_use" => Said
InTurn == {"request", "backoff", "stream", "decide"}
TextInStep == turnStage \in InTurn => textShown = textStored
ProviderInv == OnlyWholeCallsRun /\ StopSaid /\ TextInStep

LEMMA ProviderInvInit == ProviderInit => ProviderInv
BY DEF ProviderInit, ProviderInv, OnlyWholeCallsRun, StopSaid, NoStop, TextInStep, InTurn

(* Steps that leave the fold as it is and run nothing.                     *)
LEMMA FoldUntouched ==
    ASSUME ProviderInv, UNCHANGED <<callArgs, stop, ran, textShown, textStored>>,
           turnStage' \in InTurn => turnStage \in InTurn
    PROVE  ProviderInv'
BY DEF ProviderInv, OnlyWholeCallsRun, StopSaid, Said, TextInStep

(* An empty fold has said nothing yet.                                     *)
LEMMA FoldStartsAnew ==
    ASSUME ProviderInv, NewFold, ran' = ran, textShown' = 0
    PROVE  ProviderInv'
BY DEF ProviderInv, NewFold, NoStop, OnlyWholeCallsRun, StopSaid, TextInStep

LEMMA StreamKeeps ==
    ASSUME ProviderInv,
           TextFrame \/ ThinkingFrame \/ CallFrame \/ ArgumentsFrame \/ StopFrame \/ StreamEnds \/ StreamFails
    PROVE  ProviderInv'
<1>1. turnStage = "stream" /\ turnStage \in InTurn /\ ran' = ran
  BY DEF TextFrame, ThinkingFrame, CallFrame, ArgumentsFrame, StopFrame, StreamEnds, StreamFails,
     Frame, FailWith, Reach, loopVars, InTurn
<1>2. textShown = textStored
  BY <1>1 DEF ProviderInv, TextInStep
<1>3. CASE TextFrame \/ ThinkingFrame \/ CallFrame \/ ArgumentsFrame
  <2>1. stop = NoStop /\ stop' = NoStop
    BY <1>3 DEF TextFrame, ThinkingFrame, CallFrame, ArgumentsFrame, Frame
  <2>2. textShown' = textStored'
    BY <1>2, <1>3 DEF TextFrame, ThinkingFrame, CallFrame, ArgumentsFrame
  <2> QED
    BY <1>1, <2>1, <2>2 DEF ProviderInv, OnlyWholeCallsRun, StopSaid, NoStop, TextInStep
<1>4. CASE StopFrame
  <2>1. UNCHANGED <<textStored, textShown, callArgs>>
    BY <1>4 DEF StopFrame
  <2>2. stop' = "tool_use" => Said
    BY <1>4 DEF StopFrame, CutStops
  <2> QED
    BY <1>1, <1>2, <2>1, <2>2 DEF ProviderInv, OnlyWholeCallsRun, StopSaid, Said, TextInStep
<1>5. CASE StreamEnds \/ StreamFails
  <2>1. UNCHANGED <<callArgs, stop, textShown, textStored>>
    BY <1>5 DEF StreamEnds, StreamFails, FailWith, foldVars
  <2> QED
    BY <1>1, <2>1, FoldUntouched
<1> QED
  BY <1>3, <1>4, <1>5

LEMMA DecideKeeps ==
    ASSUME ProviderInv, GiveUp \/ RetryPairing \/ Recover \/ Complete \/ RunCalls
    PROVE  ProviderInv'
<1>1. turnStage = "decide" /\ turnStage \in InTurn
  BY DEF GiveUp, RetryPairing, Recover, Complete, RunCalls, Decide, Usable, InTurn
<1>2. CASE GiveUp \/ Recover \/ Complete
  <2>1. UNCHANGED <<callArgs, stop, ran, textShown, textStored>>
    BY <1>2 DEF GiveUp, Recover, Complete, foldVars
  <2> QED
    BY <1>1, <2>1, FoldUntouched
<1>3. CASE RetryPairing
  <2>1. NewFold /\ ran' = ran /\ textShown' = textShown /\ textStored = 0
    BY <1>3 DEF RetryPairing, loopVars, EmptyPartial
  <2>2. textShown = 0
    BY <1>1, <2>1 DEF ProviderInv, TextInStep
  <2> QED
    BY <2>1, <2>2, FoldStartsAnew
<1>4. CASE RunCalls
  <2>1. stop = "tool_use"
    BY <1>4 DEF RunCalls, MayRun, FinalStop
  <2>2. \A i \in DOMAIN callArgs : callArgs[i] = "whole"
    BY <2>1 DEF ProviderInv, StopSaid, Said
  <2>3. /\ ran' = ran \cup {callArgs[i] : i \in DOMAIN callArgs}
        /\ turnStage' = "head" /\ UNCHANGED <<callArgs, stop>>
    BY <1>4 DEF RunCalls, foldVars
  <2> QED
    BY <2>2, <2>3 DEF ProviderInv, OnlyWholeCallsRun, StopSaid, Said, TextInStep, InTurn
<1> QED
  BY <1>2, <1>3, <1>4

LEMMA ProviderStep == ProviderInv /\ [ProviderNext]_turnStreamVars => ProviderInv'
<1> SUFFICES ASSUME ProviderInv, [ProviderNext]_turnStreamVars PROVE ProviderInv'
  OBVIOUS
<1>1. CASE BeginTurn
  BY <1>1, FoldStartsAnew DEF BeginTurn
<1>2. CASE EndRun
  <2>1. /\ turnStage' = "ended"
        /\ UNCHANGED <<callArgs, stop, ran, textShown, textStored>>
    BY <1>2 DEF EndRun, foldVars
  <2> QED
    BY <2>1, FoldUntouched DEF InTurn
<1>3. CASE RequestFails \/ TryAgain \/ Accepted \/ SeeCancelled
  <2>1. /\ turnStage \in InTurn
        /\ UNCHANGED <<callArgs, stop, ran, textShown, textStored>>
    BY <1>3 DEF RequestFails, TryAgain, Accepted, SeeCancelled, FailWith, Reach, foldVars, loopVars, InTurn
  <2> QED
    BY <2>1, FoldUntouched
<1>4. CASE CancelStream
  BY <1>4, FoldUntouched DEF CancelStream, foldVars, loopVars
<1>5. CASE UNCHANGED turnStreamVars
  BY <1>5, FoldUntouched DEF turnStreamVars, foldVars, loopVars
<1> QED
  BY <1>1, <1>2, <1>3, <1>4, <1>5, StreamKeeps, DecideKeeps DEF ProviderNext

(* For any number of turns, attempts, recoveries, texts and calls, and any *)
(* of the formats: no call runs whose arguments have not arrived whole.    *)
THEOREM OnlyWholeCallsEverRun == ProviderSpec => []OnlyWholeCallsRun
<1>1. ProviderInv => OnlyWholeCallsRun
  BY DEF ProviderInv
<1> QED
  BY <1>1, ProviderInvInit, ProviderStep, PTL DEF ProviderSpec

(* And what the clients were shown of a turn is what its message holds     *)
(* when the loop takes it.                                                 *)
THEOREM ShownTextIsAlwaysKept == ProviderSpec => []ShownTextIsKept
<1>1. ProviderInv => ShownTextIsKept
  BY DEF ProviderInv, TextInStep, InTurn, ShownTextIsKept
<1> QED
  BY <1>1, ProviderInvInit, ProviderStep, PTL DEF ProviderSpec

----------------------------------------------------------------------------
(* ToolTurn.                                                               *)
LEMMA RequestsDiffer ==
    \A c, d \in Calls :
        /\ GateRequest(c) \in Requests /\ HookRequest(c) \in Requests
        /\ GateRequest(c) # HookRequest(d)
        /\ GateRequest(c) = GateRequest(d) => c = d
        /\ HookRequest(c) = HookRequest(d) => c = d
        /\ GateRequest(c) # NoRequest /\ HookRequest(c) # NoRequest
BY ToolTurnAssumption DEF GateRequest, HookRequest

----------------------------------------------------------------------------
(* What a step of a call does: where the call goes, and what it does to    *)
(* the mailbox.                                                            *)
CallGoes(c, from, to) ==
    /\ stage[c] = from /\ stage' = [stage EXCEPT ![c] = to] /\ to \in Stages
Silent(c) ==
    /\ UNCHANGED mailboxVars
    /\ \/ CallGoes(c, "queued", "gate") /\ MayStart(c)
       \/ CallGoes(c, "queued", "postHook") /\ MayStart(c)
       \/ CallGoes(c, "gate", "hook") /\ Gate(c) = "allow"
       \/ CallGoes(c, "gate", "postHook")
       \/ CallGoes(c, "asked", "hook") /\ answers[GateRequest(c)] = "allow"
       \/ CallGoes(c, "asked", "postHook")
       \/ CallGoes(c, "hookAsked", "calling") /\ answers[HookRequest(c)] = "allow"
       \/ CallGoes(c, "hookAsked", "postHook")
       \/ CallGoes(c, "hook", "calling")
       \/ CallGoes(c, "hook", "postHook")
       \/ CallGoes(c, "calling", "postHook")
       \/ CallGoes(c, "postHook", "done")
Asks(c) ==
    \/ CallGoes(c, "gate", "asking") /\ Gate(c) = "ask" /\ InsertSender(GateRequest(c))
    \/ CallGoes(c, "hook", "hookAsking") /\ InsertSender(HookRequest(c))
    \/ CallGoes(c, "asking", "asked") /\ InsertMeta(GateRequest(c))
    \/ CallGoes(c, "hookAsking", "hookAsked") /\ InsertMeta(HookRequest(c))

LEMMA MoveGoes ==
    ASSUME NEW c, NEW from, NEW to \in Stages, Move(c, from, to)
    PROVE  /\ CallGoes(c, from, to) /\ turnPhase = "executing" /\ turnPhase' = "executing"
           /\ UNCHANGED <<permissionMode, interactive>>
BY DEF Move, CallGoes, Executing

LEMMA HeardIsAnswer ==
    \A r : Heard(r) = "allow" => answers[r] = "allow"
BY DEF Heard

LEMMA CallStepChanges ==
    ASSUME NEW c \in Calls, CallStep(c)
    PROVE  /\ Silent(c) \/ Asks(c)
           /\ turnPhase = "executing" /\ turnPhase' = "executing"
           /\ UNCHANGED <<permissionMode, interactive>>
<1>0. {"gate", "asking", "asked", "hook", "hookAsking", "hookAsked", "calling", "postHook", "done"}
         \subseteq Stages
  BY DEF Stages
<1>1. CASE StartCall(c)
  BY <1>0, <1>1, MoveGoes DEF StartCall, Fail, Silent
<1>2. CASE PassGate(c)
  BY <1>0, <1>2, MoveGoes DEF PassGate, Fail, Silent, Asks
<1>3. CASE ShowRequest(c)
  BY <1>0, <1>3, MoveGoes DEF ShowRequest, Asks
<1>4. CASE HearDecision(c)
  BY <1>0, <1>4, MoveGoes, HeardIsAnswer DEF HearDecision, Fail, Silent
<1>5. CASE PreHook(c)
  <2>2. \/ Move(c, "hook", "calling") /\ UNCHANGED mailboxVars
        \/ Move(c, "hook", "postHook") /\ UNCHANGED mailboxVars
        \/ Move(c, "hook", "hookAsking") /\ InsertSender(HookRequest(c))
    BY <1>5, Zenon DEF PreHook, Fail
  <2> QED
    BY <1>0, <2>2, MoveGoes DEF Silent, Asks
<1>6. CASE Call(c) \/ PostHook(c)
  BY <1>0, <1>6, MoveGoes DEF Call, PostHook, Silent
<1> QED
  BY <1>1, <1>2, <1>3, <1>4, <1>5, <1>6 DEF CallStep

(* Steps that are not of a call leave the calls where they are.            *)
Elsewhere == TakeResults \/ CancelTurn \/ DropExecution \/ RestDecides \/ SocketDecides
             \/ SwitchAway \/ RestartServer \/ UNCHANGED turnVars

LEMMA ElsewhereStays == Elsewhere => UNCHANGED <<stage, permissionMode, interactive>>
BY Zenon DEF Elsewhere, TakeResults, CancelTurn, DropExecution, RestDecides, SocketDecides, SwitchAway,
   RestartServer, toolVars, turnVars

LEMMA ToolSteps ==
    [ToolNext]_turnVars => Elsewhere \/ \E c \in Calls : CallStep(c)
BY DEF ToolNext, Elsewhere

----------------------------------------------------------------------------
(* The order of the calls.                                                 *)
StageTyped == stage \in [Calls -> Stages]
BatchesInOrder ==
    \A c, d \in Calls : (d < c /\ stage[c] # "queued") =>
        stage[d] # "queued" /\ (stage[d] = "done" \/ SameBatch(c, d))
OrderInv == StageTyped /\ BatchesInOrder

LEMMA OrderInvInit == ToolInit => OrderInv
BY DEF ToolInit, OrderInv, StageTyped, Stages, BatchesInOrder

(* A call that has begun never waits in line again, and one that is done   *)
(* does not move.                                                          *)
LEMMA OrderStep == OrderInv /\ [ToolNext]_turnVars => OrderInv'
<1> SUFFICES ASSUME OrderInv, [ToolNext]_turnVars PROVE OrderInv'
  OBVIOUS
<1>1. CASE Elsewhere
  <2>1. stage' = stage
    BY <1>1, ElsewhereStays
  <2> QED
    BY <2>1 DEF OrderInv, StageTyped, BatchesInOrder, SameBatch
<1>2. ASSUME NEW c \in Calls, CallStep(c) PROVE OrderInv'
  <2>1. PICK from, to : /\ CallGoes(c, from, to) /\ from # "done" /\ to # "queued"
                        /\ from = "queued" => MayStart(c)
    BY <1>2, CallStepChanges DEF Silent, Asks
  <2>2. /\ StageTyped' /\ stage[c] = from /\ stage'[c] = to
        /\ \A d \in Calls \ {c} : stage'[d] = stage[d]
    BY <2>1 DEF CallGoes, OrderInv, StageTyped
  <2>3. ASSUME NEW e \in Calls, NEW d \in Calls, d < e, stage'[e] # "queued"
        PROVE  stage'[d] # "queued" /\ (stage'[d] = "done" \/ SameBatch(e, d))
    <3>1. CASE stage[e] # "queued"
      <4>1. stage[d] # "queued" /\ (stage[d] = "done" \/ SameBatch(e, d))
        BY <2>3, <3>1 DEF OrderInv, BatchesInOrder
      <4> QED
        BY <2>1, <2>2, <4>1
    <3>2. CASE stage[e] = "queued"
      <4>1. e = c /\ MayStart(c)
        BY <2>1, <2>2, <2>3, <3>2
      <4>2. d \in 1..(c - 1) /\ d # c
        BY <2>3, <4>1, ToolTurnAssumption DEF Calls
      <4> QED
        BY <2>2, <4>1, <4>2 DEF MayStart
    <3> QED
      BY <3>1, <3>2
  <2>4. BatchesInOrder'
    BY <2>3 DEF BatchesInOrder, SameBatch
  <2> QED
    BY <2>2, <2>4 DEF OrderInv
<1> QED
  BY <1>1, <1>2, ToolSteps

(* Whatever the calls of a turn, and however many run at once: while an    *)
(* unsafe call runs no other call of the turn does.                        *)
THEOREM UnsafeCallsRunAlone == ToolSpec => []UnsafeRunsAlone
<1>1. OrderInv => UnsafeRunsAlone
  <2> SUFFICES ASSUME OrderInv, NEW c \in Active \ SafeCalls, NEW d \in Calls
               PROVE  (d < c => stage[d] = "done") /\ (d > c => stage[d] = "queued")
    BY DEF UnsafeRunsAlone
  <2>1. c \in Calls /\ stage[c] # "queued" /\ stage[c] # "done" /\ c \notin SafeCalls
    BY DEF Active
  <2>2. c \in Nat /\ d \in Nat
    BY <2>1, ToolTurnAssumption DEF Calls
  <2>3. c # d => ~SameBatch(c, d) /\ ~SameBatch(d, c)
    <3>1. c \in c..d \/ c \in d..c
      BY <2>2
    <3> QED
      BY <2>1, <3>1 DEF SameBatch
  <2>4. CASE d < c
    BY <2>1, <2>2, <2>3, <2>4 DEF OrderInv, BatchesInOrder
  <2>5. CASE d > c
    BY <2>1, <2>2, <2>3, <2>5 DEF OrderInv, BatchesInOrder
  <2> QED
    BY <2>2, <2>4, <2>5
<1> QED
  BY <1>1, OrderInvInit, OrderStep, PTL DEF ToolSpec

----------------------------------------------------------------------------
(* The grants.  The two requests of a call have not been shown before the  *)
(* call asks.                                                              *)
GateUnshown == {"queued", "gate", "asking"}
HookUnshown == {"queued", "gate", "asking", "asked", "hook", "hookAsking"}
NotShownYet ==
    \A c \in Calls :
        /\ stage[c] \in GateUnshown => GateRequest(c) \notin shown
        /\ stage[c] \in HookUnshown => HookRequest(c) \notin shown
AskedForReason == \A c \in Calls : stage[c] \in {"asking", "asked"} => Gate(c) = "ask"
GrantInv == StageTyped /\ DOMAIN answers = Requests /\ NotShownYet /\ AskedForReason /\ OnlyGrantedCallsRun

LEMMA GrantInvInit == ToolInit => GrantInv
BY DEF ToolInit, MailboxInit, GrantInv, StageTyped, Stages, NotShownYet, GateUnshown, HookUnshown,
   AskedForReason, OnlyGrantedCallsRun

Refuses == permissionMode \in {"plan", "sandboxReadOnly", "sandboxStrict"} \/ ~interactive

LEMMA GateStays ==
    ASSUME NEW c, UNCHANGED <<permissionMode, interactive>>
    PROVE  Gate(c)' = Gate(c)
<1>1. permissionMode' = permissionMode /\ interactive' = interactive
  OBVIOUS
<1>2. GateAllows(c)' <=> GateAllows(c)
  BY <1>1 DEF GateAllows
<1>3. Refuses' <=> Refuses
  BY <1>1 DEF Refuses
<1>4. /\ Gate(c) = IF c \in DeniedCalls THEN "deny" ELSE IF GateAllows(c) THEN "allow"
                  ELSE IF Refuses THEN "deny" ELSE "ask"
      /\ Gate(c)' = IF c \in DeniedCalls THEN "deny" ELSE IF GateAllows(c)' THEN "allow"
                   ELSE IF Refuses' THEN "deny" ELSE "ask"
  BY Zenon DEF Gate, Refuses
<1> QED
  BY <1>2, <1>3, <1>4

(* A decision reaches nobody but a call that waits for it.                 *)
LEMMA SendStays ==
    ASSUME NEW r, NEW d, SendTo(r, d, Listeners), DOMAIN answers = Requests
    PROVE  /\ DOMAIN answers' = Requests
           /\ \A q \in Requests \ Waiting : answers'[q] = answers[q]
<1>1. Listeners \subseteq Waiting
  BY DEF Listeners
<1> QED
  BY <1>1 DEF SendTo

LEMMA ElsewhereMailbox ==
    ASSUME Elsewhere, DOMAIN answers = Requests
    PROVE  /\ shown' = shown /\ DOMAIN answers' = Requests
           /\ \A q \in Requests \ Waiting : answers'[q] = answers[q]
<1>1. CASE TakeResults \/ CancelTurn \/ DropExecution \/ UNCHANGED turnVars
  BY <1>1 DEF TakeResults, CancelTurn, DropExecution, turnVars, mailboxVars
<1>2. CASE RestDecides
  <2>1. shown' = shown
    BY <1>2 DEF RestDecides, RestTakesMeta, RestSends, RestDisconnects
  <2>2. answers' = answers \/ \E d : SendTo(restTaken, d, Listeners)
    BY <1>2 DEF RestDecides, RestTakesMeta, RestSends, RestDisconnects
  <2> QED
    BY <2>1, <2>2, SendStays
<1>3. CASE SocketDecides
  <2>1. shown' = shown
    BY <1>3 DEF SocketDecides, SocketTakesMeta, SocketSends
  <2>2. answers' = answers \/ \E d : SendTo(wsTaken, d, Listeners)
    BY <1>3 DEF SocketDecides, SocketTakesMeta, SocketSends
  <2> QED
    BY <2>1, <2>2, SendStays
<1>4. CASE SwitchAway \/ RestartServer
  BY <1>4 DEF SwitchAway, RestartServer, LeaveProject, LoadMetas
<1> QED
  BY <1>1, <1>2, <1>3, <1>4 DEF Elsewhere

LEMMA WhoWaits ==
    \A c \in Calls :
        /\ stage[c] \notin {"asking", "asked"} => GateRequest(c) \notin Waiting
        /\ stage[c] \notin {"hookAsking", "hookAsked"} => HookRequest(c) \notin Waiting
BY RequestsDiffer DEF Waiting

LEMMA GrantElsewhere == GrantInv /\ Elsewhere => GrantInv'
<1> SUFFICES ASSUME GrantInv, Elsewhere PROVE GrantInv'
  OBVIOUS
<1>1. /\ stage' = stage /\ UNCHANGED <<permissionMode, interactive>>
      /\ shown' = shown /\ DOMAIN answers' = Requests
      /\ \A q \in Requests \ Waiting : answers'[q] = answers[q]
  BY ElsewhereStays, ElsewhereMailbox DEF GrantInv
<1>2. \A c \in Calls : Gate(c)' = Gate(c)
  BY <1>1, GateStays
<1>3. StageTyped' /\ NotShownYet' /\ AskedForReason'
  BY <1>1, <1>2 DEF GrantInv, StageTyped, NotShownYet, AskedForReason
<1>4. OnlyGrantedCallsRun'
  <2> SUFFICES ASSUME NEW c \in Calls
               PROVE  /\ stage[c] \in {"hook", "hookAsking", "hookAsked", "calling"} =>
                            Gate(c) = "allow" \/ (Gate(c) = "ask" /\ answers'[GateRequest(c)] = "allow")
                      /\ (stage[c] = "calling" /\ HookRequest(c) \in shown)
                            => answers'[HookRequest(c)] = "allow"
    BY <1>1, <1>2 DEF OnlyGrantedCallsRun, GateRequest, HookRequest
  <2>1. stage[c] \in {"hook", "hookAsking", "hookAsked", "calling"} =>
            answers'[GateRequest(c)] = answers[GateRequest(c)]
    BY <1>1, WhoWaits, RequestsDiffer
  <2>2. stage[c] = "calling" => answers'[HookRequest(c)] = answers[HookRequest(c)]
    BY <1>1, WhoWaits, RequestsDiffer
  <2> QED
    BY <2>1, <2>2 DEF GrantInv, OnlyGrantedCallsRun
<1> QED
  BY <1>1, <1>3, <1>4 DEF GrantInv

(* The call moves, and nothing becomes shown but what it shows itself.     *)
LEMMA GrantCall ==
    ASSUME GrantInv, NEW c \in Calls, CallStep(c)
    PROVE  GrantInv'
<1>1. Silent(c) \/ Asks(c)
  BY CallStepChanges
<1>2. \A d \in Calls : Gate(d)' = Gate(d)
  BY CallStepChanges, GateStays
<1>3. /\ answers' = answers /\ stage' = [stage EXCEPT ![c] = stage'[c]] /\ StageTyped'
      /\ shown' \subseteq shown \cup {GateRequest(c), HookRequest(c)}
      /\ \A d \in Calls \ {c} : stage'[d] = stage[d]
      /\ stage'[c] \in GateUnshown => stage[c] \in GateUnshown /\ shown' = shown
      /\ stage'[c] \in HookUnshown => stage[c] \in HookUnshown /\ shown' \subseteq shown \cup {GateRequest(c)}
  BY <1>1 DEF GrantInv, Silent, Asks, CallGoes, StageTyped, mailboxVars, InsertSender, InsertMeta,
     GateUnshown, HookUnshown
<1>4. NotShownYet'
  <2> SUFFICES ASSUME NEW d \in Calls
               PROVE  /\ stage'[d] \in GateUnshown => GateRequest(d) \notin shown'
                      /\ stage'[d] \in HookUnshown => HookRequest(d) \notin shown'
    BY DEF NotShownYet, GateRequest, HookRequest
  <2>1. CASE d = c
    BY <1>3, <2>1, RequestsDiffer DEF GrantInv, NotShownYet
  <2>2. CASE d # c
    BY <1>3, <2>2, RequestsDiffer DEF GrantInv, NotShownYet
  <2> QED
    BY <2>1, <2>2
<1>5. AskedForReason'
  <2> SUFFICES ASSUME NEW d \in Calls, stage'[d] \in {"asking", "asked"} PROVE Gate(d) = "ask"
    BY <1>2 DEF AskedForReason
  <2>1. CASE d = c
    <3>1. stage[c] \in {"asking", "asked"} \/ Gate(c) = "ask"
      BY <1>1, <2>1 DEF Silent, Asks, CallGoes, GrantInv, StageTyped
    <3> QED
      BY <2>1, <3>1 DEF GrantInv, AskedForReason
  <2>2. CASE d # c
    BY <1>3, <2>2 DEF GrantInv, AskedForReason
  <2> QED
    BY <2>1, <2>2
<1>6. OnlyGrantedCallsRun'
  <2> SUFFICES ASSUME NEW d \in Calls
               PROVE  /\ stage'[d] \in {"hook", "hookAsking", "hookAsked", "calling"} =>
                            Gate(d) = "allow" \/ (Gate(d) = "ask" /\ answers[GateRequest(d)] = "allow")
                      /\ (stage'[d] = "calling" /\ HookRequest(d) \in shown')
                            => answers[HookRequest(d)] = "allow"
    BY <1>2, <1>3 DEF OnlyGrantedCallsRun, GateRequest, HookRequest
  <2>1. CASE d # c
    BY <1>3, <2>1, RequestsDiffer DEF GrantInv, OnlyGrantedCallsRun
  <2>2. CASE d = c
    <3>1. stage'[c] \in {"hook", "hookAsking", "hookAsked", "calling"} =>
              \/ stage[c] \in {"hook", "hookAsking", "hookAsked", "calling"}
              \/ Gate(c) = "allow"
              \/ stage[c] = "asked" /\ answers[GateRequest(c)] = "allow"
      BY <1>1 DEF Silent, Asks, CallGoes, GrantInv, StageTyped
    <3>2. stage'[c] = "calling" =>
              \/ answers[HookRequest(c)] = "allow"
              \/ stage[c] = "hook" /\ shown' = shown
      BY <1>1 DEF Silent, Asks, CallGoes, GrantInv, StageTyped, mailboxVars
    <3>3. stage[c] = "hook" => HookRequest(c) \notin shown
      BY DEF GrantInv, NotShownYet, HookUnshown
    <3> QED
      BY <2>2, <3>1, <3>2, <3>3 DEF GrantInv, OnlyGrantedCallsRun, AskedForReason
  <2> QED
    BY <2>1, <2>2
<1> QED
  BY <1>3, <1>4, <1>5, <1>6 DEF GrantInv

(* For any calls, modes and hooks, and any interleaving of decisions: no   *)
(* call runs on somebody else's permission.                                *)
THEOREM CallsRunOnTheirGrants == ToolSpec => []OnlyGrantedCallsRun
<1>1. GrantInv => OnlyGrantedCallsRun
  BY DEF GrantInv
<1>2. GrantInv /\ [ToolNext]_turnVars => GrantInv'
  BY ToolSteps, GrantElsewhere, GrantCall
<1> QED
  BY <1>1, <1>2, GrantInvInit, PTL DEF ToolSpec

----------------------------------------------------------------------------
(* What is shown, while the calls are executed.  A client that decides has *)
(* taken the request out of view, and what is out of view was once shown.  *)
HiddenByDecider ==
    /\ metas \subseteq shown \cap Requests
    /\ restTaken \in (shown \cup {NoRequest}) \ metas
    /\ wsTaken \in (shown \cup {NoRequest}) \ metas
(* A request has its sender before it is shown and while it is.            *)
SenderThere ==
    \A c \in Calls :
        /\ stage[c] = "asking" => GateRequest(c) \in senders
        /\ stage[c] = "hookAsking" => HookRequest(c) \in senders
        /\ (stage[c] = "asked" /\ GateRequest(c) \in metas) => GateRequest(c) \in senders
        /\ (stage[c] = "hookAsked" /\ HookRequest(c) \in metas) => HookRequest(c) \in senders
ShownInv ==
    /\ StageTyped /\ NotShownYet
    /\ turnPhase = "executing" => HiddenByDecider /\ SenderThere

LEMMA ShownInvInit == ToolInit => ShownInv
BY ToolTurnAssumption
   DEF ToolInit, MailboxInit, ShownInv, StageTyped, Stages, NotShownYet, GateUnshown, HookUnshown,
       HiddenByDecider, SenderThere

(* The senders of requests that are in view, or not shown yet, stay.       *)
LEMMA SendersStay ==
    ASSUME ShownInv, turnPhase = "executing", stage' = stage, shown' = shown, HiddenByDecider',
           metas' \subseteq metas,
           \A r \in senders : r \in metas \/ r \notin shown => r \in senders'
    PROVE  HiddenByDecider' /\ SenderThere'
<1>1. HiddenByDecider /\ SenderThere /\ NotShownYet
  BY DEF ShownInv
<1>2. SenderThere'
  <2> SUFFICES ASSUME NEW c \in Calls
               PROVE  /\ stage[c] = "asking" => GateRequest(c) \in senders'
                      /\ stage[c] = "hookAsking" => HookRequest(c) \in senders'
                      /\ (stage[c] = "asked" /\ GateRequest(c) \in metas') => GateRequest(c) \in senders'
                      /\ (stage[c] = "hookAsked" /\ HookRequest(c) \in metas') => HookRequest(c) \in senders'
    BY DEF SenderThere, GateRequest, HookRequest
  <2> QED
    BY <1>1 DEF SenderThere, NotShownYet, GateUnshown, HookUnshown
<1> QED
  BY <1>2

LEMMA ShownElsewhere == ShownInv /\ Elsewhere => ShownInv'
<1> SUFFICES ASSUME ShownInv, Elsewhere PROVE ShownInv'
  OBVIOUS
<1>1. stage' = stage
  BY ElsewhereStays
<1>2. shown' = shown
  BY DEF Elsewhere, TakeResults, CancelTurn, DropExecution, RestDecides, SocketDecides, RestTakesMeta,
     RestSends, RestDisconnects, SocketTakesMeta, SocketSends, SwitchAway, RestartServer, LeaveProject,
     LoadMetas, turnVars, mailboxVars
<1>3. StageTyped' /\ NotShownYet'
  BY <1>1, <1>2 DEF ShownInv, StageTyped, NotShownYet, GateRequest, HookRequest
<1>4. ASSUME turnPhase' = "executing" PROVE HiddenByDecider' /\ SenderThere'
  <2>1. turnPhase = "executing"
    BY <1>4 DEF Elsewhere, TakeResults, CancelTurn, DropExecution, RestDecides, SocketDecides,
       SwitchAway, RestartServer, toolVars, turnVars
  <2>2. HiddenByDecider /\ SenderThere
    BY <2>1 DEF ShownInv
  <2>3. CASE RestDecides
    <3>1. CASE \E r \in Requests : RestTakesMeta(r)
      <4>1. HiddenByDecider' /\ metas' \subseteq metas /\ senders' = senders
        BY <2>2, <3>1 DEF RestTakesMeta, HiddenByDecider
      <4> QED
        BY <1>1, <1>2, <2>1, <4>1, SendersStay
    <3>2. CASE \E d \in Decisions : RestSends(d, Listeners)
      <4>1. HiddenByDecider' /\ metas' = metas /\ senders' = senders \ {restTaken} /\ restTaken # NoRequest
        BY <2>2, <3>2, ToolTurnAssumption DEF RestSends, SendTo, HiddenByDecider
      <4>2. restTaken \in shown \ metas
        BY <2>2, <4>1 DEF HiddenByDecider
      <4> QED
        BY <1>1, <1>2, <2>1, <4>1, <4>2, SendersStay
    <3>3. CASE RestDisconnects
      <4>1. HiddenByDecider' /\ metas' = metas /\ senders' \in {senders, senders \ {restTaken}}
            /\ restTaken # NoRequest
        BY <2>2, <3>3, ToolTurnAssumption DEF RestDisconnects, HiddenByDecider
      <4>2. restTaken \in shown \ metas
        BY <2>2, <4>1 DEF HiddenByDecider
      <4> QED
        BY <1>1, <1>2, <2>1, <4>1, <4>2, SendersStay
    <3> QED
      BY <2>3, <3>1, <3>2, <3>3 DEF RestDecides
  <2>4. CASE SocketDecides
    <3>1. CASE \E r \in Requests : SocketTakesMeta(r)
      <4>1. HiddenByDecider' /\ metas' \subseteq metas /\ senders' = senders
        BY <2>2, <3>1 DEF SocketTakesMeta, HiddenByDecider
      <4> QED
        BY <1>1, <1>2, <2>1, <4>1, SendersStay
    <3>2. CASE \E d \in Decisions : SocketSends(d, Listeners)
      <4>1. HiddenByDecider' /\ metas' = metas /\ senders' = senders \ {wsTaken} /\ wsTaken # NoRequest
        BY <2>2, <3>2, ToolTurnAssumption DEF SocketSends, SendTo, HiddenByDecider
      <4>2. wsTaken \in shown \ metas
        BY <2>2, <4>1 DEF HiddenByDecider
      <4> QED
        BY <1>1, <1>2, <2>1, <4>1, <4>2, SendersStay
    <3> QED
      BY <2>4, <3>1, <3>2 DEF SocketDecides
  <2>5. CASE UNCHANGED mailboxVars
    <3>1. HiddenByDecider' /\ metas' = metas /\ senders' = senders
      BY <2>2, <2>5 DEF mailboxVars, HiddenByDecider
    <3> QED
      BY <1>1, <1>2, <2>1, <3>1, SendersStay
  <2> QED
    BY <1>4, <2>1, <2>3, <2>4, <2>5
       DEF Elsewhere, TakeResults, CancelTurn, DropExecution, SwitchAway, RestartServer, turnVars
<1> QED
  BY <1>3, <1>4 DEF ShownInv

LEMMA ShownCall ==
    ASSUME ShownInv, NEW c \in Calls, CallStep(c)
    PROVE  ShownInv'
<1>1. (Silent(c) \/ Asks(c)) /\ turnPhase = "executing"
  BY CallStepChanges
<1>2. HiddenByDecider /\ SenderThere /\ NotShownYet /\ StageTyped
  BY <1>1 DEF ShownInv
<1>3. /\ StageTyped'
      /\ \A d \in Calls \ {c} : stage'[d] = stage[d]
      /\ stage'[c] \in GateUnshown => stage[c] \in GateUnshown /\ shown' = shown
      /\ stage'[c] \in HookUnshown => stage[c] \in HookUnshown /\ shown' \subseteq shown \cup {GateRequest(c)}
      /\ shown' \subseteq shown \cup {GateRequest(c), HookRequest(c)}
      /\ UNCHANGED <<restTaken, wsTaken>> /\ senders \subseteq senders'
  BY <1>1, <1>2 DEF Silent, Asks, CallGoes, StageTyped, mailboxVars, InsertSender, InsertMeta,
     GateUnshown, HookUnshown
<1>4. NotShownYet'
  <2> SUFFICES ASSUME NEW d \in Calls
               PROVE  /\ stage'[d] \in GateUnshown => GateRequest(d) \notin shown'
                      /\ stage'[d] \in HookUnshown => HookRequest(d) \notin shown'
    BY DEF NotShownYet, GateRequest, HookRequest
  <2>1. CASE d = c
    BY <1>2, <1>3, <2>1, RequestsDiffer DEF NotShownYet
  <2>2. CASE d # c
    BY <1>2, <1>3, <2>2, RequestsDiffer DEF NotShownYet
  <2> QED
    BY <2>1, <2>2
(* What the step does, in terms of the two requests of the call.           *)
<1>5. \/ UNCHANGED mailboxVars /\ stage'[c] \notin {"asking", "asked", "hookAsking", "hookAsked"}
      \/ stage'[c] = "asking" /\ InsertSender(GateRequest(c))
      \/ stage'[c] = "hookAsking" /\ InsertSender(HookRequest(c))
      \/ stage[c] = "asking" /\ stage'[c] = "asked" /\ InsertMeta(GateRequest(c))
      \/ stage[c] = "hookAsking" /\ stage'[c] = "hookAsked" /\ InsertMeta(HookRequest(c))
  BY <1>1, <1>2 DEF Silent, Asks, CallGoes, StageTyped
<1>6. HiddenByDecider'
  <2>1. CASE UNCHANGED <<metas, shown>>
    BY <1>2, <1>3, <2>1 DEF HiddenByDecider
  <2>2. CASE stage[c] = "asking" /\ InsertMeta(GateRequest(c))
    BY <1>2, <1>3, <2>2, RequestsDiffer DEF HiddenByDecider, InsertMeta, NotShownYet, GateUnshown
  <2>3. CASE stage[c] = "hookAsking" /\ InsertMeta(HookRequest(c))
    BY <1>2, <1>3, <2>3, RequestsDiffer DEF HiddenByDecider, InsertMeta, NotShownYet, HookUnshown
  <2> QED
    BY <1>5, <2>1, <2>2, <2>3 DEF mailboxVars, InsertSender
<1>7. SenderThere'
  <2> SUFFICES ASSUME NEW d \in Calls
               PROVE  /\ stage'[d] = "asking" => GateRequest(d) \in senders'
                      /\ stage'[d] = "hookAsking" => HookRequest(d) \in senders'
                      /\ (stage'[d] = "asked" /\ GateRequest(d) \in metas') => GateRequest(d) \in senders'
                      /\ (stage'[d] = "hookAsked" /\ HookRequest(d) \in metas') => HookRequest(d) \in senders'
    BY DEF SenderThere, GateRequest, HookRequest
  <2>1. CASE d # c
    <3>1. metas' \subseteq metas \cup {GateRequest(c), HookRequest(c)}
      BY <1>5 DEF mailboxVars, InsertSender, InsertMeta
    <3> QED
      BY <1>2, <1>3, <2>1, <3>1, RequestsDiffer DEF SenderThere
  <2>2. CASE d = c
    BY <1>2, <1>3, <1>5, <2>2 DEF SenderThere, InsertSender
  <2> QED
    BY <2>1, <2>2
<1> QED
  BY <1>3, <1>4, <1>6, <1>7 DEF ShownInv

(* For any calls and any interleaving of the two clients, a request that   *)
(* is in view while its call waits still has its sender.                   *)
THEOREM ShownCanBeDecided == ToolSpec => []ShownIsAnswerable
<1>1. ShownInv => ShownIsAnswerable
  <2> SUFFICES ASSUME ShownInv, NEW r \in metas \cap Listeners PROVE r \in senders
    BY DEF ShownIsAnswerable
  <2>1. turnPhase = "executing" /\ r \in Waiting
    BY DEF Listeners
  <2>2. SenderThere
    BY <2>1 DEF ShownInv
  <2> QED
    BY <2>1, <2>2 DEF Waiting, SenderThere
<1>2. ShownInv /\ [ToolNext]_turnVars => ShownInv'
  BY ToolSteps, ShownElsewhere, ShownCall
<1> QED
  BY <1>1, <1>2, ShownInvInit, PTL DEF ToolSpec

----------------------------------------------------------------------------
(* BackgroundTasks.  Who has a shell: none before the monitor starts it,   *)
(* and a monitor that goes on to commit has seen it end or reaped it; the  *)
(* registry says that a task has ended only when its monitor is done.      *)
ShellOwned ==
    \A t \in BgTasks :
        /\ monitor[t] \in {"none", "starting"} => shell[t] = "none"
        /\ monitor[t] \in {"committing", "done"} => shell[t] # "alive"
        /\ monitor[t] = "committing" => exitStatus[t] \in Terminal
        /\ bgStatus[t] = NotStarted <=> monitor[t] = "none"
        /\ bgStatus[t] \in Terminal => monitor[t] = "done"
BgInv == BgTypeOK /\ ShellOwned

LEMMA BgInvInit == BgInit => BgInv
<1> SUFFICES ASSUME BgInit PROVE BgInv
  OBVIOUS
<1>1. ShellOwned
  BY DEF BgInit, ShellOwned, Terminal, NotStarted
<1>2. told \in [BgTasks -> SUBSET BgSessions] /\ managerAlive \in BOOLEAN
  BY DEF BgInit
<1>3. waiter \in [BgTasks -> {"idle", "reading", "read", "waiting", "told"}]
  BY DEF BgInit
<1> QED
  BY <1>1, <1>2, <1>3 DEF BgInit, BgInv, BgTypeOK, Terminal, NotStarted

(* What the monitor of one task, and its shell, do.                        *)
LEMMA MonitorKeeps ==
    ASSUME BgInv, NEW t \in BgTasks,
           SpawnTask(t) \/ MonitorStep(t) \/ ShellExits(t) \/ TaskTimesOut(t)
    PROVE  BgInv'
<1> USE DEF BgInv, Terminal, NotStarted
<1>0. descendants' \subseteq BgTasks
  <2>1. \/ descendants' = descendants \/ descendants' = descendants \cup {t}
        \/ descendants' = descendants \ {t}
    BY DEF SpawnTask, MonitorStep, StartShell, SeeExit, SeeCancel, TerminateAndReap,
       FinishTask, ShellExits, TaskTimesOut
  <2>2. descendants \subseteq BgTasks
    BY DEF BgTypeOK
  <2> QED
    BY <2>1, <2>2
<1>1. CASE SpawnTask(t)
  BY <1>1 DEF SpawnTask, BgTypeOK, ShellOwned
<1>2. CASE StartShell(t)
  <2>1. CASE monitor' = [monitor EXCEPT ![t] = "watching"]
    <3>1. /\ monitor[t] = "starting" /\ shell' = [shell EXCEPT ![t] = "alive"]
          /\ UNCHANGED <<bgStatus, bgCancelled, exitStatus, told, managerAlive, waiter>>
      BY <1>2, <2>1 DEF StartShell, BgTypeOK
    <3> QED
      BY <1>0, <2>1, <3>1 DEF BgTypeOK, ShellOwned
  <2>2. CASE monitor' # [monitor EXCEPT ![t] = "watching"]
    <3>1. /\ monitor[t] = "starting" /\ monitor' = [monitor EXCEPT ![t] = "committing"]
          /\ exitStatus' = [exitStatus EXCEPT ![t] = "failed"]
          /\ UNCHANGED <<bgStatus, bgCancelled, shell, told, managerAlive, waiter>>
      BY <1>2, <2>2 DEF StartShell
    <3> QED
      BY <1>0, <3>1 DEF BgTypeOK, ShellOwned
  <2> QED
    BY <2>1, <2>2
<1>3. CASE SeeExit(t)
  <2> PICK s \in {"completed", "failed"} : exitStatus' = [exitStatus EXCEPT ![t] = s]
    BY <1>3 DEF SeeExit
  <2> QED
    BY <1>0, <1>3 DEF SeeExit, BgTypeOK, ShellOwned
<1>4. CASE SeeCancel(t) \/ TaskTimesOut(t)
  <2>1. /\ monitor[t] = "watching" /\ monitor' = [monitor EXCEPT ![t] = "terminating"]
        /\ UNCHANGED <<bgStatus, bgCancelled, exitStatus, shell, told, managerAlive, waiter>>
    BY <1>4 DEF SeeCancel, TaskTimesOut
  <2> QED
    BY <1>0, <2>1 DEF BgTypeOK, ShellOwned
<1>5. CASE TerminateAndReap(t)
  BY <1>0, <1>5 DEF TerminateAndReap, BgTypeOK, ShellOwned
<1>6. CASE FinishTask(t)
  <2>1. waiter' \in [BgTasks -> {"idle", "reading", "read", "waiting", "told"}]
    BY <1>6 DEF FinishTask, BgTypeOK
  <2>2. /\ bgStatus' \in [BgTasks -> Terminal \cup {NotStarted, "running"}]
        /\ monitor' \in [BgTasks -> {"none", "starting", "watching", "terminating", "committing", "done"}]
    BY <1>6 DEF FinishTask, BgTypeOK
  <2>3. ShellOwned'
    BY <1>6 DEF FinishTask, BgTypeOK, ShellOwned
  <2> QED
    BY <1>0, <1>6, <2>1, <2>2, <2>3 DEF FinishTask, BgTypeOK
<1>7. CASE ShellExits(t)
  BY <1>0, <1>7 DEF ShellExits, BgTypeOK, ShellOwned
<1> QED
  BY <1>1, <1>2, <1>3, <1>4, <1>5, <1>6, <1>7 DEF MonitorStep

(* What the tools, the runs and the owners of the registry do.             *)
LEMMA RegistryKeeps ==
    ASSUME BgInv,
           \/ \E t \in BgTasks : StopTask(t) \/ BeginWait(t) \/ WaitStep(t)
           \/ \E s \in BgSessions : DrainNotifications(s)
           \/ DropManager
    PROVE  BgInv'
<1>1. UNCHANGED <<bgStatus, monitor, exitStatus, shell, descendants>>
  BY DEF StopTask, BeginWait, WaitStep, ReadStatus, Register, WaitTimesOut, SetWaiter,
     DrainNotifications, DropManager
<1>2. bgCancelled' \subseteq BgTasks /\ managerAlive' \in BOOLEAN
  BY DEF BgInv, BgTypeOK, StopTask, BeginWait, WaitStep, ReadStatus, Register, WaitTimesOut,
     SetWaiter, DrainNotifications, DropManager
<1>3. told' \in [BgTasks -> SUBSET BgSessions]
  BY DEF BgInv, BgTypeOK, StopTask, BeginWait, WaitStep, ReadStatus, Register, WaitTimesOut,
     SetWaiter, DrainNotifications, DropManager
<1>4. waiter' \in [BgTasks -> {"idle", "reading", "read", "waiting", "told"}]
  BY DEF BgInv, BgTypeOK, StopTask, BeginWait, WaitStep, ReadStatus, Register, WaitTimesOut,
     SetWaiter, DrainNotifications, DropManager
<1> QED
  BY <1>1, <1>2, <1>3, <1>4 DEF BgInv, BgTypeOK, ShellOwned

LEMMA BgInvStep == BgInv /\ [BgNext]_bgVars => BgInv'
<1> SUFFICES ASSUME BgInv, [BgNext]_bgVars PROVE BgInv'
  OBVIOUS
<1>1. CASE UNCHANGED bgVars
  BY <1>1 DEF bgVars, BgInv, BgTypeOK, ShellOwned
<1> QED
  BY <1>1, MonitorKeeps, RegistryKeeps DEF BgNext

(* For any number of tasks and sessions: a task that is reported as ended, *)
(* and one nobody monitors any more, has no shell left.                    *)
THEOREM EndedTasksAreReaped == BgSpec => []EndedTaskReaped
<1>1. BgInv => EndedTaskReaped
  BY DEF BgInv, ShellOwned, EndedTaskReaped
<1> QED
  BY <1>1, BgInvInit, BgInvStep, PTL DEF BgSpec

----------------------------------------------------------------------------
(* Types.  Every variable of GraphRun, ToolTurn and ProviderTurn keeps its *)
(* type and its bound, in every behaviour (those of RunLifecycle and       *)
(* BackgroundTasks are part of the invariants above).                      *)

GraphRanges ==
    /\ graphPhase \in {"idle", "loop", "batch", "take", "summary", "returned"}
    /\ reachable \subseteq Nodes /\ startedNodes \subseteq Nodes
    /\ graphSteps \in 0..MaxSteps /\ graphRuns \in 0..MaxGraphRuns
    /\ graphResult \in {"none", "end", "aborted", "stopped", "error"}
    /\ checkpoint.exists \in BOOLEAN
    /\ graphPhase \in Counting => graphSteps < MaxSteps

GraphFull == GraphInv /\ BranchInv /\ GraphRanges

LEMMA GraphFullInit == GraphInit => GraphFull
<1> SUFFICES ASSUME GraphInit PROVE GraphRanges
  BY BranchInit DEF GraphFull
<1> QED
  BY GraphAssumption DEF GraphInit, GraphRanges, NoCheckpoint, Counting

LEMMA GraphRangesStep ==
    ASSUME GraphFull, [GraphNext]_graphVars
    PROVE  GraphRanges'
<1>g. GraphInv /\ BranchInv /\ GraphRanges
  BY DEF GraphFull
<1>b. MaxSteps \in Nat \ {0} /\ MaxGraphRuns \in Nat /\ StartNode \in Nodes
      /\ NextOf \in [Nodes -> SUBSET Nodes] /\ BranchesOf \in [Nodes -> SUBSET Nodes]
  BY GraphAssumption
<1>r. ASSUME NEW result \in {"end", "aborted", "stopped", "error"}, Return(result),
             checkpoint'.exists \in BOOLEAN
      PROVE  GraphRanges'
  BY <1>g, <1>r DEF Return, GraphRanges, Counting
<1>1. ASSUME NEW done \in SUBSET Nodes, NEW choice \in [Routers -> Nodes \cup {NoNode}],
             Begin(done, choice), startedNodes' \subseteq Nodes
      PROVE  GraphRanges'
  <2>1. reachable' \subseteq Nodes
    BY <1>1, <1>b DEF Begin, ReplayedFrom, Routers
  <2> QED
    BY <1>1, <1>b, <1>g, <2>1 DEF Begin, GraphRanges, Counting
<1>2. CASE RunGraph
  BY <1>1, <1>2 DEF RunGraph, NoCheckpoint
<1>3. CASE ResumeGraph
  <2>1. checkpoint.completed \in SUBSET Nodes /\ startedNodes \subseteq Nodes
        /\ checkpoint.choice \in [Routers -> Nodes \cup {NoNode}]
    BY <1>g DEF GraphInv, GraphShapes, BranchInv, ChoicesMade, ChoicesFit, GraphRanges
  <2>2. startedNodes' \subseteq Nodes /\ Begin(checkpoint.completed, checkpoint.choice)
    BY <1>3, <2>1 DEF ResumeGraph
  <2> QED
    BY <1>1, <2>1, <2>2
<1>4. CASE CancelGraph \/ InterruptGraph \/ TakeError
  BY <1>4, <1>r, <1>g DEF CancelGraph, InterruptGraph, TakeError, GraphRanges
<1>5. CASE StartBatch
  BY <1>5, <1>g DEF StartBatch, GraphRanges, Counting, Frontier
<1>6. CASE JoinBatch
  BY <1>6, <1>g DEF JoinBatch, GraphRanges, Counting
<1>7. CASE TakeResult
  <2> DEFINE n == FirstOfBatch
             answer == batch[n]
  <2>1. graphPhase = "take" /\ DOMAIN batch # {} /\ DOMAIN batch \subseteq Nodes
    BY <1>7, <1>g DEF TakeResult, GraphInv, BatchIsPending, GraphShapes
  <2>2. n \in Nodes
    BY <2>1, FirstIsInBatch
  <2>3. graphSteps < MaxSteps /\ graphSteps' = graphSteps + 1 /\ graphRuns' = graphRuns
        /\ startedNodes' = startedNodes
    BY <1>7, <1>g, <2>1 DEF TakeResult, GraphRanges, Counting
  <2>4. reachable' \subseteq Nodes
    <3>1. reachable' = reachable \/ Activate(n, answer)
      BY <1>7 DEF TakeResult
    <3> HIDE DEF answer, n
    <3>2. NextOf[n] \subseteq Nodes /\ BranchesOf[n] \subseteq Nodes
      BY <1>b, <2>2
    <3> QED
      BY <1>g, <3>1, <3>2 DEF Activate, GraphRanges
  <2>5. graphPhase' \in {"summary", "loop", "take"}
        /\ (graphPhase' # "summary" => graphSteps' < MaxSteps)
    <3>1. graphPhase' = "summary"
          \/ (graphPhase' \in {"loop", "take"} /\ ~(graphSteps' >= MaxSteps))
      BY <1>7 DEF TakeResult
    <3> QED
      BY <3>1, <2>3, <1>b, <1>g DEF GraphRanges
  <2>6. graphResult' \in {"none", "end", "aborted"} /\ checkpoint'.exists = TRUE
    BY <1>7 DEF TakeResult, Checkpoint
  <2>7. graphSteps' \in 0..MaxSteps /\ graphRuns' \in 0..MaxGraphRuns
    BY <1>b, <1>g, <2>3 DEF GraphRanges
  <2>8. startedNodes' \subseteq Nodes
    BY <1>g, <2>3 DEF GraphRanges
  <2> QED
    BY <2>4, <2>5, <2>6, <2>7, <2>8 DEF GraphRanges, Counting
<1>8. CASE Summarise
  <2>1. CASE graphResult = "none"
    BY <1>8, <1>r, <1>g, <2>1 DEF Summarise, GraphRanges
  <2>2. CASE graphResult # "none"
    <3>1. Return(graphResult) /\ checkpoint' = NoCheckpoint
      BY <1>8, <2>2 DEF Summarise
    <3>2. graphResult \in {"end", "aborted", "stopped", "error"}
      BY <1>g, <2>2 DEF GraphRanges
    <3>3. checkpoint'.exists \in BOOLEAN
      BY <3>1 DEF NoCheckpoint
    <3> QED
      BY <1>r, <3>1, <3>2, <3>3
  <2> QED
    BY <2>1, <2>2
<1>9. CASE UNCHANGED graphVars
  BY <1>9, <1>g DEF graphVars, GraphRanges, Counting
<1> QED
  BY <1>2, <1>3, <1>4, <1>5, <1>6, <1>7, <1>8, <1>9 DEF GraphNext

LEMMA GraphFullStep == GraphFull /\ [GraphNext]_graphVars => GraphFull'
  BY GraphStep, BranchStep, GraphRangesStep DEF GraphFull

LEMMA GraphFullTypes == GraphFull => GraphTypeOK
  BY DEF GraphFull, GraphInv, GraphShapes, BranchInv, ChoicesMade, ChoicesFit, GraphRanges, GraphTypeOK

(* Batches, results, counts and choices of a graph are of its nodes, and   *)
(* its runs and steps within their bounds (graph/executor.rs).             *)
THEOREM GraphTypes == GraphSpec => []GraphTypeOK
<1> QED
  BY GraphFullInit, GraphFullStep, GraphFullTypes, PTL DEF GraphSpec

(* ProviderTurn: while a request waits for its next attempt one is left.   *)
ProviderShapes ==
    /\ format \in Formats
    /\ turnStage \in {"head", "request", "backoff", "stream", "decide", "ended"}
    /\ turns \in 0..MaxTurns /\ attempt \in 0..MaxAttempts /\ recoveries \in 0..MaxRecoveries
    /\ failure \in {"none", "cancelled", "stream", "request"}
    /\ runOutcome \in {"none", "completed", "cancelled", "error"}
    /\ turnStage = "backoff" => attempt < MaxAttempts
ProviderFlags ==
    /\ jevAsked \in BOOLEAN /\ pairingRetried \in BOOLEAN /\ streamCancelled \in BOOLEAN
    /\ thinkingLast \in BOOLEAN
FoldTyped ==
    /\ textStored \in 0..MaxText /\ textShown \in Nat
    /\ callArgs \in Seq({"none", "part", "whole"}) /\ Len(callArgs) <= MaxCalls
    /\ stop \in {NoStop, "tool_use", "end_turn", "max_tokens"}
    /\ ran \subseteq {"none", "part", "whole"} /\ unanswered \in Nat
ProviderTyped == ProviderShapes /\ ProviderFlags /\ FoldTyped

LEMMA ProviderTypedInit == ProviderInit => ProviderTyped
<1>1. <<>> \in Seq({"none", "part", "whole"}) /\ Len(<<>>) = 0
  BY EmptySeq
<1>2. ProviderInit => ProviderShapes
  BY ProviderAssumption DEF ProviderInit, ProviderShapes
<1>3. ProviderInit => ProviderFlags
  BY DEF ProviderInit, ProviderFlags
<1>4. ProviderInit => FoldTyped
  BY <1>1, ProviderAssumption DEF ProviderInit, FoldTyped
<1> QED
  BY <1>2, <1>3, <1>4 DEF ProviderTyped

LEMMA ProviderShapesStep ==
    ASSUME ProviderShapes, [ProviderNext]_turnStreamVars
    PROVE  ProviderShapes'
<1> USE ProviderAssumption DEF ProviderShapes
<1>1. CASE BeginTurn
  BY <1>1 DEF BeginTurn, NewRequest
<1>2. CASE EndRun
  BY <1>2 DEF EndRun, requestVars
<1>3. CASE RequestFails
  <2>1. /\ turnStage' = "backoff" => attempt < MaxAttempts
        /\ turnStage' \in {"backoff", "decide"} /\ failure' \in {failure, "request"}
        /\ UNCHANGED <<format, turns, attempt, recoveries, runOutcome>>
    BY <1>3 DEF RequestFails, FailWith, Reach, loopVars
  <2> QED
    BY <2>1
<1>10. CASE TryAgain
  BY <1>10 DEF TryAgain, Reach, loopVars
<1>11. CASE Accepted
  BY <1>11 DEF Accepted, Reach, loopVars, requestVars
<1>4. CASE CancelStream \/ SeeCancelled
  BY <1>4 DEF CancelStream, SeeCancelled, FailWith, Reach, loopVars, requestVars
<1>5. CASE TextFrame \/ ThinkingFrame \/ CallFrame \/ ArgumentsFrame
  BY <1>5 DEF TextFrame, ThinkingFrame, CallFrame, ArgumentsFrame, Frame, Reach, loopVars, requestVars
<1>6. CASE StopFrame \/ StreamEnds \/ StreamFails
  BY <1>6 DEF StopFrame, StreamEnds, StreamFails, FailWith, Reach, loopVars, requestVars
<1>7. CASE GiveUp \/ RetryPairing
  BY <1>7 DEF GiveUp, RetryPairing, Decide, Finish, loopVars, requestVars
<1>8. CASE Recover \/ Complete \/ RunCalls
  BY <1>8 DEF Recover, Complete, RunCalls, Usable, Decide, Finish, requestVars
<1>9. CASE UNCHANGED turnStreamVars
  BY <1>9 DEF turnStreamVars, loopVars, requestVars
<1> QED
  BY <1>1, <1>2, <1>3, <1>4, <1>5, <1>6, <1>7, <1>8, <1>9, <1>10, <1>11 DEF ProviderNext

LEMMA ProviderFlagsStep ==
    ASSUME ProviderFlags, [ProviderNext]_turnStreamVars
    PROVE  ProviderFlags'
<1>1. \A b \in BOOLEAN : \A c \in {b, TRUE} : c \in BOOLEAN
  OBVIOUS
<1>2. jevAsked' = jevAsked \/ jevAsked' = FALSE \/ jevAsked' \in {jevAsked, TRUE}
  BY Zenon DEF ProviderNext, BeginTurn, NewRequest, EndRun, RequestFails, TryAgain, Accepted,
     CancelStream, SeeCancelled, TextFrame, ThinkingFrame, CallFrame, ArgumentsFrame, Frame,
     StopFrame, StreamEnds, StreamFails, GiveUp, RetryPairing, Recover, Complete, RunCalls,
     turnStreamVars, requestVars
<1>3. pairingRetried' = pairingRetried \/ pairingRetried' = FALSE \/ pairingRetried' = TRUE
  BY Zenon DEF ProviderNext, BeginTurn, NewRequest, EndRun, RequestFails, TryAgain, Accepted,
     CancelStream, SeeCancelled, TextFrame, ThinkingFrame, CallFrame, ArgumentsFrame, Frame,
     StopFrame, StreamEnds, StreamFails, GiveUp, RetryPairing, Recover, Complete, RunCalls,
     turnStreamVars, requestVars
<1>4. streamCancelled' = streamCancelled \/ streamCancelled' = TRUE
  BY Zenon DEF ProviderNext, BeginTurn, EndRun, RequestFails, TryAgain, Accepted,
     CancelStream, SeeCancelled, TextFrame, ThinkingFrame, CallFrame, ArgumentsFrame, Frame,
     StopFrame, StreamEnds, StreamFails, GiveUp, RetryPairing, Recover, Complete, RunCalls,
     turnStreamVars, FailWith, Reach, Usable, Decide
<1>5. thinkingLast' = thinkingLast \/ thinkingLast' = FALSE \/ thinkingLast' = (format = "anthropic")
  BY Zenon DEF ProviderNext, BeginTurn, NewFold, EndRun, RequestFails, TryAgain, Accepted,
     CancelStream, SeeCancelled, TextFrame, ThinkingFrame, CallFrame, ArgumentsFrame,
     StopFrame, StreamEnds, StreamFails, GiveUp, RetryPairing, Recover, Complete, RunCalls,
     turnStreamVars, FailWith, foldVars
<1>6. (format = "anthropic") \in BOOLEAN
  OBVIOUS
<1> QED
  BY <1>1, <1>2, <1>3, <1>4, <1>5, <1>6, Zenon DEF ProviderFlags

LEMMA FoldTypedStep ==
    ASSUME ProviderTyped, [ProviderNext]_turnStreamVars
    PROVE  FoldTyped'
<1> DEFINE Args == {"none", "part", "whole"}
<1>f. FoldTyped /\ MaxText \in Nat /\ MaxCalls \in Nat
  BY ProviderAssumption DEF ProviderTyped
<1>n. ASSUME textStored' = 0, callArgs' = <<>>, stop' = NoStop, textShown' \in Nat,
             UNCHANGED <<ran, unanswered>>
      PROVE  FoldTyped'
  <2>1. <<>> \in Seq(Args) /\ Len(<<>>) = 0
    BY EmptySeq
  <2> QED
    BY <1>f, <1>n, <2>1 DEF FoldTyped
<1>u. ASSUME UNCHANGED <<textStored, textShown, callArgs, stop, ran, unanswered>> PROVE FoldTyped'
  BY <1>f, <1>u DEF FoldTyped
<1>1. CASE BeginTurn
  BY <1>1, <1>n DEF BeginTurn, NewFold
<1>2. CASE EndRun \/ CancelStream
  BY <1>2, <1>u DEF EndRun, CancelStream, foldVars, loopVars
<1>3. CASE RequestFails \/ TryAgain \/ Accepted \/ SeeCancelled \/ StreamEnds \/ StreamFails
  BY <1>3, <1>u DEF RequestFails, TryAgain, Accepted, SeeCancelled, StreamEnds, StreamFails,
     FailWith, Reach, foldVars, loopVars
<1>4. CASE TextFrame
  BY <1>4, <1>f DEF TextFrame, Frame, Reach, loopVars, FoldTyped
<1>5. CASE ThinkingFrame
  BY <1>5, <1>u DEF ThinkingFrame, Frame, Reach, loopVars
<1>6. CASE CallFrame
  <2>1. PICK arg \in Args : callArgs' = Append(callArgs, arg)
    BY <1>6 DEF CallFrame
  <2>2. callArgs \in Seq(Args) /\ Len(callArgs) < MaxCalls
    BY <1>6, <1>f DEF CallFrame, FoldTyped
  <2>3. callArgs' \in Seq(Args) /\ Len(callArgs') <= MaxCalls
    <3> HIDE DEF Args
    <3> QED
      BY <1>f, <2>1, <2>2
  <2> QED
    BY <1>6, <1>f, <2>3 DEF CallFrame, Frame, Reach, loopVars, FoldTyped
<1>7. CASE ArgumentsFrame
  <2>1. PICK arg \in Args : callArgs' = [callArgs EXCEPT ![Len(callArgs)] = arg]
    BY <1>7 DEF ArgumentsFrame
  <2>2. callArgs \in Seq(Args) /\ Len(callArgs) <= MaxCalls
    BY <1>f DEF FoldTyped
  <2>3. callArgs' \in Seq(Args) /\ Len(callArgs') = Len(callArgs)
    <3> HIDE DEF Args
    <3>1. ~Said
      BY <1>7 DEF ArgumentsFrame
    <3>2. Len(callArgs) \in 1..Len(callArgs)
      BY <2>2, <3>1 DEF Said
    <3> QED
      BY <2>1, <2>2, <3>2, ExceptSeq
  <2> QED
    BY <1>7, <1>f, <2>2, <2>3 DEF ArgumentsFrame, Frame, Reach, loopVars, FoldTyped
<1>8. CASE StopFrame
  <2>1. stop' \in {"tool_use", "end_turn", "max_tokens"}
    BY <1>8 DEF StopFrame, RegularStop, CutStops
  <2> QED
    BY <1>8, <1>f, <2>1 DEF StopFrame, Reach, loopVars, FoldTyped
<1>9. CASE GiveUp \/ Recover
  BY <1>9, <1>u DEF GiveUp, Recover, foldVars
<1>10. CASE RetryPairing
  BY <1>10, <1>n, <1>f DEF RetryPairing, NewFold, loopVars, FoldTyped
<1>11. CASE Complete
  <2>1. Len(callArgs) \in Nat
    BY <1>f DEF FoldTyped
  <2> QED
    BY <1>11, <1>f, <2>1 DEF Complete, foldVars, FoldTyped
<1>12. CASE RunCalls
  <2>1. {callArgs[i] : i \in DOMAIN callArgs} \subseteq Args
    BY <1>f DEF FoldTyped
  <2> QED
    BY <1>12, <1>f, <2>1 DEF RunCalls, foldVars, FoldTyped
<1>13. CASE UNCHANGED turnStreamVars
  BY <1>13, <1>u DEF turnStreamVars, foldVars, loopVars
<1> QED
  BY <1>1, <1>2, <1>3, <1>4, <1>5, <1>6, <1>7, <1>8, <1>9, <1>10, <1>11, <1>12, <1>13
     DEF ProviderNext

LEMMA ProviderTypedStep == ProviderTyped /\ [ProviderNext]_turnStreamVars => ProviderTyped'
  BY ProviderShapesStep, ProviderFlagsStep, FoldTypedStep DEF ProviderTyped

LEMMA ProviderTypedTypes == ProviderTyped => ProviderTypeOK
  BY DEF ProviderTyped, ProviderShapes, ProviderFlags, FoldTyped, ProviderTypeOK

(* Attempts, recoveries and what a fold has gathered keep their shape and  *)
(* their bounds in each format (client.rs, retry.rs).                      *)
THEOREM ProviderTypes == ProviderSpec => []ProviderTypeOK
<1> QED
  BY ProviderTypedInit, ProviderTypedStep, ProviderTypedTypes, PTL DEF ProviderSpec

(* ToolTurn: every key of the mailbox is a question of a call.             *)
MailboxTyped ==
    /\ senders \subseteq Requests /\ metas \subseteq Requests /\ metasFile \subseteq Requests
    /\ shown \subseteq Requests /\ answers \in [Requests -> Decisions \cup {NoDecision}]
    /\ restTaken \in Requests \cup {NoRequest} /\ wsTaken \in Requests \cup {NoRequest}
TurnTyped ==
    /\ permissionMode \in PermissionModes /\ interactive \in BOOLEAN
    /\ turnPhase \in {"executing", "finished", "dropped"} /\ turnCancelled \in BOOLEAN

LEMMA MailboxTypedStep ==
    ASSUME MailboxTyped, [ToolNext]_turnVars
    PROVE  MailboxTyped'
<1> USE DEF MailboxTyped
<1>0. \A c \in Calls : GateRequest(c) \in Requests /\ HookRequest(c) \in Requests
  BY ToolTurnAssumption DEF GateRequest, HookRequest
<1>1. ASSUME UNCHANGED mailboxVars PROVE MailboxTyped'
  BY <1>1 DEF mailboxVars
<1>2. ASSUME NEW c \in Calls, CallStep(c) PROVE MailboxTyped'
  <2>1. ASSUME NEW r \in Requests, InsertSender(r) \/ InsertMeta(r) PROVE MailboxTyped'
    BY <2>1 DEF InsertSender, InsertMeta
  <2>2. CASE StartCall(c) \/ HearDecision(c) \/ Call(c) \/ PostHook(c)
    BY <1>1, <2>2 DEF StartCall, HearDecision, Call, PostHook
  <2>3. CASE PassGate(c)
    BY <1>0, <1>1, <2>1, <2>3 DEF PassGate
  <2>4. CASE ShowRequest(c)
    BY <1>0, <2>1, <2>4 DEF ShowRequest
  <2>5. CASE PreHook(c)
    BY <1>0, <1>1, <2>1, <2>5 DEF PreHook
  <2> QED
    BY <1>2, <2>2, <2>3, <2>4, <2>5 DEF CallStep
<1>3. ASSUME NEW r \in Requests, NEW d \in Decisions, SendTo(r, d, Listeners)
      PROVE  senders' \subseteq Requests /\ answers' \in [Requests -> Decisions \cup {NoDecision}]
  BY <1>3 DEF SendTo
<1>4. CASE RestDecides
  <2>1. ASSUME NEW r \in Requests, RestTakesMeta(r) PROVE MailboxTyped'
    BY <2>1 DEF RestTakesMeta
  <2>2. ASSUME NEW d \in Decisions, RestSends(d, Listeners) PROVE MailboxTyped'
    BY <1>3, <2>2 DEF RestSends
  <2>3. CASE RestDisconnects
    BY <2>3 DEF RestDisconnects
  <2> QED
    BY <1>4, <2>1, <2>2, <2>3 DEF RestDecides
<1>5. CASE SocketDecides
  <2>1. ASSUME NEW r \in Requests, SocketTakesMeta(r) PROVE MailboxTyped'
    BY <2>1 DEF SocketTakesMeta
  <2>2. ASSUME NEW d \in Decisions, SocketSends(d, Listeners) PROVE MailboxTyped'
    BY <1>3, <2>2 DEF SocketSends
  <2> QED
    BY <1>5, <2>1, <2>2 DEF SocketDecides
<1>6. CASE SwitchAway
  BY <1>6 DEF SwitchAway, LeaveProject
<1>7. CASE RestartServer
  BY <1>7 DEF RestartServer, LoadMetas
<1>8. CASE TakeResults \/ CancelTurn \/ DropExecution
  BY <1>1, <1>8 DEF TakeResults, CancelTurn, DropExecution
<1>9. CASE UNCHANGED turnVars
  BY <1>1, <1>9 DEF turnVars
<1> QED
  BY <1>2, <1>4, <1>5, <1>6, <1>7, <1>8, <1>9 DEF ToolNext

LEMMA TurnTypedStep ==
    ASSUME TurnTyped, [ToolNext]_turnVars
    PROVE  TurnTyped'
<1> USE DEF TurnTyped
<1>1. ASSUME NEW c \in Calls, CallStep(c) PROVE TurnTyped'
  <2>1. UNCHANGED <<permissionMode, interactive, turnPhase, turnCancelled>>
    BY <1>1, Zenon DEF CallStep, StartCall, PassGate, ShowRequest, HearDecision, PreHook, Call,
       PostHook, Fail, Move
  <2> QED
    BY <2>1
<1>2. CASE TakeResults \/ DropExecution \/ RestartServer
  BY <1>2 DEF TakeResults, DropExecution, RestartServer
<1>3. CASE CancelTurn
  BY <1>3 DEF CancelTurn
<1>4. CASE RestDecides \/ SocketDecides \/ SwitchAway
  BY <1>4 DEF RestDecides, SocketDecides, SwitchAway, toolVars
<1>5. CASE UNCHANGED turnVars
  BY <1>5 DEF turnVars, toolVars
<1> QED
  BY <1>1, <1>2, <1>3, <1>4, <1>5 DEF ToolNext

ToolTyped == OrderInv /\ MailboxTyped /\ TurnTyped

LEMMA ToolTypedInit == ToolInit => ToolTyped
<1>1. ToolInit => MailboxTyped
  BY DEF ToolInit, MailboxInit, MailboxTyped
<1>2. ToolInit => TurnTyped
  BY DEF ToolInit, TurnTyped
<1> QED
  BY <1>1, <1>2, OrderInvInit DEF ToolTyped

LEMMA ToolTypedStep == ToolTyped /\ [ToolNext]_turnVars => ToolTyped'
  BY OrderStep, MailboxTypedStep, TurnTypedStep DEF ToolTyped

LEMMA ToolTypedTypes == ToolTyped => ToolTypeOK
  BY DEF ToolTyped, OrderInv, StageTyped, MailboxTyped, TurnTyped, ToolTypeOK

(* Calls, their gates and the requests in the two maps and the file keep   *)
(* their shape (executor.rs, permissions.rs).                              *)
THEOREM ToolTypes == ToolSpec => []ToolTypeOK
<1> QED
  BY ToolTypedInit, ToolTypedStep, ToolTypedTypes, PTL DEF ToolSpec
=============================================================================
