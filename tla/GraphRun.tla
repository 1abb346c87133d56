------------------------------ MODULE GraphRun ------------------------------
(***************************************************************************)
(* engine/src/graph: one agent graph, run and resumed.  A run starts every *)
(* ready node of the graph at once, joins them, and takes their results in *)
(* key order, saving a checkpoint after each.  A run may be cancelled,     *)
(* dropped or killed at any point; `resume` starts again from the          *)
(* checkpoint.                                                             *)
(***************************************************************************)
EXTENDS Integers, FiniteSets

CONSTANTS
    Nodes,          \* node identifiers, in the order of their keys
    StartNode,
    NextOf,         \* the `next` edges of a node
    BranchesOf,     \* the `branches` of a router, {} for any other node
    GateNodes,      \* nodes that ask a human
    EndNodes,
    MaxSteps,
    MaxGraphRuns    \* bound: runs and resumptions of the graph

Routers == {n \in Nodes : BranchesOf[n] # {}}
NoNode  == -1

Outcome(result) == [result |-> result, branch |-> NoNode]
Running  == Outcome("running")
Answered == Outcome("ok")
Failed   == Outcome("error")
Aborted  == Outcome("aborted")

(* GraphDefinition::validate.                                              *)
ASSUME GraphAssumption ==
    /\ Nodes \subseteq Nat /\ IsFiniteSet(Nodes) /\ StartNode \in Nodes
    /\ NextOf \in [Nodes -> SUBSET Nodes]
    /\ BranchesOf \in [Nodes -> SUBSET Nodes]
    /\ GateNodes \subseteq Nodes \ Routers /\ EndNodes \subseteq Nodes
    /\ \A r \in Routers : NextOf[r] = {}
    /\ MaxSteps \in Nat \ {0} /\ MaxGraphRuns \in Nat

VARIABLES
    graphPhase,     \* "idle", "loop", "batch" (nodes run), "take", "summary", "returned"
    completed,      \* `completed` and `done`
    routerChoice,   \* the `_router:<id>` keys of the shared state
    reachable,
    predRemaining,
    batch,          \* results still to be taken; outcome unknown while nodes run
    graphSteps,
    graphResult,    \* "none", "end", "aborted", "stopped", "error"
    checkpoint,     \* the file, or NoCheckpoint
    graphRuns,
    startedNodes    \* history: nodes started since the last run that was no resume

graphVars == <<graphPhase, completed, routerChoice, reachable, predRemaining, batch,
               graphSteps, graphResult, checkpoint, graphRuns, startedNodes>>

NoCheckpoint == [completed |-> {}, choice |-> [r \in Routers |-> NoNode], exists |-> FALSE]
Predecessors(n) == {p \in Nodes : n \in NextOf[p]}

GraphInit ==
    /\ graphPhase = "idle"
    /\ completed = {} /\ routerChoice = NoCheckpoint.choice /\ reachable = {}
    /\ predRemaining = [n \in Nodes |-> 0] /\ batch = <<>>
    /\ graphSteps = 0 /\ graphResult = "none"
    /\ checkpoint = NoCheckpoint /\ graphRuns = 0 /\ startedNodes = {}

(* The head of run_graph: activations are replayed from what is completed, *)
(* and only predecessors that have not fired are counted.                  *)
ReplayedFrom(done, choice) ==
    (UNION {NextOf[n] : n \in done}) \cup ({choice[r] : r \in done \cap Routers} \ {NoNode})

\* Mutant: a node with some predecessor completed counts as activated.
PredecessorsLeft_AnyDone(done) ==
    [n \in Nodes |-> IF Predecessors(n) \cap done # {} THEN 0 ELSE Cardinality(Predecessors(n))]
PredecessorsLeft(done) == [n \in Nodes |-> Cardinality(Predecessors(n) \ done)]

Begin(done, choice) ==
    /\ graphPhase \in {"idle", "returned"} /\ graphRuns < MaxGraphRuns
    /\ graphRuns' = graphRuns + 1
    /\ completed' = done /\ routerChoice' = choice
    /\ reachable' = ReplayedFrom(done, choice) \cup ({StartNode} \ done)
    /\ predRemaining' = PredecessorsLeft(done)
    /\ graphPhase' = "loop" /\ graphSteps' = 0 /\ graphResult' = "none"
    /\ UNCHANGED <<batch, checkpoint>>

RunGraph    == Begin({}, NoCheckpoint.choice) /\ startedNodes' = {}
ResumeGraph ==
    /\ Begin(checkpoint.completed, checkpoint.choice)
    /\ startedNodes' = IF checkpoint.exists THEN startedNodes ELSE {}

(* Err leaves the checkpoint where it is and forgets the rest.             *)
Return(result) ==
    /\ graphPhase' = "returned" /\ graphResult' = result /\ batch' = <<>>
    /\ UNCHANGED <<completed, routerChoice, reachable, predRemaining, graphSteps,
                   graphRuns, startedNodes>>

CancelGraph == graphPhase = "loop" /\ Return("error") /\ UNCHANGED checkpoint

(* The process dies, or the Graph tool drops the future while nodes run.   *)
InterruptGraph ==
    graphPhase \in {"loop", "batch", "take", "summary"} /\ Return("error") /\ UNCHANGED checkpoint

Frontier == {n \in Nodes \ completed : n \in reachable /\ predRemaining[n] = 0}

StartBatch ==
    /\ graphPhase = "loop"
    /\ IF Frontier = {} THEN graphPhase' = "summary" ELSE graphPhase' = "batch"
    /\ batch' = [n \in Frontier |-> Running]
    /\ startedNodes' = startedNodes \cup Frontier
    /\ UNCHANGED <<completed, routerChoice, reachable, predRemaining, graphSteps,
                   graphResult, checkpoint, graphRuns>>

(* execute_node: an agent answers or fails, a router answers with a branch *)
(* or with none of them, a gate goes on or aborts.                         *)
OutcomesOf(n) ==
    CASE n \in Routers   -> {Failed} \cup {[result |-> "ok", branch |-> b] : b \in BranchesOf[n]}
      [] n \in GateNodes -> {Answered, Aborted}
      [] OTHER           -> {Answered, Failed}

JoinBatch ==
    /\ graphPhase = "batch"
    /\ \E outcome \in [DOMAIN batch -> UNION {OutcomesOf(n) : n \in DOMAIN batch}] :
        /\ \A n \in DOMAIN batch : outcome[n] \in OutcomesOf(n)
        /\ batch' = outcome
    /\ graphPhase' = "take"
    /\ UNCHANGED <<completed, routerChoice, reachable, predRemaining, graphSteps,
                   graphResult, checkpoint, graphRuns, startedNodes>>

FirstOfBatch == CHOOSE n \in DOMAIN batch : \A m \in DOMAIN batch : n <= m

(* The first error returns: what the nodes behind it did is not recorded.  *)
TakeError ==
    /\ graphPhase = "take" /\ batch[FirstOfBatch] = Failed
    /\ Return("error") /\ UNCHANGED checkpoint

(* What follows the checkpoint of a node that did not stop the run.        *)
Activate(n, answer) ==
    /\ predRemaining' = [m \in Nodes |-> IF m \in NextOf[n] /\ predRemaining[m] > 0
                                         THEN predRemaining[m] - 1 ELSE predRemaining[m]]
    /\ reachable' = reachable \cup NextOf[n] \cup ({answer.branch} \cap BranchesOf[n])
    /\ routerChoice' = IF n \in Routers THEN [routerChoice EXCEPT ![n] = answer.branch] ELSE routerChoice

\* Mutant: the checkpoint is saved before the node is added.
Checkpoint_Before(done) == [completed |-> completed, choice |-> routerChoice, exists |-> TRUE]
Checkpoint(done) == [completed |-> done, choice |-> routerChoice, exists |-> TRUE]

TakeResult ==
    LET n == FirstOfBatch
        answer == batch[n]
        stop == answer = Aborted \/ n \in EndNodes
        left == [m \in DOMAIN batch \ {n} |-> batch[m]]
    IN  /\ graphPhase = "take" /\ answer # Failed
        /\ graphSteps' = graphSteps + 1
        /\ completed' = completed \cup {n}
        /\ checkpoint' = Checkpoint(completed')
        /\ graphResult' = IF answer = Aborted THEN "aborted"
                          ELSE IF n \in EndNodes THEN "end" ELSE "none"
        /\ IF stop THEN UNCHANGED <<predRemaining, reachable, routerChoice>> ELSE Activate(n, answer)
        /\ batch' = IF stop \/ graphSteps' >= MaxSteps THEN <<>> ELSE left
        /\ graphPhase' = IF stop \/ graphSteps' >= MaxSteps THEN "summary"
                         ELSE IF DOMAIN left = {} THEN "loop" ELSE "take"
        /\ UNCHANGED <<graphRuns, startedNodes>>

(* The summary: only an end or an abort removes the checkpoint.            *)
Summarise ==
    /\ graphPhase = "summary"
    /\ IF graphResult = "none" THEN Return("stopped") /\ UNCHANGED checkpoint
                               ELSE Return(graphResult) /\ checkpoint' = NoCheckpoint

GraphNext ==
    \/ RunGraph \/ ResumeGraph \/ CancelGraph \/ InterruptGraph
    \/ StartBatch \/ JoinBatch \/ TakeError \/ TakeResult \/ Summarise

GraphSpec == GraphInit /\ [][GraphNext]_graphVars

----------------------------------------------------------------------------
GraphTypeOK ==
    /\ graphPhase \in {"idle", "loop", "batch", "take", "summary", "returned"}
    /\ completed \subseteq Nodes /\ reachable \subseteq Nodes /\ startedNodes \subseteq Nodes
    /\ routerChoice \in [Routers -> Nodes \cup {NoNode}]
    /\ predRemaining \in [Nodes -> Nat]
    /\ DOMAIN batch \subseteq Nodes
    /\ graphSteps \in 0..MaxSteps /\ graphRuns \in 0..MaxGraphRuns
    /\ graphResult \in {"none", "end", "aborted", "stopped", "error"}
    /\ checkpoint.completed \subseteq Nodes
    /\ checkpoint.choice \in [Routers -> Nodes \cup {NoNode}]
    /\ checkpoint.exists \in BOOLEAN

(* A node starts only when every node with a `next` edge to it has         *)
(* completed, in this run or in one that this run resumes: the fan-in of   *)
(* run_graph waits, whatever was interrupted, failed or dropped before.    *)
PredecessorsComplete ==
    \A n \in DOMAIN batch : Predecessors(n) \subseteq completed

(* Over a run and all its resumptions at most one branch of a router is    *)
(* started (of the nodes only that router leads to): neither a router that *)
(* is asked again nor a restored choice sends the work down both sides.    *)
OnlyBehind(r) ==
    BranchesOf[r] \ ({StartNode} \cup (UNION {NextOf[n] : n \in Nodes})
                                  \cup (UNION {BranchesOf[n] : n \in Routers \ {r}}))
OneBranchTaken == \A r \in Routers : Cardinality(OnlyBehind(r) \cap startedNodes) <= 1
=============================================================================
