------------------------------ MODULE ToolTurn ------------------------------
(***************************************************************************)
(* The tool calls of one turn (tools/src/executor.rs, permissions.rs and   *)
(* loop_.rs): serial barriers around unsafe calls, safe ones side by side, *)
(* each through permission gate, human, hook, call and post hook.  The     *)
(* loop drops the whole execution as soon as the run is cancelled.         *)
(***************************************************************************)
EXTENDS PermissionMailbox, FiniteSets

CONSTANTS
    LastCall,        \* the calls of the turn are 1..LastCall, in the model's order
    SafeCalls,       \* is_concurrency_safe
    ReadOnlyCalls,   \* is_read_only
    EditCalls,       \* Write and Edit
    HarmlessCalls,   \* check_permissions allows
    DeniedCalls,     \* disallowed by a pattern
    AllowedCalls,    \* allowed by a pattern
    HookAskCalls,    \* a PreToolUse hook may deny or ask
    PermissionModes, \* the modes this turn may run in
    MaxConcurrency

Calls == 1..LastCall
GateRequest(c) == <<c, "gate">>
HookRequest(c) == <<c, "hook">>

ASSUME ToolTurnAssumption ==
    /\ LastCall \in Nat /\ MaxConcurrency \in Nat \ {0}
    /\ Requests = Calls \X {"gate", "hook"} /\ Decisions = {"allow", "deny"}
    /\ NoRequest \notin Requests /\ NoDecision \notin Decisions
    /\ UNION {SafeCalls, ReadOnlyCalls, EditCalls, HarmlessCalls, DeniedCalls, AllowedCalls,
              HookAskCalls} \subseteq Calls

VARIABLES
    permissionMode, interactive,
    turnPhase,       \* "executing", "finished" (results taken) or "dropped"
    turnCancelled,   \* the run's cancellation token
    stage            \* of each call, see Stages

toolVars == <<permissionMode, interactive, turnPhase, turnCancelled, stage>>
turnVars == <<toolVars, mailboxVars>>

Stages == {"queued", "gate", "asking", "asked", "hook", "hookAsking", "hookAsked",
           "calling", "postHook", "done"}
Waiting == {GateRequest(c) : c \in {d \in Calls : stage[d] \in {"asking", "asked"}}}
             \cup {HookRequest(c) : c \in {d \in Calls : stage[d] \in {"hookAsking", "hookAsked"}}}
Listeners == IF turnPhase = "executing" THEN Waiting ELSE {}

(* PermissionGate::decide and headless_resolve.  Only the default mode     *)
(* listens to what the tool says of itself.                                *)
GateAllows(c) ==
    \/ permissionMode \in {"bypassPermissions", "auto", "sandboxWorkspaceWrite"}
    \/ c \in AllowedCalls \cup ReadOnlyCalls
    \/ permissionMode = "acceptEdits" /\ c \in EditCalls
    \/ permissionMode = "default" /\ c \in HarmlessCalls
Gate(c) ==
    IF c \in DeniedCalls THEN "deny"
    ELSE IF GateAllows(c) THEN "allow"
    ELSE IF permissionMode \in {"plan", "sandboxReadOnly", "sandboxStrict"} \/ ~interactive
    THEN "deny" ELSE "ask"

ToolInit ==
    /\ MailboxInit
    /\ permissionMode \in PermissionModes /\ interactive \in BOOLEAN
    /\ turnPhase = "executing" /\ turnCancelled = FALSE
    /\ stage = [c \in Calls |-> "queued"]

(* partition_calls: consecutive safe calls share a batch, an unsafe call   *)
(* has one of its own.                                                     *)
SameBatch(c, d) == \A e \in Calls : (e \in c..d \/ e \in d..c) => e \in SafeCalls \/ c = d
Active == {c \in Calls : stage[c] \notin {"queued", "done"}}

\* Mutant: the batches are started in order but not awaited.
MayStart_NoBarrier(c) ==
    (\A d \in 1..(c - 1) : stage[d] # "queued") /\ Cardinality(Active) < MaxConcurrency
MayStart(c) ==
    /\ \A d \in 1..(c - 1) : stage[d] # "queued" /\ (stage[d] = "done" \/ SameBatch(c, d))
    /\ Cardinality(Active) < MaxConcurrency

Executing == turnPhase = "executing" /\ ~turnCancelled
Move(c, from, to) ==
    /\ Executing /\ stage[c] = from /\ stage' = [stage EXCEPT ![c] = to]
    /\ UNCHANGED <<permissionMode, interactive, turnPhase, turnCancelled>>
Fail(c, from) == Move(c, from, "postHook")       \* an early return with an error result

StartCall(c) ==
    /\ MayStart(c)
    /\ \/ Move(c, "queued", "gate")
       \/ Fail(c, "queued")            \* unknown tool or invalid input
    /\ UNCHANGED mailboxVars

PassGate(c) ==
    /\ \/ Gate(c) = "allow" /\ Move(c, "gate", "hook") /\ UNCHANGED mailboxVars
       \/ Gate(c) = "deny" /\ Fail(c, "gate") /\ UNCHANGED mailboxVars
       \/ Gate(c) = "ask" /\ Move(c, "gate", "asking") /\ InsertSender(GateRequest(c))

ShowRequest(c) ==
    \/ Move(c, "asking", "asked") /\ InsertMeta(GateRequest(c))
    \/ Move(c, "hookAsking", "hookAsked") /\ InsertMeta(HookRequest(c))

(* A sender that was removed without a word counts as a denial.            *)
\* Mutant: it counts as consent.
Heard_Allows(r) == IF answers[r] = NoDecision /\ r \notin senders THEN "allow" ELSE answers[r]
Heard(r) == IF answers[r] = NoDecision /\ r \notin senders THEN "deny" ELSE answers[r]

HearDecision(c) ==
    /\ \/ Heard(GateRequest(c)) = "allow" /\ Move(c, "asked", "hook")
       \/ Heard(GateRequest(c)) = "deny" /\ Fail(c, "asked")
       \/ Heard(HookRequest(c)) = "allow" /\ Move(c, "hookAsked", "calling")
       \/ Heard(HookRequest(c)) = "deny" /\ Fail(c, "hookAsked")
    /\ UNCHANGED mailboxVars

(* pre_tool_use allows, denies or asks, whatever the gate has said; with   *)
(* nobody to ask its question is a denial.                                 *)
PreHook(c) ==
    \/ Move(c, "hook", "calling") /\ UNCHANGED mailboxVars
    \/ c \in HookAskCalls /\ Fail(c, "hook") /\ UNCHANGED mailboxVars
    \/ c \in HookAskCalls /\ interactive /\ Move(c, "hook", "hookAsking")
         /\ InsertSender(HookRequest(c))

Call(c) == Move(c, "calling", "postHook") /\ UNCHANGED mailboxVars

(* post_tool_use and normalize_result; the call's slot is free after them. *)
PostHook(c) == Move(c, "postHook", "done") /\ UNCHANGED mailboxVars

TakeResults ==
    /\ Executing /\ \A c \in Calls : stage[c] = "done"
    /\ turnPhase' = "finished"
    /\ UNCHANGED <<permissionMode, interactive, turnCancelled, stage, mailboxVars>>

CancelTurn ==
    /\ Executing /\ turnCancelled' = TRUE
    /\ UNCHANGED <<permissionMode, interactive, turnPhase, stage, mailboxVars>>

(* The biased select of the loop: nothing of the execution goes on.        *)
DropExecution ==
    /\ turnPhase = "executing" /\ turnCancelled /\ turnPhase' = "dropped"
    /\ UNCHANGED <<permissionMode, interactive, turnCancelled, stage, mailboxVars>>

RestDecides ==
    /\ \/ \E r \in Requests : RestTakesMeta(r)
       \/ \E d \in Decisions : RestSends(d, Listeners)
       \/ RestDisconnects
    /\ UNCHANGED toolVars
SocketDecides ==
    /\ \/ \E r \in Requests : SocketTakesMeta(r)
       \/ \E d \in Decisions : SocketSends(d, Listeners)
    /\ UNCHANGED toolVars

SwitchAway == turnPhase # "executing" /\ LeaveProject /\ UNCHANGED toolVars
RestartServer ==
    /\ turnPhase' = "dropped" /\ LoadMetas
    /\ UNCHANGED <<permissionMode, interactive, turnCancelled, stage>>

CallStep(c) ==
    \/ StartCall(c) \/ PassGate(c) \/ ShowRequest(c) \/ HearDecision(c)
    \/ PreHook(c) \/ Call(c) \/ PostHook(c)

ToolNext ==
    \/ \E c \in Calls : CallStep(c)
    \/ TakeResults \/ CancelTurn \/ DropExecution
    \/ RestDecides \/ SocketDecides \/ SwitchAway \/ RestartServer

ToolSpec == ToolInit /\ [][ToolNext]_turnVars /\ WF_turnVars(DropExecution)

----------------------------------------------------------------------------
ToolTypeOK ==
    /\ senders \subseteq Requests /\ metas \subseteq Requests /\ metasFile \subseteq Requests
    /\ shown \subseteq Requests /\ answers \in [Requests -> Decisions \cup {NoDecision}]
    /\ restTaken \in Requests \cup {NoRequest} /\ wsTaken \in Requests \cup {NoRequest}
    /\ permissionMode \in PermissionModes /\ interactive \in BOOLEAN
    /\ turnPhase \in {"executing", "finished", "dropped"} /\ turnCancelled \in BOOLEAN
    /\ stage \in [Calls -> Stages]

(* "Serial barriers around every non-concurrency-safe call": while such a  *)
(* call is under way every earlier call is done and no later one has       *)
(* begun, however the calls before it were answered, failed or delayed.    *)
UnsafeRunsAlone ==
    \A c \in Active \ SafeCalls, d \in Calls :
        (d < c => stage[d] = "done") /\ (d > c => stage[d] = "queued")

(* Behind the gate a call is one the gate let through by itself or a human *)
(* allowed; past a hook that asked, the human allowed it once more.  An    *)
(* answer to another call, or one given to an earlier question of the same *)
(* call, never counts.                                                     *)
OnlyGrantedCallsRun ==
    \A c \in Calls :
        /\ stage[c] \in {"hook", "hookAsking", "hookAsked", "calling"} =>
              Gate(c) = "allow" \/ (Gate(c) = "ask" /\ answers[GateRequest(c)] = "allow")
        /\ (stage[c] = "calling" /\ HookRequest(c) \in shown) => answers[HookRequest(c)] = "allow"

(* What a client is shown as pending of a call that still waits, it can    *)
(* decide: the sender is there before the request is shown and is taken    *)
(* only after it is hidden, also when two clients decide at once.          *)
ShownIsAnswerable == metas \cap Listeners \subseteq senders
=============================================================================
