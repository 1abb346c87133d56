----------------------------- MODULE ProviderTurn -----------------------------
(***************************************************************************)
(* One turn after the other against a provider that streams: the request   *)
(* and its retries (api/src/retry.rs), the four stream formats folded into *)
(* a turn (api/src/client.rs), and what the loop makes of a turn that is   *)
(* whole, cut off, failed or cancelled (engine/src/loop_.rs).  The stream  *)
(* may end or break after any frame.                                       *)
(***************************************************************************)
EXTENDS Naturals, Sequences

CONSTANTS
    Formats,        \* of {"anthropic", "openai", "responses", "gemini"}
    MaxAttempts,    \* RetryConfig::max_attempts
    MaxRecoveries,  \* MAX_OUTPUT_TRUNCATION_RECOVERIES
    MaxTurns,       \* bound: turns of the run
    MaxText,        \* bound: text deltas of a response
    MaxCalls        \* bound: tool calls of a response

ASSUME ProviderAssumption ==
    /\ MaxAttempts \in Nat \ {0}
    /\ {MaxRecoveries, MaxTurns, MaxText, MaxCalls} \subseteq Nat

NoStop == "none"

VARIABLES
    format,
    turnStage,      \* "head", "request", "backoff", "stream", "decide", "ended"
    turns,
    attempt,
    jevAsked,       \* the second opinion of this request is spent
    pairingRetried, \* the loop has repaired the pairing and asked again
    streamCancelled,
    textStored,     \* text in the state of the fold
    textShown,      \* text the clients were sent in this turn
    thinkingLast,   \* the last block of the response is thinking
    callArgs,       \* of each call of the response: "none", "part" or "whole"
    stop,           \* stop reason
    failure,        \* "none", "cancelled", "stream" (the fold failed) or "request"
    recoveries,
    ran,            \* what had arrived of the arguments of the calls that ran
    unanswered,     \* calls of the transcript without a result
    runOutcome      \* "none", "completed", "cancelled", "error"

foldVars == <<textStored, textShown, thinkingLast, callArgs, stop>>
loopVars == <<turns, recoveries, ran, unanswered, runOutcome>>
requestVars == <<attempt, jevAsked, pairingRetried>>
turnStreamVars == <<format, turnStage, streamCancelled, failure, foldVars, loopVars, requestVars>>

ProviderInit ==
    /\ format \in Formats /\ turnStage = "head" /\ turns = 0
    /\ attempt = 0 /\ jevAsked = FALSE /\ pairingRetried = FALSE /\ streamCancelled = FALSE
    /\ textStored = 0 /\ textShown = 0 /\ thinkingLast = FALSE /\ callArgs = <<>>
    /\ stop = NoStop /\ failure = "none"
    /\ recoveries = 0 /\ ran = {} /\ unanswered = 0 /\ runOutcome = "none"

NewFold == textStored' = 0 /\ thinkingLast' = FALSE /\ callArgs' = <<>> /\ stop' = NoStop
NewRequest == attempt' = 1 /\ jevAsked' = FALSE /\ failure' = "none"

BeginTurn ==
    /\ turnStage = "head" /\ turns < MaxTurns /\ ~streamCancelled
    /\ turnStage' = "request" /\ turns' = turns + 1
    /\ NewRequest /\ NewFold /\ textShown' = 0 /\ pairingRetried' = FALSE
    /\ UNCHANGED <<format, streamCancelled, recoveries, ran, unanswered, runOutcome>>

(* The budget of turns is used up, or the head of the loop sees the token. *)
EndRun ==
    /\ turnStage = "head" /\ turnStage' = "ended"
    /\ \/ turns = MaxTurns /\ runOutcome' = "completed"
       \/ streamCancelled /\ runOutcome' = "cancelled"
    /\ UNCHANGED <<format, streamCancelled, failure, foldVars, turns, recoveries, ran, unanswered,
                   requestVars>>

Reach(stage) == turnStage' = stage /\ UNCHANGED <<format, streamCancelled, loopVars>>
FailWith(kind) == failure' = kind /\ Reach("decide") /\ UNCHANGED foldVars

(* with_retry_notify: a retryable error is tried again until the attempts  *)
(* or the time are used up, another one if the second opinion says so.     *)
RequestFails ==
    /\ turnStage = "request"
    /\ \/ attempt < MaxAttempts /\ Reach("backoff") /\ UNCHANGED <<failure, foldVars>>
            /\ jevAsked' \in {jevAsked, TRUE}
       \/ FailWith("request") /\ jevAsked' \in {jevAsked, TRUE}
    /\ UNCHANGED <<attempt, pairingRetried>>
TryAgain ==
    /\ turnStage = "backoff" /\ attempt' = attempt + 1
    /\ Reach("request") /\ UNCHANGED <<jevAsked, pairingRetried, failure, foldVars>>
Accepted ==
    /\ turnStage = "request" /\ Reach("stream")
    /\ UNCHANGED <<failure, foldVars, requestVars>>

CancelStream ==
    /\ ~streamCancelled /\ turnStage # "ended" /\ streamCancelled' = TRUE
    /\ UNCHANGED <<format, turnStage, failure, foldVars, loopVars, requestVars>>
SeeCancelled ==
    /\ turnStage \in {"request", "backoff", "stream"} /\ streamCancelled
    /\ FailWith("cancelled") /\ UNCHANGED requestVars

----------------------------------------------------------------------------
(* The frames of a provider that keeps its protocol: it says why it stops  *)
(* once all that belongs to the response is said, `length` excepted.       *)
Frame == turnStage = "stream" /\ stop = NoStop /\ Reach("stream") /\ UNCHANGED <<failure, requestVars>>

TextFrame ==
    /\ textStored < MaxText /\ Frame
    /\ textStored' = textStored + 1 /\ textShown' = textShown + 1
    /\ thinkingLast' = FALSE /\ UNCHANGED <<callArgs, stop>>

(* Only the Anthropic fold keeps thinking as a block.                      *)
ThinkingFrame ==
    /\ Frame /\ thinkingLast' = (format = "anthropic")
    /\ UNCHANGED <<textStored, textShown, callArgs, stop>>

Said == \A i \in DOMAIN callArgs : callArgs[i] = "whole"

(* A Gemini call arrives whole, the others in pieces.                      *)
CallFrame ==
    /\ Len(callArgs) < MaxCalls /\ Said /\ Frame
    /\ callArgs' = Append(callArgs, IF format = "gemini" THEN "whole" ELSE "none")
    /\ thinkingLast' = FALSE /\ UNCHANGED <<textStored, textShown, stop>>

ArgumentsFrame ==
    /\ ~Said /\ Frame
    /\ \E args \in {"part", "whole"} : callArgs' = [callArgs EXCEPT ![Len(callArgs)] = args]
    /\ UNCHANGED <<textStored, textShown, thinkingLast, stop>>

(* The stop reasons as each fold understands them.  Gemini says STOP       *)
(* whether there are calls or not; response.failed and most of             *)
(* response.incomplete count as a regular end.  Responses end with them.   *)
RegularStop == IF format # "gemini" /\ callArgs # <<>> THEN "tool_use" ELSE "end_turn"
CutStops == IF format = "responses" THEN {"max_tokens", "end_turn"} ELSE {"max_tokens"}

StopFrame ==
    /\ turnStage = "stream" /\ stop = NoStop
    /\ (Said /\ stop' = RegularStop) \/ stop' \in CutStops
    /\ Reach(IF format = "responses" THEN "decide" ELSE "stream")
    /\ UNCHANGED <<textStored, textShown, thinkingLast, callArgs, failure, requestVars>>

(* finish: an Anthropic call whose arguments do not parse fails the turn,  *)
(* the other formats pass on what there is.                                *)
Unparsed == \E i \in DOMAIN callArgs : callArgs[i] = "part"

(* The end of the bytes is the end of the turn, also before any stop       *)
(* reason, and so is [DONE] or response.completed.                         *)
StreamEnds ==
    /\ turnStage = "stream" /\ UNCHANGED requestVars
    /\ IF format = "anthropic" /\ Unparsed THEN FailWith("stream")
                                           ELSE FailWith("none")

(* An error frame, network_error, a frame that does not parse, or a broken *)
(* connection.                                                             *)
StreamFails == turnStage = "stream" /\ FailWith("stream") /\ UNCHANGED requestVars

----------------------------------------------------------------------------
(* What the loop makes of it.                                              *)
Decide == turnStage = "decide" /\ UNCHANGED <<format, streamCancelled>>
\* Mutant: the partial output is empty when it has no calls.
EmptyPartial_CallsOnly == callArgs = <<>>
EmptyPartial == textStored = 0 /\ callArgs = <<>> /\ ~thinkingLast
Finish(outcome) == turnStage' = "ended" /\ runOutcome' = outcome

GiveUp ==
    /\ Decide
    /\ \/ failure = "cancelled" /\ Finish("cancelled")
       \/ failure \in {"request", "stream"} /\ EmptyPartial /\ Finish("error")
       \/ failure \in {"request", "stream"} /\ pairingRetried /\ Finish("error")
    /\ UNCHANGED <<failure, foldVars, turns, recoveries, ran, unanswered, requestVars>>

(* The provider names an orphaned call: repair_tool_pairing, and once more.*)
RetryPairing ==
    /\ Decide /\ failure \in {"request", "stream"} /\ EmptyPartial /\ ~pairingRetried
    /\ turnStage' = "request" /\ pairingRetried' = TRUE
    /\ attempt' = 1 /\ jevAsked' = FALSE /\ failure' = "none" /\ NewFold
    /\ UNCHANGED <<textShown, loopVars>>

(* The turn is there: whole, or the partial output with a notice.          *)
CutOff == failure = "stream" /\ ~EmptyPartial /\ ~pairingRetried
Usable == Decide /\ (failure = "none" \/ CutOff)
FinalStop == IF CutOff /\ stop = NoStop THEN "max_tokens" ELSE stop
ThinkingOnly == ~CutOff /\ FinalStop = "max_tokens" /\ thinkingLast
NeedsRecovery == CutOff \/ (callArgs = <<>> /\ ThinkingOnly)

(* The next turn is asked to go on; the calls of this one are answered     *)
(* with an error.                                                          *)
\* Mutant: one recovery more than the budget.
Recover_OneMore ==
    /\ Usable /\ NeedsRecovery /\ recoveries <= MaxRecoveries
    /\ recoveries' = recoveries + 1 /\ turnStage' = "head"
    /\ UNCHANGED <<failure, foldVars, turns, ran, unanswered, runOutcome, requestVars>>
Recover ==
    /\ Usable /\ NeedsRecovery /\ recoveries < MaxRecoveries
    /\ recoveries' = recoveries + 1 /\ turnStage' = "head"
    /\ UNCHANGED <<failure, foldVars, turns, ran, unanswered, runOutcome, requestVars>>

\* Mutant: calls run whatever the stop reason.
MayRun_AnyStop == callArgs # <<>> /\ ~CutOff
MayRun == FinalStop = "tool_use" /\ callArgs # <<>> /\ ~CutOff

(* Completed, whatever is missing; its calls stay unanswered.              *)
Complete ==
    /\ Usable /\ ~MayRun /\ (NeedsRecovery => recoveries = MaxRecoveries)
    /\ unanswered' = Len(callArgs) /\ Finish("completed")
    /\ UNCHANGED <<failure, foldVars, turns, recoveries, ran, requestVars>>

RunCalls ==
    /\ Usable /\ MayRun
    /\ ran' = ran \cup {callArgs[i] : i \in DOMAIN callArgs} /\ turnStage' = "head"
    /\ UNCHANGED <<failure, foldVars, turns, recoveries, unanswered, runOutcome, requestVars>>

ProviderNext ==
    \/ BeginTurn \/ EndRun \/ RequestFails \/ TryAgain \/ Accepted \/ CancelStream \/ SeeCancelled
    \/ TextFrame \/ ThinkingFrame \/ CallFrame \/ ArgumentsFrame \/ StopFrame
    \/ StreamEnds \/ StreamFails
    \/ GiveUp \/ RetryPairing \/ Recover \/ Complete \/ RunCalls

ProviderSpec == ProviderInit /\ [][ProviderNext]_turnStreamVars

----------------------------------------------------------------------------
ProviderTypeOK ==
    /\ format \in Formats
    /\ turnStage \in {"head", "request", "backoff", "stream", "decide", "ended"}
    /\ turns \in 0..MaxTurns /\ attempt \in 0..MaxAttempts /\ recoveries \in 0..MaxRecoveries
    /\ jevAsked \in BOOLEAN /\ pairingRetried \in BOOLEAN /\ streamCancelled \in BOOLEAN
    /\ textStored \in 0..MaxText /\ textShown \in Nat /\ thinkingLast \in BOOLEAN
    /\ callArgs \in Seq({"none", "part", "whole"}) /\ Len(callArgs) <= MaxCalls
    /\ stop \in {NoStop, "tool_use", "end_turn", "max_tokens"}
    /\ failure \in {"none", "cancelled", "stream", "request"}
    /\ ran \subseteq {"none", "part", "whole"} /\ unanswered \in Nat
    /\ runOutcome \in {"none", "completed", "cancelled", "error"}

(* "Recovery cannot execute a truncated call" (loop_.rs:2896): a call runs *)
(* only when its arguments have arrived whole, wherever the stream ends,   *)
(* breaks or is limited, and although three of the four folds pass on      *)
(* arguments that do not parse.                                            *)
OnlyWholeCallsRun == ran \subseteq {"whole"}

(* The text the clients were shown in a turn is the text of the message    *)
(* the transcript gets, also when the request was repeated, cut off or     *)
(* failed: nothing is shown twice and nothing shown is lost.               *)
ShownTextIsKept ==
    (turnStage = "decide" /\ (failure = "none" \/ CutOff)) => textShown = textStored
=============================================================================
