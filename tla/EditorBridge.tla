---------------------------- MODULE EditorBridge ----------------------------
(***************************************************************************)
(* cli/src/acp.rs: the ACP server on stdin and stdout.  One loop reads     *)
(* lines and writes the answers of prompts that are over; a prompt runs as *)
(* a task of its own.  The `select!` of the loop prefers reading, and      *)
(* drops the read when it answers: what was read of an unfinished line is  *)
(* gone.  A line is the number of a prompt or the session of a             *)
(* session/cancel.                                                         *)
(***************************************************************************)
EXTENDS Naturals, Sequences

CONSTANTS
    EdSessions,   \* the sessions the editor has created or loaded
    NoLineYet,    \* not a line
    NoPrompt,     \* not a prompt
    MaxPrompts,   \* bound: prompts the editor sends
    MaxCancels    \* bound: cancellations it sends

ASSUME EditorAssumption ==
    /\ MaxPrompts \in Nat /\ MaxCancels \in Nat
    /\ NoPrompt \notin Nat /\ NoLineYet \notin Nat \cup EdSessions
    /\ EdSessions \cap Nat = {}

Prompts == 1..MaxPrompts

VARIABLES
    stdin,        \* the whole lines that have not been read
    unfinished,   \* the line of which the editor has written a part
    torn,         \* the part that was read of it has been dropped
    bridge,       \* "reading", "closed" when stdin has ended, "failed" when reading has
    turnOf,       \* of each prompt: "unread", "asked", "running", "ended", "over", "answered"
    promptSession,
    stopped,      \* the prompts whose controller was told to cancel
    controllers,  \* of each session, the prompt whose controller is listed
    finished,     \* the answers to be written, in order
    prompted, cancels

editorInput == <<stdin, unfinished, torn, bridge, prompted, cancels>>
editorVars == <<editorInput, turnOf, promptSession, stopped, controllers, finished>>

EditorInit ==
    /\ stdin = <<>> /\ unfinished = NoLineYet /\ torn = FALSE /\ bridge = "reading"
    /\ turnOf = [p \in Prompts |-> "unread"]
    /\ promptSession \in [Prompts -> EdSessions]
    /\ stopped = {} /\ controllers = [s \in EdSessions |-> NoPrompt]
    /\ finished = <<>> /\ prompted = 0 /\ cancels = 0

(* The editor writes a line in parts, and may go away between two lines.   *)
StartLine ==
    /\ unfinished = NoLineYet /\ bridge = "reading"
    /\ \/ /\ prompted < MaxPrompts /\ prompted' = prompted + 1
          /\ unfinished' = prompted' /\ UNCHANGED cancels
       \/ /\ cancels < MaxCancels /\ cancels' = cancels + 1
          /\ unfinished' \in EdSessions /\ UNCHANGED prompted
    /\ UNCHANGED <<stdin, torn, bridge, turnOf, promptSession, stopped, controllers, finished>>

\* What is left of a torn line does not parse and is skipped; torn inside a character
\* it is not UTF-8 either, and the error of the read ends serve_io.
FinishLine ==
    /\ unfinished # NoLineYet /\ unfinished' = NoLineYet /\ torn' = FALSE
    /\ stdin' = IF torn THEN stdin ELSE Append(stdin, unfinished)
    /\ \/ UNCHANGED bridge
       \/ torn /\ bridge = "reading" /\ bridge' = "failed"
    /\ UNCHANGED <<prompted, cancels, turnOf, promptSession, stopped, controllers, finished>>

HangUp ==
    /\ stdin = <<>> /\ bridge = "reading" /\ bridge' = "closed"
    /\ UNCHANGED <<stdin, unfinished, torn, prompted, cancels,
                   turnOf, promptSession, stopped, controllers, finished>>

(* The loop of serve_io.                                                   *)
TakePrompt ==
    /\ bridge = "reading" /\ stdin # <<>> /\ Head(stdin) \in Prompts
    /\ stdin' = Tail(stdin)
    /\ turnOf' = [turnOf EXCEPT ![Head(stdin)] = "asked"]
    /\ UNCHANGED <<unfinished, torn, bridge, prompted, cancels,
                   promptSession, stopped, controllers, finished>>

TakeCancel ==
    /\ bridge = "reading" /\ stdin # <<>> /\ Head(stdin) \in EdSessions
    /\ stdin' = Tail(stdin)
    /\ stopped' = stopped \cup ({controllers[Head(stdin)]} \ {NoPrompt})
    /\ controllers' = [controllers EXCEPT ![Head(stdin)] = NoPrompt]
    /\ UNCHANGED <<unfinished, torn, bridge, prompted, cancels, turnOf, promptSession, finished>>

AnswerPrompt ==
    /\ bridge = "reading" /\ stdin = <<>> /\ finished # <<>>
    /\ turnOf' = [turnOf EXCEPT ![Head(finished)] = "answered"]
    /\ finished' = Tail(finished)
    /\ torn' = (unfinished # NoLineYet)
    /\ UNCHANGED <<stdin, unfinished, bridge, prompted, cancels,
                   promptSession, stopped, controllers>>

(* prompt(), in its task.  It is refused when the session is not known,    *)
(* the text is empty or a client or a snapshot fails.                      *)
RefusePrompt(p) ==
    /\ turnOf[p] = "asked" /\ turnOf' = [turnOf EXCEPT ![p] = "over"]
    /\ finished' = Append(finished, p)
    /\ UNCHANGED <<editorInput, promptSession, stopped, controllers>>

StartTurn(p) ==
    /\ turnOf[p] = "asked" /\ turnOf' = [turnOf EXCEPT ![p] = "running"]
    /\ controllers' = [controllers EXCEPT ![promptSession[p]] = p]
    /\ UNCHANGED <<editorInput, promptSession, stopped, finished>>

EndTurn(p) ==
    /\ turnOf[p] = "running" /\ turnOf' = [turnOf EXCEPT ![p] = "ended"]
    /\ UNCHANGED <<editorInput, promptSession, stopped, controllers, finished>>

\* Mutant: only a turn whose controller is still listed is answered.
RetireTurn_Listed(p) ==
    /\ turnOf[p] = "ended" /\ turnOf' = [turnOf EXCEPT ![p] = "over"]
    /\ controllers' = [controllers EXCEPT ![promptSession[p]] = NoPrompt]
    /\ finished' = IF controllers[promptSession[p]] = p THEN Append(finished, p) ELSE finished
    /\ UNCHANGED <<editorInput, promptSession, stopped>>
\* Whatever controller is listed for the session is removed.
RetireTurn(p) ==
    /\ turnOf[p] = "ended" /\ turnOf' = [turnOf EXCEPT ![p] = "over"]
    /\ controllers' = [controllers EXCEPT ![promptSession[p]] = NoPrompt]
    /\ finished' = Append(finished, p)
    /\ UNCHANGED <<editorInput, promptSession, stopped>>

EditorLoop == TakePrompt \/ TakeCancel \/ AnswerPrompt
EditorNext ==
    \/ StartLine \/ FinishLine \/ HangUp \/ EditorLoop
    \/ \E p \in Prompts : RefusePrompt(p) \/ StartTurn(p) \/ EndTurn(p) \/ RetireTurn(p)

(* The tasks are scheduled, and a run that is cancelled ends               *)
(* (RunLifecycle, CancelledRunEnds); others may go on for ever.            *)
TurnWorks(p) == (p \in stopped /\ EndTurn(p)) \/ RetireTurn(p)

EditorSpec ==
    /\ EditorInit /\ [][EditorNext]_editorVars
    /\ WF_editorVars(EditorLoop)
    /\ \A p \in Prompts : WF_editorVars(TurnWorks(p))

----------------------------------------------------------------------------
EditorTypeOK ==
    /\ stdin \in Seq(Prompts \cup EdSessions)
    /\ unfinished \in Prompts \cup EdSessions \cup {NoLineYet} /\ torn \in BOOLEAN
    /\ bridge \in {"reading", "closed", "failed"}
    /\ turnOf \in [Prompts -> {"unread", "asked", "running", "ended", "over", "answered"}]
    /\ promptSession \in [Prompts -> EdSessions]
    /\ stopped \subseteq Prompts /\ controllers \in [EdSessions -> Prompts \cup {NoPrompt}]
    /\ finished \in Seq(Prompts)
    /\ prompted \in 0..MaxPrompts /\ cancels \in 0..MaxCancels

(* "session/cancel is honored while a turn is in flight" (acp.rs:11-12), as *)
(* far as a cancellation has reached a controller: that turn, and every    *)
(* one that has ended by itself, is answered as long as the editor is      *)
(* there and can be read, whatever other prompts of the session have done  *)
(* to the list of controllers and whatever lines are lost meanwhile.  A    *)
(* line torn inside a character ends the bridge with the turns it owes.    *)
TurnAnswered ==
    \A p \in Prompts :
        turnOf[p] \in {"ended", "over"} \/ (turnOf[p] = "running" /\ p \in stopped)
            ~> turnOf[p] = "answered" \/ bridge \in {"closed", "failed"}
=============================================================================
