-------------------------- MODULE EngineCompaction --------------------------
(***************************************************************************)
(* The turn loop of the agent (QueryEngine::run_with_context in            *)
(* engine/src/loop_.rs) as it builds up, trims and summarises its message  *)
(* list, beside the persisted session other tasks write metadata to.       *)
(* Tool results are trimmed when they age and pruned when the context      *)
(* fills; older messages are summarised by a compaction the loop waits for *)
(* or by a background task whose result a later turn picks up.             *)
(*                                                                         *)
(* A message names the utterances it stands for: a singleton for what was  *)
(* said once, the union of what it was made from for a summary.  The       *)
(* session is SessionWriter's, one command at a time, seen through its     *)
(* revision and its message list.                                          *)
(***************************************************************************)
EXTENDS Integers, Sequences, FiniteSets, Selection

CONSTANTS
    KeepTurns,       \* turns a summary leaves alone (KEEP_RECENT_TURNS)
    Protected,       \* newest messages that are not trimmed (MICRO_PROTECT_RECENT)
    Sizes,           \* sizes of tool results: a subset of {"small", "large"}
    MaxUtterances,   \* bound: messages said in all runs
    MaxDisturbances  \* bound: injected messages, commands of other tasks and
                     \* commands that the session fails, taken together

ASSUME EngineAssumption ==
    /\ KeepTurns \in Nat \ {0} /\ Protected \in Nat
    /\ Sizes \subseteq {"small", "large"}
    /\ MaxUtterances \in Nat /\ MaxDisturbances \in Nat

VARIABLES
    stored,      \* the session: its revision and its messages
    engine,      \* QueryEngine: session_revision and messages
    frozen,      \* EngineCache::frozen_idx
    pending,     \* EngineCache::pending_compact and what was noted at its spawn
    force,       \* the revision a compaction under way is based on
    phase,       \* where the loop stands
    said,        \* number of messages said so far
    unsaved,     \* messages whose append the session refused
    injected,    \* messages that were never sent to the session
    bare,        \* calls said without text, whose result the session has not accepted
    foreign,     \* metadata commands of other tasks
    faults       \* commands the session failed

loop == <<frozen, force, phase>>
log  == <<said, unsaved, injected, bare>>
vars == <<stored, engine, frozen, pending, force, phase, said, unsaved,
          injected, bare, foreign, faults>>
-----------------------------------------------------------------------------
(* Messages.  A prompt is any plain user message: the user's, a summary, a   *)
(* recap or a recovery notice.  The result of call n is utterance n + 1.  A  *)
(* call with text "none" is said without any text beside it.                 *)

Texts == {"none", "small", "large", "trimmed", "pruned"}
Message ==
    [kind : {"prompt", "reply", "call", "result"}, of : SUBSET Nat, text : Texts]

Said(kind, n, size) == [kind |-> kind, of |-> {n}, text |-> size]
Meaning(s) == UNION {s[i].of : i \in DOMAIN s}     \* what a list still tells
\* A list without the texts, and without what was shown to the model only.
Gist(s) ==
    LET gist == [i \in DOMAIN s |-> [kind |-> s[i].kind, of |-> s[i].of]]
    IN  Select(gist, {gist[i] : i \in {j \in DOMAIN s : ~(s[j].of \subseteq injected)}})

Answered(s, i) ==
    /\ i \in DOMAIN s /\ i + 1 \in DOMAIN s
    /\ s[i].kind = "call" /\ s[i + 1].kind = "result"
    /\ s[i + 1].of = {n + 1 : n \in s[i].of}

\* repair_tool_pairing: an unanswered call is reduced to the text beside it, or
\* dropped if there is none; a result that does not follow its call is dropped.
Substantial(s, i) ==
    /\ s[i].kind = "result" => Answered(s, i - 1)
    /\ s[i].kind = "call" /\ s[i].text = "none" => Answered(s, i)
RepairToolPairing(s) ==
    LET kept == {i \in DOMAIN s : Substantial(s, i)}
        text == [i \in DOMAIN s |->
                    IF s[i].kind = "call" /\ ~Answered(s, i)
                    THEN [s[i] EXCEPT !.kind = "reply"] ELSE s[i]]
    IN  Select(text, {text[i] : i \in kept})

\* micro_compact: large results that are neither sealed nor recent are trimmed.
Trimmable(s, from) ==
    {i \in DOMAIN s : from < i /\ i <= Len(s) - Protected /\ s[i].text = "large"}
Trimmed(s, from) ==
    [i \in DOMAIN s |-> IF i \in Trimmable(s, from)
                        THEN [s[i] EXCEPT !.text = "trimmed"] ELSE s[i]]

\* prune_tool_results: recent ones too.
Prunable(s) == {i \in DOMAIN s : frozen < i /\ s[i].text = "large"}
Pruned(s) ==
    [i \in DOMAIN s |-> IF i \in Prunable(s)
                        THEN [s[i] EXCEPT !.text = "pruned"] ELSE s[i]]

\* compact_messages: the newest KeepTurns turns stay, each begun by a prompt;
\* everything before them becomes one summary, if that makes the list shorter.
\* Mutant: the tail begins anywhere, not at a prompt.
IsSplit_Anywhere(s, i) == Len(s) - i + 1 = KeepTurns
IsSplit(s, i) ==
    /\ s[i].kind = "prompt"
    /\ Cardinality({j \in i..Len(s) : s[j].kind = "prompt"}) = KeepTurns
Split(s)   == {i \in 3..Len(s) : IsSplit(s, i)}
Summary(s) == [kind |-> "prompt", of |-> Meaning(s), text |-> "small"]
\* Mutant: the last message before the tail is in neither part.
Compacted_OffByOne(s) ==
    LET split == CHOOSE i \in Split(s) : TRUE
    IN  << Summary(SubSeq(s, 1, split - 2)) >> \o SubSeq(s, split, Len(s))
Compacted(s) ==
    LET split == CHOOSE i \in Split(s) : TRUE
    IN  << Summary(SubSeq(s, 1, split - 1)) >> \o SubSeq(s, split, Len(s))

Disturbances == foreign + faults + Cardinality(injected)
None    == [task |-> "none"]
NoForce == -1

Init ==
    /\ stored = [revision |-> 0, messages |-> <<>>]
    /\ engine = [revision |-> 0, messages |-> <<>>]
    /\ frozen = 0
    /\ pending = None
    /\ force = NoForce
    /\ phase = "idle"
    /\ said = 0 /\ unsaved = {} /\ injected = {} /\ bare = {}
    /\ foreign = 0 /\ faults = 0
-----------------------------------------------------------------------------
(* persist_compaction: a compare-and-swap on the revision. *)

Swap(new, expected) ==
    /\ expected = stored.revision
    /\ stored' = [revision |-> expected + 1, messages |-> new]
    /\ engine' = [revision |-> expected + 1, messages |-> new]
    /\ UNCHANGED faults

\* Mutant: the refused replacement is adopted all the same.
SwapRefused_Adopted(new, kept, expected) ==
    /\ expected # stored.revision
    /\ engine' = [revision |-> stored.revision, messages |-> new]
    /\ UNCHANGED <<stored, faults>>

\* On a conflict the engine learns the session's revision; `kept` is what the
\* caller goes on with.
SwapRefused(new, kept, expected) ==
    /\ expected # stored.revision
    /\ engine' = [revision |-> stored.revision, messages |-> kept]
    /\ UNCHANGED <<stored, faults>>

\* On an I/O error the writer has replaced its messages and kept its revision.
SwapFails(new, kept, expected) ==
    /\ expected = stored.revision
    /\ Disturbances < MaxDisturbances
    /\ faults' = faults + 1
    /\ stored' = [stored EXCEPT !.messages = new]
    /\ engine' = [engine EXCEPT !.messages = kept]

PersistCompaction(new, kept, expected) ==
    \/ Swap(new, expected)
    \/ SwapRefused(new, kept, expected)
    \/ SwapFails(new, kept, expected)

(* Every message is pushed to the engine and then appended to the session. *)

Heard(m) == [engine EXCEPT !.messages = Append(@, m)]

AppendAccepted(m) ==
    /\ stored' = [revision |-> stored.revision + 1,
                  messages |-> Append(stored.messages, m)]
    /\ engine' = [Heard(m) EXCEPT !.revision = stored.revision + 1]
    /\ UNCHANGED <<unsaved, faults>>

AppendRefused(m) ==
    /\ Disturbances < MaxDisturbances
    /\ faults' = faults + 1
    /\ unsaved' = unsaved \cup m.of
    /\ engine' = Heard(m)
    /\ UNCHANGED stored

Say(kind, size, next) ==
    LET m == Said(kind, said + 1, size)
    IN  /\ said < MaxUtterances
        /\ said' = said + 1
        /\ phase' = next
        /\ AppendAccepted(m) \/ AppendRefused(m)
        /\ UNCHANGED <<pending, force, injected, foreign>>

Goto(from, next) == phase = from /\ phase' = next
-----------------------------------------------------------------------------
(* The beginning of a run. *)

\* with_session builds a run's engine from a snapshot.
Hydrated == [stored EXCEPT !.messages = RepairToolPairing(stored.messages)]

StartRun ==
    /\ Goto("idle", "inherit")
    /\ engine' = Hydrated
    /\ frozen' = 0
    /\ pending' = None
    /\ UNCHANGED <<stored, force, log, foreign, faults>>

\* The inherited history is trimmed once, and adopted only if the session took it.
TrimInherited ==
    /\ Goto("inherit", "prompt")
    /\ Trimmable(engine.messages, 0) # {}
    /\ PersistCompaction(Trimmed(engine.messages, 0), engine.messages, engine.revision)
    /\ UNCHANGED <<frozen, pending, force, log, foreign>>

KeepInherited ==
    /\ Goto("inherit", "prompt")
    /\ Trimmable(engine.messages, 0) = {}
    /\ UNCHANGED <<stored, engine, frozen, pending, force, log, foreign, faults>>

\* The history is sealed and the user's message said.
Prompt ==
    /\ phase = "prompt"
    /\ frozen' = Len(engine.messages)
    /\ \E next \in {"top", "notice"} : Say("prompt", "small", next)
    /\ UNCHANGED bare

\* A skill body, the answer of a graph or the end of a background shell task is
\* shown to the model and not appended to the session.
Inject ==
    /\ phase = "top"
    /\ said < MaxUtterances
    /\ Disturbances < MaxDisturbances
    /\ said' = said + 1
    /\ injected' = injected \cup {said + 1}
    /\ engine' = Heard(Said("prompt", said + 1, "small"))
    /\ UNCHANGED <<stored, frozen, pending, force, phase, unsaved, bare, foreign, faults>>
-----------------------------------------------------------------------------
(* The head of a turn. *)

\* Mutant: the summary is swapped in against the revision of the moment.
BackgroundBase_Current == engine.revision
\* The revision the background summary was based on.
BackgroundBase == pending.revision

Unchanged == pending.count = Len(engine.messages)

TakeBackground ==
    /\ Goto("top", "taken")
    /\ pending.task = "finished"
    /\ Unchanged
    /\ PersistCompaction(pending.summary, engine.messages, BackgroundBase)
    /\ frozen' = IF engine'.messages = pending.summary THEN 0 ELSE frozen
    /\ pending' = None
    /\ UNCHANGED <<force, log, foreign>>

DropBackground ==
    /\ Goto("top", "taken")
    /\ pending.task \in {"finished", "failed"}
    /\ pending.task = "finished" => ~Unchanged
    /\ pending' = None
    /\ UNCHANGED <<stored, engine, frozen, force, log, foreign, faults>>

PassBackground ==
    /\ Goto("top", "taken")
    /\ pending.task \in {"none", "running"}
    /\ UNCHANGED <<stored, engine, frozen, pending, force, log, foreign, faults>>

\* Old tool results are trimmed here whether or not the session took the change.
TrimOld ==
    /\ Goto("taken", "weigh")
    /\ Trimmable(engine.messages, frozen) # {}
    /\ LET trimmed == Trimmed(engine.messages, frozen)
       IN  PersistCompaction(trimmed, trimmed, engine.revision)
    /\ UNCHANGED <<frozen, pending, force, log, foreign>>

KeepOld ==
    /\ Goto("taken", "weigh")
    /\ Trimmable(engine.messages, frozen) = {}
    /\ UNCHANGED <<stored, engine, frozen, pending, force, log, foreign, faults>>

\* From 80% on large results are pruned in memory; that may be enough.
Prune ==
    /\ \E next \in {"turn", "heavy"} : Goto("weigh", next)
    /\ Prunable(engine.messages) # {}
    /\ engine' = [engine EXCEPT !.messages = Pruned(@)]
    /\ UNCHANGED <<stored, frozen, pending, force, log, foreign, faults>>

Heavy ==
    \/ phase = "heavy"
    \/ phase = "weigh" /\ Prunable(engine.messages) = {}

\* Below 80%, or with a background summary still being made.
NoCompaction ==
    /\ phase \in {"weigh", "heavy"}
    /\ phase' = "turn"
    /\ UNCHANGED <<stored, engine, frozen, pending, force, log, foreign, faults>>

\* From 80% a background task summarises a copy of the messages.
Prefire ==
    /\ Heavy
    /\ phase' = "turn"
    /\ pending.task = "none"
    /\ Split(engine.messages) # {}
    /\ pending' = [task |-> "running", summary |-> Compacted(engine.messages),
                   count |-> Len(engine.messages), revision |-> engine.revision]
    /\ UNCHANGED <<stored, engine, frozen, force, log, foreign, faults>>

\* Above the threshold the loop itself waits for a summary.
StartForce ==
    /\ Heavy
    /\ phase' = "forcing"
    /\ Split(engine.messages) # {}
    /\ force' = engine.revision
    /\ UNCHANGED <<stored, engine, frozen, pending, log, foreign, faults>>

\* Mutant: the seal is not lifted when the sealed messages are summarised.
FinishForce_StillSealed ==
    /\ Goto("forcing", "turn")
    /\ PersistCompaction(Compacted(engine.messages), engine.messages, force)
    /\ force' = NoForce
    /\ UNCHANGED <<frozen, pending, log, foreign>>

FinishForce ==
    /\ Goto("forcing", "turn")
    /\ LET new == Compacted(engine.messages)
       IN  /\ PersistCompaction(new, engine.messages, force)
           /\ frozen' = IF engine'.messages = new THEN 0 ELSE frozen
    /\ force' = NoForce
    /\ UNCHANGED <<pending, log, foreign>>
-----------------------------------------------------------------------------
(* The provider's answer, and the end of the run. *)

\* An answer that calls a tool, with or without a text beside the call, one that is
\* cut short, or the final one.
Turn ==
    /\ phase = "turn"
    /\ \/ Say("call", "none", "tools") /\ bare' = bare \cup {said + 1}
       \/ Say("call", "small", "tools") /\ UNCHANGED bare
       \/ \E next \in {"notice", "done"} : Say("reply", "small", next) /\ UNCHANGED bare
    /\ UNCHANGED frozen

ToolResults ==
    /\ phase = "tools"
    /\ \E size \in Sizes, next \in {"top", "notice"} : Say("result", size, next)
    /\ bare' = IF unsaved' = unsaved THEN bare \ {said} ELSE bare
    /\ UNCHANGED frozen

\* A git status and a recap after the tools, or a recovery notice.
Notice ==
    /\ phase = "notice"
    /\ \E next \in {"top", "notice"} : Say("prompt", "small", next)
    /\ UNCHANGED <<frozen, bare>>

\* The run's token is cancelled and the background task awaited.
EndRun ==
    /\ Goto("done", "idle")
    /\ pending' = None
    /\ UNCHANGED <<stored, engine, frozen, force, log, foreign, faults>>

\* The run is cancelled: every task that holds its token stops.
Cancel ==
    /\ phase \in {"top", "turn", "tools", "forcing"}
    /\ phase' = "idle"
    /\ pending' = None
    /\ force' = NoForce
    /\ UNCHANGED <<stored, engine, frozen, log, foreign, faults>>

\* The provider or the summariser fails for good and the loop returns the error.
Fail ==
    /\ phase \in {"turn", "forcing"}
    /\ phase' = "idle"
    /\ force' = NoForce
    /\ UNCHANGED <<stored, engine, frozen, pending, log, foreign, faults>>

(* The background task, and the other tasks that hold the session. *)

FinishBackground ==
    /\ pending.task = "running"
    /\ \E outcome \in {"finished", "failed"} :
          pending' = [pending EXCEPT !.task = outcome]
    /\ UNCHANGED <<stored, engine, loop, log, foreign, faults>>

WriteMetadata ==
    /\ Disturbances < MaxDisturbances
    /\ foreign' = foreign + 1
    /\ stored' = [stored EXCEPT !.revision = @ + 1]
    /\ UNCHANGED <<engine, pending, loop, log, faults>>

Next ==
    \/ StartRun \/ TrimInherited \/ KeepInherited \/ Prompt \/ Inject
    \/ TakeBackground \/ DropBackground \/ PassBackground
    \/ TrimOld \/ KeepOld \/ Prune \/ NoCompaction \/ Prefire
    \/ StartForce \/ FinishForce
    \/ Turn \/ ToolResults \/ Notice
    \/ EndRun \/ Cancel \/ Fail
    \/ FinishBackground \/ WriteMetadata

Spec == Init /\ [][Next]_vars
-----------------------------------------------------------------------------
Revisioned == [revision : Nat, messages : Seq(Message)]
Summaries  ==
    [task : {"running", "finished", "failed"}, summary : Seq(Message),
     count : Nat, revision : Nat]

\* The shape of the loop's state; the engine's revision is never ahead of the
\* session's, and the sealed prefix never longer than the messages.
TypeOK ==
    /\ stored \in Revisioned /\ engine \in Revisioned
    /\ engine.revision <= stored.revision
    /\ frozen \in 0..Len(engine.messages)
    /\ pending \in Summaries \cup {None}
    /\ force \in Nat \cup {NoForce}
    /\ phase \in {"idle", "inherit", "prompt", "top", "taken", "weigh", "heavy",
                  "forcing", "turn", "tools", "notice", "done"}
    /\ said \in 0..MaxUtterances
    /\ unsaved \subseteq 1..said /\ injected \subseteq 1..said /\ bare \subseteq 1..said
    /\ foreign \in Nat /\ faults \in Nat

\* Compaction summarises, it does not forget: every message the session accepted
\* is in its transcript, verbatim or under a summary that was made from it, unless
\* it answers a call the session never got, or is a call without a text whose answer
\* the session never got: these the repair removes (loop_.rs:4147-4178).
NothingForgotten ==
    \A n \in (1..said) \ (unsaved \cup injected \cup bare) :
        n \in Meaning(stored.messages) \/ n - 1 \in unsaved

\* loop_.rs:1413-1419: the provider rejects a request unless every call is directly
\* followed by its result and every result directly follows its call.
RequestWellPaired ==
    phase = "turn" => RepairToolPairing(engine.messages) = engine.messages

\* loop_.rs:2274-2282: the next run hydrates what this run sent to the provider; the
\* introduction of compact.rs (lines 6-7) has the session file keep the full history
\* instead, which it does not since compactions are persisted.  As long as the
\* session has failed nothing, whatever was trimmed or summarised and whichever
\* swaps were lost, a request shows the messages the next run starts from, but for
\* those that were injected since the last swap.
RequestMatchesSession ==
    faults = 0 /\ phase = "turn" =>
        Gist(engine.messages) = Gist(RepairToolPairing(stored.messages))

\* loop_.rs:2212-2226 calls a background summary stale when the transcript changed
\* since its spawn: inside a run the model is never shown less than it was shown
\* before, because no stale summary replaces the messages.
ContextNeverShrinks ==
    [][phase # "idle" => Meaning(engine.messages) \subseteq Meaning(engine'.messages)]_vars

\* compact.rs:352-354: "The persisted session transcript is never modified -
\* pruning only shrinks the in-memory projection".
PruningStaysInMemory ==
    \A i \in DOMAIN stored.messages : stored.messages[i].text # "pruned"

\* README.md:132 promises a pre-compaction by asynchronous background
\* summarisation: where no other task writes and no command fails, a finished
\* summary replaces the messages when it is picked up.
BackgroundSummaryUsed ==
    [][phase = "top" /\ pending.task = "finished" /\ phase' = "taken"
          => engine'.messages = pending.summary]_vars
=============================================================================
