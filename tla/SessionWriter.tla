--------------------------- MODULE SessionWriter ---------------------------
(***************************************************************************)
(* One persisted session of NonoClaw: the writer actor that owns it        *)
(* (writer_loop in engine/src/session.rs), the JSONL file it keeps, the    *)
(* queue of commands in front of it and the tasks that hold a handle.      *)
(* Every task waits for the answer to its command (Session::request), the  *)
(* writer takes commands one at a time, and the process may crash, or drop *)
(* every handle, and load the file again.                                  *)
(***************************************************************************)
EXTENDS Integers, Sequences, FiniteSets, Selection

CONSTANTS
    Clients,         \* tasks that hold a clone of the Session handle
    Operations,      \* commands the tasks issue: a subset of AllOperations
    Kinds,           \* kinds of JSONL lines they append: a subset of AllKinds
    Faults,          \* I/O errors the disk may return: a subset of AllFaults
    TornAppends,     \* TRUE: a crash may fall inside an append
    PageSize,        \* the `limit` of a load_older page
    MaxEntries,      \* bound: mutating commands issued
    MaxCrashes,      \* bound: process crashes
    MaxFaults        \* bound: I/O errors

MessageKinds  == {"text", "call", "result"}
AllKinds      == MessageKinds \cup {"title", "usage", "trace"}
AllOperations == {"append", "compact", "clear", "snapshot", "page"}
AllFaults     == {"open", "json", "newline", "append-rewrite",
                  "compact-rewrite", "clear-rewrite"}

ASSUME ClientsAssumption == IsFiniteSet(Clients)
ASSUME ChoiceAssumption  == /\ Operations \subseteq AllOperations
                            /\ Kinds \subseteq AllKinds
                            /\ Faults \subseteq AllFaults
                            /\ TornAppends \in BOOLEAN
ASSUME BoundAssumption   == /\ PageSize \in Nat \ {0}
                            /\ MaxEntries \in Nat
                            /\ MaxCrashes \in Nat
                            /\ MaxFaults \in Nat

VARIABLES
    disk,        \* the JSONL file below its header: does it exist, its complete
                 \* lines, and what follows the last newline
    revision,    \* SessionState::revision
    messages,    \* SessionState::messages
    preserved,   \* SessionState::preserved, the lines the next rewrite stores
    usage,       \* SessionState::cumulative_usage
    stale,       \* SessionState::needs_rewrite
    writer,      \* the writer thread: "up", "down" (no handle) or "dead" (panicked)
    step,        \* "idle", or "newline" between the two writes of append_value
    queue,       \* the mpsc channel
    waiting,     \* the tasks awaiting a oneshot reply
    view,        \* each task's last snapshot
    nextId,      \* identity of the next line, fresh for every mutating command
    crashes, faults

file   == <<disk>>
memory == <<revision, messages, preserved, usage, stale>>
tasks  == <<waiting, view>>
budget == <<crashes, faults>>
vars   == <<disk, revision, messages, preserved, usage, stale, writer, step,
            queue, waiting, view, nextId, crashes, faults>>
-----------------------------------------------------------------------------
(* Lines.  A result carries the id of the call it answers. *)

Line   == [kind : AllKinds, id : Nat]
NoLine == [kind |-> "none", id |-> 0]
Torn   == [kind |-> "torn", id |-> 0]      \* an unterminated, unparseable tail
Tail_  == Line \cup {NoLine, Torn}

Message       == [kind : MessageKinds, id : Nat]
Metadata      == [kind : AllKinds \ MessageKinds, id : Nat]
MessagesIn(s) == Select(s, Message)
MetadataIn(s) == Select(s, Metadata)

\* repair_tool_pairing for messages of one block each: a call stays only when
\* its result is the next message, a result only right behind its call.
Paired(s, l) ==
    LET call   == [kind |-> "call", id |-> l.id]
        result == [kind |-> "result", id |-> l.id]
    IN  l.kind \in {"call", "result"} =>
            \E i \in 1..(Len(s) - 1) : s[i] = call /\ s[i + 1] = result
RepairToolPairing(s) == Select(s, {l \in Line : Paired(s, l)})

\* A parseable line without its newline is still a line to the loader.
Readable(d) == IF d.tail \in {NoLine, Torn} THEN d.lines ELSE Append(d.lines, d.tail)

\* Trace batches and run outcomes are read back without counting as revisions.
\* Mutant: one arm of the loader forgets revision += 1.
CountedLine_UsageForgotten == [kind : AllKinds \ {"trace", "usage"}, id : Nat]
CountedLine == [kind : AllKinds \ {"trace"}, id : Nat]
LoadedRevision(d) == Len(Select(Readable(d), CountedLine))

UsageLine    == [kind : {"usage"}, id : Nat]
UsageIn(s)   == Select(s, UsageLine)

LastUsage(s) == IF UsageIn(s) = <<>> THEN 0 ELSE UsageIn(s)[Len(UsageIn(s))].id
-----------------------------------------------------------------------------
Empty == [exists |-> FALSE, lines |-> <<>>, tail |-> NoLine]
NoView == [revision |-> 0, messages |-> <<>>]

Init ==
    /\ disk = Empty
    /\ revision = 0 /\ messages = <<>> /\ preserved = <<>> /\ usage = 0
    /\ stale = TRUE
    /\ writer = "down" /\ step = "idle" /\ queue = <<>>
    /\ waiting = {}
    /\ view = [c \in Clients |-> NoView]
    /\ nextId = 1
    /\ crashes = 0 /\ faults = 0

\* Mutant: the repaired messages are not carried over to the preserved lines.
Rebuilt_NotRebuilt(lines) == lines
Rebuilt(lines) ==
    LET loaded   == MessagesIn(lines)
        repaired == RepairToolPairing(loaded)
    IN  IF repaired = loaded THEN lines ELSE MetadataIn(lines) \o repaired

\* open_actor: load the file, or start from SessionState::fresh.
Open ==
    /\ writer = "down"
    /\ writer' = "up"
    /\ IF disk.exists
       THEN LET lines    == Readable(disk)
                loaded   == MessagesIn(lines)
                repaired == RepairToolPairing(loaded)
            IN  /\ revision' = LoadedRevision(disk)
                /\ messages' = repaired
                /\ preserved' = Rebuilt(lines)
                /\ usage' = LastUsage(lines)
                /\ stale' = (repaired # loaded)
       ELSE /\ revision' = 0 /\ messages' = <<>> /\ preserved' = <<>>
            /\ usage' = 0 /\ stale' = TRUE
    /\ UNCHANGED <<disk, step, queue, tasks, nextId, budget>>

\* The last handle is dropped, with what its holder knew: rx.recv() fails once the
\* queue is drained and the thread ends; the Weak registry entry no longer upgrades.
Close ==
    /\ writer \in {"up", "dead"}
    /\ step = "idle" /\ queue = <<>> /\ waiting = {}
    /\ writer' = "down"
    /\ view' = [c \in Clients |-> NoView]
    /\ UNCHANGED <<disk, memory, step, queue, waiting, nextId, budget>>

\* The process dies.  Inside append_value it leaves the JSON without its newline,
\* or only part of it.
Crash ==
    /\ crashes < MaxCrashes
    /\ writer # "down"
    /\ step = "newline" => TornAppends
    /\ \/ UNCHANGED disk
       \/ step = "newline" /\ disk' = [disk EXCEPT !.tail = Torn]
    /\ crashes' = crashes + 1
    /\ writer' = "down" /\ step' = "idle" /\ queue' = <<>>
    /\ waiting' = {}
    /\ view' = [c \in Clients |-> NoView]
    /\ UNCHANGED <<memory, nextId, faults>>
-----------------------------------------------------------------------------
(* Session::request: the command is queued and the task awaits the reply. *)

Send(c, op, command) ==
    /\ op \in Operations
    /\ writer = "up"
    /\ c \notin waiting
    /\ waiting' = waiting \cup {c}
    /\ queue' = Append(queue, command)
    /\ UNCHANGED <<disk, memory, writer, step, view, budget>>

\* A tool result answers the newest message the task has seen, a call.
LineToAppend(c, kind) ==
    LET seen == view[c].messages
    IN  IF kind = "result" /\ seen # <<>> /\ seen[Len(seen)].kind = "call"
        THEN [kind |-> kind, id |-> seen[Len(seen)].id]
        ELSE [kind |-> kind, id |-> nextId]

SendAppend(c, kind) ==
    /\ nextId <= MaxEntries
    /\ nextId' = nextId + 1
    /\ Send(c, "append", [op |-> "append", from |-> c, line |-> LineToAppend(c, kind)])

\* compact_now: the transcript of the snapshot the engine was built from is
\* replaced by a shorter one, on condition that its revision still stands.
SendCompact(c) ==
    /\ nextId <= MaxEntries
    /\ Len(view[c].messages) >= 2
    /\ nextId' = nextId + 1
    /\ Send(c, "compact",
            [op |-> "compact", from |-> c, expected |-> view[c].revision,
             messages |-> << [kind |-> "text", id |-> nextId] >>])

SendClear(c) ==
    /\ nextId <= MaxEntries
    /\ nextId' = nextId + 1
    /\ Send(c, "clear", [op |-> "clear", from |-> c])

SendSnapshot(c) ==
    /\ Send(c, "snapshot", [op |-> "snapshot", from |-> c])
    /\ UNCHANGED nextId

\* LoadOlder: `before` is clamped to the length of a snapshot taken just before.
SendPage(c) ==
    /\ \E before \in 0..Len(view[c].messages) :
          Send(c, "page", [op |-> "page", from |-> c, before |-> before])
    /\ UNCHANGED nextId
-----------------------------------------------------------------------------
(* writer_loop: one command at a time, answered before the next is taken. *)

Command == Head(queue)

Taken(op) ==
    /\ writer = "up" /\ step = "idle" /\ queue # <<>>
    /\ Command.op = op

Answer ==
    /\ queue' = Tail(queue)
    /\ waiting' = waiting \ {Command.from}
    /\ UNCHANGED <<writer, nextId, crashes>>

Fails(fault) ==
    /\ fault \in Faults
    /\ faults < MaxFaults
    /\ faults' = faults + 1

\* rewrite: a temporary file is written, synced and renamed over the session file.
Rewritten(lines) == [exists |-> TRUE, lines |-> lines, tail |-> NoLine]

HandleSnapshot ==
    /\ Taken("snapshot")
    /\ view' = [view EXCEPT ![Command.from] =
                    [revision |-> revision, messages |-> messages]]
    /\ Answer
    /\ UNCHANGED <<disk, memory, step, faults>>

PageStart == IF Command.before > PageSize THEN Command.before - PageSize ELSE 0
PageEnd   == IF Command.before < Len(messages) THEN Command.before ELSE Len(messages)

HandlePage ==
    /\ Taken("page")
    /\ PageStart <= PageEnd
    /\ Answer
    /\ UNCHANGED <<disk, memory, step, view, faults>>

\* Mutant: the panicking thread keeps the commands it has not taken.
PagePanics_QueueKept ==
    /\ Taken("page")
    /\ PageStart > PageEnd
    /\ writer' = "dead"
    /\ queue' = Tail(queue)
    /\ waiting' = waiting \ {Command.from}
    /\ UNCHANGED <<disk, memory, step, view, nextId, budget>>

\* messages[start..end] with start beyond end panics: the thread unwinds, every
\* queued reply sender is dropped and each waiting task reads Closed.
PagePanics ==
    /\ Taken("page")
    /\ PageStart > PageEnd
    /\ writer' = "dead"
    /\ queue' = <<>>
    /\ waiting' = {}
    /\ UNCHANGED <<disk, memory, step, view, nextId, budget>>

\* AppendMessage and AppendMetadata once mutate_append has returned Ok.
Appended(line) ==
    /\ preserved' = Append(preserved, line)
    /\ messages' = IF line \in Message THEN Append(messages, line) ELSE messages
    /\ usage' = IF line.kind = "usage" THEN line.id ELSE usage
    /\ stale' = FALSE
    /\ revision' = revision + 1
    /\ UNCHANGED <<view, faults>>

NeedsRewrite == stale \/ ~disk.exists

HandleAppendRewrite ==
    /\ Taken("append")
    /\ NeedsRewrite
    /\ disk' = Rewritten(Append(preserved, Command.line))
    /\ Appended(Command.line)
    /\ Answer
    /\ UNCHANGED step

\* Mutant: the line is pushed before the write and not popped when it fails.
AppendFails_NotPopped ==
    /\ Taken("append")
    /\ Fails(IF NeedsRewrite THEN "append-rewrite" ELSE "open")
    /\ preserved' = Append(preserved, Command.line)
    /\ Answer
    /\ UNCHANGED <<disk, revision, messages, usage, stale, step, view>>

\* The failed rewrite pops the pushed line; a failed open changes nothing.
AppendFails ==
    /\ Taken("append")
    /\ Fails(IF NeedsRewrite THEN "append-rewrite" ELSE "open")
    /\ Answer
    /\ UNCHANGED <<disk, memory, step, view>>

\* append_value writes the JSON behind whatever the file ends with ...
WriteJson ==
    /\ Taken("append")
    /\ ~NeedsRewrite
    /\ step' = "newline"
    /\ disk' = [disk EXCEPT !.tail = IF @ = NoLine THEN Command.line ELSE Torn]
    /\ UNCHANGED <<memory, writer, queue, tasks, nextId, budget>>

\* ... then the newline, which makes a line of the tail if it parses.
WriteNewline ==
    /\ writer = "up" /\ step = "newline"
    /\ step' = "idle"
    /\ disk' = [disk EXCEPT !.lines = Readable(disk), !.tail = NoLine]
    /\ Appended(Command.line)
    /\ Answer

\* The JSON was cut short, or the newline never written: the append is refused
\* and the tail stays in the file.
WriteFails ==
    /\ writer = "up" /\ step = "newline"
    /\ \/ Fails("json") /\ disk' = [disk EXCEPT !.tail = Torn]
       \/ Fails("newline") /\ UNCHANGED disk
    /\ step' = "idle"
    /\ Answer
    /\ UNCHANGED <<memory, view>>

\* ReplaceAfterCompact: a compare-and-swap on the revision.
\* Mutant: the transcript is replaced whatever the revision.
Current_Always == TRUE
Current == Command.expected = revision
Replaced(new) == MetadataIn(preserved) \o new

HandleCompact ==
    /\ Taken("compact")
    /\ Current
    /\ messages' = Command.messages
    /\ preserved' = Replaced(Command.messages)
    /\ disk' = Rewritten(preserved')
    /\ stale' = FALSE
    /\ revision' = revision + 1
    /\ Answer
    /\ UNCHANGED <<usage, step, view, faults>>

RefuseCompact ==
    /\ Taken("compact")
    /\ ~Current
    /\ Answer
    /\ UNCHANGED <<disk, memory, step, view, faults>>

\* replace_messages has already run when rewrite fails; nothing undoes it.
CompactFails ==
    /\ Taken("compact")
    /\ Current
    /\ Fails("compact-rewrite")
    /\ messages' = Command.messages
    /\ preserved' = Replaced(Command.messages)
    /\ Answer
    /\ UNCHANGED <<disk, revision, usage, stale, step, view>>

\* Clear writes a bare header and keeps the usage total in memory only.
HandleClear ==
    /\ Taken("clear")
    /\ disk' = Rewritten(<<>>)
    /\ preserved' = <<>> /\ messages' = <<>>
    /\ stale' = FALSE
    /\ revision' = revision + 1
    /\ Answer
    /\ UNCHANGED <<usage, step, view, faults>>

ClearFails ==
    /\ Taken("clear")
    /\ Fails("clear-rewrite")
    /\ Answer
    /\ UNCHANGED <<disk, memory, step, view>>
-----------------------------------------------------------------------------
WriterStep ==
    \/ HandleSnapshot
    \/ HandlePage \/ PagePanics
    \/ HandleAppendRewrite \/ AppendFails
    \/ WriteJson \/ WriteNewline \/ WriteFails
    \/ HandleCompact \/ RefuseCompact \/ CompactFails
    \/ HandleClear \/ ClearFails

ClientStep(c) ==
    \/ \E kind \in Kinds : SendAppend(c, kind)
    \/ SendCompact(c) \/ SendClear(c)
    \/ SendSnapshot(c) \/ SendPage(c)

Next ==
    \/ \E c \in Clients : ClientStep(c)
    \/ WriterStep
    \/ Open \/ Close \/ Crash

\* The writer thread is scheduled by the operating system.
Spec     == Init /\ [][Next]_vars
FairSpec == Spec /\ WF_vars(WriterStep)
-----------------------------------------------------------------------------
Commands ==
    [op : {"append"}, from : Clients, line : Line]
    \cup [op : {"compact"}, from : Clients, expected : Nat, messages : Seq(Message)]
    \cup [op : {"clear", "snapshot"}, from : Clients]
    \cup [op : {"page"}, from : Clients, before : Nat]

\* The shape of the state of session.rs.
TypeOK ==
    /\ disk \in [exists : BOOLEAN, lines : Seq(Line), tail : Tail_]
    /\ revision \in Nat /\ usage \in Nat
    /\ messages \in Seq(Line) /\ preserved \in Seq(Line)
    /\ stale \in BOOLEAN
    /\ writer \in {"up", "down", "dead"}
    /\ step \in {"idle", "newline"}
    /\ queue \in Seq(Commands)
    /\ waiting \subseteq Clients
    /\ view \in [Clients -> [revision : Nat, messages : Seq(Line)]]
    /\ nextId \in Nat \ {0} /\ crashes \in Nat /\ faults \in Nat

\* session.rs:3-5, "the in-memory revision and JSONL order advance together":
\* between two commands the file holds exactly the lines the writer would store,
\* whatever mixture of appends, rewrites, repairs and reloads came before, unless
\* the writer knows that it owes the file a rewrite.
JsonlMatchesMemory ==
    writer = "up" /\ step = "idle" /\ disk.exists /\ ~stale
        => disk.lines = preserved /\ disk.tail = NoLine

\* The two in-memory copies of the transcript agree: the message list answered to
\* snapshots is the message list the next rewrite stores.
TranscriptMatchesPreserved ==
    writer = "up" => messages = MessagesIn(preserved)

\* session.rs:111, "Revisions increase exactly once per successful mutation
\* command": inside one writer's life the transcript never changes under an
\* unchanged revision, so two snapshots of one revision are equal.
RevisionNamesTranscript ==
    [][writer = "up" /\ writer' = "up" /\ messages' # messages
          => revision' = revision + 1]_vars

\* The compaction of a session replaces only what its summary was made from: the
\* transcript thrown away is the one in the snapshot the task's engine was built
\* from, whatever was appended, cleared or compacted by others while it summarised.
CompactsWhatItSaw ==
    [][Taken("compact") /\ preserved' # preserved
          => view[Command.from].messages = messages]_vars

\* A torn append costs at most the line it tore: everything the writer has
\* acknowledged since it loaded the file can be read back from the file.
AcknowledgedIsReadable ==
    writer = "up" /\ step = "idle" /\ disk.exists /\ ~stale
        => Readable(disk) = preserved

\* A history page is "a pure read" (session.rs:1157-1159): it leaves the writer alive.
ReadsLeaveWriterAlive == writer # "dead"

\* Every command is answered as long as the process lives.
EveryCommandAnswered == \A c \in Clients : (c \in waiting) ~> (c \notin waiting)
=============================================================================
