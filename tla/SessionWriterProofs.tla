------------------------ MODULE SessionWriterProofs ------------------------
(***************************************************************************)
(* Theorems about SessionWriter, for any number of tasks, any operations   *)
(* and any bounds: its types, and the agreement of the JSONL file with the *)
(* writer's memory as long as no append is torn (SessionTornAppend.cfg     *)
(* shows that this is needed), fails half-way or is lost by the rewrite of *)
(* a compaction.                                                           *)
(***************************************************************************)
EXTENDS SessionHistory, SelectionProofs

-----------------------------------------------------------------------------
USE DEF Command

-----------------------------------------------------------------------------
(* Types of the helpers. *)

\* Messages and metadata are disjoint kinds of lines.
LEMMA LineKinds ==
    /\ Message \subseteq Line /\ Metadata \subseteq Line
    /\ Message \cap Metadata = {}
    /\ \A l \in Line : l \in Message \/ l \in Metadata
BY DEF Message, Metadata, Line, AllKinds, MessageKinds

\* A selection of lines is a sequence of lines.
LEMMA SelectLines ==
    ASSUME NEW s \in Seq(Line), NEW keep
    PROVE  Select(s, keep) \in Seq(Line)
<1>1. Select(s, keep) \in Seq(Line \cap keep)  BY SelectType
<1> HIDE DEF Select
<1> QED  BY <1>1, SeqMonotonic

\* What the loader reads is a sequence of lines.
LEMMA ReadableType ==
    ASSUME NEW d, d \in [exists : BOOLEAN, lines : Seq(Line), tail : Tail_]
    PROVE  Readable(d) \in Seq(Line)
BY DEF Readable, Tail_

\* The usage total read back is the number of a line.
LEMMA LastUsageType ==
    ASSUME NEW s \in Seq(Line)
    PROVE  LastUsage(s) \in Nat
<1> DEFINE u == UsageIn(s)
<1>1. u \in Seq(Line)  BY SelectLines DEF UsageIn
<1>2. CASE u = <<>>  BY <1>2 DEF LastUsage
<1>3. CASE u # <<>>
  <2> HIDE DEF u
  <2>1. Len(u) \in 1..Len(u)  BY <1>1, <1>3
  <2>2. u[Len(u)] \in Line  BY <1>1, <2>1, ElementOfSeq
  <2>3. u[Len(u)].id \in Nat  BY <2>2 DEF Line
  <2> QED  BY <2>3, <1>3 DEF LastUsage, u
<1> QED  BY <1>2, <1>3

\* A revision counted from the file is a natural number.
LEMMA LoadedRevisionType ==
    ASSUME NEW d, d \in [exists : BOOLEAN, lines : Seq(Line), tail : Tail_]
    PROVE  LoadedRevision(d) \in Nat
<1>1. Select(Readable(d), CountedLine) \in Seq(Line)  BY ReadableType, SelectLines
<1> HIDE DEF Select
<1> QED  BY <1>1, LenProperties DEF LoadedRevision

\* The line a task asks for is a line.
LEMMA LineToAppendType ==
    ASSUME TypeOK, NEW c \in Clients, NEW kind \in Kinds
    PROVE  LineToAppend(c, kind) \in Line
<1> DEFINE seen == view[c].messages
<1>1. kind \in AllKinds  BY ChoiceAssumption
<1>2. nextId \in Nat  BY DEF TypeOK
<1>3. seen \in Seq(Line)  BY DEF TypeOK
<1>4. ASSUME seen # <<>> PROVE seen[Len(seen)].id \in Nat
  <2> HIDE DEF seen
  <2>1. Len(seen) \in 1..Len(seen)  BY <1>3, <1>4
  <2>2. seen[Len(seen)] \in Line  BY <1>3, <2>1, ElementOfSeq
  <2> QED  BY <2>2 DEF Line
<1> QED  BY <1>1, <1>2, <1>4 DEF LineToAppend, Line
-----------------------------------------------------------------------------
(* Type correctness. *)

\* The command being handled is one a task may send.
LEMMA HeadCommand ==
    ASSUME TypeOK, queue # <<>>
    PROVE  Head(queue) \in Commands /\ Tail(queue) \in Seq(Commands)
<1> USE DEF TypeOK
<1>1. queue \in Seq(Commands)  OBVIOUS
<1> HIDE DEF Commands
<1> QED  BY <1>1, HeadTailProperties

LEMMA AppendCommand ==
    ASSUME TypeOK, queue # <<>>, Head(queue).op = "append"
    PROVE  Head(queue).line \in Line
<1>1. Head(queue) \in Commands  BY HeadCommand
<1> QED  BY <1>1 DEF Commands

LEMMA CompactCommand ==
    ASSUME TypeOK, queue # <<>>, Head(queue).op = "compact"
    PROVE  Head(queue).messages \in Seq(Message) /\ Head(queue).messages \in Seq(Line)
<1>1. Head(queue) \in Commands  BY HeadCommand
<1>2. Head(queue).messages \in Seq(Message)  BY <1>1 DEF Commands
<1> QED  BY <1>2, LineKinds, SeqMonotonic

\* Queueing a command keeps the types.
LEMMA SendType ==
    ASSUME TypeOK, NEW c \in Clients, NEW op, NEW command \in Commands,
           Send(c, op, command), nextId' \in Nat \ {0}
    PROVE  TypeOK'
<1> USE DEF TypeOK
<1>1. queue' \in Seq(Commands)
  <2>1. queue \in Seq(Commands) /\ queue' = Append(queue, command)  BY DEF Send
  <2> HIDE DEF Commands, TypeOK
  <2> QED  BY <2>1, AppendProperties
<1>2. waiting' \subseteq Clients  BY DEF Send
<1> HIDE DEF Commands
<1> QED  BY <1>1, <1>2 DEF Send, memory, budget

LEMMA ClientStepType ==
    ASSUME TypeOK, NEW c \in Clients, ClientStep(c)
    PROVE  TypeOK'
<1>0. nextId \in Nat \ {0}  BY DEF TypeOK
<1>1. ASSUME NEW kind \in Kinds, SendAppend(c, kind) PROVE TypeOK'
  <2> DEFINE q == [op |-> "append", from |-> c, line |-> LineToAppend(c, kind)]
  <2>1. q \in Commands  BY LineToAppendType DEF Commands
  <2>2. nextId' \in Nat \ {0}  BY <1>0, <1>1 DEF SendAppend
  <2>3. Send(c, "append", q)  BY <1>1 DEF SendAppend
  <2> HIDE DEF q
  <2> QED  BY <2>1, <2>2, <2>3, SendType
<1>2. ASSUME SendCompact(c) PROVE TypeOK'
  <2> DEFINE q == [op |-> "compact", from |-> c, expected |-> view[c].revision,
                   messages |-> << [kind |-> "text", id |-> nextId] >>]
  <2>1. q \in Commands
    <3>1. view[c].revision \in Nat  BY DEF TypeOK
    <3>2. [kind |-> "text", id |-> nextId] \in Message
      BY <1>0 DEF Message, MessageKinds
    <3> QED  BY <3>1, <3>2 DEF Commands
  <2>2. nextId' \in Nat \ {0}  BY <1>0, <1>2 DEF SendCompact
  <2>3. Send(c, "compact", q)  BY <1>2 DEF SendCompact
  <2> HIDE DEF q
  <2> QED  BY <2>1, <2>2, <2>3, SendType
<1>3. ASSUME SendClear(c) PROVE TypeOK'
  <2>1. [op |-> "clear", from |-> c] \in Commands  BY DEF Commands
  <2>2. nextId' \in Nat \ {0}  BY <1>0, <1>3 DEF SendClear
  <2> QED  BY <2>1, <2>2, <1>3, SendType DEF SendClear
<1>4. ASSUME SendSnapshot(c) PROVE TypeOK'
  <2>1. [op |-> "snapshot", from |-> c] \in Commands  BY DEF Commands
  <2>2. nextId' \in Nat \ {0}  BY <1>0, <1>4 DEF SendSnapshot
  <2> QED  BY <2>1, <2>2, <1>4, SendType DEF SendSnapshot
<1>5. ASSUME SendPage(c) PROVE TypeOK'
  <2>0. view[c].messages \in Seq(Line)  BY DEF TypeOK
  <2>1. PICK before \in 0..Len(view[c].messages) :
            Send(c, "page", [op |-> "page", from |-> c, before |-> before])
    BY <1>5 DEF SendPage
  <2>2. before \in Nat  BY <2>0, LenProperties
  <2>3. [op |-> "page", from |-> c, before |-> before] \in Commands
    BY <2>2 DEF Commands
  <2>4. nextId' \in Nat \ {0}  BY <1>0, <1>5 DEF SendPage
  <2> QED  BY <2>1, <2>3, <2>4, SendType
<1> QED  BY <1>1, <1>2, <1>3, <1>4, <1>5 DEF ClientStep

\* An appended line keeps the types of the writer's memory.
LEMMA AppendedType ==
    ASSUME TypeOK, NEW line \in Line, Appended(line)
    PROVE  /\ preserved' \in Seq(Line) /\ messages' \in Seq(Line)
           /\ usage' \in Nat /\ stale' \in BOOLEAN /\ revision' \in Nat
<1> USE DEF TypeOK
<1>1. Append(preserved, line) \in Seq(Line)  BY AppendProperties
<1>2. Append(messages, line) \in Seq(Line)  BY AppendProperties
<1>3. line.id \in Nat  BY DEF Line
<1>4. messages' \in Seq(Line)  BY <1>2 DEF Appended
<1>5. usage' \in Nat  BY <1>3 DEF Appended
<1>6. stale' \in BOOLEAN  BY Zenon DEF Appended
<1>7. preserved' \in Seq(Line) /\ revision' \in Nat  BY <1>1 DEF Appended
<1> QED  BY <1>4, <1>5, <1>6, <1>7

\* Answering takes one command off the queue.
LEMMA AnswerType ==
    ASSUME TypeOK, queue # <<>>, Answer
    PROVE  /\ queue' \in Seq(Commands) /\ waiting' \subseteq Clients
           /\ writer' = writer /\ nextId' = nextId /\ crashes' = crashes
<1>1. Tail(queue) \in Seq(Commands)  BY HeadCommand
<1>2. waiting \subseteq Clients  BY DEF TypeOK
<1> QED  BY <1>1, <1>2 DEF Answer

\* What a compaction leaves in memory.
LEMMA ReplacedType ==
    ASSUME TypeOK, NEW new \in Seq(Line)
    PROVE  Replaced(new) \in Seq(Line)
<1>1. MetadataIn(preserved) \in Seq(Line)  BY SelectLines DEF TypeOK, MetadataIn
<1> QED  BY <1>1, ConcatProperties DEF Replaced

\* Between the two writes of append_value the command is still at the head.
AppendUnderWay ==
    step = "newline" =>
        /\ writer = "up" /\ queue # <<>> /\ Head(queue).op = "append"
        /\ disk.exists /\ ~stale

LEMMA WriterStepType ==
    ASSUME TypeOK, AppendUnderWay, WriterStep
    PROVE  TypeOK'
<1> USE DEF Taken, memory, tasks, budget, AppendUnderWay
<1>0. NoLine \in Tail_ /\ Torn \in Tail_ /\ Line \subseteq Tail_  BY DEF Tail_
<1>a. ASSUME NEW lines \in Seq(Line)
      PROVE  Rewritten(lines) \in [exists : BOOLEAN, lines : Seq(Line), tail : Tail_]
  BY <1>0 DEF Rewritten
<1>b. disk \in [exists : BOOLEAN, lines : Seq(Line), tail : Tail_]  BY DEF TypeOK
<1>1. CASE HandleSnapshot
  <2>1. queue # <<>>  BY <1>1 DEF HandleSnapshot
  <2>2. view' \in [Clients -> [revision : Nat, messages : Seq(Line)]]
    BY <1>1 DEF HandleSnapshot, TypeOK
  <2> QED  BY <1>1, <2>1, <2>2, AnswerType DEF HandleSnapshot, TypeOK
<1>2. CASE HandlePage
  <2>1. queue # <<>>  BY <1>2 DEF HandlePage
  <2> QED  BY <1>2, <2>1, AnswerType DEF HandlePage, TypeOK
<1>3. CASE PagePanics
  <2>1. <<>> \in Seq(Commands)  BY EmptySeq
  <2> QED  BY <1>3, <2>1 DEF PagePanics, TypeOK
<1>4. CASE HandleAppendRewrite
  <2>1. queue # <<>> /\ Head(queue).line \in Line
    BY <1>4, AppendCommand DEF HandleAppendRewrite
  <2>2. Append(preserved, Head(queue).line) \in Seq(Line)
    BY <2>1, AppendProperties DEF TypeOK
  <2>3. disk' \in [exists : BOOLEAN, lines : Seq(Line), tail : Tail_]
    BY <1>4, <1>a, <2>2 DEF HandleAppendRewrite
  <2>4. Appended(Head(queue).line) /\ Answer /\ step' = step
    BY <1>4 DEF HandleAppendRewrite
  <2>5. view' = view /\ faults' = faults  BY <2>4 DEF Appended
  <2> QED  BY <2>1, <2>3, <2>4, <2>5, AppendedType, AnswerType DEF TypeOK
<1>5. CASE AppendFails
  <2>1. queue # <<>>  BY <1>5 DEF AppendFails
  <2>2. faults' \in Nat  BY <1>5 DEF AppendFails, Fails, TypeOK
  <2> QED  BY <1>5, <2>1, <2>2, AnswerType DEF AppendFails, TypeOK
<1>6. CASE WriteJson
  <2>1. Head(queue).line \in Line  BY <1>6, AppendCommand DEF WriteJson
  <2>2. disk' \in [exists : BOOLEAN, lines : Seq(Line), tail : Tail_]
    BY <1>6, <1>0, <1>b, <2>1 DEF WriteJson
  <2> QED  BY <1>6, <2>2 DEF WriteJson, TypeOK
<1>7. CASE WriteNewline
  <2>1. queue # <<>> /\ Head(queue).line \in Line
    BY <1>7, AppendCommand DEF WriteNewline
  <2>2. Readable(disk) \in Seq(Line)  BY <1>b, ReadableType
  <2>3. disk' \in [exists : BOOLEAN, lines : Seq(Line), tail : Tail_]
    BY <1>7, <1>0, <1>b, <2>2 DEF WriteNewline
  <2>4. Appended(Head(queue).line) /\ Answer /\ step' = "idle"
    BY <1>7 DEF WriteNewline
  <2>5. view' = view /\ faults' = faults  BY <2>4 DEF Appended
  <2> QED  BY <2>1, <2>3, <2>4, <2>5, AppendedType, AnswerType DEF TypeOK
<1>8. CASE WriteFails
  <2>1. queue # <<>>  BY <1>8 DEF WriteFails
  <2>2. faults' \in Nat  BY <1>8 DEF WriteFails, Fails, TypeOK
  <2>3. disk' \in [exists : BOOLEAN, lines : Seq(Line), tail : Tail_]
    BY <1>8, <1>0, <1>b DEF WriteFails
  <2> QED  BY <1>8, <2>1, <2>2, <2>3, AnswerType DEF WriteFails, TypeOK
<1>9. CASE HandleCompact
  <2>1. queue # <<>> /\ Head(queue).messages \in Seq(Line)
    BY <1>9, CompactCommand DEF HandleCompact
  <2>2. preserved' \in Seq(Line)  BY <1>9, <2>1, ReplacedType DEF HandleCompact
  <2>3. disk' \in [exists : BOOLEAN, lines : Seq(Line), tail : Tail_]
    BY <1>9, <1>a, <2>2 DEF HandleCompact
  <2>4. revision' \in Nat /\ messages' \in Seq(Line)
    BY <1>9, <2>1 DEF HandleCompact, TypeOK
  <2>6. stale' \in BOOLEAN  BY <1>9, Zenon DEF HandleCompact
  <2>5. Answer /\ UNCHANGED <<usage, step, view, faults>>  BY <1>9 DEF HandleCompact
  <2> QED  BY <2>1, <2>2, <2>3, <2>4, <2>5, <2>6, AnswerType DEF TypeOK
<1>10. CASE RefuseCompact
  <2>1. queue # <<>>  BY <1>10 DEF RefuseCompact
  <2> QED  BY <1>10, <2>1, AnswerType DEF RefuseCompact, TypeOK
<1>11. CASE CompactFails
  <2>1. queue # <<>> /\ Head(queue).messages \in Seq(Line)
    BY <1>11, CompactCommand DEF CompactFails
  <2>2. preserved' \in Seq(Line)  BY <1>11, <2>1, ReplacedType DEF CompactFails
  <2>3. faults' \in Nat  BY <1>11 DEF CompactFails, Fails, TypeOK
  <2> QED  BY <1>11, <2>1, <2>2, <2>3, AnswerType DEF CompactFails, TypeOK
<1>12. CASE HandleClear
  <2>1. queue # <<>>  BY <1>12 DEF HandleClear
  <2>2. <<>> \in Seq(Line)  BY EmptySeq
  <2>3. disk' \in [exists : BOOLEAN, lines : Seq(Line), tail : Tail_]
    BY <1>12, <1>a, <2>2 DEF HandleClear
  <2>4. revision' \in Nat /\ messages' \in Seq(Line) /\ preserved' \in Seq(Line)
    BY <1>12, <2>2 DEF HandleClear, TypeOK
  <2>6. stale' \in BOOLEAN  BY <1>12, Zenon DEF HandleClear
  <2>5. Answer /\ UNCHANGED <<usage, step, view, faults>>  BY <1>12 DEF HandleClear
  <2> QED  BY <2>1, <2>3, <2>4, <2>5, <2>6, AnswerType DEF TypeOK
<1>13. CASE ClearFails
  <2>1. queue # <<>>  BY <1>13 DEF ClearFails
  <2>2. faults' \in Nat  BY <1>13 DEF ClearFails, Fails, TypeOK
  <2> QED  BY <1>13, <2>1, <2>2, AnswerType DEF ClearFails, TypeOK
<1> QED
  BY <1>1, <1>2, <1>3, <1>4, <1>5, <1>6, <1>7, <1>8, <1>9, <1>10, <1>11, <1>12,
     <1>13 DEF WriterStep

\* Loading the file, or starting afresh.
LEMMA OpenType == ASSUME TypeOK, Open PROVE TypeOK'
<1>1. <<>> \in Seq(Line)  BY EmptySeq
<1>2. disk \in [exists : BOOLEAN, lines : Seq(Line), tail : Tail_]  BY DEF TypeOK
<1> DEFINE lines == Readable(disk)
           loaded == MessagesIn(lines)
           repaired == RepairToolPairing(loaded)
<1>3. lines \in Seq(Line)  BY <1>2, ReadableType
<1> HIDE DEF lines
<1>4. loaded \in Seq(Line)  BY <1>3, SelectLines DEF MessagesIn
<1> HIDE DEF loaded
<1>5. repaired \in Seq(Line)  BY <1>4, SelectLines DEF RepairToolPairing
<1> HIDE DEF repaired
<1>6. MetadataIn(lines) \in Seq(Line)  BY <1>3, SelectLines DEF MetadataIn
<1>7. MetadataIn(lines) \o repaired \in Seq(Line)  BY <1>5, <1>6, ConcatProperties
<1>8. LoadedRevision(disk) \in Nat  BY <1>2, LoadedRevisionType
<1>9. LastUsage(lines) \in Nat  BY <1>3, LastUsageType
<1>10. /\ revision' \in Nat /\ usage' \in Nat
       /\ messages' \in Seq(Line) /\ preserved' \in Seq(Line)
       /\ stale' \in BOOLEAN
  <2>1. CASE disk.exists
    <3>1. /\ revision' = LoadedRevision(disk)
          /\ messages' = repaired
          /\ preserved' = IF repaired = loaded THEN lines
                          ELSE MetadataIn(lines) \o repaired
          /\ usage' = LastUsage(lines)
          /\ stale' = (repaired # loaded)
      BY <2>1 DEF Open, Rebuilt, lines, loaded, repaired
    <3> QED  BY <3>1, <1>3, <1>5, <1>7, <1>8, <1>9
  <2>2. CASE ~disk.exists  BY <2>2, <1>1 DEF Open, Rebuilt
  <2> QED  BY <2>1, <2>2
<1> QED  BY <1>10 DEF Open, TypeOK, tasks, budget

\* A command is queued behind the one being handled.
LEMMA SendKeepsHead ==
    ASSUME TypeOK, AppendUnderWay, NEW c \in Clients, ClientStep(c)
    PROVE  /\ queue # <<>> => queue' # <<>> /\ Head(queue') = Head(queue)
           /\ UNCHANGED <<disk, revision, messages, preserved, usage, stale, writer, step>>
<1>1. PICK command : queue' = Append(queue, command)
                     /\ UNCHANGED <<disk, revision, messages, preserved, usage,
                                    stale, writer, step>>
  BY Zenon DEF ClientStep, SendAppend, SendCompact, SendClear, SendSnapshot,
               SendPage, Send, memory
<1>2. queue \in Seq(Commands)  BY DEF TypeOK
<1> QED  BY <1>1, <1>2

LEMMA AppendUnderWayStep ==
    ASSUME TypeOK, AppendUnderWay, [Next]_vars
    PROVE  AppendUnderWay'
<1>1. CASE UNCHANGED vars  BY <1>1 DEF vars, AppendUnderWay
<1>2. ASSUME NEW c \in Clients, ClientStep(c) PROVE AppendUnderWay'
  BY <1>2, SendKeepsHead DEF AppendUnderWay
<1>3. CASE WriterStep
  <2>1. CASE WriteJson
    BY <2>1 DEF WriteJson, Taken, NeedsRewrite, AppendUnderWay, memory, TypeOK
  <2>2. CASE WriteNewline \/ WriteFails
    BY <2>2 DEF WriteNewline, WriteFails, AppendUnderWay
  <2>3. CASE ~WriteJson /\ ~WriteNewline /\ ~WriteFails
    <3>1. step' = step /\ step = "idle"
      BY <1>3, <2>3 DEF WriterStep, HandleSnapshot, HandlePage, PagePanics,
         HandleAppendRewrite, AppendFails, HandleCompact, RefuseCompact,
         CompactFails, HandleClear, ClearFails, Taken
    <3> QED  BY <3>1 DEF AppendUnderWay
  <2> QED  BY <2>1, <2>2, <2>3
<1>4. CASE Open  BY <1>4 DEF Open, AppendUnderWay
<1>5. CASE Close  BY <1>5 DEF Close, AppendUnderWay
<1>6. CASE Crash  BY <1>6 DEF Crash, AppendUnderWay
<1> QED  BY <1>1, <1>2, <1>3, <1>4, <1>5, <1>6 DEF Next

LEMMA InitType == Init => TypeOK /\ AppendUnderWay
<1> SUFFICES ASSUME Init PROVE TypeOK /\ AppendUnderWay  OBVIOUS
<1>1. <<>> \in Seq(Line) /\ <<>> \in Seq(Commands)  BY EmptySeq
<1>2. disk \in [exists : BOOLEAN, lines : Seq(Line), tail : Tail_]
  BY <1>1 DEF Init, Empty, Tail_
<1>3. view \in [Clients -> [revision : Nat, messages : Seq(Line)]]
  BY <1>1 DEF Init, NoView
<1> QED  BY <1>1, <1>2, <1>3 DEF Init, TypeOK, AppendUnderWay

LEMMA NextType ==
    ASSUME TypeOK, AppendUnderWay, [Next]_vars
    PROVE  TypeOK'
<1>0. [c \in Clients |-> NoView] \in [Clients -> [revision : Nat, messages : Seq(Line)]]
  BY EmptySeq DEF NoView
<1>1. CASE UNCHANGED vars  BY <1>1 DEF vars, TypeOK
<1>2. ASSUME NEW c \in Clients, ClientStep(c) PROVE TypeOK'  BY <1>2, ClientStepType
<1>3. CASE WriterStep  BY <1>3, WriterStepType
<1>4. CASE Open  BY <1>4, OpenType
<1>5. CASE Close  BY <1>5, <1>0 DEF Close, TypeOK, memory, budget
<1>6. CASE Crash
  <2>1. disk' \in [exists : BOOLEAN, lines : Seq(Line), tail : Tail_]
    BY <1>6 DEF Crash, TypeOK, Tail_
  <2>2. <<>> \in Seq(Commands)  BY EmptySeq
  <2> QED  BY <1>6, <1>0, <2>1, <2>2 DEF Crash, TypeOK, memory
<1> QED  BY <1>1, <1>2, <1>3, <1>4, <1>5, <1>6 DEF Next

\* Every variable of the writer, its file and its tasks keeps its type in every
\* behaviour.
THEOREM TypeCorrect == Spec => []TypeOK
<1>1. Init => TypeOK /\ AppendUnderWay  BY InitType
<1>2. TypeOK /\ AppendUnderWay /\ [Next]_vars => (TypeOK /\ AppendUnderWay)'
  BY NextType, AppendUnderWayStep
<1> QED  BY <1>1, <1>2, PTL DEF Spec
-----------------------------------------------------------------------------
(* The file and the memory agree. *)

\* No append is torn by a crash or an I/O error and the rewrite of a compaction
\* does not fail.  Every other fault is allowed.
FaithfulDisk ==
    /\ TornAppends = FALSE
    /\ Faults \cap {"json", "newline", "compact-rewrite"} = {}

\* JsonlMatchesMemory, continued over the two writes of an append and over the
\* times when no writer runs.
FileInv ==
    IF step = "newline"
    THEN disk.lines = preserved /\ disk.tail = Head(queue).line
    ELSE /\ disk.tail = NoLine
         /\ writer = "up" /\ disk.exists /\ ~stale => disk.lines = preserved

LEMMA FileInvStep ==
    ASSUME FaithfulDisk, TypeOK, AppendUnderWay, FileInv, [Next]_vars
    PROVE  FileInv'
<1> USE DEF FileInv, Rewritten
<1>0. disk \in [exists : BOOLEAN, lines : Seq(Line), tail : Tail_]  BY DEF TypeOK
<1>1. CASE UNCHANGED vars  BY <1>1 DEF vars
<1>2. ASSUME NEW c \in Clients, ClientStep(c) PROVE FileInv'
  BY <1>2, SendKeepsHead DEF AppendUnderWay
<1>3. CASE WriterStep
  <2>1. CASE HandleSnapshot \/ HandlePage \/ RefuseCompact \/ AppendFails \/ ClearFails
    BY <2>1 DEF HandleSnapshot, HandlePage, RefuseCompact, AppendFails, ClearFails,
       Taken, memory, Answer
  <2>2. CASE PagePanics  BY <2>2 DEF PagePanics, Taken
  <2>3. CASE HandleAppendRewrite
    BY <2>3 DEF HandleAppendRewrite, Taken, Appended
  <2>4. CASE WriteJson
    <3>1. step = "idle" /\ step' = "newline" /\ writer = "up" /\ disk.exists /\ ~stale
      BY <2>4 DEF WriteJson, Taken, NeedsRewrite
    <3>2. disk.tail = NoLine /\ disk.lines = preserved  BY <3>1
    <3>3. disk'.lines = disk.lines /\ disk'.tail = Head(queue).line
      BY <2>4, <3>2, <1>0 DEF WriteJson
    <3> QED  BY <2>4, <3>1, <3>2, <3>3 DEF WriteJson, memory
  <2>5. CASE WriteNewline
    <3>1. step = "newline" /\ step' = "idle"  BY <2>5 DEF WriteNewline
    <3>2. Head(queue).line \in Line  BY <3>1, AppendCommand DEF AppendUnderWay
    <3>3. disk.tail \notin {NoLine, Torn}
      BY <3>1, <3>2 DEF Line, NoLine, Torn, AllKinds, MessageKinds
    <3>4. Readable(disk) = Append(preserved, Head(queue).line)
      BY <3>1, <3>3 DEF Readable
    <3>5. disk'.lines = Readable(disk) /\ disk'.tail = NoLine
      BY <2>5, <1>0 DEF WriteNewline
    <3>6. preserved' = Append(preserved, Head(queue).line)
      BY <2>5 DEF WriteNewline, Appended
    <3> QED  BY <3>1, <3>4, <3>5, <3>6
  <2>6. CASE WriteFails
    BY <2>6 DEF WriteFails, Fails, FaithfulDisk
  <2>7. CASE HandleCompact
    BY <2>7 DEF HandleCompact, Taken
  <2>8. CASE CompactFails
    BY <2>8 DEF CompactFails, Fails, FaithfulDisk
  <2>9. CASE HandleClear
    BY <2>9 DEF HandleClear, Taken
  <2> QED  BY <1>3, <2>1, <2>2, <2>3, <2>4, <2>5, <2>6, <2>7, <2>8, <2>9 DEF WriterStep
<1>4. CASE Open
  <2>1. step # "newline" /\ step' # "newline" /\ disk' = disk
    BY <1>4 DEF Open, AppendUnderWay
  <2>2. disk.tail = NoLine  BY <2>1
  <2>3. Readable(disk) = disk.lines  BY <2>2 DEF Readable
  <2>4. disk'.exists /\ ~stale' => preserved' = disk.lines
    BY <1>4, <2>1, <2>3 DEF Open, Rebuilt
  <2> QED  BY <2>1, <2>2, <2>4
<1>5. CASE Close  BY <1>5 DEF Close, memory
<1>6. CASE Crash
  <2>1. step # "newline"  BY <1>6 DEF Crash, FaithfulDisk
  <2> QED  BY <1>6, <2>1 DEF Crash
<1> QED  BY <1>1, <1>2, <1>3, <1>4, <1>5, <1>6 DEF Next

\* session.rs:3-5: the JSONL file and the memory of the writer advance together,
\* across appends, lazy rewrites, compactions, clears, repairs and reloads, on a
\* disk that tears no append and fails no compaction.
THEOREM JsonlFidelity ==
    ASSUME FaithfulDisk
    PROVE  Spec => []JsonlMatchesMemory
<1> DEFINE IInv == TypeOK /\ AppendUnderWay /\ FileInv
<1>1. Init => IInv
  BY InitType DEF Init, FileInv, Empty
<1>2. IInv /\ [Next]_vars => IInv'
  BY NextType, AppendUnderWayStep, FileInvStep
<1>3. IInv => JsonlMatchesMemory
  BY DEF FileInv, JsonlMatchesMemory
<1> QED  BY <1>1, <1>2, <1>3, PTL DEF Spec
-----------------------------------------------------------------------------
(* The two in-memory transcripts agree, on any disk. *)

\* The metadata lines of a session hold no message.
LEMMA NoMessageInMetadata ==
    ASSUME NEW s \in Seq(Line)
    PROVE  MessagesIn(MetadataIn(s)) = <<>>
<1>1. MetadataIn(s) \in Seq(Line \cap Metadata)  BY SelectType DEF MetadataIn
<1>2. (Line \cap Metadata) \cap Message = {}  BY LineKinds
<1> HIDE DEF MetadataIn
<1> QED  BY <1>1, <1>2, SelectNone DEF MessagesIn

\* Putting messages behind the metadata makes them the transcript.
LEMMA MessagesOfReplaced ==
    ASSUME NEW s \in Seq(Line), NEW new \in Seq(Message)
    PROVE  MessagesIn(MetadataIn(s) \o new) = new
<1>1. MetadataIn(s) \in Seq(Line)  BY SelectLines DEF MetadataIn
<1>2. new \in Seq(Line)  BY LineKinds, SeqMonotonic
<1>3. MessagesIn(MetadataIn(s) \o new) = MessagesIn(MetadataIn(s)) \o MessagesIn(new)
  <2> HIDE DEF MetadataIn, Select
  <2> QED  BY <1>1, <1>2, SelectConcat DEF MessagesIn
<1>4. MessagesIn(new) = new  BY SelectAll DEF MessagesIn
<1>5. MessagesIn(MetadataIn(s)) = <<>>  BY NoMessageInMetadata
<1>6. <<>> \o new = new  BY ConcatEmptySeq
<1> QED  BY <1>3, <1>4, <1>5, <1>6

\* One more line is one more message, or none.
LEMMA AppendedTranscript ==
    ASSUME TypeOK, TranscriptMatchesPreserved, writer = "up",
           NEW line \in Line, Appended(line)
    PROVE  messages' = MessagesIn(preserved')
<1>1. preserved \in Seq(Line)  BY DEF TypeOK
<1>2. MessagesIn(Append(preserved, line)) =
          IF line \in Message THEN Append(MessagesIn(preserved), line)
          ELSE MessagesIn(preserved)
  BY <1>1, SelectAppend DEF MessagesIn
<1> QED  BY <1>2 DEF Appended, TranscriptMatchesPreserved

LEMMA TranscriptStep ==
    ASSUME TypeOK, AppendUnderWay, TranscriptMatchesPreserved, [Next]_vars
    PROVE  TranscriptMatchesPreserved'
<1> USE DEF TranscriptMatchesPreserved
<1>1. CASE UNCHANGED vars  BY <1>1 DEF vars
<1>2. ASSUME NEW c \in Clients, ClientStep(c) PROVE TranscriptMatchesPreserved'
  BY <1>2, SendKeepsHead
<1>3. CASE WriterStep
  <2>1. CASE HandleSnapshot \/ HandlePage \/ PagePanics \/ AppendFails \/ WriteJson
             \/ WriteFails \/ RefuseCompact \/ ClearFails
    BY <2>1 DEF HandleSnapshot, HandlePage, PagePanics, AppendFails, WriteJson,
       WriteFails, RefuseCompact, ClearFails, Taken, memory, Answer
  <2>2. CASE HandleAppendRewrite \/ WriteNewline
    <3>1. writer = "up" /\ Appended(Head(queue).line)
      BY <2>2 DEF HandleAppendRewrite, WriteNewline, Taken
    <3>2. Head(queue).line \in Line
      BY <2>2, AppendCommand DEF HandleAppendRewrite, WriteNewline, Taken, AppendUnderWay
    <3> QED  BY <3>1, <3>2, AppendedTranscript
  <2>3. CASE HandleCompact \/ CompactFails
    <3>1. /\ queue # <<>> /\ Head(queue).op = "compact"
          /\ messages' = Head(queue).messages
          /\ preserved' = MetadataIn(preserved) \o Head(queue).messages
      BY <2>3 DEF HandleCompact, CompactFails, Taken, Replaced
    <3>2. Head(queue).messages \in Seq(Message)  BY <3>1, CompactCommand
    <3>3. preserved \in Seq(Line)  BY DEF TypeOK
    <3> QED  BY <3>1, <3>2, <3>3, MessagesOfReplaced
  <2>4. CASE HandleClear
    <3>1. <<>> \in Seq(Line) /\ <<>> \in Seq({})  BY EmptySeq
    <3>2. {} \cap Message = {}  OBVIOUS
    <3>3. MessagesIn(<<>>) = <<>>  BY <3>1, <3>2, SelectNone DEF MessagesIn
    <3> QED  BY <2>4, <3>3 DEF HandleClear
  <2> QED  BY <1>3, <2>1, <2>2, <2>3, <2>4 DEF WriterStep
<1>4. CASE Open
  <2> DEFINE lines == Readable(disk)
             loaded == MessagesIn(lines)
             repaired == RepairToolPairing(loaded)
  <2>1. lines \in Seq(Line)  BY ReadableType DEF TypeOK
  <2>2. CASE ~disk.exists
    <3>1. messages' = <<>> /\ preserved' = <<>>  BY <1>4, <2>2 DEF Open
    <3>2. <<>> \in Seq({})  BY EmptySeq
    <3>3. {} \cap Message = {}  OBVIOUS
    <3>4. MessagesIn(<<>>) = <<>>  BY <3>2, <3>3, SelectNone DEF MessagesIn
    <3> QED  BY <3>1, <3>4
  <2>3. CASE disk.exists
    <3>1. /\ messages' = repaired
          /\ preserved' = IF repaired = loaded THEN lines
                          ELSE MetadataIn(lines) \o repaired
      BY <1>4, <2>3 DEF Open, Rebuilt
    <3>2. loaded \in Seq(Line \cap Message)  BY <2>1, SelectType DEF MessagesIn
    <3>3. repaired \in Seq(Message)
      <4> HIDE DEF loaded
      <4> DEFINE kept == {l \in Line : Paired(loaded, l)}
      <4>1. repaired \in Seq((Line \cap Message) \cap kept)
        BY <3>2, SelectType DEF RepairToolPairing
      <4> HIDE DEF kept, repaired
      <4> QED  BY <4>1, SeqMonotonic
    <3> HIDE DEF lines, repaired
    <3>4. CASE repaired = loaded  BY <3>1, <3>4
    <3>5. CASE repaired # loaded  BY <3>1, <3>3, <3>5, <2>1, MessagesOfReplaced
    <3> QED  BY <3>4, <3>5
  <2> QED  BY <2>2, <2>3
<1>5. CASE Close  BY <1>5 DEF Close
<1>6. CASE Crash  BY <1>6 DEF Crash
<1> QED  BY <1>1, <1>2, <1>3, <1>4, <1>5, <1>6 DEF Next

\* What a snapshot answers is what the next rewrite stores, whatever the disk does:
\* the message list and the preserved lines never disagree.
THEOREM TranscriptAgreement == Spec => []TranscriptMatchesPreserved
<1> DEFINE IInv == TypeOK /\ AppendUnderWay /\ TranscriptMatchesPreserved
<1>1. Init => IInv
  BY InitType DEF Init, TranscriptMatchesPreserved
<1>2. IInv /\ [Next]_vars => IInv'
  BY NextType, AppendUnderWayStep, TranscriptStep
<1> QED  BY <1>1, <1>2, PTL DEF Spec

-----------------------------------------------------------------------------
(* A revision names one transcript. *)

\* A step of a writer that stays alive leaves the messages alone or counts one
\* revision, unless it is the compaction whose rewrite fails.
LEMMA RevisionStep ==
    ASSUME "compact-rewrite" \notin Faults,
           TypeOK, AppendUnderWay, [Next]_vars,
           writer = "up", writer' = "up", messages' # messages
    PROVE  revision' = revision + 1
<1>1. CASE UNCHANGED vars  BY <1>1 DEF vars
<1>2. ASSUME NEW c \in Clients, ClientStep(c) PROVE revision' = revision + 1
  BY <1>2, SendKeepsHead
<1>3. CASE WriterStep
  <2>1. CASE HandleSnapshot \/ HandlePage \/ PagePanics \/ AppendFails \/ WriteJson
             \/ WriteFails \/ RefuseCompact \/ ClearFails
    BY <2>1 DEF HandleSnapshot, HandlePage, PagePanics, AppendFails, WriteJson,
       WriteFails, RefuseCompact, ClearFails, memory
  <2>2. CASE HandleAppendRewrite \/ WriteNewline
    BY <2>2 DEF HandleAppendRewrite, WriteNewline, Appended
  <2>3. CASE HandleCompact \/ HandleClear
    BY <2>3 DEF HandleCompact, HandleClear
  <2>4. CASE CompactFails
    BY <2>4 DEF CompactFails, Fails
  <2> QED  BY <1>3, <2>1, <2>2, <2>3, <2>4 DEF WriterStep
<1>4. CASE Open  BY <1>4 DEF Open
<1>5. CASE Close  BY <1>5 DEF Close
<1>6. CASE Crash  BY <1>6 DEF Crash
<1> QED  BY <1>1, <1>2, <1>3, <1>4, <1>5, <1>6 DEF Next

\* session.rs:111, "Revisions increase exactly once per successful mutation
\* command": within one life of the writer two transcripts never share a revision,
\* on a disk that fails no rewrite of a compaction.  The condition is needed:
\* replace_messages has already run when that rewrite fails.
THEOREM RevisionsNameTranscripts ==
    ASSUME "compact-rewrite" \notin Faults
    PROVE  Spec => RevisionNamesTranscript
<1> DEFINE IInv == TypeOK /\ AppendUnderWay
<1>1. Init => IInv  BY InitType
<1>2. IInv /\ [Next]_vars => IInv'  BY NextType, AppendUnderWayStep
<1>3. IInv /\ [Next]_vars
        => [writer = "up" /\ writer' = "up" /\ messages' # messages
              => revision' = revision + 1]_vars
  BY RevisionStep
<1> QED  BY <1>1, <1>2, <1>3, PTL DEF Spec, RevisionNamesTranscript

-----------------------------------------------------------------------------
(* A compaction replaces the transcript it was made from. *)

\* A snapshot is of an earlier revision, or it is the transcript.
ViewIsPast(c) ==
    /\ view[c].revision <= revision
    /\ view[c].messages # <<>> /\ view[c].revision = revision
          => view[c].messages = messages

\* A task has one command under way, and a compaction expects the revision of the
\* snapshot its task still holds.
OneEach ==
    /\ \A i \in 1..Len(queue) : queue[i].from \in waiting
    /\ \A i, j \in 1..Len(queue) : queue[i].from = queue[j].from => i = j
    /\ \A i \in 1..Len(queue) : queue[i].op = "compact" =>
          /\ queue[i].expected = view[queue[i].from].revision
          /\ view[queue[i].from].messages # <<>>

SwapInv ==
    /\ OneEach
    /\ writer = "up" => \A c \in Clients : ViewIsPast(c)
    /\ writer = "down" => view = [c \in Clients |-> NoView] /\ queue = <<>>

\* A new command is its task's only one.
LEMMA SendOneEach ==
    ASSUME TypeOK, OneEach, NEW c \in Clients, NEW op, NEW command,
           Send(c, op, command), command.from = c,
           command.op = "compact" => /\ command.expected = view[c].revision
                                     /\ view[c].messages # <<>>
    PROVE  OneEach'
<1>1. /\ queue \in Seq(Commands) /\ c \notin waiting
      /\ queue' = Append(queue, command) /\ waiting' = waiting \cup {c} /\ view' = view
  BY DEF TypeOK, Send
<1> HIDE DEF Commands
<1>2. Len(queue') = Len(queue) + 1 /\ Len(queue) \in Nat
      /\ queue'[Len(queue) + 1] = command
  BY <1>1
<1>3. \A i \in 1..Len(queue) : queue'[i] = queue[i]  BY <1>1
<1>4. \A i \in 1..Len(queue') : i \in 1..Len(queue) \/ i = Len(queue) + 1  BY <1>2
<1>5. \A i \in 1..Len(queue) : queue[i].from # c  BY <1>1 DEF OneEach
<1>6. \A i \in 1..Len(queue') : queue'[i].from \in waiting'
  BY <1>1, <1>2, <1>3, <1>4 DEF OneEach
<1>7. \A i, j \in 1..Len(queue') : queue'[i].from = queue'[j].from => i = j
  BY <1>2, <1>3, <1>4, <1>5 DEF OneEach
<1>8. \A i \in 1..Len(queue') : queue'[i].op = "compact" =>
          /\ queue'[i].expected = view'[queue'[i].from].revision
          /\ view'[queue'[i].from].messages # <<>>
  BY <1>1, <1>2, <1>3, <1>4 DEF OneEach
<1> QED  BY <1>6, <1>7, <1>8 DEF OneEach

LEMMA ClientOneEach ==
    ASSUME TypeOK, OneEach, NEW c \in Clients, ClientStep(c)
    PROVE  OneEach' /\ UNCHANGED <<writer, view, revision, messages, preserved>>
<1>1. UNCHANGED <<writer, view, revision, messages, preserved>>
  BY Zenon DEF ClientStep, SendAppend, SendCompact, SendClear, SendSnapshot,
               SendPage, Send, memory
<1>2. ASSUME NEW kind \in Kinds, SendAppend(c, kind) PROVE OneEach'
  <2> DEFINE q == [op |-> "append", from |-> c, line |-> LineToAppend(c, kind)]
  <2>1. Send(c, "append", q)  BY <1>2 DEF SendAppend
  <2>2. q.from = c /\ q.op # "compact"  OBVIOUS
  <2> HIDE DEF q
  <2> QED  BY <2>1, <2>2, SendOneEach
<1>3. ASSUME SendCompact(c) PROVE OneEach'
  <2> DEFINE q == [op |-> "compact", from |-> c, expected |-> view[c].revision,
                   messages |-> << [kind |-> "text", id |-> nextId] >>]
  <2>1. view[c].messages # <<>>
    <3>1. Len(view[c].messages) >= 2  BY <1>3 DEF SendCompact
    <3> QED  BY <3>1
  <2>2. Send(c, "compact", q)  BY <1>3 DEF SendCompact
  <2>3. q.from = c /\ q.expected = view[c].revision  OBVIOUS
  <2> HIDE DEF q
  <2> QED  BY <2>1, <2>2, <2>3, SendOneEach
<1>4. ASSUME SendClear(c) PROVE OneEach'
  <2> DEFINE q == [op |-> "clear", from |-> c]
  <2>1. Send(c, "clear", q)  BY <1>4 DEF SendClear
  <2>2. q.from = c /\ q.op # "compact"  OBVIOUS
  <2> HIDE DEF q
  <2> QED  BY <2>1, <2>2, SendOneEach
<1>5. ASSUME SendSnapshot(c) PROVE OneEach'
  <2> DEFINE q == [op |-> "snapshot", from |-> c]
  <2>1. Send(c, "snapshot", q)  BY <1>5 DEF SendSnapshot
  <2>2. q.from = c /\ q.op # "compact"  OBVIOUS
  <2> HIDE DEF q
  <2> QED  BY <2>1, <2>2, SendOneEach
<1>6. ASSUME SendPage(c) PROVE OneEach'
  <2>1. PICK before \in 0..Len(view[c].messages) :
            Send(c, "page", [op |-> "page", from |-> c, before |-> before])
    BY <1>6 DEF SendPage
  <2> DEFINE q == [op |-> "page", from |-> c, before |-> before]
  <2>2. Send(c, "page", q)  BY <2>1
  <2>3. q.from = c /\ q.op # "compact"  OBVIOUS
  <2> HIDE DEF q
  <2> QED  BY <2>2, <2>3, SendOneEach
<1> QED  BY <1>1, <1>2, <1>3, <1>4, <1>5, <1>6 DEF ClientStep

\* Answering takes the head, and its task has no other command.
LEMMA AnswerOneEach ==
    ASSUME TypeOK, OneEach, queue # <<>>, Answer,
           \A c \in Clients : c # Command.from => view'[c] = view[c]
    PROVE  OneEach'
<1>1. /\ queue \in Seq(Commands) /\ queue' = Tail(queue)
      /\ waiting' = waiting \ {Head(queue).from} /\ waiting \subseteq Clients
  BY DEF TypeOK, Answer
<1> HIDE DEF Commands
<1>2. /\ Len(queue') = Len(queue) - 1 /\ Len(queue) \in Nat
      /\ Head(queue) = queue[1] /\ 1 \in 1..Len(queue)
  BY <1>1
<1>3. \A i \in 1..Len(queue') : queue'[i] = queue[i + 1]  BY <1>1
<1>4. \A i \in 1..Len(queue') : i + 1 \in 1..Len(queue) /\ i + 1 # 1  BY <1>2
<1>5. \A i \in 1..Len(queue') :
          queue'[i].from # Head(queue).from /\ queue'[i].from \in waiting
  BY <1>2, <1>3, <1>4 DEF OneEach
<1>6. \A i \in 1..Len(queue') : queue'[i].from \in waiting'  BY <1>1, <1>5
<1>7. \A i, j \in 1..Len(queue') : queue'[i].from = queue'[j].from => i = j
  <2> SUFFICES ASSUME NEW i \in 1..Len(queue'), NEW j \in 1..Len(queue'),
                      queue'[i].from = queue'[j].from
               PROVE  i = j
    OBVIOUS
  <2>1. i + 1 = j + 1  BY <1>3, <1>4 DEF OneEach
  <2> QED  BY <2>1
<1>8. \A i \in 1..Len(queue') : view'[queue'[i].from] = view[queue'[i].from]
  BY <1>1, <1>5
<1>9. \A i \in 1..Len(queue') : queue'[i].op = "compact" =>
          /\ queue'[i].expected = view'[queue'[i].from].revision
          /\ view'[queue'[i].from].messages # <<>>
  BY <1>3, <1>4, <1>8 DEF OneEach
<1> QED  BY <1>6, <1>7, <1>9 DEF OneEach

\* A snapshot stays one of the past when the revision goes up, or nothing changes.
LEMMA PastStays ==
    ASSUME TypeOK, \A c \in Clients : ViewIsPast(c), view' = view,
           \/ revision' = revision /\ messages' = messages
           \/ revision' = revision + 1
    PROVE  \A c \in Clients : ViewIsPast(c)'
<1>1. revision \in Nat /\ \A c \in Clients : view[c].revision \in Nat  BY DEF TypeOK
<1> SUFFICES ASSUME NEW c \in Clients PROVE ViewIsPast(c)'  OBVIOUS
<1>2. ViewIsPast(c)  OBVIOUS
<1> QED  BY <1>1, <1>2 DEF ViewIsPast

LEMMA SwapStep ==
    ASSUME "compact-rewrite" \notin Faults,
           TypeOK, AppendUnderWay, SwapInv, [Next]_vars
    PROVE  /\ SwapInv'
           /\ Taken("compact") /\ preserved' # preserved
                => view[Command.from].messages = messages
<1> DEFINE Goal == /\ SwapInv'
                   /\ Taken("compact") /\ preserved' # preserved
                        => view[Command.from].messages = messages
<1>0. OneEach /\ queue \in Seq(Commands)  BY DEF SwapInv, TypeOK
<1>1. CASE UNCHANGED vars
  <2>1. UNCHANGED <<queue, waiting, view, writer, revision, messages, preserved>>
    BY <1>1 DEF vars
  <2>2. OneEach'  BY <1>0, <2>1 DEF OneEach
  <2> QED  BY <2>1, <2>2 DEF SwapInv, ViewIsPast
<1>2. ASSUME NEW c \in Clients, ClientStep(c) PROVE Goal
  <2>1. OneEach' /\ UNCHANGED <<writer, view, revision, messages, preserved>>
    BY <1>0, <1>2, ClientOneEach
  <2>2. writer = "up"
    BY <1>2 DEF ClientStep, SendAppend, SendCompact, SendClear, SendSnapshot, SendPage, Send
  <2> QED  BY <2>1, <2>2 DEF SwapInv, ViewIsPast
<1>3. CASE WriterStep
  <2>0. writer = "up" /\ queue # <<>>
    BY <1>3 DEF WriterStep, HandleSnapshot, HandlePage, PagePanics,
       HandleAppendRewrite, AppendFails, WriteJson, WriteNewline, WriteFails,
       HandleCompact, RefuseCompact, CompactFails, HandleClear, ClearFails, Taken,
       AppendUnderWay
  <2>p. \A c \in Clients : ViewIsPast(c)  BY <2>0 DEF SwapInv
  <2>1. CASE HandleSnapshot
    <3>1. /\ Answer /\ Taken("snapshot") /\ view' = [view EXCEPT ![Command.from] =
                            [revision |-> revision, messages |-> messages]]
          /\ UNCHANGED <<revision, messages, preserved>>
      BY <2>1 DEF HandleSnapshot, memory
    <3>2. view \in [Clients -> [revision : Nat, messages : Seq(Line)]] /\ revision \in Nat
      BY DEF TypeOK
    <3>3. \A c \in Clients : c # Command.from => view'[c] = view[c]
      BY <3>1, <3>2
    <3>4. OneEach'  BY <1>0, <2>0, <3>1, <3>3, AnswerOneEach
    <3>5. \A c \in Clients : ViewIsPast(c)'
      <4> SUFFICES ASSUME NEW c \in Clients PROVE ViewIsPast(c)'  OBVIOUS
      <4>1. CASE c = Command.from
        <5>1. view'[c] = [revision |-> revision, messages |-> messages]
          BY <3>1, <3>2, <4>1
        <5> QED  BY <5>1, <3>1, <3>2 DEF ViewIsPast
      <4>2. CASE c # Command.from
        <5>1. ViewIsPast(c) /\ view'[c] = view[c]  BY <2>p, <3>3, <4>2
        <5> QED  BY <5>1, <3>1 DEF ViewIsPast
      <4> QED  BY <4>1, <4>2
    <3>6. writer' = writer  BY <3>1 DEF Answer
    <3> QED  BY <2>0, <3>1, <3>4, <3>5, <3>6 DEF SwapInv
  <2>2. CASE PagePanics
    <3>1. /\ queue' = <<>> /\ writer' = "dead" /\ UNCHANGED <<messages, preserved, view>>
      BY <2>2 DEF PagePanics, memory, tasks
    <3>2. OneEach'  BY <3>1 DEF OneEach
    <3> QED  BY <3>1, <3>2 DEF SwapInv
  <2>3. CASE WriteJson
    <3>1. UNCHANGED <<queue, waiting, view, writer, revision, messages, preserved>>
      BY <2>3 DEF WriteJson, memory, tasks
    <3>2. OneEach'  BY <1>0, <3>1 DEF OneEach
    <3> QED  BY <3>1, <3>2 DEF SwapInv, ViewIsPast
  <2>4. CASE CompactFails
    BY <2>4 DEF CompactFails, Fails
  <2>5. CASE ~HandleSnapshot /\ ~PagePanics /\ ~WriteJson /\ ~CompactFails
    <3>1. Answer /\ view' = view
      BY <1>3, <2>5 DEF WriterStep, HandlePage, HandleAppendRewrite, AppendFails,
         WriteNewline, WriteFails, HandleCompact, RefuseCompact, HandleClear,
         ClearFails, Appended, tasks
    <3>2. \/ revision' = revision /\ messages' = messages
          \/ revision' = revision + 1
      BY <1>3, <2>5 DEF WriterStep, HandlePage, HandleAppendRewrite, AppendFails,
         WriteNewline, WriteFails, HandleCompact, RefuseCompact, HandleClear,
         ClearFails, Appended, memory
    <3>3. OneEach'  BY <1>0, <2>0, <3>1, AnswerOneEach
    <3>4. \A c \in Clients : ViewIsPast(c)'  BY <2>p, <3>1, <3>2, PastStays
    <3>5. writer' = writer  BY <3>1 DEF Answer
    <3>6. ASSUME Taken("compact"), preserved' # preserved
          PROVE  view[Command.from].messages = messages
      <4>1. HandleCompact
        BY <1>3, <2>5, <3>6 DEF WriterStep, HandlePage, HandleAppendRewrite, AppendFails,
           WriteNewline, WriteFails, RefuseCompact, HandleClear, ClearFails, Taken, memory
      <4>2. Command.op = "compact" /\ Command.expected = revision
        BY <4>1 DEF HandleCompact, Taken, Current
      <4>3. 1 \in 1..Len(queue) /\ Head(queue) = queue[1]
        <5> HIDE DEF Commands
        <5> QED  BY <1>0, <2>0
      <4>4. /\ view[Command.from].revision = revision /\ view[Command.from].messages # <<>>
            /\ Command.from \in waiting
        BY <1>0, <4>2, <4>3 DEF OneEach
      <4>5. Command.from \in Clients  BY <4>4 DEF TypeOK
      <4> QED  BY <2>p, <4>4, <4>5 DEF ViewIsPast
    <3> QED  BY <2>0, <3>3, <3>4, <3>5, <3>6 DEF SwapInv
  <2> QED  BY <2>1, <2>2, <2>3, <2>4, <2>5
<1>4. CASE Open
  <2>1. /\ writer = "down" /\ writer' = "up" /\ UNCHANGED <<queue, waiting, view>>
    BY <1>4 DEF Open, tasks
  <2>2. OneEach'  BY <1>0, <2>1 DEF OneEach
  <2>3. view = [c \in Clients |-> NoView]  BY <2>1 DEF SwapInv
  <2>4. revision' \in Nat  BY <1>4, OpenType DEF TypeOK
  <2>5. \A c \in Clients : ViewIsPast(c)'
    BY <2>1, <2>3, <2>4 DEF ViewIsPast, NoView
  <2> QED  BY <2>1, <2>2, <2>5 DEF SwapInv, Taken
<1>5. CASE Close \/ Crash
  <2>1. /\ queue' = <<>> /\ writer' = "down" /\ view' = [c \in Clients |-> NoView]
        /\ preserved' = preserved
    BY <1>5 DEF Close, Crash, memory
  <2>2. OneEach'  BY <2>1 DEF OneEach
  <2> QED  BY <2>1, <2>2 DEF SwapInv
<1> QED  BY <1>1, <1>2, <1>3, <1>4, <1>5 DEF Next

\* compact_now's compare-and-swap (session.rs:1203-1232), for any tasks and bounds:
\* the transcript a compaction throws away is the one its summary was made from, on
\* a disk that fails no rewrite of a compaction.  The condition is needed: after
\* such a failure the revision names a transcript no snapshot has seen.
THEOREM CompactionsReplaceWhatTheySaw ==
    ASSUME "compact-rewrite" \notin Faults
    PROVE  Spec => CompactsWhatItSaw
<1> DEFINE IInv == TypeOK /\ AppendUnderWay /\ SwapInv
<1>1. Init => IInv
  <2> SUFFICES ASSUME Init PROVE IInv  OBVIOUS
  <2>1. SwapInv  BY DEF Init, SwapInv, OneEach
  <2> QED  BY <2>1, InitType
<1>2. IInv /\ [Next]_vars => IInv'  BY NextType, AppendUnderWayStep, SwapStep
<1>3. IInv /\ [Next]_vars
        => [Taken("compact") /\ preserved' # preserved
              => view[Command.from].messages = messages]_vars
  BY SwapStep
<1> QED  BY <1>1, <1>2, <1>3, PTL DEF Spec, CompactsWhatItSaw

-----------------------------------------------------------------------------
(* The revision over the lives of the writer. *)

\* Adding the history changes nothing: what is proved of Spec holds of HistorySpec.
LEMMA HistoryIsSpec == HistorySpec => Spec
<1>1. HistoryInit => Init  BY DEF HistoryInit
<1>2. [HistoryNext]_<<vars, rewritten, traces>> => [Next]_vars  BY DEF HistoryNext
<1> QED  BY <1>1, <1>2, PTL DEF HistorySpec, Spec

\* The commands under way as long as nothing asked lines to go: reads and appends.
Countable == \A i \in 1..Len(queue) : queue[i].op \notin {"compact", "clear"}

\* ... and as long as that is so the revision is the number of the lines to
\* preserve that the loader counts, and of the traces it will not, and the file
\* holds exactly those lines, whether a writer runs or not.
Counted ==
    /\ stale = ~disk.exists
    /\ ~disk.exists => disk.lines = <<>>
    /\ disk.lines = preserved
    /\ revision - traces = Len(Select(preserved, CountedLine))
    /\ disk.tail = IF step = "newline" THEN Head(queue).line ELSE NoLine

CountInv == traces \in Nat /\ (~rewritten => Countable /\ Counted)

\* Sending a read or an append keeps what is under way countable.
LEMMA SendCountable ==
    ASSUME \A i \in DOMAIN queue' : queue'[i].op \notin {"compact", "clear"},
           TypeOK, NEW c \in Clients, ClientStep(c)
    PROVE  Countable'
<1>1. PICK command : queue' = Append(queue, command)
  BY Zenon DEF ClientStep, SendAppend, SendCompact, SendClear, SendSnapshot,
               SendPage, Send
<1>2. queue \in Seq(Commands)  BY DEF TypeOK
<1> HIDE DEF Commands
<1>3. DOMAIN queue' = 1..Len(queue')  BY <1>1, <1>2
<1> QED  BY <1>3 DEF Countable

\* Taking a command keeps the others countable.
LEMMA AnswerCountable ==
    ASSUME TypeOK, Countable, queue # <<>>, queue' = Tail(queue)
    PROVE  Countable'
<1>1. queue \in Seq(Commands)  BY DEF TypeOK
<1> HIDE DEF Commands
<1>2. Len(queue') = Len(queue) - 1 /\ Len(queue) \in Nat  BY <1>1
<1>3. \A i \in 1..Len(queue') : queue'[i] = queue[i + 1]  BY <1>1
<1>4. \A i \in 1..Len(queue') : i + 1 \in 1..Len(queue)  BY <1>2
<1> QED  BY <1>3, <1>4 DEF Countable

\* The command at the head is none that makes lines go.
LEMMA HeadCountable ==
    ASSUME TypeOK, Countable, queue # <<>>
    PROVE  Head(queue).op \notin {"compact", "clear"}
<1>1. queue \in Seq(Commands)  BY DEF TypeOK
<1> HIDE DEF Commands
<1>2. 1 \in 1..Len(queue) /\ Head(queue) = queue[1]  BY <1>1
<1> QED  BY <1>2 DEF Countable

\* A line is a trace or one that the loader counts.
LEMMA TraceOrCounted ==
    ASSUME NEW line \in Line
    PROVE  line \in TraceLine <=> line \notin CountedLine
BY DEF Line, TraceLine, CountedLine, AllKinds, MessageKinds

\* An accepted line is one revision more; if it is no trace, the loader counts it too.
LEMMA AppendedCounted ==
    ASSUME TypeOK, NEW line \in Line, Appended(line), writer = "up",
           queue # <<>>, Command.op = "append", Command.line = line,
           HistoryNext, traces \in Nat,
           revision - traces = Len(Select(preserved, CountedLine))
    PROVE  /\ preserved' = Append(preserved, line) /\ stale' = FALSE
           /\ revision' - traces' = Len(Select(preserved', CountedLine))
           /\ revision' - traces' \in {revision - traces, revision - traces + 1}
<1>1. preserved \in Seq(Line) /\ revision \in Nat  BY DEF TypeOK
<1>2. preserved' = Append(preserved, line) /\ stale' = FALSE /\ revision' = revision + 1
  BY DEF Appended
<1>3. preserved' # preserved
  <2>1. Len(preserved') = Len(preserved) + 1 /\ Len(preserved) \in Nat  BY <1>1, <1>2
  <2> QED  BY <2>1
<1>4. traces' = IF line \in TraceLine THEN traces + 1 ELSE traces
  BY <1>3 DEF HistoryNext, TraceAccepted
<1>5. Select(preserved', CountedLine) =
          IF line \in CountedLine THEN Append(Select(preserved, CountedLine), line)
          ELSE Select(preserved, CountedLine)
  BY <1>1, <1>2, SelectAppend
<1>6. Select(preserved, CountedLine) \in Seq(Line)  BY <1>1, SelectLines
<1> HIDE DEF Select
<1>7. CASE line \in CountedLine
  <2>1. Len(Select(preserved', CountedLine)) = Len(Select(preserved, CountedLine)) + 1
    BY <1>5, <1>6, <1>7
  <2>2. traces' = traces  BY <1>4, <1>7, TraceOrCounted
  <2> QED  BY <1>1, <1>2, <2>1, <2>2
<1>8. CASE line \notin CountedLine
  <2>1. traces' = traces + 1  BY <1>4, <1>8, TraceOrCounted
  <2> QED  BY <1>1, <1>2, <1>5, <1>8, <2>1
<1> QED  BY <1>7, <1>8

\* A step that stores no line and loads no file leaves the count of traces alone.
LEMMA TracesStay ==
    ASSUME HistoryNext, preserved' = preserved, ~(writer = "down" /\ writer' = "up")
    PROVE  traces' = traces
BY DEF HistoryNext, TraceAccepted

LEMMA CountStep ==
    ASSUME FaithfulDisk, TypeOK, AppendUnderWay, CountInv,
           [HistoryNext]_<<vars, rewritten, traces>>
    PROVE  /\ CountInv'
           /\ [rewritten' \/ revision' - traces' \in {revision - traces, revision - traces + 1}]_<<vars, rewritten, traces>>
<1> DEFINE Goal ==
        /\ CountInv'
        /\ [rewritten' \/ revision' - traces' \in {revision - traces, revision - traces + 1}]_<<vars, rewritten, traces>>
<1> USE DEF Rewritten
<1>0. disk \in [exists : BOOLEAN, lines : Seq(Line), tail : Tail_]
      /\ queue \in Seq(Commands) /\ revision \in Nat /\ preserved \in Seq(Line)
  BY DEF TypeOK
<1>1. CASE UNCHANGED <<vars, rewritten, traces>>
  BY <1>1 DEF vars, CountInv, Countable, Counted
<1> SUFFICES ASSUME HistoryNext PROVE Goal
  BY <1>1
<1>t. traces \in Nat /\ traces' \in Nat
  BY DEF CountInv, HistoryNext
<1>2. CASE rewritten'
  BY <1>2, <1>t DEF CountInv
<1> SUFFICES ASSUME ~rewritten' PROVE Goal
  BY <1>2
<1>3. /\ Next /\ Countable /\ Counted
      /\ \A i \in DOMAIN queue' : queue'[i].op \notin {"compact", "clear"}
      /\ ~(Open /\ disk.exists /\ stale')
  BY DEF HistoryNext, CountInv
<1>4. ASSUME Countable', Counted',
             revision' - traces' \in {revision - traces, revision - traces + 1}
      PROVE  Goal
  BY <1>4, <1>t DEF CountInv
<1> HIDE DEF Goal
<1>s. ASSUME Countable', Counted', revision' = revision, traces' = traces PROVE Goal
  BY <1>s, <1>4
<1>5. ASSUME NEW c \in Clients, ClientStep(c) PROVE Goal
  <2>1. Countable'  BY <1>3, <1>5, SendCountable
  <2>2. UNCHANGED <<disk, revision, messages, preserved, usage, stale, writer, step>>
        /\ (queue # <<>> => Head(queue') = Head(queue))
    BY <1>5, SendKeepsHead
  <2>3. traces' = traces  BY <2>2, TracesStay
  <2>4. Counted'  BY <1>3, <2>2, <2>3 DEF Counted, AppendUnderWay
  <2> QED  BY <2>1, <2>2, <2>3, <2>4, <1>s
<1>6. CASE WriterStep
  <2>1. CASE HandleSnapshot \/ HandlePage \/ RefuseCompact \/ AppendFails \/ ClearFails
    <3>1. /\ queue # <<>> /\ queue' = Tail(queue) /\ step = "idle" /\ writer' = writer
          /\ UNCHANGED <<disk, revision, preserved, stale, step>>
      BY <2>1 DEF HandleSnapshot, HandlePage, RefuseCompact, AppendFails, ClearFails,
         Taken, Answer, memory
    <3>2. Countable'  BY <1>3, <3>1, AnswerCountable
    <3>3. traces' = traces  BY <3>1, TracesStay
    <3>4. Counted'  BY <1>3, <3>1, <3>3 DEF Counted
    <3> QED  BY <3>1, <3>2, <3>3, <3>4, <1>s
  <2>2. CASE PagePanics
    <3>1. queue' = <<>> /\ step = "idle" /\ writer' = "dead"
          /\ UNCHANGED <<disk, revision, preserved, stale, step>>
      BY <2>2 DEF PagePanics, Taken, memory
    <3>2. Countable'  BY <3>1 DEF Countable
    <3>3. traces' = traces  BY <3>1, TracesStay
    <3>4. Counted'  BY <1>3, <3>1, <3>3 DEF Counted
    <3> QED  BY <3>1, <3>2, <3>3, <3>4, <1>s
  <2>3. CASE HandleAppendRewrite
    <3>1. /\ queue # <<>> /\ queue' = Tail(queue) /\ step = "idle" /\ step' = step
          /\ Head(queue).op = "append" /\ Appended(Head(queue).line) /\ writer = "up"
          /\ disk' = [exists |-> TRUE, lines |-> Append(preserved, Head(queue).line),
                      tail |-> NoLine]
      BY <2>3 DEF HandleAppendRewrite, Taken, Answer
    <3>2. Head(queue).line \in Line  BY <3>1, AppendCommand
    <3>3. /\ preserved' = Append(preserved, Head(queue).line) /\ stale' = FALSE
          /\ revision' - traces' = Len(Select(preserved', CountedLine))
          /\ revision' - traces' \in {revision - traces, revision - traces + 1}
      BY <1>3, <1>t, <3>1, <3>2, AppendedCounted DEF Counted
    <3>4. Countable'  BY <1>3, <3>1, AnswerCountable
    <3>5. disk'.exists /\ disk'.lines = preserved' /\ disk'.tail = NoLine
      BY <3>1, <3>3
    <3>6. Counted'  BY <3>1, <3>3, <3>5 DEF Counted
    <3> QED  BY <3>3, <3>4, <3>6, <1>4
  <2>4. CASE WriteJson
    <3>1. /\ step = "idle" /\ step' = "newline" /\ disk.exists /\ disk.tail = NoLine
          /\ UNCHANGED <<queue, revision, preserved, stale, writer>>
          /\ disk' = [disk EXCEPT !.tail = Head(queue).line]
      BY <2>4, <1>3 DEF WriteJson, Taken, NeedsRewrite, memory, Counted
    <3>2. disk'.lines = disk.lines /\ disk'.tail = Head(queue).line
          /\ disk'.exists = disk.exists
      BY <3>1, <1>0
    <3>3. Countable'  BY <1>3, <3>1 DEF Countable
    <3>4. traces' = traces  BY <3>1, TracesStay
    <3>5. Counted'  BY <1>3, <3>1, <3>2, <3>4 DEF Counted
    <3> QED  BY <3>1, <3>3, <3>4, <3>5, <1>s
  <2>5. CASE WriteNewline
    <3>1. /\ step = "newline" /\ step' = "idle" /\ queue' = Tail(queue) /\ writer = "up"
          /\ Appended(Head(queue).line)
          /\ disk' = [disk EXCEPT !.lines = Readable(disk), !.tail = NoLine]
      BY <2>5 DEF WriteNewline, Answer
    <3>2. queue # <<>> /\ Head(queue).op = "append"  BY <3>1 DEF AppendUnderWay
    <3>3. Head(queue).line \in Line  BY <3>2, AppendCommand
    <3>4. disk.tail = Head(queue).line /\ disk.tail \notin {NoLine, Torn}
      BY <1>3, <3>1, <3>3 DEF Counted, Line, NoLine, Torn, AllKinds, MessageKinds
    <3>5. Readable(disk) = Append(preserved, Head(queue).line)
      BY <1>3, <3>4 DEF Readable, Counted
    <3>6. disk'.lines = Readable(disk) /\ disk'.tail = NoLine
          /\ disk'.exists = disk.exists
      BY <3>1, <1>0
    <3>7. disk.exists  BY <3>1 DEF AppendUnderWay
    <3>8. /\ preserved' = Append(preserved, Head(queue).line) /\ stale' = FALSE
          /\ revision' - traces' = Len(Select(preserved', CountedLine))
          /\ revision' - traces' \in {revision - traces, revision - traces + 1}
      BY <1>3, <1>t, <3>1, <3>2, <3>3, AppendedCounted DEF Counted
    <3>9. Countable'  BY <1>3, <3>1, <3>2, AnswerCountable
    <3>10. Counted'  BY <3>1, <3>5, <3>6, <3>7, <3>8 DEF Counted
    <3> QED  BY <3>8, <3>9, <3>10, <1>4
  <2>6. CASE WriteFails
    BY <2>6 DEF WriteFails, Fails, FaithfulDisk
  <2>7. CASE HandleCompact \/ CompactFails \/ HandleClear
    <3>1. queue # <<>> /\ Head(queue).op \in {"compact", "clear"}
      BY <2>7 DEF HandleCompact, CompactFails, HandleClear, Taken
    <3> QED  BY <1>3, <3>1, HeadCountable
  <2> QED  BY <1>6, <2>1, <2>2, <2>3, <2>4, <2>5, <2>6, <2>7 DEF WriterStep
<1>7. CASE Open
  <2>1. /\ step = "idle" /\ UNCHANGED <<disk, step, queue>> /\ traces' = 0
    BY <1>7, <1>0 DEF Open, AppendUnderWay, TypeOK, HistoryNext
  <2>2. Readable(disk) = disk.lines  BY <1>3, <2>1 DEF Readable, Counted
  <2>3. CASE disk.exists
    <3>1. ~stale'  BY <1>3, <1>7, <2>3
    <3>2. /\ preserved' = disk.lines /\ stale' = FALSE
          /\ revision' = Len(Select(disk.lines, CountedLine))
      <4>1. stale' = (RepairToolPairing(MessagesIn(Readable(disk)))
                        # MessagesIn(Readable(disk)))
        BY <1>7, <2>3 DEF Open
      <4>2. RepairToolPairing(MessagesIn(Readable(disk))) = MessagesIn(Readable(disk))
            /\ stale' = FALSE
        BY <4>1, <3>1
      <4>3. preserved' = Rebuilt(Readable(disk)) /\ revision' = LoadedRevision(disk)
        BY <1>7, <2>3 DEF Open
      <4> QED  BY <4>2, <4>3, <2>2 DEF Rebuilt, LoadedRevision
    <3>3. revision' - traces' = Len(Select(disk.lines, CountedLine))
      <4>1. Select(disk.lines, CountedLine) \in Seq(Line)  BY <1>0, SelectLines
      <4>2. Len(Select(disk.lines, CountedLine)) \in Nat
        <5> HIDE DEF Select
        <5> QED  BY <4>1, LenProperties
      <4> HIDE DEF Select
      <4> QED  BY <2>1, <3>2, <4>2
    <3>4. Counted' /\ revision' - traces' = revision - traces
      BY <1>3, <2>1, <2>3, <3>2, <3>3 DEF Counted
    <3>5. Countable'  BY <1>3, <2>1 DEF Countable
    <3> QED  BY <3>4, <3>5, <1>4
  <2>4. CASE ~disk.exists
    <3>1. preserved' = <<>> /\ revision' = 0 /\ stale' = TRUE
      BY <1>7, <2>4 DEF Open
    <3>2. preserved = <<>>  BY <1>3, <2>4 DEF Counted
    <3>3. Select(<<>>, CountedLine) = <<>>
      <4>1. <<>> \in Seq({}) /\ {} \cap CountedLine = {}  BY EmptySeq
      <4> QED  BY <4>1, SelectNone
    <3>4. revision - traces = 0 /\ revision' - traces' = 0
      BY <1>3, <2>1, <3>1, <3>2, <3>3 DEF Counted
    <3>5. Counted'  BY <1>3, <2>1, <2>4, <3>1, <3>2, <3>3, <3>4 DEF Counted
    <3>6. Countable'  BY <1>3, <2>1 DEF Countable
    <3> QED  BY <3>4, <3>5, <3>6, <1>4
  <2> QED  BY <2>3, <2>4
<1>8. CASE Close \/ Crash
  <2>1. step = "idle" /\ step' = "idle" /\ queue' = <<>> /\ writer' = "down"
        /\ UNCHANGED <<disk, revision, preserved, stale>>
    BY <1>8, <1>0 DEF Close, Crash, memory, FaithfulDisk, TypeOK
  <2>2. Countable'  BY <2>1 DEF Countable
  <2>3. traces' = traces  BY <2>1, TracesStay
  <2>4. Counted'  BY <1>3, <2>1, <2>3 DEF Counted
  <2> QED  BY <2>1, <2>2, <2>3, <2>4, <1>s
<1> QED  BY <1>3, <1>5, <1>6, <1>7, <1>8 DEF Next

\* What a session reports to have counted, over all the lives of its writer and for
\* any tasks and bounds: until something is compacted, cleared or repaired, the
\* revision falls by the traces counted since the last load, which the loader does
\* not count, and by nothing else, through crashes, failed appends, closes and
\* loads.  The condition is needed: a torn append loses a line the writer counted.
THEOREM RevisionsFallByTraces ==
    ASSUME FaithfulDisk
    PROVE  HistorySpec => RevisionFallsByTraces
<1> DEFINE IInv == TypeOK /\ AppendUnderWay /\ CountInv
<1>1. HistoryInit => IInv
  <2> SUFFICES ASSUME HistoryInit PROVE IInv  OBVIOUS
  <2>1. Init /\ traces = 0  BY DEF HistoryInit
  <2>2. <<>> \in Seq({}) /\ {} \cap CountedLine = {}  BY EmptySeq
  <2>3. Select(<<>>, CountedLine) = <<>>  BY <2>2, SelectNone
  <2>4. Countable  BY <2>1 DEF Init, Countable
  <2>5. /\ stale = TRUE /\ disk.exists = FALSE /\ disk.lines = <<>> /\ disk.tail = NoLine
        /\ preserved = <<>> /\ revision = 0 /\ step = "idle"
    BY <2>1 DEF Init, Empty
  <2>6. revision - traces = Len(Select(preserved, CountedLine))
    <3> HIDE DEF Select
    <3> QED  BY <2>1, <2>3, <2>5
  <2>7. Counted  BY <2>5, <2>6 DEF Counted
  <2> QED  BY <2>1, <2>4, <2>7, InitType DEF CountInv
<1>2. IInv /\ [HistoryNext]_<<vars, rewritten, traces>> => IInv'
  <2>1. [HistoryNext]_<<vars, rewritten, traces>> => [Next]_vars  BY DEF HistoryNext
  <2> QED  BY <2>1, NextType, AppendUnderWayStep, CountStep
<1>3. IInv /\ [HistoryNext]_<<vars, rewritten, traces>>
        => [rewritten' \/ revision' - traces' \in {revision - traces, revision - traces + 1}]_<<vars, rewritten, traces>>
  BY CountStep
<1> QED  BY <1>1, <1>2, <1>3, PTL DEF HistorySpec, RevisionFallsByTraces
=============================================================================
