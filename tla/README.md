# TLA+ models of NonoClaw

NonoClaw is a coding agent: a Rust server that lets browser, REST and scheduled
clients drive a language model over a project directory, with sessions that are
stored as JSONL files. This directory holds models of the parts of it that are
hard to test, the TLC configurations that check them and proofs for TLAPS.
Paths below are relative to `rust/crates/`, those of the front end to the
repository, and `serve_http/` stands for `cli/src/serve_http/`.

- [The system](#the-system)
- [The modules](#the-modules)
- [The runs](#the-runs)
- [The proofs](#the-proofs)
- [Where the code and its text disagree](#where-the-code-and-its-text-disagree)
- [What is not modelled](#what-is-not-modelled)
- [What could follow](#what-could-follow)

## The system

| Component | State it keeps | Operations | What makes it correct |
|---|---|---|---|
| Session writer (`engine/src/session.rs`) | the JSONL file; in memory a revision, the transcript, the lines to preserve, usage totals | append a message or metadata, replace after compaction, clear, snapshot, history page; load and repair | the file and both copies in memory agree; every command is answered once; a revision names one transcript; a compaction replaces only what its author read |
| Turn loop (`engine/src/loop_.rs`, `compact.rs`) | the run's message list, the sealed prefix, a pending background summary | hydrate, say, trim, prune, summarise now or in the background, cancel | nothing said is forgotten; requests are well paired; a request and the persisted session tell the same story; stale summaries are dropped |
| Run slots (`cli/src/serve_http/session_hub.rs`) | for each session the lease that holds it | acquire, attach a controller, cancel, cancel and wait, finish, drop | one writer per session at any time, also after a panic; slots are given up in the end |
| Connections and REST (`connection.rs`, `run_api.rs`) | per connection a selected session, its own run | Run, Cancel, Clear, Compact, NewSession, ResumeSession, SwitchProject, close; POST and DELETE | snapshots are taken under the slot; the terminal precedes the next lease; nobody waits for ever |
| Projects (`project_context.rs`) | the published project and its generation, the transition mutex | switch, check for staleness | no run works in a project that was replaced |
| Run controller (`engine/src/run.rs`, `trace.rs`) | the cancellation token, the terminal, the trace | start, cancel, commit | one terminal per run, after the engine and its events |
| Provider clients (`api/src/`) | none across requests | ask and retry, fold four stream formats | no half call runs; what was shown is what is stored |
| Tool executor (`tools/src/executor.rs`, `permissions.rs`) | the calls of a turn | partition, gate, ask, hook, call | unsafe calls run alone; a call runs on a grant of its own |
| Permission requests (`permission_api.rs`, `run_handler.rs`) | two maps and a file | ask, decide over a socket or REST, persist, restore | what a client is shown it can decide |
| Background shells (`tools/src/background.rs`) | task records, one monitor each | spawn, stop, time out, drop, wait, notify | an ended task leaves no shell; a stopped shell ends |
| Agent graphs (`engine/src/graph/`) | counts of fan-ins, a checkpoint file | start a batch, take results, route, ask, resume | nodes wait for their predecessors; one branch of a router |
| Task store (`tools/src/task_store.rs`) | a file per task, a high-water mark | create, update, list | numbers are not given twice |
| Evolution store (`serve_http/evolution.rs`) | live file, proposal, history, record | propose, judge, snapshot, exchange, restore | a proposal is judged once; what is displaced is kept |
| Dream scheduler (`serve_http/dream.rs`) | fingerprints, a lock, a marker | watch, dream, stamp | runs only when nothing else does; an outcome is reviewed, and once |
| Videos (`serve_http/video_service.rs`) | a ledger, a queue, a rate window | create, dispatch, refresh, delete | a submitted video's end is recorded |
| Skills (`engine/src/skills.rs`, `cli/src/skill_watcher.rs`) | three collections, a watcher | activate, rescan, reload | an edit reaches the prompt |
| Virtual machines (`tools/src/vm/`) | per instance a directory with a record and a disk, a container | create, start, ensure, stop, destroy, prewarm | a guest's disk survives everything but destroy |
| Editor bridge (`cli/src/acp.rs`) | sessions, a controller per session, answers to be written | read a line, prompt, cancel, answer | every turn that ends, or is told to, is answered |
| Peers (`session_hub.rs`, `connection.rs`) | the sockets that watch a session | register, move, sync, disconnect | peers see the transcript of the session |
| Browser page (`frontend/src/websocket.ts`, `store/`) | a socket, a queue of commands, what is shown | connect again, send, apply frames | commands keep their order; the page comes back; it never shows an older transcript |
| Usage totals (`session_hub.rs`) | a cache per session | add a run, restore | the total never loses a run |

How they meet. A WebSocket or REST handler takes the *transition mutex* and
checks the project's generation, reserves the *slot* of a session, takes a
*snapshot* from the session writer, builds an engine from it, attaches the run's
controller and lets go of the mutex. The engine appends each message through a
handle to the *session writer*, a thread behind a channel. Its supervisor commits
a terminal when the engine and the consumer of its events have ended; the task
that owns the lease then stores usage, tells the client and gives up the slot.
Metadata (titles, traces, usage) is written to the same session by other tasks,
which is why the revision moves under the engine's feet and compactions compare
and swap.

What is hard about it: tasks that act on a snapshot taken earlier (pages,
compactions, background summaries); runs that outlive the task that owns them;
handlers that hold the fence while they wait for somebody else; a file that is
sometimes appended to and sometimes rewritten, and reloaded after a crash; lists
in memory that are cut for one request and later persisted; streams that break
anywhere; requests that wait for a human while others decide, cancel or restart;
ledgers on disk that several processes read and write; callbacks of attempts
that were given up. The full list is `hazards` in `PROJECT.json`, each at its
line.

Outside the session the components are joined more loosely, and each model has
the neighbour it needs inside it: `ToolTurn` extends `PermissionMailbox`, because
a call and the request it waits for are one hazard; `RunLifecycle` is the engine
task that `SessionRuns` sees as "engine" and "task", and implements `Run`, which
says what the holder of a slot relies on; `PageSync` has the hub, the handler of
a connection and the page, because the race is between the three.

## The modules

| Module | Models |
|---|---|
| `Selection` | keeping the elements of a sequence that are in a set (`retain`, `filter`), as a recursive function |
| `SessionWriter`, `MCSessionWriter` | `session.rs`: the actor, its file, its clients, crashes and I/O errors |
| `SessionHistory`, `MCSessionHistory` | the same, with the history of whether lines were asked to go and how many traces were accepted |
| `EngineCompaction` | `loop_.rs` and `compact.rs`: the message list of successive runs beside the persisted session |
| `SessionRuns`, `MCSessionRuns` | slots, fence, handlers, run tasks and their engines |
| `Run` | the abstract run: it says things, is heard, and ends once |
| `RunLifecycle` | `run.rs`: engine task, event consumer, supervisor; implements `Run` |
| `ProviderTurn` | `client.rs`, `retry.rs` and the loop around them: requests, streams, recovery |
| `PermissionMailbox` | pending requests in two maps and a file, two ways to decide them |
| `ToolTurn` | the calls of one turn through barriers, gate, human, hooks |
| `BackgroundTasks` | shells, their monitors and who waits for them |
| `GraphRun` | `graph/executor.rs`: runs and resumptions of one graph |
| `TaskStore` | `task_store.rs`: numbers and files of several processes |
| `Evolution` | `evolution.rs`: one proposal after another for one live file |
| `DreamLedger` | `dream.rs`: what was reviewed, by several servers |
| `VideoTasks` | `video_service.rs`: ledger, dispatcher, requests, remote service |
| `SkillReload` | `skills.rs` and `skill_watcher.rs`: one skill file |
| `VirtualMachines` | `vm/tools.rs`, `backend.rs`, `firecracker.rs`: instances, their callers and guests |
| `EditorBridge` | `acp.rs`: the loop over stdin and the prompts it spawns |
| `PageConnection` | `websocket.ts`: the attempts, sockets and commands of a page |
| `PageSync` | `session_hub.rs`, `connection.rs` and `store/transitions.ts`: what a page shows of a shared session |
| `MCServices` | the modules from `RunLifecycle` on, one at a time |
| `MCProgress` | `SessionWriter` and those of them that promise to end something, one at a time, with their fairness |
| `SelectionProofs` | lemmas about `Selection` |
| `SessionWriterProofs`, `EngineCompactionProofs`, `SessionRunsProofs` | theorems about the session: the writer (with `SessionHistory`), the turn loop, the slots |
| `RunProofs` | theorems about a run: `RunLifecycle`, `GraphRun`, `ProviderTurn`, `ToolTurn`, `BackgroundTasks` |
| `LedgerProofs` | theorems about files several processes write: `TaskStore`, `DreamLedger`, `Evolution`, `VirtualMachines` |
| `PageProofs` | theorems about a page: `PageConnection`, `PageSync` |
| `ServicesProofs` | theorems about `MCServices`, and the types of `VideoTasks`, `SkillReload` and `EditorBridge` |

`SessionWriter`, `EngineCompaction` and `SessionRuns` meet in the session.
`EngineCompaction` sees it as a revision and a message list that change in one step, and a
compaction that is accepted only while the list is the one it was made from, which is what
`SessionWriter` promises (`CompactsWhatItSaw`; `RevisionNamesTranscript` is proved).
`SessionRuns` sees only how often a transcript changed, and shows that one engine at a
time works on it, which is what `EngineCompaction` assumes.

### SessionWriter

`disk` is the file below its header: the complete lines and what follows the last
newline, which may be a whole line without newline (the loader reads it) or a
torn one (it does not). `revision`, `messages`, `preserved`, `usage` and `stale`
are the fields of `SessionState` (`stale` is `needs_rewrite`). `queue` is the
channel, `waiting` the tasks that await a one-shot reply, `view` what each task
learned from its last snapshot. One action per arm of `writer_loop`, one more for
each way it can fail; an append is two steps, `WriteJson` and `WriteNewline`,
since `append_value` writes twice. A line is a kind and an identity; a result
carries the identity of the call it answers, so that pairing has a meaning.
`trace` stands for traces and run outcomes, which the loader treats alike: the writer
counts them in the revision, the loader does not. Every completed run writes one
(`connection.rs:2447`, `run_api.rs:533`), so a revision falls when a session is loaded
again, and `RevisionFallsByTraces` says by how much.

A page that slices beyond its end is a panic: the writer is `dead`, every queued
reply is dropped. `Close` is the last handle going away. A torn tail may in
reality also be cut inside a UTF-8 sequence, after which the file cannot be
opened at all; the model has only the milder outcome.

### EngineCompaction

A message names the *utterances* it stands for: one for a message as it was said, a union
for a summary. So "nothing is forgotten" can be said without text. `text` is the size of a
tool result and whether it was trimmed (`micro_compact`) or pruned (`prune_tool_results`),
and `none` for a call that is said without any text beside it: unanswered,
`RepairToolPairing` drops it, where it keeps the text of another. `phase` is the place in
the loop; a turn passes the pick-up of a background summary, trimming, the weighing of the
context with pruning, a background or a forced summary, the answer, the tool results and
notices. The token estimate is left open: any branch it chooses may be taken.
`PersistCompaction` is the compare-and-swap, its conflict and its I/O error; each caller
says what it goes on with. `Cancel`, `Fail` and `EndRun` end a run in the ways the loop
can, and `StartRun` hydrates the next one from the session. `injected` are messages the
loop shows the model without persisting them (skill bodies, answers of graphs, ends of
background shells).

### SessionRuns

`slot` is `active_runs`; `runs` holds, for each lease, whether it has a controller, was
cancelled, where its task and its engine stand, which transcript the engine was built from
(`view`), under which generation it was made, whether its client was told (`told`) and
those who wait for it (`done`). Each client's handler walks through places (`pc`): `stop`
and `wait` (`cancel_run_and_wait`), `join` (await the connection's own task), `fence`,
`acquire`, `snapshot`, `register` or `mutate`. `Clear` waits under the fence, `Run` and
`Compact` before it, as in `connection.rs`. Connections that joined a session share its
handle, and one that selects another session turns it for all (`connection.rs:1318`); a
request looks at the handle when it begins, so for the others that is as if they had
resumed it themselves before their next request, which `Resume` allows. A task that panics
leaves a `dropped` lease and an engine behind; `Release` is the task spawned by `Drop for
RunLease`.

### RunLifecycle and Run

Three tasks: the engine says events into the trace and an unbounded channel and
returns, fails or panics; the consumer takes them one by one and hands them on,
and may panic; the supervisor joins the engine, then the consumer, persists the
trace and commits the terminal. An engine that fails says one more event
(`closing`). `traceTail` is what the commit looks at to tell a run that said its
end from one that did not; child runs write into the same trace. `Promise` maps
this to `Run`: unheard are the events in the channel and the one the consumer is
handling, nobody listens once the consumer has panicked.

### ProviderTurn

A turn is a request with its attempts, back-off and the one repair of pairing; a
stream of text, thinking, call and argument frames and a stop frame; and what the
loop decides. A frame is its kind; a call's arguments are `none`, `part` or
`whole`. The formats differ where the code does: what a missing end means, whether
arguments that do not parse fail the turn, which stop reasons exist. A stream may
end, break or be cancelled after every frame. The loop fabricates a stop reason
for a cut-off response, asks the model to go on within a budget, and otherwise
completes. `ran` and `unanswered` record what was done with calls.

### PermissionMailbox and ToolTurn

A request is a pair of a call and the place that asks (gate or hook). `senders`
and `metas` are the two maps, changed one lock at a time: `RestTakesMeta` and
`RestTakesSender` are the two halves of the REST handler, the socket's handler has
its own, and a restart keeps only the file. `stage` is the place of each call:
the gate (mode, patterns, harmlessness), asking, the `PreToolUse` hook, which may
deny or ask again, the call, the hook after it. `MayStart` is the partition of
`executor.rs`: batches of safe calls up to the limit of concurrency, unsafe ones
alone. Cancelling drops the future of the whole turn, with one-shots in the maps.

### BackgroundTasks, TaskStore, GraphRun

A background task has a record (`bgStatus`), a monitor with its place, a shell,
and perhaps descendants that survive it. Stop, timeout, exit and the drop of the
registry meet in `monitor`. `waiter` is `TaskOutput` with its read, its
registration and its wake-up as steps of their own.

`TaskStore` gives a process one operation at a time, and each write of a file two
outcomes, whole or torn. `overlapped` and `cutShort` are history: they say when
the code has no right to expect distinct numbers.

`GraphRun` keeps what `run_graph` keeps: completed nodes, the counts of what each
fan-in waits for, the reachable part, the batch with its results in key order.
Every result is followed by its checkpoint. A run may return, fail, be cancelled or
die in any phase, and `resume` recomputes its counts from the checkpoint.

### Evolution and DreamLedger

A content is a number never written before, so that content and version of a file
are one. `commit_gated` is a step per call to the file system: claim, judge, open
and copy the live file, publish the snapshot, look again, copy the candidate,
record, exchange, look again, sync, clear the record, clean up. Each may fail, the
process may die after each, and an editor may truncate and write, propose or
replace files between any two. `savedLive` and `savedShadow` are what the two names that
matter are on disk: a sync of the directory, or the system in its own time (`WriteBack`),
brings them up to date, and `PowerLoss` brings the names back to them, so that a cutover, a
claim, or the claim and the removal of a rejection are undone.

`DreamLedger` has several servers with their fingerprints, one lock and one marker.
An outcome is a session and a time; `Excluded` is the filter of the brief. A dream
completes, is truncated or fails, and a server may die in any stage.

### VideoTasks and SkillReload

A video's ledger line is a whole record. Dispatcher, refreshing GETs and DELETEs
each keep a copy that they read before a remote call and append afterwards. The remote
service moves to statuses of its own choosing, of which some have no arm in the code
(`RemoteStrays`): they are recorded and polled on from.

`SkillReload` follows one file through the manager's three collections (`static`,
`waiting` for a condition, `dynamic`) and the watcher's thread: bind, reconcile,
receive an event, load what is pending when no event of any file has come for a second.
Events of other files are `OtherFile`. An activation inserts the waiting text, which no
reload has touched, over a newer one; `overlaid` records it where no load is to come.

### VirtualMachines

`vmRecord` is the state in `state.json` (`none` without the file, `torn` when it is empty
or half written: `save_instance` truncates and then writes), `vmDisk` what `rootfs.img`
holds, `vmGuest` the container that bears the instance's name. A caller is a session or
the prewarm task. `FirstStep` is what `VmTool::call` decides from the record it has
loaded, which is corrected by a look at the container and is none at all when it does not
parse (`LoadedState`); each later step is one effect: the copy with its two ends, the
record, `docker rm`, `docker run`, the wait for the guest. A boot may fail at each of
them, a cancelled run drops a call at any of them, and the host may restart. `overlaps` is
history: the instances on which a caller began while another was at work.

### EditorBridge

`stdin` holds the lines the editor has written whole; of one more it may have written
a part. The `select!` of `serve_io` prefers to read, so an answer is written only when
there is no whole line to read, and drops what was read of a part (`torn`). The rest of such a line
is skipped, or ends the bridge when it was torn inside a character (`failed`). `controllers` is the
map by session that a prompt writes when it starts, that a cancellation takes from,
and from which the prompt removes whatever is there when it ends.

### PageConnection

`attempts` are the bootstrap fetches in flight, each with its generation;
`readyState` belongs to every socket ever made, so that callbacks of superseded
sockets are there and can come late. Every callback asks `Speaks(g)`, as the code
asks `mounted` and `markConnected` or `markDisconnected`. A command is its number
in the order given. `Flush(n)` is `onopen`: the first `n` of the queue are
accepted, then the socket refuses. The queue is emptied at a session boundary and
by the clean-up, drops its oldest when full, and recognises duplicates by key.

### PageSync

One page among others that change the same sessions. `Change` is another client's
run, clear or compaction under the slot; `SyncLists`, `SyncReads` and `SyncSends`
are the three steps of `SessionHub::sync`; the handler of the page's connection
registers, reads, moves its registration and sends, each a step. `wire` is the
socket. Connections and hub entries reach their session through handles that they share
and that any of them turns, so `SyncReads`, the handshake and Clear may find any session
there; a frame has the name it is sent under and, unsent, the session it is `of`. The page
applies `messages_loaded` and `info` as `acceptSnapshotTransition`
and `setInfo` do. `version` counts the changes of a transcript and never falls;
`revision` is what the code compares, and a restart may lower it.

## The runs

| Run | Shows |
|---|---|
| `SessionWriter.cfg` | `JsonlMatchesMemory`, `TranscriptMatchesPreserved`, `CompactsWhatItSaw`, and `RevisionFallsByTraces` until something is compacted, cleared or repaired |
| `Progress.cfg` | `EveryCommandAnswered` under every fault, with torn appends and panics; for the rest see below |
| `SessionTornAppend.cfg` | a disagreement: an acknowledged append that cannot be read (`AcknowledgedIsReadable`) |
| `SessionPageRace.cfg` | a disagreement: a read that kills the writer |
| `EngineCompaction.cfg` | shape, `NothingForgotten`, `RequestWellPaired`, `RequestMatchesSession`, `ContextNeverShrinks` |
| `EnginePruning.cfg` | a disagreement: pruned results are persisted |
| `EngineBackground.cfg` | a disagreement: background summaries are never used |
| `SessionRuns.cfg` | `OneWriter`, `SnapshotCurrent`, `ClearFindsSlotFree`, `TerminalBeforeNextLease`, `RunsInPublishedProject` |
| `SessionLiveness.cfg` | `SlotReleased`, `HandlersReturn` |
| `Services.cfg` | see below |
| `DreamIncrement.cfg` | a disagreement: outcomes that no dream was shown count as reviewed |
| `VmDisk.cfg` | a disagreement: two callers who both create an instance destroy its disk |

`Services.cfg` checks `MCServices`: the type invariants of all its components and the
safety properties below. `Progress.cfg` checks `MCProgress`: the liveness properties.

| Module | Properties |
|---|---|
| `GraphRun` | `PredecessorsComplete`, `OneBranchTaken` |
| `ToolTurn` | `UnsafeRunsAlone`, `OnlyGrantedCallsRun`, `ShownIsAnswerable` |
| `BackgroundTasks` | `EndedTaskReaped`, `StoppedShellEnds` (liveness) |
| `RunLifecycle` | `RunKeepsPromise` (it implements `Run`), `CancelledRunEnds` (liveness) |
| `ProviderTurn` | `OnlyWholeCallsRun`, `ShownTextIsKept` |
| `VideoTasks` | `VideoEndRecorded` (liveness) |
| `Evolution` | `ProposalsJudgedOnce`, `DisplacedIsKept` |
| `DreamLedger` | `NothingReviewedTwice` |
| `TaskStore` | `NumbersDistinct` |
| `SkillReload` | `EditIsReloaded` (liveness) |
| `VirtualMachines` | `DiskKept` |
| `EditorBridge` | `TurnAnswered` (liveness) |
| `PageConnection` | `CommandsKeepOrder`, `PageReconnects` (liveness) |
| `PageSync` | `ShownNeverOlder` |

These components share no state, so nothing is learned by interleaving them. The variable
`service` (in `MCProgress`, `promise`) picks one at the start, and the others keep their
initial state: the states of a run are the sum of the components' states (about 770 000 in
`Services`, 260 000 in `Progress`), not their product, and a component's properties hold
in it as they would in a run of its own. Its fairness is required of the picked component
only: for another one, which cannot move, it would mean nothing.

The properties are stated, with the lines they are about, at the end of each
module; `PROJECT.json` has for each a plausible bug (`mutants`) that breaks it.

Bounds and why they are enough:

- *SessionWriter.* Two clients: every race in the actor is between the author of a
  stale view and one other task. Four mutating commands: enough for a call, its
  result, a compaction and an append after it, or for a rewrite, an append, a
  crash in between and an append after the reload. One crash and one fault, which
  may fall on any command. The shape of the state is proved (`TypeCorrect`) and not
  checked again. The faults `json` and `newline` and
  torn appends are left out of `SessionWriter.cfg` because they break
  `JsonlMatchesMemory` (`SessionTornAppend` shows the torn append); so is
  `compact-rewrite`, after which the revision no longer names the transcript and
  another compaction may replace what its author never read.
- *EngineCompaction.* All tool results are large: whether a large one is trimmed or pruned
  is left open, so a small one does nothing that it does not. Eight utterances in all runs
  together, with one protected message and one kept turn less than the code's three, let a
  list grow, be trimmed, summarised, and grow again, and a second run hydrate it. One
  disturbance is a foreign write, an injected message or a failing command.
- *SessionRuns.* Two connections and a dream on one session, two leases, one
  panic, one project switch: the second lease is the replacement that must not
  overtake the first. Liveness is checked with one connection and one REST client
  on two sessions, without a switch.

- *GraphRun.* Seven nodes: a fork whose branches join, a router behind it, a gate
  behind one of its branches and a node behind the gate; five steps, so that the
  limit is met; a run and two resumptions.
- *ToolTurn.* Three calls, two of them safe and the third an edit; the first asks
  at a hook as well; two modes, and both an interactive client and none.
- *BackgroundTasks.* One task and two sessions: tasks do not touch each other.
- *RunLifecycle.* Two events, one waiting while another is handled.
- *ProviderTurn.* Four formats, two attempts, two recoveries, three turns, one text
  and two calls a response: a whole call before one that is cut off, and a budget
  that is used up.
- *VideoTasks.* One video, one submission a minute, two refreshes at once: two stale
  copies beside the dispatcher's.
- *Evolution.* Contents up to four: the live one and two that are written later, proposals
  or an editor's, beside missing and truncated. A proposal is judged, comes back after a loss
  of power and is judged again, or is displaced by the other one.
- *DreamLedger.* Two servers, one session, two seconds, two dreams: a dream of one
  server between another's brief and its marker. `DreamIncrement` has one server,
  three seconds and three dreams.
- *TaskStore.* Two processes and three creations. *SkillReload.* Three versions and
  two waiting events, so that an edit waits behind a change of the layout.
- *VirtualMachines.* One instance and two callers, who may call as often as they like:
  there is no other bound.
- *EditorBridge.* Two prompts and one cancellation in one session: the second prompt
  overwrites the controller of the first. Lines are whole or torn.
- *PageConnection.* Three commands with two keys, a queue of two that overflows, two
  disturbances: with them an attempt is superseded while its fetch or its socket is
  still under way. *PageSync.* Two sessions, one change by others, two choices or clears of
  the page, one lost socket or restart: enough for two snapshots of one session to be
  under way from two sides, for a restart to lower the revision, and for the transcript of
  one session to be sent under the name of the other.

`CHECK_DEADLOCK FALSE` is used where the system may stop: in `EngineCompaction` when the
bound on utterances is reached, in `SessionRuns` when every connection has been closed, in
`MCServices` and `MCProgress` when the picked component has used up its bounds or ended,
in `DreamIncrement` when the clock and the dreams are used up. Symmetry (clients of the
writer, connections) is used in runs that check no liveness.

Fairness:

- `SessionWriter`: `WF(WriterStep)`. The writer is a thread of its own that blocks
  only on its channel and on the disk. Clients are not fair: they need not ask.
- `SessionRuns`: weak fairness of each handler's and each run task's steps, since
  the runtime polls them and none blocks a worker; strong fairness of `Lock`,
  because tokio's mutex queues its waiters. An engine is fair only once it was
  cancelled (every await in it selects on the token). Panics, new requests,
  timeouts and what an engine says are not fair. One assumption is not in the
  code: that a send to a socket returns. Sends have no timeout (`protocol.rs`
  791-796), so a peer that stops reading holds its run's slot; see the hazard.

- `RunLifecycle`: a cancelled engine returns, the consumer's sends return, the
  supervisor runs. The first holds because every await in the loop selects on the
  token; the second is the assumption about sockets again.
- `BackgroundTasks`: weak fairness of a monitor. It is a spawned task, and a
  killed shell can be waited for.
- `VideoTasks`: the dispatcher's task, and that the remote service's videos end, once it no
  longer leaves them in a status the code has no arm for (a premise of `VideoEndRecorded`:
  such a video is polled for ever).
- `SkillReload`: the watcher's loop, a thread that never waits longer than a second. That
  events of other files cease is a premise of `EditIsReloaded`, because each postpones the
  load.
- `EditorBridge`: the loop is polled; a run that was cancelled ends (`CancelledRunEnds`
  of `RunLifecycle`), others may go on for ever; the task of a prompt is polled.
- `PageConnection`: fetches return, sockets open or close, timers fire. The
  bootstrap fetch has no timeout of its own; one that never returned would keep
  `opening` set and the page without a connection.

## The proofs

Every safety property of a run that passes is stated by a theorem, for every value of
the constants. `TypeCorrect` (`SessionWriterProofs`, `SessionRunsProofs`), `EngineTypes`
and `ServicesTypes` are the type invariants. What stays with TLC is liveness.

`SessionWriterProofs` proves, for every set of clients, every choice of
operations, kinds and faults and all bounds:

- `TypeCorrect`: `Spec => []TypeOK`.
- `JsonlFidelity`: `Spec => []JsonlMatchesMemory`, assuming `FaithfulDisk`: no
  crash inside an append, and no error inside one or inside the rewrite of a
  compaction. Without that assumption it is false, as `SessionTornAppend` shows.
- `TranscriptAgreement`: `Spec => []TranscriptMatchesPreserved`, whatever fails.
- `RevisionsNameTranscripts`: `Spec => RevisionNamesTranscript`, assuming that no
  rewrite of a compaction fails (`"compact-rewrite" \notin Faults`): that failure leaves
  the new transcript under the old revision, see below.
- `CompactionsReplaceWhatTheySaw`: `Spec => CompactsWhatItSaw`, under the same
  assumption.
- `RevisionsFallByTraces`: `HistorySpec => RevisionFallsByTraces`, assuming `FaithfulDisk`.
  `HistoryIsSpec` carries what is proved of `Spec` over to `HistorySpec`.

The type invariant is not inductive alone: between the two writes of an append
the command must still be at the head of the queue, or the line that
`WriteNewline` records would not be the one that was written. `AppendUnderWay`
says so, and also that a writer that is not up is between commands.
`JsonlMatchesMemory` speaks only of a writer that is up and idle. `FileInv`
continues it over the two writes (the file is the preserved lines with the line
under way as its tail) and over the times when nobody holds the session (the
file has no torn tail, whatever memory says), so that an append and a reload each
go from one instance of it to the next. `TranscriptMatchesPreserved` rests on
three facts about `Select`: it distributes over concatenation, the messages of
metadata are none, and the messages of messages are all of them (`SelectionProofs`).
The library states induction for a predicate, which no
installed prover can instantiate; `SetInduction` states it for a set of naturals
(from the least element of what is missing), and `SelectPrefixDef` derives the
recursive function's defining equation from it. `CompactsWhatItSaw` needs `SwapInv`: a
snapshot of the present revision is the present transcript, and a compaction under way
expects the revision of the snapshot its author still holds, because a task has one
command under way. `RevisionFallsByTraces` compares a life of
the writer with the one before it, so its invariant `CountInv` must say what the file
will be read as: as long as nothing asked lines to go, only reads and appends are under way,
and the revision is the number of lines in the file the loader counts and of the traces
it does not, also while nobody has the file open.

`EngineCompactionProofs`, for any number of turns a summary leaves alone, any protected
tail, any sizes and any bounds: `EngineTypes`, `CompactionForgetsNothing`,
`RequestsAreWellPaired`, `RequestsMatchTheSession` and the action property
`ContextOnlyGrows`. None of the four is inductive. `LoopInv` is made of three parts.
`TypeInv` adds to the types that a forced compaction has something to summarise. `ListInv`
says of the engine's list and the session's that no utterance is told twice, that calls
and results stand together (in the engine's list except for the call whose tools run),
that a call without text which the session holds unanswered is one whose answer it never
got (`StoredBare`, without which a repair could drop more than `NothingForgotten`
exempts), that both tell all that the session accepted, and that the engine's shows what
the session's would show once repaired, as long as the session failed nothing.
`PendingInv` is about the background summary: while the session's revision is the one it
was based on, the engine's list has only grown, and a list that did not grow tells nothing
the summary does not tell; it is what keeps a stale summary from shrinking the context.
The work is in the lemmas about lists: what `Compacted`, trimming, pruning and
`RepairToolPairing` keep of the order, the pairs and the meaning of any list of messages.

`SessionRunsProofs` proves, for all sets of connections, REST clients and
sessions and all bounds, assuming that there are finitely many clients and that
no connection is a REST client:

- `TypeCorrect`: `Spec => []TypeOK`.
- `WritersExclude`: `Spec => []OneWriter`.
- `StartsCurrent`: `Spec => []SnapshotCurrent`.
- `StartsInProject`: `Spec => []RunsInPublishedProject`.
- `TerminalFirst`: `Spec => []TerminalBeforeNextLease`.
- `ClearOwnsTheGap`: `Spec => []ClearFindsSlotFree`, assuming also that the model's
  `Nobody` is no client.

`OneWriter` counts engines and handlers at work, and says nothing of slots, so it
is not inductive. `HoldInv` ties the two: a lease that is not finished or released
has the slot of its session. It needs `SetupInv` (a handler that took a lease
still owns it, and still looks at the session it took it for, until it hands the
lease to a task) and `EngineInv` (an engine at work belongs to a lease that still
holds, and that has a controller, so that the task spawned for a dropped lease
waits for it). `AskingInv` is about the model's bound only: a handler on its way
to the slot has a lease left to take, which takes the cardinality lemmas of the
library and the finiteness of the clients. `StartInv` adds the history of a run to
this: `ViewInv` (its view is the transcript while it is being set up and until it
speaks), `OrderInv` (of a session's leases only the latest
may hold its slot, and one that ended with its task was told) and `RunsInPublishedProject`, which
holds because a switch under the fence finds every slot free. The lemmas `...Outside`
say what a handler without a lease may change, so that each invariant is settled for
all of them at once. `ClearFindsSlotFree` needs `FencedInv`: a handler between the fence
and its slot holds the fence, a Clear from the moment it looks for a run to stop; a slot
is held by a lease of its session that has not finished; and the slot a Clear waits for
is free or still held by the run it stops.

`RunProofs` holds what belongs to one run. `RunLifecycle`, for any bound on events:
`LifecycleImplementsRun`, the refinement `LifecycleSpec => RunKeepsPromise`. `JoinOrder`
says in which order the tasks end and what each leaves: the supervisor is past the engine
only when it ended, past the consumer only when the channel is empty. Each step is then a
step of `Run` or leaves it alone.

`ProviderTurn`: `OnlyWholeCallsEverRun` and `ShownTextIsAlwaysKept`, for every
subset of the formats and every bound. The first rests on `StopSaid`: a fold has the
stop reason after which calls run only behind the last whole call, because
what the loop fabricates for a broken stream is another one.

`ToolTurn`, for any calls, modes and limit of concurrency:
`UnsafeCallsRunAlone` from the order of batches, `CallsRunOnTheirGrants` from what a
call in each stage has asked for and heard, `ShownCanBeDecided` from where each
request is between the two maps while two handlers take it apart.

`GraphRun`, for every finite graph that validates: `GraphWaitsForPredecessors` and
`RouterTakesOneBranch`. The counts are `Cardinality(Predecessors(n) \ completed)` and the
batch is disjoint from what is completed; the rest is that taking a result lowers a count
by exactly one, which takes the cardinality theorems of the library. For the branches,
`BranchInv` ties what was started behind a router to the choice that is recorded, in the
run or in the checkpoint a resumption restores it from.

`BackgroundTasks`, for any tasks and sessions: `EndedTasksAreReaped`, from what each place
of a monitor says about its shell (`ShellOwned`).

`LedgerProofs`: `NumbersStayDistinct`, by giving each number at most one claim (an
answer, a file or an operation that is about to save); `NothingIsReviewedTwice`, from
the lock (one dream at a time), outcomes that are never stamped in the future, and a
marker that excludes what was reviewed; `NoProposalIsJudgedTwice`, from where the
content of an unjudged proposal can be while a commit is under way, on the names and on
the disk; `DiskIsKept`, from
two facts about instances without overlap: one caller at most is at work on it, and one
that is about to copy has found no record, or a torn one, so that no guest has written to
the disk or the record was torn.

Of `Evolution`, `NothingDisplacedIsLost`, from what a commit expects to find and what
an editor that has the live file or the promotion open can still do to it
(`DisplacedInv`).

`PageProofs`, for any commands, keys, limit of the queue and disturbances:
`CommandsGoOutInOrder`. `CommandsKeepOrder` says nothing of the queue; the invariant
orders what was sent and what waits together, and adds that the queue is empty while
the page's socket is open, without which a command sent at once would overtake one
that waits. `PageTypes` bounds the generations: that a page begins no more attempts to
connect than mounts, commands and disturbances ask for is a sum of what is still owed
(`AttemptsOwed`: the page is not mounted, its timer runs, its socket is closing), which
needs that only the socket of the newest generation is alive and the page's
(`LiveIsNewest`). `PageNeverGoesBack` is about `PageSync`, for any sessions, changes,
choices and losses: a snapshot under way, with whoever has read it, on the wire or with
the handler, is as far behind its session in versions as in revisions, so that one the
page would take for newer is not older than what it shows (`SyncInv`), as long as what it
shows, and what it takes, is of the session it is sent for.

`ServicesProofs`: the type invariants of `VideoTasks` (inductive as it stands), of
`SkillReload` (a project is published under a number no greater than the last version)
and of `EditorBridge` (inductive as it stands). `ComponentsRunAsSpecified` shows that in
`MCServices` every component starts and moves as its own module says, since a step of one
leaves the variables of all others alone: that run checks what the theorems are about, and
what is proved of a component holds of it in the run. `ServicesTypes` collects the
components' invariants from there: `ServicesSpec => []ServicesTypeOK`.

The assumptions are those of the modules, each as weak as the code allows: bounds are
natural numbers, the limits a retry or a queue has are at least one, the values that
stand for "none" are no clients, servers, sessions or prompts (`GraphAssumption`,
`ToolTurnAssumption`, `ProviderAssumption`, `EvolutionAssumption`, `DreamAssumption`,
`TaskStoreAssumption`, `VideoAssumption`, `SkillAssumption`, `EditorAssumption`,
`PageAssumption`, `SyncAssumption`, which TLC evaluates in `Services.cfg`;
`EngineAssumption` in `EngineCompaction.cfg`; those of the session modules in theirs).
Four theorems about the writer have conditions on its faults, named above,
and TLC refutes what they state without them, or the code does.

Out of the prover's reach, and left to TLC: liveness under fairness and anything
with `ENABLED`, that is `EveryCommandAnswered`, `StoppedShellEnds`, `CancelledRunEnds`,
`VideoEndRecorded`, `EditIsReloaded`, `PageReconnects` and `TurnAnswered` (`Progress.cfg`)
and `SlotReleased` and `HandlersReturn` (`SessionLiveness.cfg`). There are no `RECURSIVE`
operators.

## Where the code and its text disagree

1. *Torn append.* `session.rs:3-5` says revision and JSONL order advance
   together. A crash inside `append_value` leaves half a line; the next
   append continues it, is acknowledged, and cannot be read back: the run shows that
   append and its answer.
2. *Page race.* `session.rs:1157-1159` calls a history page a pure read. If a
   Clear is served between the snapshot that clamps `before` and the page, the
   slice panics and the writer thread is gone with its state.
3. *Pruning is persisted.* `compact.rs:352-354` says it never is. The pruned list
   becomes the run's list and is stored by the next compaction or trim.
4. *Background summaries are wasted.* `README.md:132` promises a two-pass
   pre-compaction. The pick-up requires that no message was said since the spawn;
   one always was.

5. *The dream's increment.* `dream.rs:614-618` says an outcome stamped after the
   previous dream is surfaced again, and 892-894 that a truncated dream leaves the
   ledger untouched. The marker is stamped with the time after every dream, so what
   was written during one, or before one that did not complete, is never listed.

6. *The disk of a microVM.* `vm/tools.rs:39-40` says it survives stop, start and
   sessions, `backend.rs:269` that a lock serialises the operations. The lock is never
   taken, and an instance is visible to others only after its image was copied: two
   callers, or the prewarm and the first call, both create it, and the second copy
   empties the disk of the guest the first one has started. Unless two operations
   overlap the disk is kept (`DiskKept`, proved).

Seen while modelling and not settled by a run:

*Sessions and runs*
- A failed rewrite in `ReplaceAfterCompact` leaves the new transcript in memory under
  the old revision (`session.rs:1192-1196`).
- A load that repairs the transcript counts the messages it removes in its revision;
  the load after the next rewrite does not, so the revision falls (1028-1045).
- The loader does not count the traces and outcomes every completed run writes, so the
  revision a client has been told is taken back by a restart (960-979; `session.rs:111`
  says that revisions increase); `RevisionFallsByTraces` says by how much. A Clear keeps
  the usage total in memory only (1204-1230).
- `compact.rs:6-7` says compaction is in memory for the current run and the session file
  keeps the full history. `persist_compaction` stores the compacted list in the session
  (`loop_.rs:1490-1518`), as the comment at 2274-2282 wants it; `RequestMatchesSession`
  states that comment.
- An unanswered call without text is removed with its message by `repair_tool_pairing`
  (`loop_.rs:4147-4178`): what the session accepted is then in no transcript and under no
  summary, after a cancellation between a call and its result or a refused append.
- The comment at `loop_.rs:3396` does not hold for the error returns.
- A connection's Cancel is lost while another client's run is being set up
  (`connection.rs:2653-2669`). Peers are not synchronised after cancelled or failed
  runs (2583-2642).
- A cancellation between the report of an error and the commit gives a trace that
  failed and a terminal that says cancelled (`run.rs`).

*Providers and tools*
- Gemini's `STOP` becomes `EndTurn` (`client.rs`, `gemini_stop_reason`), and the loop
  runs tools only after `ToolUse` (`loop_.rs:3046`): its calls are never executed.
- A stream that ends without a stop reason is accepted in all formats. Where the
  budget of recoveries is used up, the run completes with calls that have no result;
  the next load repairs them.
- The comment at `permissions.rs:99-101` does not hold in Auto mode.
- A run that is cancelled while it asks leaves its sender in the map, where it keeps
  the dream scheduler from dreaming (`dream.rs:813-815`). A REST decision that finds
  the sender gone answers 410 after it has hidden the request.
- The end of a background shell is told to whichever session's run drains the
  notifications first. `wait_for_terminal` may miss a change and wait for its timeout
  (`background.rs:247`). Descendants of a shell that has exited by itself are not
  killed (310).
- A node that joins branches of which a router takes one never fires, also in the
  documented example (`graph/mod.rs:14-49`, `executor.rs:218-231`). The router's choice
  is saved only with the next checkpoint (`executor.rs:287`).

*Services*
- The rename that claims a proposal and the removal of a refused one are not synced
  (`evolution.rs:1199-1209`, 1214-1217, 781-794): after a loss of power the proposal may be
  back under its name and is judged again.
- `evolution.rs` rejects a proposal for which there is no outcome, where
  `dream.rs:1200-1206` says it is neither committed nor discarded.
- `video_service.rs:5-6` names a semaphore that is not there. A DELETE of a queued
  video does not stop its dispatcher, which overwrites the cancellation; a refresh with
  a stale copy brings a deleted one back, or an ended one; after a restart nothing polls
  what was submitted. The comment at 592 says an unknown status is polled on from "a few
  rounds"; there is no bound.
- An edit of a skill between two bindings of the watcher is lost when the skill is already
  known (`skill_watcher.rs:205-207` says the gap is closed); a file replaced by rename is
  never reloaded; an activation puts the text a skill had when it was discovered over the
  one a reload has brought (`skills.rs:694-698`, 740-745, 875-880; `load_from_dir` leaves
  the waiting skill as it was, 842); `rescan` adds skills that wait for a condition
  (`skills.rs:267` says "deferred").
- A torn `.highwater`, or two processes at once, give a task number twice.

*The editor bridge and microVMs*
- An answer that is written while a line has been read in part drops that part
  (`read_line` in `select!`, `acp.rs:84`), and the rest of the line does not parse: a prompt or a
  cancellation is lost. If it was torn inside a character the read fails, and `serve_io`
  returns with every pending turn unanswered (85).
- `acp.rs:11-12` says a cancellation is honored while a turn is in flight. One that
  arrives before the controller is listed, or after another prompt of the session has
  overwritten or removed it, stops nothing. Errors of a prompt are sent as `result`.
- `save_instance` writes `state.json` in place (`backend.rs:230-237`), and one that is empty or
  does not parse reads as no instance (217-218): after a kill or a full disk in between, the
  next create or ensure copies the base image over a disk that is there, without any
  overlap, whatever `vm/tools.rs:39-40` says.
- A boot that fails or times out leaves its container running under a record that says
  stopped; `stop` and `destroy` then leave it alone (`vm/tools.rs:194`, 206). All
  Firecracker guests use `tap0` (`firecracker.rs:114`), and slots are chosen without a
  lock (`backend.rs:240`).

*The browser page*
- Choosing the session that is shown already empties the page, and the answer carries
  the revision the page has, so it is refused (`transitions.ts:201`): the page stays
  empty until the session changes. `Chooses` and `AcceptSnapshot` behave that way.
- After a restart or a refused Clear, `awaitingSnapshot` or a revision from before the
  restart makes the page refuse events and snapshots until the server has caught up.
- A command that waited in the queue names no session and is executed in whichever the
  new connection selects (`connection.rs:963-969`).
- Connections that joined a session share one handle (`connection.rs:979-987`), and one that
  resumes, creates or switches turns it for the others (1053, 1318, 1435, 2945), who stay
  listed under the old name. A sync then sends the transcript of one session under the name
  of another (`session_hub.rs:317-341`), which a page takes if its revision is higher, and a
  Clear empties the session the handle names, not the one the page shows (3057-3061).
- A sync that listed a page before it moved to another session is sent after the move
  and takes the page back (`session_hub.rs:317-350`).

## What is not modelled

In `SessionWriter`: legacy formats, headers, session listing and forking, two
processes on one file, two actors for one path. In `EngineCompaction`: turns with
several tools, windowing of history and images for a request, folding of aged
results, cost limits, the engine without a session (sub-agents), where
`persist_compaction` always succeeds. In `SessionRuns`: what a run does apart from
changing the transcript, attachments and model selection, messages that only read,
and stalled sockets. In `ProviderTurn`: what a request contains, frames that do not
parse, usage and cost. In `ToolTurn`: what a tool does, patterns and sensitive
paths as functions of text. In `GraphRun`: the text that flows along edges. In
`Evolution`: checks of paths and descriptors, pruning of the history. In
`DreamLedger`: a marker that is torn, a lock that cannot be opened, rewards. In
`VideoTasks`: listing, errors of the ledger file, the tool that rewrites the ledger.
In `SkillReload`: several skills and roots. In `VirtualMachines`:
QEMU, slots, ports, the network, commands in the guest. In `EditorBridge`: the creation of
sessions, the notifications of a turn. In `PageConnection`: frames from the
server. In `PageSync`: run events with their sequence numbers, older history,
several pages at once, projects.

Not modelled at all, with the reasons in `PROJECT.json`: sub-agents and the built-in
tools, MCP, memory and the session index, prompt, settings and
hooks, the command line, HTTP services that take neither slot
nor fence. Most of these lines render, parse or call out; they hold no state that
two actors share.

## What could follow

- The promise of the editor bridge about cancellations, as a run of its own.
- A life cycle of instances under the lock that `backend.rs` declares.
- Run events at the page (`acceptRunTransition`): sequence numbers, terminals and the
  gaps that a refused snapshot leaves, in `PageSync`.
- The hub's usage totals against the session's, across restarts.
- An abstract session, a revisioned transcript with a compare-and-swap, that
  `SessionWriter` implements and `EngineCompaction` uses.
- The safety lemmas the liveness properties rest on (what is enabled while something is
  owed), so that only the fairness argument itself stays with TLC.
