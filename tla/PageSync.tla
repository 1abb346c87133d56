------------------------------- MODULE PageSync -------------------------------
(***************************************************************************)
(* What a browser page shows of a session that others change too.  The     *)
(* server sends whole transcripts (messages_loaded) from two sides: the    *)
(* handler of the page's connection, when the page connects, chooses or    *)
(* clears a session, and whoever has just finished changing the session,   *)
(* who synchronises the session's peers (SessionHub::sync).  Both read the *)
(* transcript first and send it later, over one socket.  The page tells    *)
(* newer from older by the revision they carry.                            *)
(* The server finds the session of a connection, and that of a hub entry,  *)
(* through a handle: the one of the entry under which the connection was   *)
(* first listed, which it shares with every other that joined there.       *)
(* Whichever of them chooses another session turns the handle for all,     *)
(* while each stays listed under its own name.  The other connections are  *)
(* not modelled, and one of them may have turned a handle just before it   *)
(* is read: a handle names any session.                                    *)
(***************************************************************************)
EXTENDS Integers, Sequences

CONSTANTS
    PageSessions,   \* sessions a page can choose
    MaxChanges,     \* bound: changes of a session
    MaxChoices,     \* bound: choices and clears of the page
    MaxLosses,      \* bound: lost sockets and restarts
    NoSession       \* no session is selected

ASSUME SyncAssumption ==
    /\ NoSession \notin PageSessions
    /\ MaxChanges \in Nat /\ MaxChoices \in Nat /\ MaxLosses \in Nat

VARIABLES
    transcript,     \* of every session: [revision, version]; the version only grows
    work,           \* of every session: what the holder of its slot is doing
    peers,          \* the sessions whose hub entry lists the page's socket
    syncing,        \* of every session: the sync of the page by the holder of its slot,
                    \* [name, of, snapshot]
    selected,       \* shared_sid of the page's connection
    handler,        \* the handler of the connection: [at, target, snapshot]
    request,        \* what the page asked for and the handler has not read
    wire,           \* frames sent to the page and not yet received, oldest first
    page,           \* the page's [session, sessionRevision, snapshotRevision,
                    \*             awaitingSnapshot, shown]
    seen,           \* the newest version shown since the page's session was chosen
    misled,         \* since then the page took another session's transcript for its own
    changes,        \* how many changes there were
    choices,        \* how many choices and clears there were
    losses          \* how many sockets were lost

syncVars == <<transcript, work, peers, syncing, selected, handler, request, wire, page, seen,
              misled, changes, choices, losses>>

Nothing == [revision |-> -1, version |-> -1]
NotSyncing == [name |-> NoSession, of |-> NoSession, snapshot |-> Nothing]
Shows(s, revision, awaiting, version) ==
    [session |-> s, sessionRevision |-> revision, snapshotRevision |-> revision,
     awaitingSnapshot |-> awaiting, shown |-> version]
Handling(at, s, snapshot) == [at |-> at, target |-> s, snapshot |-> snapshot]
Idling == Handling("idle", NoSession, Nothing)
Nobody == [kind |-> "none", session |-> NoSession]

SyncInit ==
    /\ transcript = [s \in PageSessions |-> [revision |-> 0, version |-> 0]]
    /\ work = [s \in PageSessions |-> "free"]
    /\ peers = {} /\ syncing = [s \in PageSessions |-> NotSyncing]
    /\ selected = NoSession
    /\ \E s \in PageSessions : handler = Handling("connect", s, Nothing)
    /\ request = Nobody /\ wire = <<>>
    /\ page = Shows(NoSession, -1, FALSE, -1)
    /\ seen = -1 /\ misled = FALSE /\ changes = 0 /\ choices = 0 /\ losses = 0

ServerIdle == UNCHANGED <<transcript, work, peers, syncing, selected, handler, losses>>
PageIdle == UNCHANGED <<page, seen, misled, request, choices, losses>>

Sends(frame) == wire' = Append(wire, frame)
\* A frame names one session and holds the transcript of one: "of", which is not sent.
Loaded(s, of, snapshot) ==
    [kind |-> "messages_loaded", session |-> s, of |-> of,
     revision |-> snapshot.revision, version |-> snapshot.version]
Info(s) == [kind |-> "info", session |-> s, of |-> s, revision |-> -1, version |-> -1]

----------------------------------------------------------------------------
(* Another client's run, Clear or Compact holds the slot of a session.     *)
Change(s) ==
    /\ work[s] \in {"free", "working"} /\ changes < MaxChanges
    /\ work' = [work EXCEPT ![s] = "working"]
    /\ transcript' = [transcript EXCEPT ![s] = [revision |-> @.revision + 1,
                                                version |-> @.version + 1]]
    /\ changes' = changes + 1
    /\ UNCHANGED <<peers, syncing, selected, handler, wire>> /\ PageIdle

(* A run that was cancelled or failed ends without a sync.  After any      *)
(* other, whose session is the one its connection's handle named when it   *)
(* began, the hub looks up the name the connection is listed under and who *)
(* else is listed there; then it reads the session the entry's handle      *)
(* names by now, and sends it under that name.  Only a sync that lists the *)
(* page matters to it.                                                     *)
EndsUnsynced(s) ==
    /\ work[s] = "working"
    /\ work' = [work EXCEPT ![s] = "free"]
    /\ UNCHANGED <<transcript, peers, syncing, selected, handler, wire, changes>>
    /\ PageIdle
SyncLists(s) ==
    /\ work[s] = "working"
    /\ work' = [work EXCEPT ![s] = "listed"]
    /\ \E name \in peers : syncing' = [syncing EXCEPT ![s].name = name]
    /\ UNCHANGED <<transcript, peers, selected, handler, wire, changes>> /\ PageIdle
SyncReads(s) ==
    /\ work[s] = "listed"
    /\ work' = [work EXCEPT ![s] = "read"]
    /\ \E t \in PageSessions :
         syncing' = [syncing EXCEPT ![s].of = t, ![s].snapshot = transcript[t]]
    /\ UNCHANGED <<transcript, peers, selected, handler, wire, changes>> /\ PageIdle
SyncSends(s) ==
    /\ work[s] = "read"
    /\ IF syncing[s].name = NoSession THEN UNCHANGED wire
       ELSE Sends(Loaded(syncing[s].name, syncing[s].of, syncing[s].snapshot))
    /\ work' = [work EXCEPT ![s] = "free"]
    /\ syncing' = [syncing EXCEPT ![s] = NotSyncing]
    /\ UNCHANGED <<transcript, peers, selected, handler, changes>> /\ PageIdle

----------------------------------------------------------------------------
(* The handler of the page's connection.                                   *)

(* register_existing: a connection is listed before its session is read.   *)
Registers ==
    /\ handler.at = "connect"
    /\ peers' = peers \cup {handler.target}
    /\ selected' = handler.target
    /\ handler' = [handler EXCEPT !.at = "handshake"]
    /\ UNCHANGED <<transcript, work, syncing, wire, changes>> /\ PageIdle

(* The handler takes ResumeSession or Clear from the socket.  Clear is     *)
(* about the session the handle names by then; it needs the slot and keeps *)
(* it until its sync is over, and may be refused or fail.                  *)
Takes ==
    /\ handler.at = "idle" /\ request.kind # "none"
    /\ \/ request.kind = "open" /\ handler' = Handling("open", request.session, Nothing)
       \/ /\ request.kind = "clear"
          /\ \E s \in PageSessions : handler' = Handling("clear", s, Nothing)
    /\ request' = Nobody
    /\ UNCHANGED <<transcript, work, peers, syncing, selected, wire, page, seen, misled,
                   changes, choices, losses>>

Clears ==
    /\ handler.at = "clear"
    /\ \E s \in {handler.target}, succeeds \in BOOLEAN :
       IF work[s] = "free" /\ succeeds
       THEN /\ transcript' = [transcript EXCEPT ![s] = [revision |-> @.revision + 1,
                                                        version |-> @.version + 1]]
            /\ work' = [work EXCEPT ![s] = "clearing"]
            /\ handler' = Handling("cleared", s, transcript'[s])
       ELSE UNCHANGED <<transcript, work>> /\ handler' = Idling
    /\ UNCHANGED <<peers, syncing, selected, wire, changes>> /\ PageIdle
SendsCleared ==
    /\ handler.at = "cleared"
    /\ Sends(Loaded(handler.target, handler.target, handler.snapshot))
    /\ work' = [work EXCEPT ![handler.target] = "free"]
    /\ handler' = Idling
    /\ UNCHANGED <<transcript, peers, syncing, selected, changes>> /\ PageIdle

(* The session asked for, or at the handshake the one the handle names, is *)
(* read, then the page's registration moves to it (move_registration) and  *)
(* the handle is turned to it, then the transcript and the session's name  *)
(* are sent.                                                               *)
Reads ==
    /\ handler.at \in {"handshake", "open"}
    /\ \E s \in PageSessions :
         /\ handler.at = "open" => s = handler.target
         /\ handler' = Handling("opened", s, transcript[s])
    /\ UNCHANGED <<transcript, work, peers, syncing, selected, wire, changes>> /\ PageIdle
NotOpened ==
    /\ handler.at = "open" /\ handler' = Idling
    /\ UNCHANGED <<transcript, work, peers, syncing, selected, wire, changes>> /\ PageIdle
Moves ==
    /\ handler.at = "opened"
    /\ peers' = (peers \ {selected}) \cup {handler.target}
    /\ selected' = handler.target
    /\ handler' = [handler EXCEPT !.at = "moved"]
    /\ UNCHANGED <<transcript, work, syncing, wire, changes>> /\ PageIdle
SendsLoaded ==
    /\ handler.at = "moved"
    /\ Sends(Loaded(handler.target, handler.target, handler.snapshot))
    /\ handler' = [handler EXCEPT !.at = "loaded"]
    /\ UNCHANGED <<transcript, work, peers, syncing, selected, changes>> /\ PageIdle
SendsInfo ==
    /\ handler.at = "loaded"
    /\ Sends(Info(handler.target))
    /\ handler' = Idling
    /\ UNCHANGED <<transcript, work, peers, syncing, selected, changes>> /\ PageIdle

(* The socket is lost, alone or with the server; the page connects again,  *)
(* to whatever session is the latest.  A restarted server may count        *)
(* revisions lower than the last one did.  A Clear under way is finished   *)
(* first.                                                                  *)
Lost(s, isRestart) ==
    /\ losses < MaxLosses /\ losses' = losses + 1
    /\ isRestart \/ handler.at \notin {"clear", "cleared"}
    /\ \/ isRestart
          /\ work' = [t \in PageSessions |-> "free"]
          /\ syncing' = [t \in PageSessions |-> NotSyncing]
          /\ peers' = {}
          /\ \E t \in PageSessions :
               transcript' = [transcript EXCEPT
                   ![t].revision = IF @ > 0 THEN @ - 1 ELSE @]
       \/ ~isRestart
          /\ peers' = peers \ {selected}
          /\ syncing' = [t \in PageSessions |-> [syncing[t] EXCEPT !.name = NoSession]]
          /\ UNCHANGED <<work, transcript>>
    /\ selected' = NoSession /\ request' = Nobody /\ wire' = <<>>
    /\ handler' = Handling("connect", s, Nothing)
    /\ UNCHANGED <<page, seen, misled, changes, choices>>

----------------------------------------------------------------------------
(* The page.                                                               *)

(* prepareSessionSwitch, with ResumeSession for the server.                *)
Chooses(s) ==
    /\ choices < MaxChoices /\ choices' = choices + 1
    /\ request.kind = "none" /\ page.session # NoSession
    /\ request' = [kind |-> "open", session |-> s]
    /\ page' = IF s = page.session
               THEN [page EXCEPT !.awaitingSnapshot = TRUE, !.shown = -1]
               ELSE Shows(s, -1, TRUE, -1)
    /\ seen' = IF s = page.session THEN seen ELSE -1
    /\ misled' = (misled /\ s = page.session)
    /\ UNCHANGED <<wire, changes>> /\ ServerIdle

(* clearMessages, with the command.                                        *)
ClearsPage ==
    /\ choices < MaxChoices /\ choices' = choices + 1
    /\ request.kind = "none" /\ page.session # NoSession
    /\ request' = [kind |-> "clear", session |-> page.session]
    /\ page' = [page EXCEPT !.awaitingSnapshot = TRUE, !.shown = -1]
    /\ UNCHANGED <<seen, misled, wire, changes>> /\ ServerIdle

(* acceptSnapshotTransition: a transcript of another session is taken as a *)
(* switch, one of this session if its revision is new.                     *)
\* Mutant: the revision is not compared.
IsNewer_Always(frame) == TRUE
IsNewer(frame) ==
    frame.revision >= page.sessionRevision /\ frame.revision > page.snapshotRevision
AcceptSnapshot(frame) ==
    IF frame.session # page.session \/ IsNewer(frame)
    THEN /\ page' = Shows(frame.session, frame.revision, FALSE, frame.version)
         /\ seen' = IF frame.session # page.session \/ frame.version > seen
                    THEN frame.version ELSE seen
         /\ misled' = (frame.of # frame.session \/ (misled /\ frame.session = page.session))
    ELSE UNCHANGED <<page, seen, misled>>

(* setInfo: the name of another session clears the page.                   *)
SetInfo(frame) ==
    IF frame.session = page.session THEN UNCHANGED <<page, seen, misled>>
    ELSE IF page.session = NoSession
         THEN page' = [page EXCEPT !.session = frame.session] /\ UNCHANGED <<seen, misled>>
         ELSE page' = Shows(frame.session, -1, TRUE, -1) /\ seen' = -1 /\ misled' = FALSE

Receives ==
    /\ wire # <<>>
    /\ wire' = Tail(wire)
    /\ IF Head(wire).kind = "info" THEN SetInfo(Head(wire)) ELSE AcceptSnapshot(Head(wire))
    /\ UNCHANGED <<request, changes, choices>> /\ ServerIdle

SyncNext ==
    \/ \E s \in PageSessions :
         \/ Change(s) \/ EndsUnsynced(s) \/ SyncLists(s) \/ SyncReads(s) \/ SyncSends(s)
         \/ Chooses(s) \/ \E isRestart \in BOOLEAN : Lost(s, isRestart)
    \/ Registers \/ Takes \/ Clears \/ SendsCleared
    \/ Reads \/ NotOpened \/ Moves \/ SendsLoaded \/ SendsInfo
    \/ ClearsPage \/ Receives

SyncSpec == SyncInit /\ [][SyncNext]_syncVars

----------------------------------------------------------------------------
SyncTypeOK ==
    /\ work \in [PageSessions -> {"free", "working", "listed", "read", "clearing"}]
    /\ peers \subseteq PageSessions /\ selected \in PageSessions \cup {NoSession}
    /\ handler.at \in {"idle", "connect", "handshake", "open", "opened", "moved", "loaded",
                       "clear", "cleared"}
    /\ page.session \in PageSessions \cup {NoSession}
    /\ page.awaitingSnapshot \in BOOLEAN
    /\ page.snapshotRevision <= page.sessionRevision
    /\ changes \in 0..MaxChanges /\ choices \in 0..MaxChoices /\ losses \in 0..MaxLosses

(* Within one selection of a session the transcript on the page never goes *)
(* back, whichever of the handler and the syncs read first and sent last,  *)
(* also across lost sockets and a server that counts lower than before     *)
(* (transitions.ts:192-222, connection.rs:1377-1494, session_hub.rs:317).  *)
(* Once the page has taken another session's transcript, sent under the    *)
(* name of its own because a peer had turned the shared handle, nothing is *)
(* promised until another session is chosen.                               *)
ShownNeverOlder == page.shown # -1 /\ ~misled => page.shown >= seen
=============================================================================
