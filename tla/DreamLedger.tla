----------------------------- MODULE DreamLedger -----------------------------
(***************************************************************************)
(* serve_http/dream.rs: servers that watch the same project dream when it  *)
(* is idle.  A dream reviews the outcomes of runs; last_dream.json records *)
(* which sessions were analysed and when the last dream finished, so that  *)
(* the next brief lists what is new.                                       *)
(***************************************************************************)
EXTENDS Naturals, FiniteSets

CONSTANTS
    Servers,
    Chats,           \* sessions of the project
    MaxReview,       \* MAX_REVIEW_SESSIONS
    MaxTruncations,  \* consecutive truncated dreams of a window
    MaxClock,        \* bound: seconds
    MaxDreams        \* bound: dreams started

Unlocked == "free"

ASSUME DreamAssumption ==
    /\ Unlocked \notin Servers
    /\ {MaxTruncations, MaxClock} \subseteq Nat \ {0} /\ MaxDreams \in Nat

VARIABLES
    clock,
    outcomes,        \* run_outcome lines, as <<session, ts>>
    chatRunning,     \* sessions with a run, of each server's hub
    analyzed, finishedAt,     \* last_dream.json
    dreamLock,       \* the flock, free or held
    dreamStage,      \* of each server: "watching", "looked", "locked", "dreaming", "done", "marked"
    fresh,           \* servers whose last_fingerprint is not that of the directory
    moved,           \* servers whose tick has seen another fingerprint than the present one
    truncations,     \* DreamState::truncation_count
    listed,          \* outcomes the brief of the dream is about
    dreamOutcome,
    dreams,
    reviewed         \* history: outcomes listed by a dream that completed

scheduler == <<dreamStage, truncations, listed, dreamOutcome>>
sessionFiles == <<outcomes, fresh, moved>>
marker == <<analyzed, finishedAt>>
dreamVars == <<clock, chatRunning, dreamLock, dreams, reviewed, scheduler, sessionFiles, marker>>

DreamInit ==
    /\ clock = 1 /\ outcomes = {} /\ fresh = {} /\ moved = {}
    /\ chatRunning = [p \in Servers |-> {}]
    /\ analyzed = {} /\ finishedAt = 0 /\ dreamLock = Unlocked
    /\ dreamStage = [p \in Servers |-> "watching"]
    /\ truncations = [p \in Servers |-> 0] /\ listed = [p \in Servers |-> {}]
    /\ dreamOutcome = [p \in Servers |-> "none"] /\ dreams = 0 /\ reviewed = {}

ClockTicks ==
    /\ clock < MaxClock /\ clock' = clock + 1
    /\ UNCHANGED <<chatRunning, dreamLock, dreams, reviewed, scheduler, sessionFiles, marker>>

(* Another file, or another line of one, changes session_fingerprint.      *)
SessionsChange == fresh' = Servers /\ moved' = Servers

(* Runs of people: a run that ends writes its outcome.                     *)
RunStarts(p, c) ==
    /\ c \notin chatRunning[p] /\ chatRunning' = [chatRunning EXCEPT ![p] = @ \cup {c}]
    /\ UNCHANGED <<clock, dreamLock, dreams, reviewed, scheduler, sessionFiles, marker>>
RunEnds(p, c) ==
    /\ c \in chatRunning[p] /\ <<c, clock>> \notin outcomes
    /\ chatRunning' = [chatRunning EXCEPT ![p] = @ \ {c}]
    /\ outcomes' = outcomes \cup {<<c, clock>>} /\ SessionsChange
    /\ UNCHANGED <<clock, dreamLock, dreams, reviewed, scheduler, marker>>

Stage(p, from, to) == dreamStage[p] = from /\ dreamStage' = [dreamStage EXCEPT ![p] = to]

(* A tick: no run of this server, and something new in the directory.      *)
Look(p) ==
    /\ chatRunning[p] = {} /\ p \in fresh
    /\ Stage(p, "watching", "looked") /\ moved' = moved \ {p}
    /\ UNCHANGED <<clock, chatRunning, dreamLock, dreams, reviewed, truncations, listed,
                   dreamOutcome, outcomes, fresh, marker>>

(* has_headroom: every fresh outcome is clean (which are, is left open).   *)
SkipClean(p) ==
    /\ outcomes # {} /\ Stage(p, "looked", "watching")
    /\ fresh' = IF p \in moved THEN fresh ELSE fresh \ {p}
    /\ UNCHANGED <<clock, chatRunning, dreamLock, dreams, reviewed, truncations, listed,
                   dreamOutcome, outcomes, moved, marker>>

(* DreamLock::try_acquire.                                                 *)
AcquireLock(p) ==
    /\ \/ dreamLock = Unlocked /\ dreams < MaxDreams /\ Stage(p, "looked", "locked")
            /\ dreamLock' = p /\ dreams' = dreams + 1
       \/ dreamLock # Unlocked /\ Stage(p, "looked", "watching") /\ UNCHANGED <<dreamLock, dreams>>
    /\ UNCHANGED <<clock, chatRunning, reviewed, truncations, listed, dreamOutcome,
                   sessionFiles, marker>>

(* reward_brief_with_ledger: per outcome, not per session.                 *)
Excluded(o) == o[1] \in analyzed /\ o[2] <= finishedAt
\* Mutant: a session with something new is listed whole.
BriefOf_Sessions == {o \in outcomes : \E r \in outcomes : r[1] = o[1] /\ ~Excluded(r)}
BriefOf == {o \in outcomes : ~Excluded(o)}

Brief(p) ==
    /\ Stage(p, "locked", "dreaming") /\ listed' = [listed EXCEPT ![p] = BriefOf]
    /\ UNCHANGED <<clock, chatRunning, dreamLock, dreams, reviewed, truncations, dreamOutcome,
                   sessionFiles, marker>>

(* The dream writes a session of its own; a run that is refused does not.  *)
DreamEnds(p) ==
    /\ Stage(p, "dreaming", "done")
    /\ \E outcome \in {"completed", "truncated", "failed"} :
        /\ dreamOutcome' = [dreamOutcome EXCEPT ![p] = outcome]
        /\ SessionsChange \/ (outcome = "failed" /\ UNCHANGED <<fresh, moved>>)
    /\ UNCHANGED <<clock, chatRunning, dreamLock, dreams, reviewed, truncations, listed, outcomes, marker>>

(* The sessions the brief presents: up to the elbow of their priorities,   *)
(* and no more than the cap.                                               *)
ChatsOf(some) == {o[1] : o \in some}
Presented(some) ==
    {shown \in SUBSET ChatsOf(some) :
        /\ Cardinality(shown) <= MaxReview
        /\ ChatsOf(some) # {} => shown # {}
        /\ Cardinality(ChatsOf(some)) < 3 => shown = ChatsOf(some)}

(* write_dream_marker: every session of the brief, presented or not; the   *)
(* time is stamped whatever came of the dream.                             *)
WriteMarker(p) ==
    /\ Stage(p, "done", "marked")
    /\ analyzed' = IF dreamOutcome[p] = "completed" THEN analyzed \cup ChatsOf(listed[p]) ELSE analyzed
    /\ finishedAt' = clock
    /\ \E shown \in Presented(listed[p]) :
        reviewed' = IF dreamOutcome[p] = "completed"
                    THEN reviewed \cup {o \in listed[p] : o[1] \in shown} ELSE reviewed
    /\ UNCHANGED <<clock, chatRunning, dreamLock, dreams, truncations, listed, dreamOutcome, sessionFiles>>

(* The fingerprint policy; a truncated dream is tried again.               *)
Forget(p) == listed' = [listed EXCEPT ![p] = {}] /\ dreamOutcome' = [dreamOutcome EXCEPT ![p] = "none"]
Again(p) == dreamOutcome[p] = "truncated" /\ truncations[p] < MaxTruncations - 1
Conclude(p) ==
    /\ Stage(p, "marked", "watching") /\ dreamLock' = Unlocked /\ Forget(p)
    /\ truncations' = [truncations EXCEPT ![p] = IF Again(p) THEN @ + 1 ELSE 0]
    /\ fresh' = IF Again(p) THEN fresh ELSE fresh \ {p}
    /\ UNCHANGED <<clock, chatRunning, dreams, reviewed, outcomes, moved, marker>>

(* The server starts again, or has gone to another project meanwhile and   *)
(* comes back: nothing is written, and DreamState is new.                  *)
StartOver(p) ==
    /\ dreamStage[p] \in {"looked", "locked", "dreaming", "done", "marked"}
    /\ dreamStage' = [dreamStage EXCEPT ![p] = "watching"]
    /\ dreamLock' = IF dreamLock = p THEN Unlocked ELSE dreamLock
    /\ fresh' = fresh \cup {p} /\ truncations' = [truncations EXCEPT ![p] = 0] /\ Forget(p)
    /\ UNCHANGED <<clock, chatRunning, dreams, reviewed, outcomes, moved, marker>>

DreamNext ==
    \/ ClockTicks
    \/ \E p \in Servers :
          \/ \E c \in Chats : RunStarts(p, c) \/ RunEnds(p, c)
          \/ Look(p) \/ SkipClean(p) \/ AcquireLock(p) \/ Brief(p) \/ DreamEnds(p)
          \/ WriteMarker(p) \/ Conclude(p) \/ StartOver(p)

DreamSpec == DreamInit /\ [][DreamNext]_dreamVars

----------------------------------------------------------------------------
DreamTypeOK ==
    /\ clock \in 1..MaxClock /\ outcomes \subseteq Chats \X (1..MaxClock)
    /\ fresh \subseteq Servers /\ moved \subseteq Servers
    /\ chatRunning \in [Servers -> SUBSET Chats]
    /\ analyzed \subseteq Chats /\ finishedAt \in 0..MaxClock /\ dreamLock \in Servers \cup {Unlocked}
    /\ dreamStage \in [Servers -> {"watching", "looked", "locked", "dreaming", "done", "marked"}]
    /\ truncations \in [Servers -> 0..(MaxTruncations - 1)]
    /\ listed \in [Servers -> SUBSET outcomes] /\ reviewed \subseteq outcomes
    /\ dreamOutcome \in [Servers -> {"none", "completed", "truncated", "failed"}]
    /\ dreams \in 0..MaxDreams

(* "That is what breaks the re-analysis loop" (dream.rs:290): no brief     *)
(* lists an outcome once a completed dream that was shown it has written   *)
(* its marker, whichever server dreams next, and however other dreams are  *)
(* truncated, fail or are interrupted.                                     *)
NothingReviewedTwice ==
    \A p \in Servers : dreamStage[p] = "dreaming" => listed[p] \cap reviewed = {}

(* What the ledger keeps from the next brief was reviewed: "its trajectory *)
(* is not silently lost" (dream.rs:617).                                   *)
NothingLost == \A o \in outcomes : Excluded(o) => o \in reviewed
=============================================================================
