------------------------------ MODULE Evolution ------------------------------
(***************************************************************************)
(* serve_http/evolution.rs: a proposal for one resource, staged beside the *)
(* live file, is claimed, judged, and exchanged with the live file, which  *)
(* is snapshotted first.  Every call to the file system may fail, the      *)
(* process may die, and others write the live file and the proposal        *)
(* meanwhile; only the operations of the module exclude each other.        *)
(***************************************************************************)
EXTENDS Naturals, FiniteSets

CONSTANT MaxContents    \* bound: contents ever written

ASSUME EvolutionAssumption == MaxContents \in Nat /\ MaxContents >= 2

(* Every write is a content of its own, so a content is also the version   *)
(* of the file that holds it (inode, length, times).                       *)
Missing   == 0
Truncated == 1      \* opened by an editor who has not written yet
Contents  == 2..MaxContents
OnDisk    == {Missing, Truncated} \cup Contents

VARIABLES
    commitStage,    \* see CommitStages
    liveFile, shadow, claimed, promotion,     \* contents under these names
    expected,       \* live_before
    snapshots, newest,    \* contents in the history, and the newest of them
    record,         \* a transaction record is in the directory
    quarantine,     \* contents under names nobody reads again
    savedLive, savedShadow,   \* contents that these names have after a loss of power
    editor,         \* where the file is that an editor has truncated
    written,        \* contents ever written
    rejected, wentLive, displaced,    \* history: what the gate, a commit and a cutover did,
    revived         \* and the proposals a loss of power brought back since they were judged

nameVars == <<liveFile, shadow, claimed, promotion, snapshots, newest, record, quarantine>>
savedVars == <<savedLive, savedShadow>>
diskVars == <<nameVars, savedVars>>
pastVars == <<written, rejected, wentLive, displaced, revived>>
evolutionVars == <<commitStage, expected, editor, diskVars, pastVars>>

CommitStages == {"idle", "claimed", "accepted", "copying", "snapshotted", "promoting",
                 "prepared", "recorded", "exchanged", "synced", "cleaning"}

EvolutionInit ==
    /\ commitStage = "idle" /\ liveFile \in {Missing, 2} /\ shadow = Missing
    /\ claimed = Missing /\ promotion = Missing /\ expected = Missing
    /\ snapshots = {} /\ newest = Missing /\ record = FALSE /\ quarantine = {} /\ editor = "nowhere"
    /\ savedLive = liveFile /\ savedShadow = Missing
    /\ written = {2} /\ rejected = {} /\ wentLive = {} /\ displaced = {} /\ revived = {}

(* SecureDir::sync, or the system, which writes a directory back when it   *)
(* likes; until then a loss of power brings the old names back.            *)
SyncedAs(live, waiting) == savedLive' = live /\ savedShadow' = waiting
Synced == SyncedAs(liveFile, shadow)
NotSynced == UNCHANGED savedVars
WriteBack ==
    /\ savedLive # liveFile \/ savedShadow # shadow
    /\ Synced /\ UNCHANGED <<commitStage, expected, editor, nameVars, pastVars>>

Fresh(c) == c = Cardinality(written) + 2 /\ c \in Contents /\ written' = written \cup {c}

(* The dream writes a proposal, over the last one; nothing else looks.     *)
Propose ==
    /\ \E c \in Contents : Fresh(c) /\ shadow' = c
    /\ UNCHANGED <<savedVars, commitStage, expected, editor, liveFile, claimed, promotion, snapshots, newest, record,
                   quarantine, rejected, wentLive, displaced, revived>>

(* The Write tool opens with truncation and writes later, wherever the     *)
(* file is by then.                                                        *)
EditorOpens ==
    /\ editor = "nowhere" /\ liveFile # Missing
    /\ liveFile' = Truncated /\ editor' = "live"
    /\ savedLive' = IF savedLive = liveFile THEN Truncated ELSE savedLive
    /\ UNCHANGED <<savedShadow, commitStage, expected, shadow, claimed, promotion, snapshots, newest, record,
                   quarantine, pastVars>>
EditorWrites ==
    /\ editor # "nowhere" /\ editor' = "nowhere"
    /\ \E c \in Contents :
        /\ Fresh(c)
        /\ liveFile' = IF editor = "live" THEN c ELSE liveFile
        /\ promotion' = IF editor = "promotion" THEN c ELSE promotion
        /\ quarantine' = IF editor = "quarantine" THEN quarantine \cup {c} ELSE quarantine
        /\ savedLive' = IF savedLive = Truncated THEN c ELSE savedLive
    /\ UNCHANGED <<commitStage, expected, shadow, savedShadow, claimed, snapshots, newest, record, rejected,
                   wentLive, displaced, revived>>

----------------------------------------------------------------------------
(* commit_gated, one step per look at or change of the directory.          *)
Go(from, to) == commitStage = from /\ commitStage' = to
Unharmed == UNCHANGED <<liveFile, editor, pastVars>>

Claim ==
    /\ Go("idle", "claimed") /\ ~record /\ shadow # Missing
    /\ claimed' = shadow /\ shadow' = Missing /\ NotSynced
    /\ UNCHANGED <<expected, promotion, snapshots, newest, record, quarantine>> /\ Unharmed

(* A file that is kept under its temporary name.                           *)
Kept(c) == {c} \ {Missing, Truncated}
EditorIn(from, to) == editor' = IF editor = from THEN to ELSE editor

(* The claim goes back to where it was found, unless there is a newer      *)
(* proposal, and the directory is synced, if it can be; this is also what  *)
(* dropping the claim does.                                                *)
Requeue ==
    /\ claimed' = Missing
    /\ \/ shadow = Missing /\ shadow' = claimed /\ UNCHANGED quarantine /\ SyncedAs(liveFile, claimed)
       \/ UNCHANGED shadow /\ quarantine' = quarantine \cup Kept(claimed) /\ NotSynced

(* An early return before the cutover: the promotion is removed.           *)
GiveUpCommit(from) ==
    /\ Go(from, "idle") /\ Requeue /\ promotion' = Missing /\ expected' = Missing
    /\ UNCHANGED <<snapshots, newest, record>> /\ Unharmed

(* The gate refuses: the claim is removed, or stays under its own name.    *)
(* Neither the claim's rename nor its removal is synced here.              *)
\* Mutant: the refused proposal goes back to its name.
Reject_Requeued ==
    /\ Go("claimed", "idle") /\ Requeue /\ rejected' = rejected \cup {claimed}
    /\ revived' = revived \ {claimed}
    /\ UNCHANGED <<expected, liveFile, editor, promotion, snapshots, newest, record, written, wentLive,
                   displaced>>
Reject ==
    /\ Go("claimed", "idle") /\ claimed' = Missing
    /\ quarantine' \in {quarantine, quarantine \cup {claimed}}
    /\ rejected' = rejected \cup {claimed} /\ revived' = revived \ {claimed}
    /\ UNCHANGED <<expected, liveFile, editor, shadow, promotion, snapshots, newest, record, savedVars,
                   written, wentLive, displaced>>

Accept == Go("claimed", "accepted") /\ UNCHANGED <<expected, editor, diskVars, pastVars>>

(* snapshot: the live file is opened, copied, and must still be what was   *)
(* opened.                                                                 *)
OpenLive ==
    /\ Go("accepted", IF liveFile = Missing THEN "snapshotted" ELSE "copying")
    /\ expected' = liveFile /\ UNCHANGED <<editor, diskVars, pastVars>>
PublishSnapshot ==
    /\ Go("copying", "snapshotted") /\ liveFile = expected
    /\ snapshots' = snapshots \cup {liveFile} /\ newest' = liveFile
    /\ UNCHANGED <<savedVars, expected, shadow, claimed, promotion, record, quarantine>> /\ Unharmed
CheckSnapshot ==
    /\ Go("snapshotted", "promoting") /\ liveFile = expected
    /\ UNCHANGED <<expected, editor, diskVars, pastVars>>
CopyCandidate ==
    /\ Go("promoting", "prepared") /\ promotion' = claimed
    /\ UNCHANGED <<savedVars, expected, shadow, claimed, snapshots, newest, record, quarantine>> /\ Unharmed
WriteRecord ==
    /\ Go("prepared", "recorded") /\ liveFile = expected /\ record' = TRUE /\ Synced
    /\ UNCHANGED <<expected, shadow, claimed, promotion, snapshots, newest, quarantine>> /\ Unharmed

(* Any of these calls fails, or the live file is not the expected one.     *)
CommitFails ==
    \E from \in {"claimed", "accepted", "copying", "snapshotted", "promoting", "prepared"} :
        GiveUpCommit(from)

(* rename without replacement onto nothing, or the exchange of two names.  *)
MayCutOver == (liveFile = Missing) = (expected = Missing)
CutOver ==
    /\ liveFile' = promotion /\ promotion' = liveFile
    /\ wentLive' = wentLive \cup {promotion} /\ displaced' = displaced \cup Kept(liveFile)
    /\ EditorIn("live", "promotion") /\ NotSynced
    /\ UNCHANGED <<expected, shadow, claimed, snapshots, newest, record, quarantine, written, rejected,
                   revived>>
Exchange == MayCutOver /\ Go("recorded", "exchanged") /\ CutOver

(* RecoveryRequired: everything is left where it is, with the record.      *)
LeaveForRecovery(kept) ==
    /\ commitStage' = "idle" /\ claimed' = Missing /\ promotion' = Missing /\ expected' = Missing
    /\ quarantine' = quarantine \cup Kept(claimed) \cup Kept(promotion)
    /\ EditorIn("promotion", "quarantine") /\ record' = kept
    /\ NotSynced
    /\ UNCHANGED <<liveFile, shadow, snapshots, newest, pastVars>>

(* The cutover reports an error: it did nothing, and the proposal goes     *)
(* back before the record is removed; or the names have changed, or the    *)
(* proposal cannot go back.                                                *)
CutOverFails ==
    /\ commitStage = "recorded"
    /\ \/ liveFile = expected /\ shadow = Missing /\ commitStage' = "idle"
            /\ shadow' = claimed /\ claimed' = Missing /\ promotion' = Missing
            /\ record' \in BOOLEAN /\ quarantine' \in {quarantine, quarantine \cup Kept(promotion)}
            /\ expected' = Missing /\ SyncedAs(liveFile, claimed) /\ UNCHANGED <<snapshots, newest>> /\ Unharmed
       \/ LeaveForRecovery(TRUE)

\* Mutant: what was displaced is not looked at.
Conflict_LiveOnly == liveFile # claimed
Conflict == liveFile # claimed \/ (expected # Missing /\ promotion # expected)
CheckCutOver ==
    /\ commitStage = "exchanged"
    /\ IF Conflict THEN LeaveForRecovery(TRUE)
       ELSE commitStage' = "synced" /\ Synced /\ UNCHANGED <<expected, editor, nameVars, pastVars>>

(* The sync of the directory fails; or the record cannot be removed, or    *)
(* not durably, and may or may not be there afterwards.                    *)
SyncFails == commitStage \in {"exchanged", "synced"} /\ LeaveForRecovery(TRUE)
ClearFails == commitStage = "synced" /\ LeaveForRecovery(FALSE)
ClearRecord ==
    /\ Go("synced", "cleaning") /\ record' = FALSE /\ Synced
    /\ UNCHANGED <<expected, shadow, claimed, promotion, snapshots, newest, quarantine>> /\ Unharmed

(* The displaced file and the claim are removed, each if it can be.        *)
CleanUp ==
    /\ Go("cleaning", "idle") /\ claimed' = Missing /\ promotion' = Missing /\ expected' = Missing
    /\ \E left \in SUBSET (Kept(claimed) \cup Kept(promotion)) : quarantine' = quarantine \cup left
    /\ EditorIn("promotion", "unlinked") /\ NotSynced
    /\ UNCHANGED <<liveFile, shadow, snapshots, newest, record, pastVars>>

(* The process dies, and the names stay.                                   *)
CrashCommit ==
    /\ commitStage # "idle" /\ LeaveForRecovery(record)

(* The power is lost, for the editor as well.  What was done to the names  *)
(* since they were last written back is undone: a cutover, a claim, the    *)
(* claim and the removal of a rejection.                                   *)
PowerLoss ==
    /\ savedLive # liveFile \/ savedShadow # shadow
    /\ liveFile' = savedLive /\ shadow' = savedShadow
    /\ displaced' = displaced \ {liveFile'}
    /\ revived' = IF shadow' = shadow THEN revived ELSE revived \cup Kept(shadow')
    /\ commitStage' = "idle" /\ claimed' = Missing /\ promotion' = Missing /\ expected' = Missing
    /\ quarantine' = quarantine \cup (Kept(claimed) \ {shadow'})
                     \cup ((Kept(promotion) \cup Kept(liveFile)) \ {liveFile'})
    /\ editor' = "nowhere"
    /\ UNCHANGED <<savedVars, snapshots, newest, record, written, rejected, wentLive>>

(* The newest snapshot replaces the live file and the records are removed; *)
(* without a snapshot nothing happens.                                     *)
Restore ==
    /\ commitStage = "idle" /\ snapshots # {}
    /\ liveFile' = newest
    /\ \/ SyncedAs(newest, shadow) /\ record' \in {record, FALSE}
       \/ NotSynced /\ record' = record
    /\ EditorIn("live", "unlinked")
    /\ UNCHANGED <<commitStage, expected, shadow, claimed, promotion, snapshots, newest, quarantine, pastVars>>

EvolutionNext ==
    \/ Propose \/ EditorOpens \/ EditorWrites
    \/ Claim \/ Reject \/ Accept \/ OpenLive \/ PublishSnapshot \/ CheckSnapshot \/ CopyCandidate
    \/ WriteRecord \/ CommitFails \/ Exchange \/ CutOverFails \/ CheckCutOver
    \/ SyncFails \/ ClearFails \/ ClearRecord \/ CleanUp
    \/ CrashCommit \/ WriteBack \/ PowerLoss \/ Restore

EvolutionSpec == EvolutionInit /\ [][EvolutionNext]_evolutionVars

----------------------------------------------------------------------------
EvolutionTypeOK ==
    /\ commitStage \in CommitStages /\ editor \in {"nowhere", "live", "promotion", "quarantine", "unlinked"}
    /\ {liveFile, shadow, claimed, promotion, expected} \subseteq OnDisk
    /\ snapshots \cup {savedLive, savedShadow} \subseteq OnDisk /\ newest \in OnDisk
    /\ record \in BOOLEAN
    /\ UNION {quarantine, written, rejected, wentLive, displaced, revived} \subseteq Contents

(* "Rejected proposals stay outside the collector namespace even when      *)
(* cleanup fails", and a proposal goes live once: what a commit has put in *)
(* place is never found as a proposal again, whatever failed, crashed or   *)
(* lost power in between; what the gate refused is not found again and     *)
(* does not go live, unless a loss of power undid the claim after the last *)
(* refusal: that is then a proposal like any other.                        *)
ProposalsJudgedOnce ==
    /\ shadow \notin (rejected \ revived) \cup wentLive
    /\ liveFile \notin rejected \ revived

(* What a cutover takes away from under the live name is not lost: it is   *)
(* in the history, or, if somebody changed the live file after the last    *)
(* look at it, under the name of the promotion.                            *)
DisplacedIsKept ==
    \A c \in displaced : c \in snapshots \cup quarantine \cup {promotion, liveFile}
=============================================================================
