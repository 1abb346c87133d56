------------------------------ MODULE VideoTasks ------------------------------
(***************************************************************************)
(* serve_http/video_service.rs: videos generated by a remote service.  A   *)
(* task is created in an append-only ledger (the last line of an id        *)
(* counts), submitted and polled by a dispatcher of its own, and refreshed *)
(* or deleted by requests that read the ledger, ask the remote service and *)
(* append what they make of both.  Nothing but the queue and the rate      *)
(* window is kept in memory.                                               *)
(***************************************************************************)
EXTENDS Naturals, FiniteSets

CONSTANTS
    Videos,
    RpmLimit,   \* submissions per window of a minute
    MaxGets     \* bound: requests that refresh a task at the same time

ASSUME VideoAssumption == RpmLimit \in Nat /\ MaxGets \in Nat

NoVideo == [status |-> "unknown", submitted |-> FALSE, file |-> FALSE]
Ended == {"succeeded", "failed", "cancelled"}
Unforeseen == {"other", "cancelled"}    \* remote statuses the code has no arm for

VARIABLES
    videoLedger,   \* what the ledger says of each task
    videoQueue,
    rpmWindow,     \* submissions of the last minute
    dispatcher,    \* "none", "starting", "backoff", "submitting", "polling", "saving"
    dispatched,    \* the dispatcher's own copy of the task
    remote,        \* "none", "running", "succeeded", "failed", "deleted", or unforeseen
    refreshing,    \* of each task, what its GETs have read and were answered
    deleting,      \* what a DELETE has read while the remote call is awaited, or NoVideo
    videoFiles     \* mp4 files on disk

videoVars == <<videoLedger, videoQueue, rpmWindow, dispatcher, dispatched, remote,
               refreshing, deleting, videoFiles>>

VideoInit ==
    /\ videoLedger = [v \in Videos |-> NoVideo] /\ videoQueue = {} /\ rpmWindow = 0
    /\ dispatcher = [v \in Videos |-> "none"] /\ dispatched = [v \in Videos |-> NoVideo]
    /\ remote = [v \in Videos |-> "none"] /\ refreshing = [v \in Videos |-> {}]
    /\ deleting = [v \in Videos |-> NoVideo] /\ videoFiles = {}

AppendLedger(v, task) == videoLedger' = [videoLedger EXCEPT ![v] = task]
Dispatch(v, from, to) == dispatcher[v] = from /\ dispatcher' = [dispatcher EXCEPT ![v] = to]
Hold(v, task) == dispatched' = [dispatched EXCEPT ![v] = task]
NoRequestMoves == UNCHANGED <<refreshing, deleting>>

CreateVideo(v) ==
    LET task == [NoVideo EXCEPT !.status = "queued"] IN
    /\ videoLedger[v] = NoVideo /\ Dispatch(v, "none", "starting")
    /\ AppendLedger(v, task) /\ Hold(v, task) /\ videoQueue' = videoQueue \cup {v}
    /\ UNCHANGED <<rpmWindow, remote, videoFiles>> /\ NoRequestMoves

(* run_task ends: the dispatcher takes the task off the queue.             *)
ConcludeVideo(v, from, task) ==
    /\ Dispatch(v, from, "none") /\ AppendLedger(v, task) /\ Hold(v, NoVideo)
    /\ videoQueue' = videoQueue \ {v}
    /\ UNCHANGED <<remote, videoFiles>> /\ NoRequestMoves
FailVideo(v, from) == ConcludeVideo(v, from, [dispatched[v] EXCEPT !.status = "failed"])

(* take_rpm_slot: one more try after two seconds; no task without a model  *)
(* in the settings.                                                        *)
TakeSlot(v) ==
    \/ /\ rpmWindow < RpmLimit /\ rpmWindow' = rpmWindow + 1
       /\ Dispatch(v, dispatcher[v], "submitting") /\ dispatcher[v] \in {"starting", "backoff"}
       /\ UNCHANGED <<videoLedger, videoQueue, dispatched, remote, videoFiles>> /\ NoRequestMoves
    \/ /\ rpmWindow = RpmLimit /\ Dispatch(v, "starting", "backoff")
       /\ UNCHANGED <<videoLedger, videoQueue, rpmWindow, dispatched, remote, videoFiles>>
       /\ NoRequestMoves
    \/ rpmWindow = RpmLimit /\ FailVideo(v, "backoff") /\ UNCHANGED rpmWindow
    \/ FailVideo(v, "starting") /\ UNCHANGED rpmWindow
OtherTakesSlot ==      \* a task of another project: the store is the server's
    /\ rpmWindow < RpmLimit /\ rpmWindow' = rpmWindow + 1
    /\ UNCHANGED <<videoLedger, videoQueue, dispatcher, dispatched, remote, videoFiles>>
    /\ NoRequestMoves
MinutePasses ==
    /\ rpmWindow > 0 /\ rpmWindow' = rpmWindow - 1
    /\ UNCHANGED <<videoLedger, videoQueue, dispatcher, dispatched, remote, videoFiles>>
    /\ NoRequestMoves

(* Submitted, refused, or created remotely by a request whose answer is    *)
(* lost.                                                                   *)
Submit(v) ==
    LET task == [dispatched[v] EXCEPT !.status = "submitted", !.submitted = TRUE] IN
    \/ /\ Dispatch(v, "submitting", "polling") /\ AppendLedger(v, task) /\ Hold(v, task)
       /\ remote' = [remote EXCEPT ![v] = "running"]
       /\ UNCHANGED <<videoQueue, rpmWindow, videoFiles>> /\ NoRequestMoves
    \/ FailVideo(v, "submitting") /\ UNCHANGED rpmWindow
LoseAnswer(v) ==
    /\ Dispatch(v, "submitting", "none") /\ Hold(v, NoVideo)
    /\ AppendLedger(v, [dispatched[v] EXCEPT !.status = "failed"])
    /\ videoQueue' = videoQueue \ {v} /\ remote' = [remote EXCEPT ![v] = "running"]
    /\ UNCHANGED <<rpmWindow, videoFiles>> /\ NoRequestMoves

(* A poll that fails, or whose answer names no status, is repeated.  A     *)
(* status without an arm of its own is recorded, and polled on from.       *)
PollUnforeseen(v) ==
    LET seen == [dispatched[v] EXCEPT !.status = remote[v]] IN
    /\ remote[v] \in Unforeseen /\ Dispatch(v, "polling", "polling")
    /\ AppendLedger(v, seen) /\ Hold(v, seen)
    /\ UNCHANGED <<videoQueue, rpmWindow, remote, videoFiles>> /\ NoRequestMoves
\* Mutant: a failed generation is taken for one that still runs.
Poll_FailureIgnored(v) ==
    LET seen == [dispatched[v] EXCEPT !.status = "running"] IN
    \/ /\ remote[v] = "running" /\ dispatched[v].status # "running"
       /\ Dispatch(v, "polling", "polling") /\ AppendLedger(v, seen) /\ Hold(v, seen)
       /\ UNCHANGED <<videoQueue, rpmWindow, remote, videoFiles>> /\ NoRequestMoves
    \/ /\ remote[v] = "succeeded" /\ Dispatch(v, "polling", "saving")
       /\ UNCHANGED <<videoLedger, videoQueue, rpmWindow, dispatched, remote, videoFiles>>
       /\ NoRequestMoves
    \/ PollUnforeseen(v)
Poll(v) ==
    LET seen == [dispatched[v] EXCEPT !.status = "running"] IN
    \/ /\ remote[v] = "running" /\ dispatched[v].status # "running"
       /\ Dispatch(v, "polling", "polling") /\ AppendLedger(v, seen) /\ Hold(v, seen)
       /\ UNCHANGED <<videoQueue, rpmWindow, remote, videoFiles>> /\ NoRequestMoves
    \/ /\ remote[v] = "succeeded" /\ Dispatch(v, "polling", "saving")
       /\ UNCHANGED <<videoLedger, videoQueue, rpmWindow, dispatched, remote, videoFiles>>
       /\ NoRequestMoves
    \/ remote[v] = "failed" /\ FailVideo(v, "polling") /\ UNCHANGED rpmWindow
    \/ PollUnforeseen(v)

(* persist_mp4: three tries.                                               *)
SaveVideo(v) ==
    \E saved \in BOOLEAN :
        /\ Dispatch(v, "saving", "none") /\ Hold(v, NoVideo)
        /\ AppendLedger(v, [dispatched[v] EXCEPT !.status = "succeeded", !.file = saved])
        /\ videoFiles' = IF saved THEN videoFiles \cup {v} ELSE videoFiles
        /\ videoQueue' = videoQueue \ {v}
        /\ UNCHANGED <<rpmWindow, remote>> /\ NoRequestMoves

RemoteMoves(v, from, to) ==
    /\ remote[v] \in from /\ \E s \in to : remote' = [remote EXCEPT ![v] = s]
    /\ UNCHANGED <<videoLedger, videoQueue, rpmWindow, dispatcher, dispatched, videoFiles>>
    /\ NoRequestMoves
RemoteEnds(v) == RemoteMoves(v, {"running"}, {"succeeded", "failed"})
RemoteStrays(v) ==     \* to a status the code does not know, and perhaps back
    \/ RemoteMoves(v, {"running"}, Unforeseen) \/ RemoteMoves(v, {"other"}, {"running"})

(* GET: the task is read and the remote service asked; what it answered is *)
(* appended later, to the copy that was read.                              *)
GetVideo(v) ==
    /\ videoLedger[v].submitted /\ videoLedger[v].status \notin Ended
    /\ Cardinality(refreshing[v]) < MaxGets /\ remote[v] \notin {"none", "deleted"}
    /\ \E answer \in IF remote[v] = "running" THEN {"queued", "running"} ELSE {remote[v]} :
          refreshing' = [refreshing EXCEPT ![v] = @ \cup {[task |-> videoLedger[v], answer |-> answer]}]
    /\ UNCHANGED <<videoLedger, videoQueue, rpmWindow, dispatcher, dispatched, remote, deleting,
                   videoFiles>>
Refresh(v) ==
    \E got \in refreshing[v], saved \in BOOLEAN :
        /\ saved => got.answer = "succeeded" /\ ~got.task.file
        /\ IF got.answer = got.task.status THEN UNCHANGED videoLedger
           ELSE AppendLedger(v, [got.task EXCEPT !.status = got.answer, !.file = @ \/ saved])
        /\ videoFiles' = IF saved THEN videoFiles \cup {v} ELSE videoFiles
        /\ refreshing' = [refreshing EXCEPT ![v] = @ \ {got}]
        /\ UNCHANGED <<videoQueue, rpmWindow, dispatcher, dispatched, remote, deleting>>

(* DELETE of a queued task (or one a GET has called queued again): it      *)
(* leaves the queue and is cancelled in the ledger; its dispatcher does    *)
(* not look at either.                                                     *)
CancelQueued(v) ==
    /\ videoLedger[v].status = "queued" /\ deleting[v] = NoVideo
    /\ videoQueue' = videoQueue \ {v} /\ AppendLedger(v, [videoLedger[v] EXCEPT !.status = "cancelled"])
    /\ UNCHANGED <<rpmWindow, dispatcher, dispatched, remote, refreshing, deleting, videoFiles>>

(* DELETE of a task that has ended: file, remote record, tombstone.        *)
DeleteVideo(v) ==
    /\ videoLedger[v].status \in Ended /\ deleting[v] = NoVideo
    /\ deleting' = [deleting EXCEPT ![v] = videoLedger[v]]
    /\ videoFiles' = IF videoLedger[v].file THEN videoFiles \ {v} ELSE videoFiles
    /\ remote' \in IF videoLedger[v].submitted
                   THEN {remote, [remote EXCEPT ![v] = "deleted"]} ELSE {remote}
    /\ UNCHANGED <<videoLedger, videoQueue, rpmWindow, dispatcher, dispatched, refreshing>>
Tombstone(v) ==
    /\ deleting[v] # NoVideo /\ deleting' = [deleting EXCEPT ![v] = NoVideo]
    /\ AppendLedger(v, [deleting[v] EXCEPT !.status = "cancelled", !.file = FALSE])
    /\ UNCHANGED <<videoQueue, rpmWindow, dispatcher, dispatched, remote, refreshing, videoFiles>>

(* Nobody goes on with what the ledger holds.                              *)
RestartVideos ==
    /\ videoQueue' = {} /\ rpmWindow' = 0
    /\ dispatcher' = [v \in Videos |-> "none"] /\ dispatched' = [v \in Videos |-> NoVideo]
    /\ refreshing' = [v \in Videos |-> {}] /\ deleting' = [v \in Videos |-> NoVideo]
    /\ UNCHANGED <<videoLedger, remote, videoFiles>>

DispatcherWorks(v) == TakeSlot(v) \/ Submit(v) \/ LoseAnswer(v) \/ Poll(v) \/ SaveVideo(v)
VideoNext ==
    \/ \E v \in Videos :
          \/ CreateVideo(v) \/ TakeSlot(v) \/ Submit(v) \/ LoseAnswer(v) \/ Poll(v) \/ SaveVideo(v)
          \/ RemoteEnds(v) \/ RemoteStrays(v) \/ GetVideo(v) \/ Refresh(v)
          \/ CancelQueued(v) \/ DeleteVideo(v) \/ Tombstone(v)
    \/ OtherTakesSlot \/ MinutePasses \/ RestartVideos

VideoFairness == \A v \in Videos : WF_videoVars(DispatcherWorks(v)) /\ WF_videoVars(RemoteEnds(v))
VideoSpec == VideoInit /\ [][VideoNext]_videoVars /\ VideoFairness

----------------------------------------------------------------------------
VideoTypeOK ==
    LET Task == [status : {"unknown", "queued", "submitted", "running", "other"} \cup Ended,
                 submitted : BOOLEAN, file : BOOLEAN] IN
    /\ videoLedger \in [Videos -> Task] /\ dispatched \in [Videos -> Task]
    /\ refreshing \in [Videos -> SUBSET [task : Task, answer : {"queued", "running", "other"} \cup Ended]]
    /\ videoQueue \subseteq Videos /\ videoFiles \subseteq Videos /\ rpmWindow \in 0..RpmLimit
    /\ dispatcher \in [Videos -> {"none", "starting", "backoff", "submitting", "polling", "saving"}]
    /\ remote \in [Videos -> {"none", "running", "succeeded", "failed", "deleted"} \cup Unforeseen]
    /\ deleting \in [Videos -> Task]

(* A task that was submitted is not forgotten: unless the server restarts, *)
(* its end reaches the ledger, however requests that refresh and delete it *)
(* interfere with the dispatcher that polls it.  It is a promise about     *)
(* generations the remote service ends, in a status run_task has an arm    *)
(* for or "cancelled": one left in another status is polled for ever.      *)
VideoEndRecorded ==
    \A v \in Videos :
        <>[](remote[v] # "other") =>
            (videoLedger[v].status = "submitted"
                ~> (videoLedger[v].status \in Ended \/ dispatcher[v] = "none"))
=============================================================================
