---------------------------- MODULE ServicesProofs ----------------------------
(***************************************************************************)
(* The components beside the session, taken together as their run takes    *)
(* them.  First the shapes of the three that have no theorems of their own *)
(* (videos, skills, the editor's bridge); then that in the composition     *)
(* every component starts and moves as its own module says, and keeps its  *)
(* shape.                                                                  *)
(***************************************************************************)
EXTENDS MCServices, RunProofs, LedgerProofs, PageProofs

-----------------------------------------------------------------------------
(* Videos.                                                                 *)
VideoTask == [status : {"unknown", "queued", "submitted", "running", "other"} \cup Ended,
              submitted : BOOLEAN, file : BOOLEAN]
VideoAnswer == [task : VideoTask, answer : {"queued", "running", "other"} \cup Ended]
Phases == {"none", "starting", "backoff", "submitting", "polling", "saving"}
Remotes == {"none", "running", "succeeded", "failed", "deleted"} \cup Unforeseen

VideoTyped ==
    /\ videoLedger \in [Videos -> VideoTask] /\ dispatched \in [Videos -> VideoTask]
    /\ refreshing \in [Videos -> SUBSET VideoAnswer]
    /\ videoQueue \subseteq Videos /\ videoFiles \subseteq Videos /\ rpmWindow \in 0..RpmLimit
    /\ dispatcher \in [Videos -> Phases] /\ remote \in [Videos -> Remotes]
    /\ deleting \in [Videos -> VideoTask]

LEMMA VideoTypedTypes == VideoTyped => VideoTypeOK
BY DEF VideoTyped, VideoTypeOK, VideoTask, VideoAnswer, Phases, Remotes

LEMMA NoVideoTask == NoVideo \in VideoTask
BY DEF NoVideo, VideoTask

\* Another status or submission makes a task of a task.
LEMMA TaskChanged ==
    ASSUME NEW task \in VideoTask,
           NEW status \in {"unknown", "queued", "submitted", "running", "other"} \cup Ended,
           NEW b \in BOOLEAN
    PROVE  /\ [task EXCEPT !.status = status] \in VideoTask
           /\ [task EXCEPT !.status = status, !.submitted = b] \in VideoTask
           /\ [task EXCEPT !.status = status, !.file = b] \in VideoTask
           /\ task.file \in BOOLEAN
           /\ task.status \in {"unknown", "queued", "submitted", "running", "other"} \cup Ended
BY DEF VideoTask

LEMMA VideoTypedInit == VideoInit => VideoTyped
<1> SUFFICES ASSUME VideoInit PROVE VideoTyped  OBVIOUS
<1>1. 0 \in 0..RpmLimit  BY VideoAssumption
<1> QED  BY <1>1, NoVideoTask DEF VideoInit, VideoTyped, Phases, Remotes

\* What the dispatcher of a task writes.
LEMMA Appended ==
    ASSUME VideoTyped, NEW v \in Videos, NEW task \in VideoTask, AppendLedger(v, task)
    PROVE  videoLedger' \in [Videos -> VideoTask]
BY DEF VideoTyped, AppendLedger

LEMMA Held ==
    ASSUME VideoTyped, NEW v \in Videos, NEW task \in VideoTask, Hold(v, task)
    PROVE  dispatched' \in [Videos -> VideoTask]
BY DEF VideoTyped, Hold

LEMMA Dispatches ==
    ASSUME VideoTyped, NEW v \in Videos, NEW from, NEW to \in Phases, Dispatch(v, from, to)
    PROVE  dispatcher' \in [Videos -> Phases]
BY DEF VideoTyped, Dispatch

LEMMA VideoFails ==
    ASSUME VideoTyped, NEW v \in Videos, NEW from, FailVideo(v, from), rpmWindow' \in 0..RpmLimit
    PROVE  VideoTyped'
<1> DEFINE task == [dispatched[v] EXCEPT !.status = "failed"]
<1>1. /\ Dispatch(v, from, "none") /\ AppendLedger(v, task) /\ Hold(v, NoVideo)
      /\ videoQueue' = videoQueue \ {v} /\ UNCHANGED <<remote, videoFiles, refreshing, deleting>>
  BY DEF FailVideo, ConcludeVideo, NoRequestMoves
<1>2. task \in VideoTask  BY TaskChanged DEF VideoTyped, Ended
<1> HIDE DEF task
<1>3. videoLedger' \in [Videos -> VideoTask]  BY <1>1, <1>2, Appended
<1>4. dispatched' \in [Videos -> VideoTask]  BY <1>1, NoVideoTask, Held
<1>5. dispatcher' \in [Videos -> Phases]  BY <1>1, Dispatches DEF Phases
<1> QED  BY <1>1, <1>3, <1>4, <1>5 DEF VideoTyped

\* The dispatcher's own steps.
LEMMA DispatcherTyped ==
    ASSUME VideoTyped, NEW v \in Videos,
           CreateVideo(v) \/ TakeSlot(v) \/ Submit(v) \/ LoseAnswer(v) \/ Poll(v) \/ SaveVideo(v)
    PROVE  VideoTyped'
<1>0. dispatched[v] \in VideoTask /\ rpmWindow \in 0..RpmLimit /\ RpmLimit \in Nat
  BY VideoAssumption DEF VideoTyped
<1>1. CASE CreateVideo(v)
  <2> DEFINE task == [NoVideo EXCEPT !.status = "queued"]
  <2>1. task \in VideoTask  BY NoVideoTask, TaskChanged
  <2>2. /\ Dispatch(v, "none", "starting") /\ AppendLedger(v, task) /\ Hold(v, task)
        /\ videoQueue' = videoQueue \cup {v}
        /\ UNCHANGED <<rpmWindow, remote, videoFiles, refreshing, deleting>>
    BY <1>1 DEF CreateVideo, NoRequestMoves
  <2> HIDE DEF task
  <2>3. videoLedger' \in [Videos -> VideoTask] /\ dispatched' \in [Videos -> VideoTask]
        /\ dispatcher' \in [Videos -> Phases]
    BY <2>1, <2>2, Appended, Held, Dispatches DEF Phases
  <2> QED  BY <2>2, <2>3 DEF VideoTyped
<1>2. CASE TakeSlot(v)
  <2>1. CASE FailVideo(v, "backoff") /\ UNCHANGED rpmWindow  BY <2>1, <1>0, VideoFails
  <2>2. CASE FailVideo(v, "starting") /\ UNCHANGED rpmWindow  BY <2>2, <1>0, VideoFails
  <2>3. CASE /\ rpmWindow' \in {rpmWindow, rpmWindow + 1} /\ (rpmWindow' # rpmWindow => rpmWindow < RpmLimit)
             /\ \E from, to \in Phases : Dispatch(v, from, to)
             /\ UNCHANGED <<videoLedger, videoQueue, dispatched, remote, videoFiles, refreshing, deleting>>
    <3>1. rpmWindow' \in 0..RpmLimit  BY <2>3, <1>0
    <3>2. dispatcher' \in [Videos -> Phases]  BY <2>3, Dispatches
    <3> QED  BY <2>3, <3>1, <3>2 DEF VideoTyped
  <2>4. dispatcher[v] \in Phases  BY DEF VideoTyped
  <2> QED  BY <1>2, <2>1, <2>2, <2>3, <2>4 DEF TakeSlot, NoRequestMoves, Phases
<1>3. CASE Submit(v)
  <2>1. CASE FailVideo(v, "submitting") /\ UNCHANGED rpmWindow  BY <2>1, <1>0, VideoFails
  <2>2. CASE ~FailVideo(v, "submitting")
    <3> DEFINE task == [dispatched[v] EXCEPT !.status = "submitted", !.submitted = TRUE]
    <3>1. task \in VideoTask  BY <1>0, TaskChanged
    <3>2. /\ Dispatch(v, "submitting", "polling") /\ AppendLedger(v, task) /\ Hold(v, task)
          /\ remote' = [remote EXCEPT ![v] = "running"]
          /\ UNCHANGED <<videoQueue, rpmWindow, videoFiles, refreshing, deleting>>
      BY <1>3, <2>2 DEF Submit, NoRequestMoves
    <3> HIDE DEF task
    <3>3. videoLedger' \in [Videos -> VideoTask] /\ dispatched' \in [Videos -> VideoTask]
          /\ dispatcher' \in [Videos -> Phases]
      BY <3>1, <3>2, Appended, Held, Dispatches DEF Phases
    <3>4. remote' \in [Videos -> Remotes]  BY <3>2 DEF VideoTyped, Remotes
    <3> QED  BY <3>2, <3>3, <3>4 DEF VideoTyped
  <2> QED  BY <1>3, <2>1, <2>2 DEF Submit
<1>4. CASE LoseAnswer(v)
  <2> DEFINE task == [dispatched[v] EXCEPT !.status = "failed"]
  <2>1. task \in VideoTask  BY <1>0, TaskChanged DEF Ended
  <2>2. /\ Dispatch(v, "submitting", "none") /\ AppendLedger(v, task) /\ Hold(v, NoVideo)
        /\ videoQueue' = videoQueue \ {v} /\ remote' = [remote EXCEPT ![v] = "running"]
        /\ UNCHANGED <<rpmWindow, videoFiles, refreshing, deleting>>
    BY <1>4 DEF LoseAnswer, NoRequestMoves
  <2> HIDE DEF task
  <2>3. videoLedger' \in [Videos -> VideoTask] /\ dispatched' \in [Videos -> VideoTask]
        /\ dispatcher' \in [Videos -> Phases]
    BY <2>1, <2>2, NoVideoTask, Appended, Held, Dispatches DEF Phases
  <2>4. remote' \in [Videos -> Remotes]  BY <2>2 DEF VideoTyped, Remotes
  <2> QED  BY <2>2, <2>3, <2>4 DEF VideoTyped
<1>5. CASE Poll(v)
  <2> DEFINE polled == [dispatched[v] EXCEPT !.status = "running"]
  <2>0. polled \in VideoTask  BY <1>0, TaskChanged
  <2>p. ASSUME NEW reported \in VideoTask,
               Dispatch(v, "polling", "polling"), AppendLedger(v, reported), Hold(v, reported),
               UNCHANGED <<videoQueue, rpmWindow, remote, videoFiles>>, NoRequestMoves
        PROVE  VideoTyped'
    <3>1. videoLedger' \in [Videos -> VideoTask] /\ dispatched' \in [Videos -> VideoTask]
          /\ dispatcher' \in [Videos -> Phases]
      BY <2>p, Appended, Held, Dispatches DEF Phases
    <3> QED  BY <2>p, <3>1 DEF VideoTyped, NoRequestMoves
  <2>1. CASE /\ Dispatch(v, "polling", "polling") /\ AppendLedger(v, polled) /\ Hold(v, polled)
             /\ UNCHANGED <<videoQueue, rpmWindow, remote, videoFiles>> /\ NoRequestMoves
    <3> HIDE DEF polled
    <3> QED  BY <2>0, <2>1, <2>p
  <2>4. CASE PollUnforeseen(v)
    <3> DEFINE strange == [dispatched[v] EXCEPT !.status = remote[v]]
    <3>1. remote[v] \in Ended \cup {"other"}  BY <2>4 DEF PollUnforeseen, Unforeseen, Ended
    <3>2. strange \in VideoTask  BY <1>0, <3>1, TaskChanged
    <3>3. /\ Dispatch(v, "polling", "polling") /\ AppendLedger(v, strange) /\ Hold(v, strange)
          /\ UNCHANGED <<videoQueue, rpmWindow, remote, videoFiles>> /\ NoRequestMoves
      BY <2>4 DEF PollUnforeseen
    <3> HIDE DEF strange
    <3> QED  BY <3>2, <3>3, <2>p
  <2>2. CASE /\ Dispatch(v, "polling", "saving") /\ NoRequestMoves
             /\ UNCHANGED <<videoLedger, videoQueue, rpmWindow, dispatched, remote, videoFiles>>
    <3>1. dispatcher' \in [Videos -> Phases]  BY <2>2, Dispatches DEF Phases
    <3> QED  BY <2>2, <3>1 DEF VideoTyped, NoRequestMoves
  <2>3. CASE FailVideo(v, "polling") /\ UNCHANGED rpmWindow  BY <2>3, <1>0, VideoFails
  <2> QED  BY <1>5, <2>1, <2>2, <2>3, <2>4 DEF Poll
<1>6. CASE SaveVideo(v)
  <2>1. PICK saved \in BOOLEAN :
          /\ Dispatch(v, "saving", "none") /\ Hold(v, NoVideo)
          /\ AppendLedger(v, [dispatched[v] EXCEPT !.status = "succeeded", !.file = saved])
          /\ videoFiles' = IF saved THEN videoFiles \cup {v} ELSE videoFiles
          /\ videoQueue' = videoQueue \ {v}
          /\ UNCHANGED <<rpmWindow, remote, refreshing, deleting>>
    BY <1>6 DEF SaveVideo, NoRequestMoves
  <2> DEFINE task == [dispatched[v] EXCEPT !.status = "succeeded", !.file = saved]
  <2>2. task \in VideoTask /\ AppendLedger(v, task)  BY <1>0, <2>1, TaskChanged DEF Ended
  <2> HIDE DEF task
  <2>3. videoLedger' \in [Videos -> VideoTask] /\ dispatched' \in [Videos -> VideoTask]
        /\ dispatcher' \in [Videos -> Phases]
    BY <2>1, <2>2, NoVideoTask, Appended, Held, Dispatches DEF Phases
  <2>4. videoFiles' \subseteq Videos  BY <2>1 DEF VideoTyped
  <2> QED  BY <2>1, <2>3, <2>4 DEF VideoTyped
<1> QED  BY <1>1, <1>2, <1>3, <1>4, <1>5, <1>6

\* The requests, the remote service and the rest of the server.
LEMMA RequestsTyped ==
    ASSUME VideoTyped,
           \/ \E v \in Videos : \/ RemoteEnds(v) \/ RemoteStrays(v) \/ GetVideo(v) \/ Refresh(v)
                                \/ CancelQueued(v) \/ DeleteVideo(v) \/ Tombstone(v)
           \/ OtherTakesSlot \/ MinutePasses \/ RestartVideos
    PROVE  VideoTyped'
<1>0. rpmWindow \in 0..RpmLimit /\ RpmLimit \in Nat  BY VideoAssumption DEF VideoTyped
<1>1. ASSUME NEW v \in Videos, RemoteEnds(v) \/ RemoteStrays(v) PROVE VideoTyped'
  <2>0. \E from, to \in SUBSET Remotes : RemoteMoves(v, from, to)
    <3>1. /\ {"running"} \in SUBSET Remotes /\ {"other"} \in SUBSET Remotes
          /\ {"succeeded", "failed"} \in SUBSET Remotes /\ Unforeseen \in SUBSET Remotes
      BY DEF Remotes, Unforeseen
    <3> HIDE DEF Remotes
    <3> QED  BY <1>1, <3>1, Zenon DEF RemoteEnds, RemoteStrays
  <2>1. PICK from, to \in SUBSET Remotes : RemoteMoves(v, from, to)  BY <2>0
  <2>2. PICK s \in to : remote' = [remote EXCEPT ![v] = s]
    BY <2>1 DEF RemoteMoves
  <2>3. remote' \in [Videos -> Remotes]  BY <2>2 DEF VideoTyped
  <2> QED  BY <2>1, <2>3 DEF RemoteMoves, NoRequestMoves, VideoTyped
<1>2. ASSUME NEW v \in Videos, GetVideo(v) PROVE VideoTyped'
  <2>1. PICK answer \in IF remote[v] = "running" THEN {"queued", "running"} ELSE {remote[v]} :
          refreshing' = [refreshing EXCEPT ![v] =
                            @ \cup {[task |-> videoLedger[v], answer |-> answer]}]
    BY <1>2 DEF GetVideo
  <2>2. answer \in {"queued", "running", "other"} \cup Ended
    <3>1. remote[v] \in Remotes \ {"none", "deleted"}  BY <1>2 DEF GetVideo, VideoTyped
    <3> QED  BY <2>1, <3>1 DEF Remotes, Unforeseen, Ended
  <2>3. [task |-> videoLedger[v], answer |-> answer] \in VideoAnswer
    BY <2>2 DEF VideoTyped, VideoAnswer
  <2>4. refreshing' \in [Videos -> SUBSET VideoAnswer]
    BY <2>1, <2>3 DEF VideoTyped
  <2> QED  BY <1>2, <2>4 DEF GetVideo, VideoTyped
<1>3. ASSUME NEW v \in Videos, Refresh(v) PROVE VideoTyped'
  <2>1. PICK got \in refreshing[v], saved \in BOOLEAN :
          /\ IF got.answer = got.task.status THEN UNCHANGED videoLedger
             ELSE AppendLedger(v, [got.task EXCEPT !.status = got.answer, !.file = @ \/ saved])
          /\ videoFiles' = IF saved THEN videoFiles \cup {v} ELSE videoFiles
          /\ refreshing' = [refreshing EXCEPT ![v] = @ \ {got}]
          /\ UNCHANGED <<videoQueue, rpmWindow, dispatcher, dispatched, remote, deleting>>
    BY <1>3 DEF Refresh
  <2>2. got \in VideoAnswer  BY DEF VideoTyped
  <2>3. got.task \in VideoTask /\ got.answer \in {"queued", "running", "other"} \cup Ended
    BY <2>2 DEF VideoAnswer
  <2> DEFINE task == [got.task EXCEPT !.status = got.answer, !.file = @ \/ saved]
  <2>4. task \in VideoTask  BY <2>3, TaskChanged DEF Ended
  <2>5. UNCHANGED videoLedger \/ AppendLedger(v, task)  BY <2>1
  <2> HIDE DEF task
  <2>6. videoLedger' \in [Videos -> VideoTask]  BY <2>4, <2>5, Appended DEF VideoTyped
  <2>7. refreshing' \in [Videos -> SUBSET VideoAnswer]  BY <2>1 DEF VideoTyped
  <2>8. videoFiles' \subseteq Videos  BY <2>1 DEF VideoTyped
  <2> QED  BY <2>1, <2>6, <2>7, <2>8 DEF VideoTyped
<1>4. ASSUME NEW v \in Videos, CancelQueued(v) PROVE VideoTyped'
  <2> DEFINE task == [videoLedger[v] EXCEPT !.status = "cancelled"]
  <2>1. task \in VideoTask  BY TaskChanged DEF VideoTyped, Ended
  <2>2. AppendLedger(v, task)  BY <1>4 DEF CancelQueued
  <2> HIDE DEF task
  <2>3. videoLedger' \in [Videos -> VideoTask]  BY <2>1, <2>2, Appended
  <2> QED  BY <1>4, <2>3 DEF CancelQueued, VideoTyped
<1>5. ASSUME NEW v \in Videos, DeleteVideo(v) PROVE VideoTyped'
  <2>1. deleting' \in [Videos -> VideoTask]  BY <1>5 DEF DeleteVideo, VideoTyped
  <2>2. remote' = remote \/ remote' = [remote EXCEPT ![v] = "deleted"]
    BY <1>5 DEF DeleteVideo
  <2>3. remote' \in [Videos -> Remotes]  BY <2>2 DEF VideoTyped, Remotes
  <2>4. videoFiles' \subseteq Videos  BY <1>5 DEF DeleteVideo, VideoTyped
  <2> QED  BY <1>5, <2>1, <2>3, <2>4 DEF DeleteVideo, VideoTyped
<1>6. ASSUME NEW v \in Videos, Tombstone(v) PROVE VideoTyped'
  <2> DEFINE task == [deleting[v] EXCEPT !.status = "cancelled", !.file = FALSE]
  <2>1. task \in VideoTask  BY TaskChanged DEF VideoTyped, Ended
  <2>2. AppendLedger(v, task) /\ deleting' = [deleting EXCEPT ![v] = NoVideo]
    BY <1>6 DEF Tombstone
  <2> HIDE DEF task
  <2>3. videoLedger' \in [Videos -> VideoTask]  BY <2>1, <2>2, Appended
  <2>4. deleting' \in [Videos -> VideoTask]  BY <2>2, NoVideoTask DEF VideoTyped
  <2> QED  BY <1>6, <2>3, <2>4 DEF Tombstone, VideoTyped
<1>7. CASE OtherTakesSlot
  <2>1. rpmWindow' \in 0..RpmLimit  BY <1>7, <1>0 DEF OtherTakesSlot
  <2> QED  BY <1>7, <2>1 DEF OtherTakesSlot, NoRequestMoves, VideoTyped
<1>8. CASE MinutePasses
  <2>1. rpmWindow' \in 0..RpmLimit  BY <1>8, <1>0 DEF MinutePasses
  <2> QED  BY <1>8, <2>1 DEF MinutePasses, NoRequestMoves, VideoTyped
<1>9. CASE RestartVideos
  <2>1. rpmWindow' \in 0..RpmLimit  BY <1>9, <1>0 DEF RestartVideos
  <2> QED  BY <1>9, <2>1, NoVideoTask DEF RestartVideos, VideoTyped, Phases
<1> QED  BY <1>1, <1>2, <1>3, <1>4, <1>5, <1>6, <1>7, <1>8, <1>9

LEMMA VideoTypedStep == VideoTyped /\ [VideoNext]_videoVars => VideoTyped'
<1>1. VideoTyped /\ UNCHANGED videoVars => VideoTyped'  BY DEF videoVars, VideoTyped
<1>2. VideoTyped /\ VideoNext => VideoTyped'  BY DispatcherTyped, RequestsTyped DEF VideoNext
<1> QED  BY <1>1, <1>2

\* The ledger of the videos, what dispatchers and requests hold of it, and the window
\* of submissions keep their shape (video_service.rs).
THEOREM VideoTypes == VideoSpec => []VideoTypeOK
<1> QED  BY VideoTypedInit, VideoTypedStep, VideoTypedTypes, PTL DEF VideoSpec

-----------------------------------------------------------------------------
(* Skills.  A project is published under a number no greater than that of  *)
(* the last version, because each switch writes one.                       *)
SkillVersions == {NoSkill} \cup Versions
FileEvents == {"edit", "other", "layout", "error"}

SkillTyped ==
    /\ conditional \in BOOLEAN /\ lastVersion \in Versions
    /\ skillFile \in SkillVersions /\ skillFile <= lastVersion
    /\ staticSkill \in SkillVersions /\ waitingSkill \in SkillVersions
    /\ dynamicSkill \in SkillVersions
    /\ published \in Versions /\ published <= lastVersion /\ watched \in SkillVersions
    /\ bound \in BOOLEAN /\ pendingDir \in BOOLEAN /\ owed \in BOOLEAN /\ overlaid \in BOOLEAN
    /\ fileEvents \in Seq(FileEvents) /\ Len(fileEvents) <= MaxFileEvents

LEMMA SkillTypedTypes == SkillTyped => SkillTypeOK
BY DEF SkillTyped, SkillTypeOK, SkillVersions, FileEvents, NoSkill

LEMMA SkillTypedInit == SkillInit => SkillTyped
<1> SUFFICES ASSUME SkillInit PROVE SkillTyped  OBVIOUS
<1>1. 1 \in Versions  BY SkillAssumption DEF Versions
<1>2. skillFile \in SkillVersions /\ skillFile <= 1  BY <1>1 DEF SkillInit, SkillVersions, NoSkill
<1>3. NoSkill \in SkillVersions /\ 0 \in SkillVersions  BY DEF SkillVersions, NoSkill
<1>4. staticSkill \in SkillVersions /\ waitingSkill \in SkillVersions
  BY <1>2, <1>3 DEF SkillInit
<1>5. <<>> \in Seq(FileEvents) /\ Len(<<>>) <= MaxFileEvents  BY SkillAssumption
<1>6. published = 1 /\ lastVersion = 1 /\ published <= lastVersion  BY DEF SkillInit
<1> QED  BY <1>1, <1>2, <1>3, <1>4, <1>5, <1>6 DEF SkillInit, SkillTyped

LEMMA NoticeTyped ==
    ASSUME SkillTyped, NEW event \in FileEvents, Notice(event)
    PROVE  fileEvents' \in Seq(FileEvents) /\ Len(fileEvents') <= MaxFileEvents
<1>1. fileEvents \in Seq(FileEvents) /\ Len(fileEvents) <= MaxFileEvents  BY DEF SkillTyped
<1>2. CASE UNCHANGED fileEvents  BY <1>1, <1>2
<1>3. CASE Len(fileEvents) < MaxFileEvents /\ fileEvents' = Append(fileEvents, event)
  <2>1. fileEvents' \in Seq(FileEvents) /\ Len(fileEvents') = Len(fileEvents) + 1
    BY <1>1, <1>3
  <2> QED  BY <2>1, <1>1, <1>3, SkillAssumption
<1> QED  BY <1>2, <1>3 DEF Notice

LEMMA NextVersion ==
    ASSUME SkillTyped, lastVersion < MaxVersions
    PROVE  lastVersion + 1 \in Versions /\ lastVersion \in Nat /\ published \in Nat
BY SkillAssumption DEF SkillTyped, Versions

\* The files change.
LEMMA FilesTyped ==
    ASSUME SkillTyped,
           EditInPlace \/ ReplaceFile \/ RemoveFile \/ Disturb \/ OtherFile \/ SwitchSkills
    PROVE  SkillTyped'
<1>1. CASE WriteVersion /\ owed' \in BOOLEAN /\ overlaid' \in BOOLEAN /\ (Notice("edit") \/ Notice("layout"))
  <2>1. fileEvents' \in Seq(FileEvents) /\ Len(fileEvents') <= MaxFileEvents
    BY <1>1, NoticeTyped DEF FileEvents
  <2>2. /\ lastVersion < MaxVersions /\ lastVersion' = lastVersion + 1 /\ skillFile' = lastVersion + 1
        /\ UNCHANGED <<conditional, staticSkill, waitingSkill, dynamicSkill, watched, bound,
                       pendingDir, published>>
    BY <1>1 DEF WriteVersion, managerVars
  <2>3. lastVersion' \in Versions /\ skillFile' \in SkillVersions /\ skillFile' <= lastVersion'
        /\ published' <= lastVersion'
    BY <2>2, NextVersion DEF SkillTyped, SkillVersions
  <2> QED  BY <1>1, <2>1, <2>2, <2>3 DEF SkillTyped
<1>2. CASE RemoveFile
  <2>1. fileEvents' \in Seq(FileEvents) /\ Len(fileEvents') <= MaxFileEvents
    BY <1>2, NoticeTyped DEF RemoveFile, FileEvents
  <2>2. /\ skillFile' = NoSkill /\ owed' = FALSE
        /\ UNCHANGED <<conditional, lastVersion, staticSkill, waitingSkill, dynamicSkill, watched,
                       bound, pendingDir, published, overlaid>>
    BY <1>2 DEF RemoveFile, managerVars
  <2>3. skillFile' \in SkillVersions /\ skillFile' <= lastVersion'
    BY <2>2, SkillAssumption DEF SkillVersions, NoSkill, SkillTyped, Versions
  <2> QED  BY <2>1, <2>2, <2>3 DEF SkillTyped
<1>3. CASE Disturb \/ OtherFile
  <2>1. fileEvents' \in Seq(FileEvents) /\ Len(fileEvents') <= MaxFileEvents
    BY <1>3, NoticeTyped DEF Disturb, OtherFile, FileEvents
  <2>2. /\ owed' \in {owed, FALSE}
        /\ UNCHANGED <<conditional, skillFile, lastVersion, staticSkill, waitingSkill, dynamicSkill,
                       watched, bound, pendingDir, published, overlaid>>
    BY <1>3 DEF Disturb, OtherFile, fileVars, managerVars, historyVars
  <2> QED  BY <2>1, <2>2 DEF SkillTyped
<1>4. CASE SwitchSkills
  <2>1. /\ lastVersion < MaxVersions /\ published' = published + 1 /\ conditional' \in BOOLEAN
        /\ lastVersion' = lastVersion + 1 /\ owed' = FALSE
        /\ skillFile' \in {NoSkill, lastVersion + 1}
        /\ UNCHANGED <<watched, bound, fileEvents, pendingDir, overlaid>>
    BY <1>4 DEF SwitchSkills, watchVars
  <2>2. PICK found \in {NoSkill, lastVersion, lastVersion + 1} : NewManager(found, conditional')
    BY <1>4 DEF SwitchSkills
  <2>3. lastVersion + 1 \in Versions /\ lastVersion \in Nat /\ published \in Nat
    BY <2>1, NextVersion
  <2>4. found \in SkillVersions /\ NoSkill \in SkillVersions
    BY <2>3 DEF SkillTyped, SkillVersions
  <2>5. staticSkill' \in SkillVersions /\ waitingSkill' \in SkillVersions
        /\ dynamicSkill' \in SkillVersions
    BY <2>2, <2>4 DEF NewManager
  <2>6. skillFile' \in SkillVersions /\ skillFile' <= lastVersion'
    BY <2>1, <2>3 DEF SkillVersions, NoSkill
  <2>7. published <= lastVersion /\ lastVersion + 1 <= MaxVersions /\ published \in 1..MaxVersions
    BY <2>3 DEF SkillTyped, Versions
  <2>8. published' \in Versions /\ published' <= lastVersion'
    BY <2>1, <2>3, <2>7, SkillAssumption DEF Versions
  <2> QED  BY <2>1, <2>3, <2>5, <2>6, <2>8 DEF SkillTyped
<1>5. EditInPlace => owed' \in BOOLEAN /\ overlaid' = FALSE /\ WriteVersion /\ Notice("edit")
  BY DEF EditInPlace
<1>6. ReplaceFile => owed' \in BOOLEAN /\ overlaid' = overlaid /\ WriteVersion /\ Notice("layout")
  BY DEF ReplaceFile
<1>7. overlaid \in BOOLEAN  BY DEF SkillTyped
<1> QED  BY <1>1, <1>2, <1>3, <1>4, <1>5, <1>6, <1>7

LEMMA RescanTyped ==
    ASSUME SkillTyped, Rescan
    PROVE  /\ dynamicSkill' \in SkillVersions /\ UNCHANGED <<staticSkill, waitingSkill>>
BY DEF SkillTyped, Rescan

\* Runs, the panel and the watcher.
LEMMA WatcherTyped ==
    ASSUME SkillTyped,
           \/ ActivateSkill \/ RefreshPanel \/ SeeSwitch \/ BindAgain \/ Reconcile
           \/ TakeFileEvent \/ LoadPending
    PROVE  SkillTyped'
<1>1. CASE ActivateSkill
  <2>1. NoSkill \in SkillVersions  BY DEF SkillVersions
  <2>2. /\ dynamicSkill' = waitingSkill /\ waitingSkill' = NoSkill
        /\ overlaid' \in BOOLEAN /\ owed' = owed
        /\ UNCHANGED <<conditional, skillFile, lastVersion, staticSkill, watched, bound, fileEvents,
                       pendingDir, published>>
    BY <1>1 DEF ActivateSkill, fileVars, watchVars, SkillTyped
  <2> QED  BY <2>1, <2>2 DEF SkillTyped
<1>2. CASE Rescan /\ UNCHANGED <<fileVars, watchVars, published, historyVars>>
  <2>1. UNCHANGED <<conditional, skillFile, lastVersion, watched, bound, fileEvents, pendingDir,
                    published, owed, overlaid>>
    BY <1>2 DEF fileVars, watchVars, historyVars
  <2> QED  BY <1>2, <2>1, RescanTyped DEF SkillTyped
<1>3. CASE /\ Bind /\ watched' \in {watched, published} /\ pendingDir' \in {pendingDir, FALSE}
  <2>1. <<>> \in Seq(FileEvents) /\ Len(<<>>) <= MaxFileEvents  BY SkillAssumption
  <2>2. /\ bound' \in BOOLEAN /\ fileEvents' = <<>> /\ Rescan
        /\ UNCHANGED <<conditional, skillFile, lastVersion, published, owed, overlaid>>
    BY <1>3 DEF Bind, fileVars, historyVars
  <2>3. watched' \in SkillVersions /\ pendingDir' \in BOOLEAN  BY <1>3 DEF SkillTyped, SkillVersions
  <2> QED  BY <2>1, <2>2, <2>3, RescanTyped DEF SkillTyped
<1>4. CASE TakeFileEvent
  <2>1. /\ fileEvents # <<>> /\ fileEvents' = Tail(fileEvents)
        /\ pendingDir' \in BOOLEAN /\ bound' \in BOOLEAN
        /\ UNCHANGED <<conditional, skillFile, lastVersion, staticSkill, waitingSkill, dynamicSkill,
                       watched, published, owed, overlaid>>
    BY <1>4 DEF TakeFileEvent, fileVars, managerVars, historyVars
  <2>2. fileEvents \in Seq(FileEvents) /\ Len(fileEvents) <= MaxFileEvents  BY DEF SkillTyped
  <2>3. fileEvents' \in Seq(FileEvents) /\ Len(fileEvents') = Len(fileEvents) - 1  BY <2>1, <2>2
  <2>4. Len(fileEvents') <= MaxFileEvents  BY <2>2, <2>3, SkillAssumption
  <2> QED  BY <2>1, <2>3, <2>4 DEF SkillTyped
<1>5. CASE LoadPending
  <2>1. /\ pendingDir' = FALSE
        /\ dynamicSkill' = (IF skillFile = NoSkill THEN dynamicSkill ELSE skillFile)
        /\ UNCHANGED <<conditional, skillFile, lastVersion, staticSkill, waitingSkill, watched, bound,
                       fileEvents, published, owed, overlaid>>
    BY <1>5 DEF LoadPending, fileVars, historyVars
  <2> QED  BY <2>1 DEF SkillTyped
<1>6. SeeSwitch => Bind /\ watched' = published /\ pendingDir' = FALSE  BY DEF SeeSwitch
<1>7. BindAgain => Bind /\ watched' = watched /\ pendingDir' = pendingDir  BY DEF BindAgain
<1>8. RefreshPanel \/ Reconcile => Rescan /\ UNCHANGED <<fileVars, watchVars, published, historyVars>>
  BY DEF RefreshPanel, Reconcile
<1> QED  BY <1>1, <1>2, <1>3, <1>4, <1>5, <1>6, <1>7, <1>8

LEMMA SkillTypedStep == SkillTyped /\ [SkillNext]_skillVars => SkillTyped'
<1>1. SkillTyped /\ UNCHANGED skillVars => SkillTyped'
  BY DEF skillVars, fileVars, managerVars, watchVars, historyVars, SkillTyped
<1>2. SkillTyped /\ SkillNext => SkillTyped'  BY FilesTyped, WatcherTyped DEF SkillNext
<1> QED  BY <1>1, <1>2

\* The manager holds versions that were written, and the watcher follows generations
\* that were published (skills.rs, skill_watcher.rs).
THEOREM SkillTypes == SkillSpec => []SkillTypeOK
<1> QED  BY SkillTypedInit, SkillTypedStep, SkillTypedTypes, PTL DEF SkillSpec

-----------------------------------------------------------------------------
(* The editor's bridge.                                                    *)
TurnPlaces == {"unread", "asked", "running", "ended", "over", "answered"}

LEMMA EditorTypedInit == EditorInit => EditorTypeOK
<1> SUFFICES ASSUME EditorInit PROVE EditorTypeOK  OBVIOUS
<1>1. 0 \in 0..MaxPrompts /\ 0 \in 0..MaxCancels  BY EditorAssumption
<1>2. <<>> \in Seq(Prompts \cup EdSessions) /\ <<>> \in Seq(Prompts)  OBVIOUS
<1> QED  BY <1>1, <1>2 DEF EditorInit, EditorTypeOK

\* The editor writes.
LEMMA LinesTyped ==
    ASSUME EditorTypeOK, StartLine \/ FinishLine \/ HangUp
    PROVE  EditorTypeOK'
<1>1. CASE StartLine
  <2>1. /\ UNCHANGED <<stdin, torn, bridge, turnOf, promptSession, stopped, controllers, finished>>
        /\ \/ /\ prompted < MaxPrompts /\ prompted' = prompted + 1
              /\ unfinished' = prompted' /\ UNCHANGED cancels
           \/ /\ cancels < MaxCancels /\ cancels' = cancels + 1
              /\ unfinished' \in EdSessions /\ UNCHANGED prompted
    BY <1>1 DEF StartLine
  <2>2. prompted' \in 0..MaxPrompts /\ cancels' \in 0..MaxCancels
    BY <2>1, EditorAssumption DEF EditorTypeOK
  <2>3. unfinished' \in Prompts \cup EdSessions
    BY <2>1, EditorAssumption DEF EditorTypeOK, Prompts
  <2> QED  BY <2>1, <2>2, <2>3 DEF EditorTypeOK
<1>2. CASE FinishLine
  <2>1. stdin' \in Seq(Prompts \cup EdSessions)
    <3>1. stdin \in Seq(Prompts \cup EdSessions) /\ unfinished \in Prompts \cup EdSessions
      BY <1>2 DEF FinishLine, EditorTypeOK
    <3> QED  BY <3>1, <1>2 DEF FinishLine
  <2>2. bridge' \in {"reading", "closed", "failed"}  BY <1>2 DEF FinishLine, EditorTypeOK
  <2> QED  BY <1>2, <2>1, <2>2 DEF FinishLine, EditorTypeOK
<1>3. CASE HangUp  BY <1>3 DEF HangUp, EditorTypeOK
<1> QED  BY <1>1, <1>2, <1>3

\* The loop reads and answers.
LEMMA LoopTyped ==
    ASSUME EditorTypeOK, EditorLoop
    PROVE  EditorTypeOK'
<1>1. CASE TakePrompt
  <2>1. stdin' \in Seq(Prompts \cup EdSessions)  BY <1>1 DEF TakePrompt, EditorTypeOK
  <2>2. turnOf' \in [Prompts -> TurnPlaces]  BY <1>1 DEF TakePrompt, EditorTypeOK, TurnPlaces
  <2> QED  BY <1>1, <2>1, <2>2 DEF TakePrompt, EditorTypeOK, TurnPlaces
<1>2. CASE TakeCancel
  <2>1. stdin' \in Seq(Prompts \cup EdSessions)  BY <1>2 DEF TakeCancel, EditorTypeOK
  <2>2. controllers' \in [EdSessions -> Prompts \cup {NoPrompt}]
    BY <1>2 DEF TakeCancel, EditorTypeOK
  <2>3. stopped' \subseteq Prompts  BY <1>2 DEF TakeCancel, EditorTypeOK
  <2> QED  BY <1>2, <2>1, <2>2, <2>3 DEF TakeCancel, EditorTypeOK
<1>3. CASE AnswerPrompt
  <2>1. finished' \in Seq(Prompts)  BY <1>3 DEF AnswerPrompt, EditorTypeOK
  <2>2. turnOf' \in [Prompts -> TurnPlaces]  BY <1>3 DEF AnswerPrompt, EditorTypeOK, TurnPlaces
  <2>3. torn' \in BOOLEAN  BY <1>3 DEF AnswerPrompt
  <2> QED  BY <1>3, <2>1, <2>2, <2>3 DEF AnswerPrompt, EditorTypeOK, TurnPlaces
<1> QED  BY <1>1, <1>2, <1>3 DEF EditorLoop

\* The task of a prompt.
LEMMA PromptTyped ==
    ASSUME EditorTypeOK, NEW p \in Prompts,
           RefusePrompt(p) \/ StartTurn(p) \/ EndTurn(p) \/ RetireTurn(p)
    PROVE  EditorTypeOK'
<1>1. UNCHANGED <<stdin, unfinished, torn, bridge, prompted, cancels, promptSession, stopped>>
  BY DEF RefusePrompt, StartTurn, EndTurn, RetireTurn, editorInput
<1>2. turnOf' \in [Prompts -> TurnPlaces]
  BY DEF RefusePrompt, StartTurn, EndTurn, RetireTurn, EditorTypeOK, TurnPlaces
<1>3. finished' \in Seq(Prompts)
  <2>1. finished \in Seq(Prompts)  BY DEF EditorTypeOK
  <2>2. finished' = finished \/ finished' = Append(finished, p)
    BY DEF RefusePrompt, StartTurn, EndTurn, RetireTurn
  <2> QED  BY <2>1, <2>2
<1>4. controllers' \in [EdSessions -> Prompts \cup {NoPrompt}]
  BY DEF RefusePrompt, StartTurn, EndTurn, RetireTurn, EditorTypeOK
<1> QED  BY <1>1, <1>2, <1>3, <1>4 DEF EditorTypeOK, TurnPlaces

LEMMA EditorTypedStep == EditorTypeOK /\ [EditorNext]_editorVars => EditorTypeOK'
<1>1. EditorTypeOK /\ UNCHANGED editorVars => EditorTypeOK'
  BY DEF editorVars, editorInput, EditorTypeOK
<1>2. EditorTypeOK /\ EditorNext => EditorTypeOK'
  BY LinesTyped, LoopTyped, PromptTyped DEF EditorNext
<1> QED  BY <1>1, <1>2

\* What is read, answered and listed in the editor's bridge are lines, prompts and
\* controllers of the sessions there are (acp.rs).
THEOREM EditorTypes == EditorSpec => []EditorTypeOK
<1> QED  BY EditorTypedInit, EditorTypedStep, PTL DEF EditorSpec

-----------------------------------------------------------------------------
(* The composition: one component is chosen and moves, the others stand    *)
(* still.                                                                  *)
ComponentsStart ==
    /\ GraphInit /\ ToolInit /\ BgInit /\ LifecycleInit /\ ProviderInit /\ VideoInit
    /\ EvolutionInit /\ DreamInit /\ TaskInit /\ SkillInit
    /\ VmInit /\ EditorInit /\ PageInit /\ SyncInit

ComponentsStep ==
    /\ [GraphNext]_graphVars /\ [ToolNext]_turnVars /\ [BgNext]_bgVars
    /\ [LifecycleNext]_runVars /\ [ProviderNext]_turnStreamVars /\ [VideoNext]_videoVars
    /\ [EvolutionNext]_evolutionVars /\ [DreamNext]_dreamVars /\ [TaskNext]_taskVars
    /\ [SkillNext]_skillVars /\ [VmNext]_vmVars /\ [EditorNext]_editorVars
    /\ [PageNext]_pageVars /\ [SyncNext]_syncVars

ComponentsInv ==
    /\ GraphFull /\ ToolTyped /\ BgInv /\ LifecycleInv /\ ProviderTyped /\ VideoTyped
    /\ EvolutionTyped /\ DreamTyped /\ TaskTyped /\ SkillTyped
    /\ VmInv /\ EditorTypeOK /\ PageTyped /\ SyncInv

LEMMA IdleComponents ==
    /\ Idle("graph") => UNCHANGED graphVars
    /\ Idle("tools") => UNCHANGED turnVars
    /\ Idle("background") => UNCHANGED bgVars
    /\ Idle("run") => UNCHANGED runVars
    /\ Idle("provider") => UNCHANGED turnStreamVars
    /\ Idle("video") => UNCHANGED videoVars
    /\ Idle("evolution") => UNCHANGED evolutionVars
    /\ Idle("dream") => UNCHANGED dreamVars
    /\ Idle("tasks") => UNCHANGED taskVars
    /\ Idle("skills") => UNCHANGED skillVars
    /\ Idle("machines") => UNCHANGED vmVars
    /\ Idle("editor") => UNCHANGED editorVars
    /\ Idle("connection") => UNCHANGED pageVars
    /\ Idle("page") => UNCHANGED syncVars
BY DEF Idle

\* Whoever is not chosen stands still.
LEMMA OthersIdle ==
    ASSUME NEW c, Chosen(c)
    PROVE  /\ c # "graph" => UNCHANGED graphVars
           /\ c # "tools" => UNCHANGED turnVars
           /\ c # "background" => UNCHANGED bgVars
           /\ c # "run" => UNCHANGED runVars
           /\ c # "provider" => UNCHANGED turnStreamVars
           /\ c # "video" => UNCHANGED videoVars
           /\ c # "evolution" => UNCHANGED evolutionVars
           /\ c # "dream" => UNCHANGED dreamVars
           /\ c # "tasks" => UNCHANGED taskVars
           /\ c # "skills" => UNCHANGED skillVars
           /\ c # "machines" => UNCHANGED vmVars
           /\ c # "editor" => UNCHANGED editorVars
           /\ c # "connection" => UNCHANGED pageVars
           /\ c # "page" => UNCHANGED syncVars
<1>1. \A d \in Components : d # c => Idle(d)  BY DEF Chosen
<1>2. /\ "graph" \in Components /\ "tools" \in Components /\ "background" \in Components
      /\ "run" \in Components /\ "provider" \in Components /\ "video" \in Components
      /\ "evolution" \in Components /\ "dream" \in Components /\ "tasks" \in Components
      /\ "skills" \in Components /\ "machines" \in Components /\ "editor" \in Components
      /\ "connection" \in Components /\ "page" \in Components
  BY DEF Components
<1> QED  BY <1>1, <1>2, IdleComponents

LEMMA ServicesStart == ServicesInit => ComponentsStart
BY DEF ServicesInit, ComponentsStart

LEMMA ServicesStep == [ServicesNext]_servicesVars => ComponentsStep
<1>1. UNCHANGED servicesVars => ComponentsStep  BY DEF servicesVars, ComponentsStep
<1>2. ASSUME Chosen("graph"), GraphNext PROVE ComponentsStep
  BY <1>2, OthersIdle DEF ComponentsStep
<1>3. ASSUME Chosen("tools"), ToolNext PROVE ComponentsStep
  BY <1>3, OthersIdle DEF ComponentsStep
<1>4. ASSUME Chosen("background"), BgNext PROVE ComponentsStep
  BY <1>4, OthersIdle DEF ComponentsStep
<1>5. ASSUME Chosen("run"), LifecycleNext PROVE ComponentsStep
  BY <1>5, OthersIdle DEF ComponentsStep
<1>6. ASSUME Chosen("provider"), ProviderNext PROVE ComponentsStep
  BY <1>6, OthersIdle DEF ComponentsStep
<1>7. ASSUME Chosen("video"), VideoNext PROVE ComponentsStep
  BY <1>7, OthersIdle DEF ComponentsStep
<1>8. ASSUME Chosen("evolution"), EvolutionNext PROVE ComponentsStep
  BY <1>8, OthersIdle DEF ComponentsStep
<1>9. ASSUME Chosen("dream"), DreamNext PROVE ComponentsStep
  BY <1>9, OthersIdle DEF ComponentsStep
<1>10. ASSUME Chosen("tasks"), TaskNext PROVE ComponentsStep
  BY <1>10, OthersIdle DEF ComponentsStep
<1>11. ASSUME Chosen("skills"), SkillNext PROVE ComponentsStep
  BY <1>11, OthersIdle DEF ComponentsStep
<1>12. ASSUME Chosen("machines"), VmNext PROVE ComponentsStep
  BY <1>12, OthersIdle DEF ComponentsStep
<1>13. ASSUME Chosen("editor"), EditorNext PROVE ComponentsStep
  BY <1>13, OthersIdle DEF ComponentsStep
<1>14. ASSUME Chosen("connection"), PageNext PROVE ComponentsStep
  BY <1>14, OthersIdle DEF ComponentsStep
<1>15. ASSUME Chosen("page"), SyncNext PROVE ComponentsStep
  BY <1>15, OthersIdle DEF ComponentsStep
<1> QED
  BY <1>1, <1>2, <1>3, <1>4, <1>5, <1>6, <1>7, <1>8, <1>9, <1>10, <1>11, <1>12, <1>13, <1>14,
     <1>15 DEF ServicesNext

LEMMA ComponentsInvInit == ComponentsStart => ComponentsInv
<1> SUFFICES ASSUME ComponentsStart PROVE ComponentsInv  OBVIOUS
<1>1. GraphFull /\ ToolTyped /\ BgInv /\ LifecycleInv /\ ProviderTyped
  BY GraphFullInit, ToolTypedInit, BgInvInit, LifecycleInvInit, ProviderTypedInit
     DEF ComponentsStart
<1>2. EvolutionTyped /\ DreamTyped /\ TaskTyped /\ VmInv
  BY EvolutionTypedInit, DreamTypedInit, TaskTypedInit, VmInvInit DEF ComponentsStart
<1>3. VideoTyped /\ SkillTyped /\ EditorTypeOK /\ PageTyped /\ SyncInv
  BY VideoTypedInit, SkillTypedInit, EditorTypedInit, PageTypedInit, SyncInvInit
     DEF ComponentsStart
<1> QED  BY <1>1, <1>2, <1>3 DEF ComponentsInv

LEMMA ComponentsInvStep == ComponentsInv /\ ComponentsStep => ComponentsInv'
<1> SUFFICES ASSUME ComponentsInv, ComponentsStep PROVE ComponentsInv'  OBVIOUS
<1>1. GraphFull' /\ ToolTyped' /\ BgInv' /\ LifecycleInv' /\ ProviderTyped'
  BY GraphFullStep, ToolTypedStep, BgInvStep, LifecycleInvStep, ProviderTypedStep
     DEF ComponentsInv, ComponentsStep
<1>2. EvolutionTyped' /\ DreamTyped' /\ TaskTyped' /\ VmInv'
  BY EvolutionTypedStep, DreamTypedStep, TaskTypedStep, VmStep DEF ComponentsInv, ComponentsStep
<1>3. VideoTyped' /\ SkillTyped' /\ EditorTypeOK' /\ PageTyped' /\ SyncInv'
  BY VideoTypedStep, SkillTypedStep, EditorTypedStep, PageTypedStep, SyncInvStep
     DEF ComponentsInv, ComponentsStep
<1> QED  BY <1>1, <1>2, <1>3 DEF ComponentsInv

LEMMA ComponentsTypes == ComponentsInv => ServicesTypeOK
<1> SUFFICES ASSUME ComponentsInv PROVE ServicesTypeOK  OBVIOUS
<1>1. GraphTypeOK /\ ToolTypeOK /\ BgTypeOK /\ LifecycleTypeOK /\ ProviderTypeOK
  BY GraphFullTypes, ToolTypedTypes, ProviderTypedTypes DEF ComponentsInv, BgInv, LifecycleInv
<1>2. EvolutionTypeOK /\ DreamTypeOK /\ TaskTypeOK /\ VmTypeOK
  BY EvolutionTypedTypes, DreamTypedTypes, TaskTypedTypes DEF ComponentsInv, VmInv
<1>3. VideoTypeOK /\ SkillTypeOK /\ EditorTypeOK /\ PageTypeOK
  BY VideoTypedTypes, SkillTypedTypes, PageTypedTypes DEF ComponentsInv
<1>4. SyncTypeOK
  BY DEF ComponentsInv, SyncInv, SyncShapes, SyncTypeOK, HandlerPlaces, SessionOrNone
<1> QED  BY <1>1, <1>2, <1>3, <1>4 DEF ServicesTypeOK

\* What the run of the services explores of each component are behaviours of the
\* component's own module (without its fairness), so that the safety proved of these
\* holds of it too.
THEOREM ComponentsRunAsSpecified ==
    ServicesSpec =>
        /\ GraphInit     /\ [][GraphNext]_graphVars
        /\ ToolInit      /\ [][ToolNext]_turnVars
        /\ BgInit        /\ [][BgNext]_bgVars
        /\ LifecycleInit /\ [][LifecycleNext]_runVars
        /\ ProviderInit  /\ [][ProviderNext]_turnStreamVars
        /\ VideoInit     /\ [][VideoNext]_videoVars
        /\ EvolutionInit /\ [][EvolutionNext]_evolutionVars
        /\ DreamInit     /\ [][DreamNext]_dreamVars
        /\ TaskInit      /\ [][TaskNext]_taskVars
        /\ SkillInit     /\ [][SkillNext]_skillVars
        /\ VmInit        /\ [][VmNext]_vmVars
        /\ EditorInit    /\ [][EditorNext]_editorVars
        /\ PageInit      /\ [][PageNext]_pageVars
        /\ SyncInit      /\ [][SyncNext]_syncVars
<1>1. ServicesInit =>
        /\ GraphInit /\ ToolInit /\ BgInit /\ LifecycleInit /\ ProviderInit /\ VideoInit
        /\ EvolutionInit /\ DreamInit /\ TaskInit /\ SkillInit
        /\ VmInit /\ EditorInit /\ PageInit /\ SyncInit
  BY ServicesStart DEF ComponentsStart
<1>2. [ServicesNext]_servicesVars =>
        /\ [GraphNext]_graphVars /\ [ToolNext]_turnVars /\ [BgNext]_bgVars
        /\ [LifecycleNext]_runVars /\ [ProviderNext]_turnStreamVars /\ [VideoNext]_videoVars
        /\ [EvolutionNext]_evolutionVars /\ [DreamNext]_dreamVars /\ [TaskNext]_taskVars
        /\ [SkillNext]_skillVars /\ [VmNext]_vmVars /\ [EditorNext]_editorVars
        /\ [PageNext]_pageVars /\ [SyncNext]_syncVars
  BY ServicesStep DEF ComponentsStep
<1> QED  BY <1>1, <1>2, PTL DEF ServicesSpec

\* Every component beside the session keeps the shape its module gives it, in the
\* composition that is checked and for every value of the constants.
THEOREM ServicesTypes == ServicesSpec => []ServicesTypeOK
<1>1. ServicesInit => ComponentsInv  BY ServicesStart, ComponentsInvInit
<1>2. ComponentsInv /\ [ServicesNext]_servicesVars => ComponentsInv'
  BY ServicesStep, ComponentsInvStep
<1>3. ComponentsInv => ServicesTypeOK  BY ComponentsTypes
<1> QED  BY <1>1, <1>2, <1>3, PTL DEF ServicesSpec
=============================================================================
