----------------------------- MODULE MCProgress -----------------------------
(***************************************************************************)
(* What must eventually happen: the session writer, with all its faults,   *)
(* and the components beside the session that promise an end.  They share  *)
(* no state; as in MCServices, one of them is chosen and moves while the   *)
(* others keep their initial state.                                        *)
(***************************************************************************)
EXTENDS MCSessionWriter, BackgroundTasks, RunLifecycle, VideoTasks, SkillReload, EditorBridge,
        PageConnection

VARIABLE promise

Promises == {"writer", "background", "run", "video", "skills", "editor", "connection"}

ProgressInit ==
    /\ promise \in Promises
    /\ Init /\ BgInit /\ LifecycleInit /\ VideoInit /\ SkillInit /\ EditorInit /\ PageInit
    /\ promise # "skills" => ~conditional /\ skillFile = NoSkill

Still(p) ==
    CASE p = "writer"     -> UNCHANGED vars
      [] p = "background" -> UNCHANGED bgVars
      [] p = "run"        -> UNCHANGED runVars
      [] p = "video"      -> UNCHANGED videoVars
      [] p = "skills"     -> UNCHANGED skillVars
      [] p = "editor"     -> UNCHANGED editorVars
      [] p = "connection" -> UNCHANGED pageVars
Moves(p) == promise = p /\ UNCHANGED promise /\ \A q \in Promises \ {p} : Still(q)

ProgressNext ==
    \/ Moves("writer")     /\ Next
    \/ Moves("background") /\ BgNext
    \/ Moves("run")        /\ LifecycleNext
    \/ Moves("video")      /\ VideoNext
    \/ Moves("skills")     /\ SkillNext
    \/ Moves("editor")     /\ EditorNext
    \/ Moves("connection") /\ PageNext

progressVars == <<promise, vars, bgVars, runVars, videoVars, skillVars, editorVars, pageVars>>

(* The fairness of the components' own specifications, for the chosen one: *)
(* the others take no step.                                                *)
ProgressFairness ==
    /\ WF_vars(promise = "writer" /\ WriterStep)
    /\ \A t \in BgTasks : WF_bgVars(promise = "background" /\ MonitorStep(t))
    /\ WF_runVars(promise = "run" /\ runCancelled /\ EngineEnds)
    /\ WF_runVars(promise = "run" /\ ConsumerWorks)
    /\ WF_runVars(promise = "run" /\ SupervisorWorks)
    /\ \A v \in Videos : /\ WF_videoVars(promise = "video" /\ DispatcherWorks(v))
                         /\ WF_videoVars(promise = "video" /\ RemoteEnds(v))
    /\ WF_skillVars(promise = "skills" /\ WatcherLoop)
    /\ WF_editorVars(promise = "editor" /\ EditorLoop)
    /\ \A p \in Prompts : WF_editorVars(promise = "editor" /\ TurnWorks(p))
    /\ WF_pageVars(promise = "connection" /\ PageStep)

ProgressSpec == ProgressInit /\ [][ProgressNext]_progressVars /\ ProgressFairness
=============================================================================
