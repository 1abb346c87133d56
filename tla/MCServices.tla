----------------------------- MODULE MCServices -----------------------------
(***************************************************************************)
(* The components beside the session, each with the instance its module is *)
(* checked on.  They share no state, so one of them is chosen at the start *)
(* and moves while the others keep their initial state: the states are the *)
(* sum of the components' states, and their properties are checked in one  *)
(* run.  What they promise to do eventually is checked in MCProgress.      *)
(***************************************************************************)
EXTENDS GraphRun, ToolTurn, BackgroundTasks, RunLifecycle, ProviderTurn, VideoTasks,
        Evolution, DreamLedger, TaskStore, SkillReload, VirtualMachines, EditorBridge,
        PageConnection, PageSync

VARIABLE service

MCRequests == (1..3) \X {"gate", "hook"}

(* A fork that is joined, then a router with a gate behind one branch.     *)
MCNextOf ==
    [n \in 1..7 |-> CASE n = 1 -> {2, 3} [] n \in {2, 3} -> {4} [] n = 6 -> {7} [] OTHER -> {}]
MCBranchesOf == [n \in 1..7 |-> IF n = 4 THEN {5, 6} ELSE {}]

Components == {"graph", "tools", "background", "run", "provider", "video", "evolution",
               "dream", "tasks", "skills", "machines", "editor", "connection", "page"}

(* The initial states of the components that have several.                 *)
ServicesInit ==
    /\ service \in Components
    /\ GraphInit /\ ToolInit /\ BgInit /\ LifecycleInit /\ ProviderInit /\ VideoInit
    /\ EvolutionInit /\ DreamInit /\ TaskInit /\ SkillInit
    /\ VmInit /\ EditorInit
    /\ PageInit /\ SyncInit
    /\ service # "tools" => permissionMode = "default" /\ interactive
    /\ service # "provider" => format = "gemini"
    /\ service # "evolution" => liveFile = Missing
    /\ service # "skills" => ~conditional /\ skillFile = NoSkill
    /\ service # "page" => handler.target = CHOOSE s \in PageSessions : TRUE

Idle(c) ==
    CASE c = "graph"      -> UNCHANGED graphVars
      [] c = "tools"      -> UNCHANGED turnVars
      [] c = "background" -> UNCHANGED bgVars
      [] c = "run"        -> UNCHANGED runVars
      [] c = "provider"   -> UNCHANGED turnStreamVars
      [] c = "video"      -> UNCHANGED videoVars
      [] c = "evolution"  -> UNCHANGED evolutionVars
      [] c = "dream"      -> UNCHANGED dreamVars
      [] c = "tasks"      -> UNCHANGED taskVars
      [] c = "skills"     -> UNCHANGED skillVars
      [] c = "machines"   -> UNCHANGED vmVars
      [] c = "editor"     -> UNCHANGED editorVars
      [] c = "connection" -> UNCHANGED pageVars
      [] c = "page"       -> UNCHANGED syncVars
Chosen(c) == service = c /\ UNCHANGED service /\ \A d \in Components \ {c} : Idle(d)

ServicesNext ==
    \/ Chosen("graph")      /\ GraphNext
    \/ Chosen("tools")      /\ ToolNext
    \/ Chosen("background") /\ BgNext
    \/ Chosen("run")        /\ LifecycleNext
    \/ Chosen("provider")   /\ ProviderNext
    \/ Chosen("video")      /\ VideoNext
    \/ Chosen("evolution")  /\ EvolutionNext
    \/ Chosen("dream")      /\ DreamNext
    \/ Chosen("tasks")      /\ TaskNext
    \/ Chosen("skills")     /\ SkillNext
    \/ Chosen("machines")   /\ VmNext
    \/ Chosen("editor")     /\ EditorNext
    \/ Chosen("connection") /\ PageNext
    \/ Chosen("page")       /\ SyncNext

servicesVars == <<service, graphVars, turnVars, bgVars, runVars, turnStreamVars, videoVars,
                  evolutionVars, dreamVars, taskVars, skillVars, vmVars, editorVars, pageVars,
                  syncVars>>

ServicesSpec == ServicesInit /\ [][ServicesNext]_servicesVars

----------------------------------------------------------------------------
(* The type invariants of the components.                                  *)
ServicesTypeOK ==
    /\ GraphTypeOK /\ ToolTypeOK /\ BgTypeOK /\ LifecycleTypeOK /\ ProviderTypeOK
    /\ VideoTypeOK /\ EvolutionTypeOK /\ DreamTypeOK /\ TaskTypeOK
    /\ SkillTypeOK /\ VmTypeOK /\ EditorTypeOK /\ PageTypeOK /\ SyncTypeOK
=============================================================================
