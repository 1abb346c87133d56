------------------------------ MODULE SkillReload ------------------------------
(***************************************************************************)
(* engine/src/skills.rs and cli/src/skill_watcher.rs: one SKILL.md, what   *)
(* the SkillsManager of the published project makes of it, and the thread  *)
(* that watches the project's directories.  The events of the file system  *)
(* wait in a channel; a change of the layout throws the watcher away.      *)
(***************************************************************************)
EXTENDS Naturals, Sequences

CONSTANTS
    MaxVersions,      \* bound: versions of the file, over all projects
    MaxFileEvents     \* bound: events waiting in the channel

ASSUME SkillAssumption == MaxVersions \in Nat \ {0} /\ MaxFileEvents \in Nat

NoSkill  == 0
Versions == 1..MaxVersions

VARIABLES
    conditional,    \* the skill names `paths` and waits for a matching file
    skillFile,      \* version on disk, NoSkill when there is no file
    lastVersion,
    staticSkill, waitingSkill, dynamicSkill,   \* versions in the manager's collections
    published,      \* generation of the published project
    watched,        \* generation the watcher thread follows
    bound,          \* there is a native watcher
    fileEvents,     \* "edit", "other", "layout" or "error"
    pendingDir,     \* the directory is among pending_dirs
    owed,           \* history: the version on disk was written in place under a bound watcher
                    \* and nothing has interfered with the watcher since
    overlaid        \* history: an activation has put another text over it since, when no
                    \* load was to come

fileVars    == <<conditional, skillFile, lastVersion>>
managerVars == <<staticSkill, waitingSkill, dynamicSkill>>
watchVars   == <<watched, bound, fileEvents, pendingDir>>
historyVars == <<owed, overlaid>>
skillVars   == <<fileVars, managerVars, watchVars, published, historyVars>>

(* SkillsManager::new sorts what it finds on disk.                         *)
NewManager(version, deferred) ==
    /\ staticSkill' = IF deferred THEN NoSkill ELSE version
    /\ waitingSkill' = IF deferred THEN version ELSE NoSkill
    /\ dynamicSkill' = NoSkill

SkillInit ==
    /\ conditional \in BOOLEAN /\ skillFile \in {NoSkill, 1} /\ lastVersion = 1
    /\ staticSkill = (IF conditional THEN NoSkill ELSE skillFile)
    /\ waitingSkill = (IF conditional THEN skillFile ELSE NoSkill)
    /\ dynamicSkill = NoSkill /\ published = 1
    /\ watched = 0 /\ bound = FALSE /\ fileEvents = <<>> /\ pendingDir = FALSE
    /\ owed = FALSE /\ overlaid = FALSE

(* rescan: only a skill that is neither static nor dynamic is added; one   *)
(* that waits for its condition is.                                        *)
Rescan ==
    /\ dynamicSkill' = IF staticSkill = NoSkill /\ dynamicSkill = NoSkill
                       THEN skillFile ELSE dynamicSkill
    /\ UNCHANGED <<staticSkill, waitingSkill>>

----------------------------------------------------------------------------
(* People, tools and commits of the evolution change the files.            *)
Attached == bound /\ watched = published
Notice(event) ==
    IF Attached THEN Len(fileEvents) < MaxFileEvents /\ fileEvents' = Append(fileEvents, event)
                ELSE UNCHANGED fileEvents
WriteVersion ==
    /\ lastVersion < MaxVersions /\ lastVersion' = lastVersion + 1 /\ skillFile' = lastVersion + 1
    /\ UNCHANGED <<conditional, managerVars, watched, bound, pendingDir, published>>

\* Behind an event that throws the watcher away the notice of an edit is lost with it.
EditInPlace ==
    /\ skillFile # NoSkill /\ WriteVersion /\ Notice("edit")
    /\ owed' = (Attached /\ \A i \in DOMAIN fileEvents : fileEvents[i] \in {"edit", "other"})
    /\ overlaid' = FALSE

(* A new directory, or a file renamed over the old one.                    *)
ReplaceFile == WriteVersion /\ Notice("layout") /\ owed' = FALSE /\ UNCHANGED overlaid

RemoveFile ==
    /\ skillFile # NoSkill /\ skillFile' = NoSkill /\ Notice("edit") /\ owed' = FALSE
    /\ UNCHANGED <<conditional, lastVersion, managerVars, watched, bound, pendingDir, published, overlaid>>

(* Other directories change, or the operating system reports an error.     *)
Disturb ==
    /\ Attached /\ \E event \in {"layout", "error"} : Notice(event)
    /\ owed' = FALSE
    /\ UNCHANGED <<fileVars, managerVars, watched, bound, pendingDir, published, overlaid>>

(* Something else is written or read below the watched directories.        *)
OtherFile ==
    /\ Attached /\ Notice("other")
    /\ UNCHANGED <<fileVars, managerVars, watched, bound, pendingDir, published, historyVars>>

(* Another project: its manager was made while it was prepared, and its    *)
(* file may have changed since.                                            *)
SwitchSkills ==
    /\ lastVersion < MaxVersions /\ published' = published + 1
    /\ conditional' \in BOOLEAN /\ lastVersion' = lastVersion + 1
    /\ \E found \in {NoSkill, lastVersion, lastVersion + 1} : NewManager(found, conditional')
    /\ skillFile' \in {NoSkill, lastVersion + 1} /\ owed' = FALSE
    /\ UNCHANGED <<watchVars, overlaid>>

(* A run reads a matching file, its prompt has a trigger or the slash      *)
(* command: the waiting skill, which no reload has touched, is inserted    *)
(* over a dynamic one, whichever of the two is newer.                      *)
LoadToCome == pendingDir \/ \E i \in DOMAIN fileEvents : fileEvents[i] = "edit"
ActivateSkill ==
    /\ waitingSkill # NoSkill /\ dynamicSkill' = waitingSkill /\ waitingSkill' = NoSkill
    /\ overlaid' = (overlaid \/ ~LoadToCome)
    /\ UNCHANGED <<fileVars, staticSkill, watchVars, published, owed>>

(* The Insight panel is refreshed.                                         *)
RefreshPanel == Rescan /\ UNCHANGED <<fileVars, watchVars, published, historyVars>>

----------------------------------------------------------------------------
(* The watcher thread: at the head of its loop it follows the published    *)
(* project and binds again if it must, and scans after it has bound.       *)
Bind ==
    /\ bound' \in BOOLEAN /\ fileEvents' = <<>> /\ Rescan
    /\ UNCHANGED <<fileVars, published, historyVars>>
SeeSwitch ==
    /\ watched # published /\ watched' = published /\ pendingDir' = FALSE /\ Bind
BindAgain == watched = published /\ ~bound /\ Bind /\ UNCHANGED <<watched, pendingDir>>

(* reconcile has attached a root that was not there.                       *)
Reconcile == Attached /\ Rescan /\ UNCHANGED <<fileVars, watchVars, published, historyVars>>

(* An event is received; what is no SKILL.md is passed over, and whatever  *)
(* asks for a new watcher clears what is pending.                          *)
\* Mutant: a later event replaces what is pending.
TakeFileEvent_Forgets ==
    /\ watched = published /\ bound /\ fileEvents # <<>> /\ fileEvents' = Tail(fileEvents)
    /\ pendingDir' = (Head(fileEvents) = "edit" /\ ~pendingDir)
    /\ bound' = (Head(fileEvents) \in {"edit", "other"})
    /\ UNCHANGED <<fileVars, managerVars, watched, published, historyVars>>
TakeFileEvent ==
    /\ watched = published /\ bound /\ fileEvents # <<>> /\ fileEvents' = Tail(fileEvents)
    /\ pendingDir' = \/ Head(fileEvents) = "edit"
                     \/ Head(fileEvents) = "other" /\ pendingDir
    /\ bound' = (Head(fileEvents) \in {"edit", "other"})
    /\ UNCHANGED <<fileVars, managerVars, watched, published, historyVars>>

(* A second without any event, whatever file it is about: load_from_dir,   *)
(* which keeps a skill whose file is gone.                                 *)
LoadPending ==
    /\ watched = published /\ bound /\ fileEvents = <<>> /\ pendingDir /\ pendingDir' = FALSE
    /\ dynamicSkill' = IF skillFile = NoSkill THEN dynamicSkill ELSE skillFile
    /\ UNCHANGED <<fileVars, staticSkill, waitingSkill, watched, bound, fileEvents, published,
                   historyVars>>

WatcherLoop == SeeSwitch \/ BindAgain \/ TakeFileEvent \/ LoadPending
SkillNext ==
    \/ EditInPlace \/ ReplaceFile \/ RemoveFile \/ Disturb \/ OtherFile \/ SwitchSkills
    \/ ActivateSkill \/ RefreshPanel
    \/ SeeSwitch \/ BindAgain \/ Reconcile \/ TakeFileEvent \/ LoadPending

(* The loop is a thread of its own that never waits longer than a second.  *)
SkillFairness == WF_skillVars(WatcherLoop)
SkillSpec == SkillInit /\ [][SkillNext]_skillVars /\ SkillFairness

----------------------------------------------------------------------------
SkillTypeOK ==
    /\ conditional \in BOOLEAN /\ lastVersion \in Versions
    /\ {skillFile, staticSkill, waitingSkill, dynamicSkill} \subseteq {NoSkill} \cup Versions
    /\ published \in Versions /\ watched \in {0} \cup Versions
    /\ bound \in BOOLEAN /\ pendingDir \in BOOLEAN /\ owed \in BOOLEAN /\ overlaid \in BOOLEAN
    /\ fileEvents \in Seq({"edit", "other", "layout", "error"}) /\ Len(fileEvents) <= MaxFileEvents

(* Hot reload: a skill that was edited in place while the watcher was      *)
(* bound comes to be shown to the model in its new version, and remains so *)
(* beside refreshes of the panel and activations, once the edits and the   *)
(* events of other files have ceased.  A change of the layout, an error of *)
(* the watcher or another project may come in between; and an activation   *)
(* after the reload brings the text from before the edit back.             *)
(* The test hot_reload_replaces_body calls load_from_dir itself.           *)
EditIsReloaded ==
    <>[](\A i \in DOMAIN fileEvents : fileEvents[i] # "other") =>
        (owed ~> (dynamicSkill = skillFile \/ ~owed \/ overlaid))
=============================================================================
