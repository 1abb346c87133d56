--------------------------- MODULE VirtualMachines ---------------------------
(***************************************************************************)
(* tools/src/vm: the life of a microVM, from the Vm tool and from prewarm, *)
(* on the Firecracker backend.  An instance is a directory with a record   *)
(* (state.json) and a disk (rootfs.img); its guest runs in a container     *)
(* named after it.  Callers are the sessions and the prewarm task; each    *)
(* does one operation at a time, and nothing keeps two callers apart:      *)
(* VM_LIFECYCLE_LOCK is declared and never taken.                          *)
(***************************************************************************)
CONSTANTS
    VmNames,
    VmCallers

VARIABLES
    vmRecord,     \* of each instance, the state in its record; "none" without one,
                  \* "torn" when the file is empty or half written
    vmDisk,       \* "none", "partial", the "base" image, or with the guest's "data"
    vmGuest,      \* its container: "off", "on", or "orphan" of a removed directory
    vmCall,       \* of each caller, the step it is at and what it is about
    overlaps      \* history: the instances on which two operations have overlapped

vmVars == <<vmRecord, vmDisk, vmGuest, vmCall, overlaps>>

VmActions == {"create", "start", "ensure", "stop", "destroy"}
VmSteps == {"idle", "copy", "copying", "unlinked", "record", "reload", "start", "clean",
            "boot", "wait", "up", "failed", "stop", "save", "remove"}
VmRecords == {"none", "torn", "stopped", "starting", "running"}
Loadable == {"none", "stopped", "starting", "running"}

VmInit ==
    /\ vmRecord = [n \in VmNames |-> "none"] /\ vmDisk = [n \in VmNames |-> "none"]
    /\ vmGuest = [n \in VmNames |-> "off"]
    /\ vmCall \in [VmCallers -> [step : {"idle"}, action : {"stop"}, name : VmNames]]
    /\ overlaps = {}

(* load_instance: a record of a machine that has died reads as stopped,    *)
(* one that does not parse as no instance at all.                          *)
LoadedState(n) ==
    IF vmRecord[n] = "torn" THEN "none"
    ELSE IF vmRecord[n] \in {"starting", "running"} /\ vmGuest[n] = "off" THEN "stopped"
    ELSE vmRecord[n]

(* VmTool::call and prewarm_default, up to the first effect; a caller that *)
(* stays idle was refused, or has nothing to do.                           *)
\* Mutant: a machine that does not run is made again.
FirstStep_Recreates(action, state) ==
    CASE state = "none" ->
            IF action \in {"create", "ensure"} THEN "copy" ELSE "idle"
      [] state = "running" ->
            IF action \in {"stop", "destroy"} THEN "stop" ELSE "idle"
      [] state \in {"stopped", "starting"} ->
            [create |-> "idle", start |-> "start", ensure |-> "copy",
             stop |-> "save", destroy |-> "remove"][action]
FirstStep(action, state) ==
    CASE state = "none" ->
            IF action \in {"create", "ensure"} THEN "copy" ELSE "idle"
      [] state = "running" ->
            IF action \in {"stop", "destroy"} THEN "stop" ELSE "idle"
      [] state \in {"stopped", "starting"} ->
            [create |-> "idle", start |-> "start", ensure |-> "start",
             stop |-> "save", destroy |-> "remove"][action]

At(c, n, from) == vmCall[c].step = from /\ vmCall[c].name = n
Goes(c, to) == vmCall' = [vmCall EXCEPT ![c].step = to]

CallVm(c, action, n) ==
    /\ vmCall[c].step = "idle"
    /\ FirstStep(action, LoadedState(n)) # "idle"
    /\ vmCall' = [vmCall EXCEPT
          ![c] = [step |-> FirstStep(action, LoadedState(n)), action |-> action, name |-> n]]
    /\ overlaps' = IF \E d \in VmCallers : vmCall[d].step # "idle" /\ vmCall[d].name = n
                   THEN overlaps \cup {n} ELSE overlaps
    /\ UNCHANGED <<vmRecord, vmDisk, vmGuest>>

(* save_instance truncates the record before it writes it; what ends the   *)
(* operation in between leaves the file empty or cut off.  The writing is  *)
(* the second half, in the steps named Record... below.                    *)
TruncateRecord(c, n) ==
    /\ \E from \in {"record", "start", "up", "failed", "save"} : At(c, n, from)
    /\ vmRecord' = [vmRecord EXCEPT ![n] = "torn"]
    /\ UNCHANGED <<vmDisk, vmGuest, vmCall, overlaps>>

(* create_instance.  fs::copy empties the file it writes to, whosever it   *)
(* is, and takes seconds.                                                  *)
CopyStarts(c, n) ==
    /\ At(c, n, "copy") /\ Goes(c, "copying")
    /\ vmDisk' = [vmDisk EXCEPT ![n] = "partial"]
    /\ UNCHANGED <<vmRecord, vmGuest, overlaps>>

CopyEnds(c, n) ==
    /\ At(c, n, "copying") /\ Goes(c, "record")
    /\ vmDisk' = [vmDisk EXCEPT ![n] = "base"]
    /\ UNCHANGED <<vmRecord, vmGuest, overlaps>>

\* The file was unlinked meanwhile: growing it fails, unless there is a new one.
UnlinkedCopyEnds(c, n) ==
    /\ At(c, n, "unlinked") /\ Goes(c, IF vmDisk[n] = "none" THEN "idle" ELSE "record")
    /\ UNCHANGED <<vmRecord, vmDisk, vmGuest, overlaps>>

\* ensure_key, the last call, may fail when the record is already written.
RecordCreated(c, n) ==
    /\ At(c, n, "record")
    /\ \/ Goes(c, "idle")
       \/ vmCall[c].action = "ensure" /\ Goes(c, "reload")
    /\ vmRecord' = [vmRecord EXCEPT ![n] = "stopped"]
    /\ UNCHANGED <<vmDisk, vmGuest, overlaps>>

Reload(c, n) ==
    /\ At(c, n, "reload") /\ Goes(c, IF LoadedState(n) \in {"none", "running"} THEN "idle" ELSE "start")
    /\ UNCHANGED <<vmRecord, vmDisk, vmGuest, overlaps>>

(* start_instance and FirecrackerBackend::start.                           *)
RecordStarting(c, n) ==
    /\ At(c, n, "start") /\ Goes(c, "clean")
    /\ vmRecord' = [vmRecord EXCEPT ![n] = "starting"]
    /\ UNCHANGED <<vmDisk, vmGuest, overlaps>>

\* `docker rm -f` of whatever bears the name.
RemoveContainer(c, n) ==
    /\ At(c, n, "clean") /\ vmDisk[n] # "none" /\ Goes(c, "boot")
    /\ vmGuest' = [vmGuest EXCEPT ![n] = "off"]
    /\ UNCHANGED <<vmRecord, vmDisk, overlaps>>

RunContainer(c, n) ==
    /\ At(c, n, "boot") /\ vmGuest[n] = "off" /\ vmDisk[n] # "none" /\ Goes(c, "wait")
    /\ vmGuest' = [vmGuest EXCEPT ![n] = "on"]
    /\ UNCHANGED <<vmRecord, vmDisk, overlaps>>

\* A file, an image or docker is missing, the name is taken, the guest exits while
\* it boots, or does not answer for two minutes; the container is left as it is.
BootFails(c, n) ==
    /\ \E from \in {"clean", "boot", "wait"} : At(c, n, from)
    /\ Goes(c, "failed")
    /\ UNCHANGED <<vmRecord, vmDisk, vmGuest, overlaps>>

GuestAnswers(c, n) ==
    /\ At(c, n, "wait") /\ vmGuest[n] # "off" /\ Goes(c, "up")
    /\ UNCHANGED <<vmRecord, vmDisk, vmGuest, overlaps>>

RecordStarted(c, n) ==
    /\ \E outcome \in {<<"up", "running">>, <<"failed", "stopped">>} :
          /\ At(c, n, outcome[1])
          /\ vmRecord' = [vmRecord EXCEPT ![n] = outcome[2]]
    /\ Goes(c, "idle")
    /\ UNCHANGED <<vmDisk, vmGuest, overlaps>>

(* stop, and destroy, which ignores that stopping failed.                  *)
StopGuest(c, n) ==
    /\ At(c, n, "stop") /\ Goes(c, IF vmCall[c].action = "destroy" THEN "remove" ELSE "save")
    /\ vmGuest' = [vmGuest EXCEPT ![n] = "off"]
    /\ UNCHANGED <<vmRecord, vmDisk, overlaps>>

StopFails(c, n) ==
    /\ At(c, n, "stop") /\ Goes(c, IF vmCall[c].action = "destroy" THEN "remove" ELSE "idle")
    /\ UNCHANGED <<vmRecord, vmDisk, vmGuest, overlaps>>

RecordStopped(c, n) ==
    /\ At(c, n, "save") /\ Goes(c, "idle")
    /\ vmRecord' = [vmRecord EXCEPT ![n] = "stopped"]
    /\ UNCHANGED <<vmDisk, vmGuest, overlaps>>

RemoveDirectory(c, n) ==
    /\ At(c, n, "remove")
    /\ vmCall' = [d \in VmCallers |->
          IF d = c THEN [vmCall[d] EXCEPT !.step = "idle"]
          ELSE IF At(d, n, "copying") THEN [vmCall[d] EXCEPT !.step = "unlinked"]
          ELSE vmCall[d]]
    /\ vmRecord' = [vmRecord EXCEPT ![n] = "none"] /\ vmDisk' = [vmDisk EXCEPT ![n] = "none"]
    /\ vmGuest' = [vmGuest EXCEPT ![n] = IF vmGuest[n] = "off" THEN "off" ELSE "orphan"]
    /\ UNCHANGED overlaps

(* An error of the file system or the death of the process ends an         *)
(* operation; a cancelled run drops a call of the tool where it waits      *)
(* (executor.rs:441).                                                      *)
CallBreaksOff(c, n) ==
    /\ \E from \in VmSteps \ {"idle"} : At(c, n, from)
    /\ Goes(c, "idle")
    /\ UNCHANGED <<vmRecord, vmDisk, vmGuest, overlaps>>

(* The guest writes to its disk, and may exit; the host may restart, and   *)
(* records that were never synced may then be empty files.                 *)
GuestWrites(n) ==
    /\ vmGuest[n] = "on" /\ vmDisk[n] # "none"
    /\ vmDisk' = [vmDisk EXCEPT ![n] = "data"]
    /\ UNCHANGED <<vmRecord, vmGuest, vmCall, overlaps>>

GuestExits(n) ==
    /\ vmGuest[n] # "off" /\ vmGuest' = [vmGuest EXCEPT ![n] = "off"]
    /\ UNCHANGED <<vmRecord, vmDisk, vmCall, overlaps>>

HostRestarts ==
    /\ vmGuest' = [n \in VmNames |-> "off"]
    /\ vmCall' = [c \in VmCallers |-> [vmCall[c] EXCEPT !.step = "idle"]]
    /\ \E lost \in SUBSET {n \in VmNames : vmRecord[n] # "none"} :
          vmRecord' = [n \in VmNames |-> IF n \in lost THEN "torn" ELSE vmRecord[n]]
    /\ UNCHANGED <<vmDisk, overlaps>>

CallerStep(c, n) ==
    \/ \E action \in VmActions : CallVm(c, action, n)
    \/ TruncateRecord(c, n)
    \/ CopyStarts(c, n) \/ CopyEnds(c, n) \/ UnlinkedCopyEnds(c, n)
    \/ RecordCreated(c, n) \/ Reload(c, n)
    \/ RecordStarting(c, n) \/ RemoveContainer(c, n) \/ RunContainer(c, n)
    \/ BootFails(c, n) \/ GuestAnswers(c, n) \/ RecordStarted(c, n)
    \/ StopGuest(c, n) \/ StopFails(c, n) \/ RecordStopped(c, n) \/ RemoveDirectory(c, n)
    \/ CallBreaksOff(c, n)

VmNext ==
    \/ \E c \in VmCallers, n \in VmNames : CallerStep(c, n)
    \/ \E n \in VmNames : GuestWrites(n) \/ GuestExits(n)
    \/ HostRestarts

VmSpec == VmInit /\ [][VmNext]_vmVars

----------------------------------------------------------------------------
VmTypeOK ==
    /\ vmRecord \in [VmNames -> VmRecords]
    /\ vmDisk \in [VmNames -> {"none", "partial", "base", "data"}]
    /\ vmGuest \in [VmNames -> {"off", "on", "orphan"}]
    /\ vmCall \in [VmCallers -> [step : VmSteps, action : VmActions, name : VmNames]]
    /\ overlaps \subseteq VmNames

(* What a guest has written to its disk is there until the instance is     *)
(* destroyed: through failed boots, machines that died, calls that were    *)
(* cut off, restarts of the host and any order of calls, on an instance    *)
(* on which no two operations overlapped, unless its record was left torn. *)
(* A torn record is read as no instance, and the next create or ensure     *)
(* copies the base image over the disk that is still there.                *)
DiskKept ==
    [][\A n \in VmNames \ overlaps' :
          vmDisk[n] = "data" /\ vmRecord[n] # "torn" => vmDisk'[n] \in {"data", "none"}]_vmVars

(* "The VM's disk survives stop/start and across sessions" (tools.rs:39),  *)
(* whoever calls at the same time: lifecycle operations are serialised     *)
(* (backend.rs:269).                                                       *)
DiskSurvives ==
    [][\A n \in VmNames : vmDisk[n] = "data" => vmDisk'[n] \in {"data", "none"}]_vmVars
=============================================================================
