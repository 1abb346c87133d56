-------------------------- MODULE SessionRunsProofs --------------------------
(***************************************************************************)
(* Theorems about SessionRuns.  Whoever works on a session holds its slot: *)
(* the inductive invariant says which part of a run's life that covers,    *)
(* and the safety properties proved here follow from it.                   *)
(***************************************************************************)
EXTENDS SessionRuns, FiniteSetTheorems, TLAPS

\* A handler in one of these places owns a lease that has no task yet.
SetupPlaces == {"snapshot", "register", "mutate"}
\* A lease in one of these states holds the slot of its session.
Holding == {"setup", "ready", "running", "reported", "dropped"}

\* Handlers that may still take a lease.
Asking == {c \in Clients : op[c] \in Leasing /\ pc[c] \notin SetupPlaces}

\* Which requests reach the places before a lease is taken, and the bound on leases.
AskingInv ==
    /\ \A c \in Clients :
          /\ pc[c] \in {"stop", "wait", "acquire"} => op[c] \in Leasing
          /\ pc[c] = "fence" => op[c] \in Leasing \cup {"resume", "switch"}
    /\ lastLease + Cardinality(Asking) <= MaxLeases

\* A lease holds its session's slot until it is finished or released.
HoldInv == \A l \in Leases : runs[l].task \in Holding => slot[runs[l].on] = l

\* The handler that took a lease keeps it until a task does.
SetupInv ==
    /\ \A l \in Leases :
          runs[l].task = "setup" =>
              /\ runs[l].owner \in Clients
              /\ pc[runs[l].owner] \in SetupPlaces
              /\ runs[l].on = session[runs[l].owner]
    /\ \A c \in Clients :
          pc[c] \in SetupPlaces =>
              \E l \in Leases : runs[l].owner = c /\ runs[l].task = "setup"

\* An engine at work has a controller, so that a dropped lease waits for its end.
EngineInv ==
    \A l \in Leases :
        /\ runs[l].task = "setup" => runs[l].engine = "none"
        /\ runs[l].task = "ready" => runs[l].engine = "ready"
        /\ runs[l].engine \in {"ready", "running"} =>
              runs[l].controlled /\ runs[l].task \in {"ready", "running", "dropped"}

IInv == TypeOK /\ AskingInv /\ HoldInv /\ SetupInv /\ EngineInv
-----------------------------------------------------------------------------
(* Types. *)

LEMMA FiniteClients ==
    ASSUME NEW S \in SUBSET Clients
    PROVE  IsFiniteSet(S) /\ Cardinality(S) \in Nat
<1>1. IsFiniteSet(Clients)  BY ClientsAssumption, FS_Union DEF Clients
<1> QED  BY <1>1, FS_Subset, FS_CardinalityType

LEMMA InitType == Init => TypeOK /\ AskingInv
<1> SUFFICES ASSUME Init PROVE TypeOK /\ AskingInv  OBVIOUS
<1> USE DEF Init
<1>1. NoRun \in Run
  BY ClientsAssumption, BoundsAssumption DEF NoRun, Run
<1>2. TypeOK
  BY <1>1, ClientsAssumption, BoundsAssumption DEF TypeOK, Free, Places, Requests
<1>3. Asking = {}  BY DEF Asking, Leasing
<1>4. AskingInv
  BY <1>3, FS_EmptySet, BoundsAssumption DEF AskingInv, Leasing
<1> QED  BY <1>2, <1>4

\* Moving a handler keeps the shape of pc, op and awaited.
LEMMA GotoType ==
    ASSUME TypeOK, NEW c \in Clients, NEW next \in Places, Goto(c, next)
    PROVE  /\ pc' \in [Clients -> Places] /\ op' \in [Clients -> Requests]
           /\ awaited' = awaited
BY DEF TypeOK, Goto

LEMMA ReturnType ==
    ASSUME TypeOK, NEW c \in Clients, Return(c)
    PROVE  /\ pc' \in [Clients -> Places] /\ op' \in [Clients -> Requests]
           /\ awaited' \in [Clients -> 0..lastLease]
BY DEF TypeOK, Return, Places, Requests, Free

LEMMA UnlockType ==
    ASSUME TypeOK, NEW c \in Clients, Unlock(c)
    PROVE  fence' \in Clients \cup {Nobody}
BY DEF TypeOK, Unlock

\* What the actions do to one lease keeps it a lease.
LEMMA RunUpdates ==
    ASSUME NEW r \in Run
    PROVE  /\ [r EXCEPT !.cancelled = TRUE] \in Run
           /\ \A v \in Nat : [r EXCEPT !.view = v] \in Run
           /\ \A v \in 0..MaxSays : [r EXCEPT !.said = v] \in Run
           /\ \A t \in {"finished", "released", "dropped", "reported"} :
                 /\ [r EXCEPT !.task = t] \in Run
                 /\ [r EXCEPT !.task = t, !.done = TRUE] \in Run
                 /\ [r EXCEPT !.task = t, !.cancelled = TRUE] \in Run
                 /\ [r EXCEPT !.task = t, !.told = TRUE] \in Run
           /\ [r EXCEPT !.engine = "terminal"] \in Run
           /\ [r EXCEPT !.task = "running", !.engine = "running"] \in Run
BY DEF Run

LEMMA CancelledType ==
    ASSUME TypeOK, NEW set
    PROVE  Cancelled(set) \in [Leases -> Run]
<1>1. runs \in [Leases -> Run]  BY DEF TypeOK
<1>2. \A l \in Leases :
          (IF l \in set THEN [runs[l] EXCEPT !.cancelled = TRUE] ELSE runs[l]) \in Run
  BY <1>1, RunUpdates
<1> QED  BY <1>2 DEF Cancelled

LEMMA FinishedType ==
    ASSUME TypeOK, NEW l \in Leases, NEW task \in {"finished", "released"},
           Finished(l, task)
    PROVE  slot' \in [Sessions -> 0..lastLease] /\ runs' \in [Leases -> Run]
<1>1. slot' \in [Sessions -> 0..lastLease]
  <2>1. slot \in [Sessions -> 0..lastLease] /\ lastLease \in Nat
    BY BoundsAssumption DEF TypeOK
  <2>2. slot' = [slot EXCEPT ![runs[l].on] = IF @ = l THEN 0 ELSE @]
    BY DEF Finished, Free
  <2>3. runs[l].on \in Sessions  BY DEF TypeOK, Run
  <2>4. slot[runs[l].on] \in 0..lastLease  BY <2>1, <2>3
  <2> QED  BY <2>1, <2>2, <2>3, <2>4
<1>2. runs' \in [Leases -> Run]
  <2>1. runs \in [Leases -> Run]  BY DEF TypeOK
  <2>2. [runs[l] EXCEPT !.task = task, !.done = TRUE] \in Run  BY <2>1, RunUpdates
  <2>3. runs' = [runs EXCEPT ![l] = [runs[l] EXCEPT !.task = task, !.done = TRUE]]
    BY <2>1 DEF Finished
  <2> QED  BY <2>1, <2>2, <2>3
<1> QED  BY <1>1, <1>2

-----------------------------------------------------------------------------
(* Handlers that own no lease, before and after the step. *)

Outside(c) ==
    /\ UNCHANGED <<slot, lastLease>>
    /\ runs' = runs \/ \E set : runs' = Cancelled(set)
    /\ pc[c] \notin SetupPlaces /\ pc'[c] \notin SetupPlaces
    /\ \A d \in Clients \ {c} :
          pc'[d] = pc[d] /\ op'[d] = op[d] /\ session'[d] = session[d]
    /\ pc'[c] \in {"stop", "wait", "acquire"} => op'[c] \in Leasing
    /\ pc'[c] = "fence" => op'[c] \in Leasing \cup {"resume", "switch"}

\* The bound on leases when no handler begins to ask for one.
LEMMA FewerAsking ==
    ASSUME TypeOK, AskingInv, lastLease' = lastLease, Asking' \subseteq Asking
    PROVE  lastLease' + Cardinality(Asking') <= MaxLeases
<1>1. IsFiniteSet(Asking) /\ Cardinality(Asking) \in Nat
  BY FiniteClients DEF Asking
<1>2. Cardinality(Asking') <= Cardinality(Asking) /\ Cardinality(Asking') \in Nat
  BY <1>1, FS_Subset, FS_CardinalityType
<1> QED  BY <1>1, <1>2, BoundsAssumption DEF AskingInv, TypeOK

LEMMA ReceiveOutside ==
    ASSUME TypeOK, AskingInv, NEW c \in Clients, Request(c)
    PROVE  TypeOK' /\ Outside(c) /\ AskingInv'
<1>1. PICK request \in Requests \ {"none"} :
          Receive(c, request) /\ (c \in Posts => request = "run")
  BY DEF Request, Requests
<1> USE <1>1 DEF Receive, At
<1>2. TypeOK'  BY DEF TypeOK, Places, Clients
<1>3. Outside(c)  BY DEF TypeOK, Outside, SetupPlaces, Leasing, Requests
<1>4. Asking' \subseteq Asking \cup {c}  BY <1>3 DEF Asking, Outside
<1>5. lastLease' + Cardinality(Asking') <= MaxLeases
  <2>1. CASE request \in Leasing
    <3> DEFINE busy == {d \in Clients : op[d] \in Leasing}
    <3>1. IsFiniteSet(busy) /\ Cardinality(busy) \in Nat  BY FiniteClients
    <3>2. Asking \cup {c} \subseteq busy \cup {c}  BY DEF Asking
    <3>a. IsFiniteSet(busy \cup {c})
          /\ Cardinality(busy \cup {c}) = IF c \in busy THEN Cardinality(busy)
                                          ELSE Cardinality(busy) + 1
      BY <3>1, FS_AddElement
    <3>3. IsFiniteSet(busy \cup {c}) /\ Cardinality(busy \cup {c}) <= Cardinality(busy) + 1
          /\ Cardinality(busy \cup {c}) \in Nat
      <4> HIDE DEF busy
      <4> QED  BY <3>1, <3>a
    <3>4. Cardinality(Asking') <= Cardinality(busy \cup {c}) /\ Cardinality(Asking') \in Nat
      BY <1>4, <3>2, <3>3, FS_Subset, FS_CardinalityType
    <3>5. lastLease + Cardinality(busy) < MaxLeases /\ lastLease' = lastLease  BY <2>1
    <3>6. lastLease \in Nat  BY BoundsAssumption DEF TypeOK
    <3> HIDE DEF busy
    <3> QED  BY <3>1, <3>3, <3>4, <3>5, <3>6, BoundsAssumption
  <2>2. CASE request \notin Leasing
    <3>1. op'[c] = request  BY DEF TypeOK
    <3>2. Asking' \subseteq Asking  BY <1>4, <2>2, <3>1 DEF Asking
    <3> QED  BY <3>2, FewerAsking, <1>3 DEF Outside
  <2> QED  BY <2>1, <2>2
<1>6. AskingInv'  BY <1>3, <1>5 DEF AskingInv, Outside
<1> QED  BY <1>2, <1>3, <1>6

\* The other steps that a handler takes without a lease.
OutsideStep(c) ==
    \/ Expire(c) \/ StopNothing(c) \/ StopRefused(c) \/ StopRun(c) \/ Stopped(c)
    \/ StopTimesOut(c) \/ CancelRun(c) \/ JoinCancels(c) \/ Join(c)
    \/ Lock(c) \/ LockTooLate(c)
    \/ Switch(c) \/ SelectionRefused(c) \/ Resume(c) \/ AcquireRefused(c)

LEMMA OutsideStepType ==
    ASSUME TypeOK, NEW c \in Clients, OutsideStep(c)
    PROVE  TypeOK'
<1> USE DEF handlers, selected, projects, At
<1>1. ASSUME Expire(c) PROVE TypeOK'
  BY <1>1 DEF Expire, TypeOK, Places, Requests
<1>2. ASSUME StopNothing(c) PROVE TypeOK'
  BY <1>2, GotoType DEF StopNothing, TypeOK, Places
<1>3. ASSUME StopRefused(c) PROVE TypeOK'
  BY <1>3, ReturnType, UnlockType DEF StopRefused, TypeOK
<1>4. ASSUME StopRun(c) PROVE TypeOK'
  <2>1. runs' \in [Leases -> Run]  BY <1>4, CancelledType DEF StopRun
  <2>2. slot[session[c]] \in 0..lastLease  BY DEF TypeOK
  <2> QED  BY <1>4, <2>1, <2>2 DEF StopRun, TypeOK, Places
<1>5. ASSUME Stopped(c) PROVE TypeOK'
  BY <1>5, GotoType DEF Stopped, TypeOK, Places
<1>6. ASSUME StopTimesOut(c) PROVE TypeOK'
  BY <1>6, ReturnType, UnlockType DEF StopTimesOut, TypeOK
<1>7. ASSUME CancelRun(c) PROVE TypeOK'
  <2>1. runs' \in [Leases -> Run]  BY <1>7, CancelledType DEF CancelRun
  <2> QED  BY <1>7, <2>1, GotoType DEF CancelRun, TypeOK, Places
<1>8. ASSUME JoinCancels(c) PROVE TypeOK'
  <2>1. runs' \in [Leases -> Run]  BY <1>8, CancelledType DEF JoinCancels
  <2> QED  BY <1>8, <2>1 DEF JoinCancels, TypeOK
<1>9. ASSUME Join(c) PROVE TypeOK'
  <2>1. \/ Goto(c, "fence") \/ Goto(c, "acquire") \/ Return(c)  BY <1>9 DEF Join
  <2>2. /\ pc' \in [Clients -> Places] /\ op' \in [Clients -> Requests]
        /\ awaited' \in [Clients -> 0..lastLease]
    BY <2>1, GotoType, ReturnType DEF TypeOK, Places
  <2> QED  BY <1>9, <2>2 DEF Join, TypeOK
<1>10. ASSUME Lock(c) PROVE TypeOK'
  <2>1. PICK next \in Places : Goto(c, next)
    BY <1>10 DEF Lock, Places
  <2> QED  BY <1>10, <2>1, GotoType DEF Lock, TypeOK
<1>11. ASSUME LockTooLate(c) PROVE TypeOK'
  BY <1>11, ReturnType DEF LockTooLate, TypeOK
<1>12. ASSUME Switch(c) PROVE TypeOK'
  <2>1. generation' \in 0..MaxSwitches /\ generation' = generation + 1
        /\ known' \in [Clients -> 0..generation']
    BY <1>12, BoundsAssumption DEF Switch, TypeOK
  <2>2. session' \in [Clients -> Sessions]  BY <1>12 DEF Switch, TypeOK
  <2> QED  BY <1>12, <2>1, <2>2, ReturnType, UnlockType DEF Switch, TypeOK
<1>13. ASSUME SelectionRefused(c) PROVE TypeOK'
  BY <1>13, ReturnType, UnlockType DEF SelectionRefused, TypeOK
<1>14. ASSUME Resume(c) PROVE TypeOK'
  <2>1. session' \in [Clients -> Sessions]  BY <1>14 DEF Resume, TypeOK
  <2> QED  BY <1>14, <2>1, ReturnType, UnlockType DEF Resume, TypeOK
<1>15. ASSUME AcquireRefused(c) PROVE TypeOK'
  BY <1>15, ReturnType, UnlockType DEF AcquireRefused, TypeOK
<1> QED  BY <1>1, <1>2, <1>3, <1>4, <1>5, <1>6, <1>7, <1>8, <1>9, <1>10, <1>11, <1>12,
            <1>13, <1>14, <1>15 DEF OutsideStep

LEMMA OutsideStepOutside ==
    ASSUME TypeOK, AskingInv, NEW c \in Clients, OutsideStep(c)
    PROVE  Outside(c) /\ (op'[c] \in Leasing => op[c] \in Leasing)
<1> DEFINE Kept == op'[c] \in Leasing => op[c] \in Leasing
<1> USE DEF handlers, selected, projects, At, Outside, SetupPlaces
<1>0. pc \in [Clients -> Places] /\ op \in [Clients -> Requests]  BY DEF TypeOK
<1>r. ASSUME Return(c)
      PROVE  /\ pc'[c] \in {"idle", "gone"} /\ op'[c] = "none"
             /\ \A d \in Clients \ {c} : pc'[d] = pc[d] /\ op'[d] = op[d]
  BY <1>0, <1>r DEF Return
<1>g. ASSUME NEW next, Goto(c, next)
      PROVE  /\ pc'[c] = next /\ op' = op
             /\ \A d \in Clients \ {c} : pc'[d] = pc[d]
  BY <1>0, <1>g DEF Goto
<1>n. "none" \notin Leasing  BY DEF Leasing
<1>1. ASSUME Expire(c) PROVE Outside(c) /\ Kept
  BY <1>0, <1>1 DEF Expire, Leasing
<1>2. ASSUME StopNothing(c) PROVE Outside(c) /\ Kept
  BY <1>g, <1>2 DEF StopNothing
<1>3. ASSUME StopRefused(c) PROVE Outside(c) /\ Kept
  BY <1>r, <1>n, <1>3 DEF StopRefused
<1>4. ASSUME StopRun(c) PROVE Outside(c) /\ Kept
  <2>1. op[c] \in Leasing  BY <1>4 DEF StopRun, AskingInv
  <2> QED  BY <1>0, <1>4, <2>1 DEF StopRun
<1>5. ASSUME Stopped(c) PROVE Outside(c) /\ Kept
  BY <1>g, <1>5 DEF Stopped
<1>6. ASSUME StopTimesOut(c) PROVE Outside(c) /\ Kept
  BY <1>r, <1>n, <1>6 DEF StopTimesOut
<1>7. ASSUME CancelRun(c) PROVE Outside(c) /\ Kept
  <2> DEFINE shared == IF op[c] = "cancel" THEN {slot[session[c]]} ELSE {}
             told == {l \in OwnTask(c) \cup (shared \ {Free}) : runs[l].controlled}
  <2>1. runs' = Cancelled(told)  BY <1>7, Zenon DEF CancelRun
  <2>2. \E set : runs' = Cancelled(set)  BY <2>1, Zenon
  <2>3. /\ pc[c] = "cancel" /\ Goto(c, "join")
        /\ UNCHANGED <<slot, lastLease, session>>
    BY <1>7 DEF CancelRun
  <2> QED  BY <1>g, <2>2, <2>3
<1>8. ASSUME JoinCancels(c) PROVE Outside(c) /\ Kept
  BY <1>8 DEF JoinCancels
<1>9. ASSUME Join(c) PROVE Outside(c) /\ Kept
  <2>1. \/ Goto(c, "fence") /\ op[c] \in {"run", "compact"}
        \/ Goto(c, "acquire") /\ op[c] = "clear"
        \/ Return(c)
    BY <1>9 DEF Join
  <2> QED  BY <1>r, <1>g, <1>n, <1>9, <2>1 DEF Join, Leasing
<1>10. ASSUME Lock(c) PROVE Outside(c) /\ Kept
  <2>1. op[c] \in Leasing \cup {"resume", "switch"}  BY <1>10 DEF Lock, AskingInv
  <2>2. \/ Goto(c, "stop") /\ op[c] = "clear"
        \/ Goto(c, op[c]) /\ op[c] \in {"resume", "switch"}
        \/ Goto(c, "acquire") /\ op[c] \notin {"clear", "resume", "switch"}
    BY <1>10 DEF Lock
  <2> QED  BY <1>g, <1>10, <2>1, <2>2 DEF Lock, Leasing
<1>11. ASSUME LockTooLate(c) PROVE Outside(c) /\ Kept
  BY <1>r, <1>n, <1>11 DEF LockTooLate
<1>12. ASSUME Switch(c) PROVE Outside(c) /\ Kept
  <2>1. \A d \in Clients \ {c} : session'[d] = session[d]  BY <1>12 DEF Switch, TypeOK
  <2> QED  BY <1>r, <1>n, <1>12, <2>1 DEF Switch
<1>13. ASSUME SelectionRefused(c) PROVE Outside(c) /\ Kept
  BY <1>r, <1>n, <1>13 DEF SelectionRefused
<1>14. ASSUME Resume(c) PROVE Outside(c) /\ Kept
  <2>1. \A d \in Clients \ {c} : session'[d] = session[d]  BY <1>14 DEF Resume, TypeOK
  <2> QED  BY <1>r, <1>n, <1>14, <2>1 DEF Resume
<1>15. ASSUME AcquireRefused(c) PROVE Outside(c) /\ Kept
  BY <1>r, <1>n, <1>15 DEF AcquireRefused
<1> QED  BY <1>1, <1>2, <1>3, <1>4, <1>5, <1>6, <1>7, <1>8, <1>9, <1>10, <1>11, <1>12,
            <1>13, <1>14, <1>15 DEF OutsideStep

LEMMA OutsideStepAsking ==
    ASSUME TypeOK, AskingInv, NEW c \in Clients, OutsideStep(c)
    PROVE  AskingInv'
<1>1. Outside(c) /\ (op'[c] \in Leasing => op[c] \in Leasing)  BY OutsideStepOutside
<1>2. Asking' \subseteq Asking  BY <1>1 DEF Asking, Outside
<1>3. lastLease' + Cardinality(Asking') <= MaxLeases
  BY <1>1, <1>2, FewerAsking DEF Outside
<1> QED  BY <1>1, <1>3 DEF AskingInv, Outside

\* Only cancellation touches the runs, and nothing here depends on it.
LEMMA OutsideKeeps ==
    ASSUME IInv, NEW c \in Clients, Outside(c)
    PROVE  HoldInv' /\ SetupInv' /\ EngineInv'
<1>1. runs \in [Leases -> Run]  BY DEF IInv, TypeOK
<1>2. \A l \in Leases :
          /\ runs'[l].owner = runs[l].owner /\ runs'[l].on = runs[l].on
          /\ runs'[l].task = runs[l].task /\ runs'[l].engine = runs[l].engine
          /\ runs'[l].controlled = runs[l].controlled
  BY <1>1 DEF Outside, Cancelled, Run
<1>3. HoldInv'  BY <1>2 DEF IInv, HoldInv, Outside
<1>4. EngineInv'  BY <1>2 DEF IInv, EngineInv
<1>5. SetupInv'  BY <1>2 DEF IInv, SetupInv, Outside
<1> QED  BY <1>3, <1>4, <1>5

-----------------------------------------------------------------------------
(* The task of a run, its engine, and cancellation from outside. *)

\* Commit, Say, Panic and the steps of the task change one run, which has left the
\* hands of its handler; Finish and Release give its slot up.
RunStep(l) == TaskStep(l) \/ Commit(l) \/ Say(l) \/ Panic(l)

\* What such a step may do to the run.
Advanced(l) ==
    /\ \A m \in Leases \ {l} : runs'[m] = runs[m]
    /\ runs'[l].owner = runs[l].owner /\ runs'[l].on = runs[l].on
    /\ runs'[l].controlled = runs[l].controlled
    /\ runs'[l].made = runs[l].made /\ runs'[l].view = runs[l].view
    /\ runs[l].task # "setup" /\ runs'[l].task \notin {"setup", "ready"}
    /\ \/ slot' = slot /\ (runs'[l].task \in Holding => runs[l].task \in Holding)
       \/ /\ slot' = [slot EXCEPT ![runs[l].on] = IF @ = l THEN Free ELSE @]
          /\ runs'[l].task \notin Holding
    /\ runs'[l].engine \in {"ready", "running"} =>
          runs'[l].task \in {"running", "dropped"} /\ runs[l].engine \in {"ready", "running"}

LEMMA RunStepType ==
    ASSUME TypeOK, NEW l \in Leases, RunStep(l)
    PROVE  TypeOK'
<1> USE DEF handlers, selected, projects
<1>0. runs \in [Leases -> Run] /\ runs[l] \in Run  BY DEF TypeOK
<1>1. ASSUME Start(l) PROVE TypeOK'
  <2>1. [runs[l] EXCEPT !.task = "running", !.engine = "running"] \in Run
    BY <1>0, RunUpdates
  <2>2. runs' \in [Leases -> Run]  BY <1>0, <1>1, <2>1 DEF Start
  <2> QED  BY <1>1, <2>2 DEF Start, TypeOK
<1>2. ASSUME Report(l) PROVE TypeOK'
  <2>1. [runs[l] EXCEPT !.task = "reported", !.told = TRUE] \in Run
    BY <1>0, RunUpdates
  <2>2. runs' \in [Leases -> Run]  BY <1>0, <1>2, <2>1 DEF Report
  <2> QED  BY <1>2, <2>2 DEF Report, TypeOK
<1>3. ASSUME Finish(l) PROVE TypeOK'
  <2>1. slot' \in [Sessions -> 0..lastLease] /\ runs' \in [Leases -> Run]
    BY <1>3, FinishedType DEF Finish
  <2> QED  BY <1>3, <2>1 DEF Finish, TypeOK
<1>4. ASSUME Release(l) PROVE TypeOK'
  <2>1. slot' \in [Sessions -> 0..lastLease] /\ runs' \in [Leases -> Run]
    BY <1>4, FinishedType DEF Release
  <2> QED  BY <1>4, <2>1 DEF Release, TypeOK
<1>5. ASSUME Commit(l) PROVE TypeOK'
  <2>1. [runs[l] EXCEPT !.engine = "terminal"] \in Run  BY <1>0, RunUpdates
  <2>2. runs' \in [Leases -> Run]  BY <1>0, <1>5, <2>1 DEF Commit
  <2> QED  BY <1>5, <2>2 DEF Commit, TypeOK
<1>6. ASSUME Say(l) PROVE TypeOK'
  <2>0. runs[l].said + 1 \in 0..MaxSays
    BY <1>0, <1>6, BoundsAssumption DEF Say, Run
  <2>1. [runs[l] EXCEPT !.said = runs[l].said + 1] \in Run  BY <1>0, <2>0, RunUpdates
  <2>2. runs' \in [Leases -> Run]  BY <1>0, <1>6, <2>1 DEF Say
  <2>3. transcript' \in [Sessions -> Nat]
    <3>1. runs[l].on \in Sessions  BY <1>0 DEF Run
    <3>2. transcript \in [Sessions -> Nat]  BY DEF TypeOK
    <3>3. transcript[runs[l].on] + 1 \in Nat  BY <3>1, <3>2
    <3> QED  BY <1>6, <3>2, <3>3 DEF Say
  <2> QED  BY <1>6, <2>2, <2>3 DEF Say, TypeOK
<1>7. ASSUME Panic(l) PROVE TypeOK'
  <2>1. [runs[l] EXCEPT !.task = "dropped", !.cancelled = TRUE] \in Run
    BY <1>0, RunUpdates
  <2>2. runs' \in [Leases -> Run]  BY <1>0, <1>7, <2>1 DEF Panic
  <2>3. panics' \in 0..MaxPanics  BY <1>7, BoundsAssumption DEF Panic, TypeOK
  <2> QED  BY <1>7, <2>2, <2>3 DEF Panic, TypeOK
<1> QED  BY <1>1, <1>2, <1>3, <1>4, <1>5, <1>6, <1>7 DEF RunStep, TaskStep

LEMMA RunStepAdvanced ==
    ASSUME IInv, NEW l \in Leases, RunStep(l)
    PROVE  Advanced(l)
<1>0. runs \in [Leases -> Run] /\ runs[l] \in Run  BY DEF IInv, TypeOK
<1>e. /\ runs[l].task = "setup" => runs[l].engine = "none"
      /\ runs[l].task = "ready" => runs[l].engine = "ready"
      /\ runs[l].engine \in {"ready", "running"} =>
            runs[l].controlled /\ runs[l].task \in {"ready", "running", "dropped"}
  BY DEF IInv, EngineInv
<1> USE DEF Advanced, Holding
<1>1. CASE Report(l)  BY <1>0, <1>e, <1>1 DEF Report, Run
<1>7. CASE Start(l)  BY <1>0, <1>e, <1>7 DEF Start, Run
<1>2. CASE Finish(l)  BY <1>0, <1>e, <1>2 DEF Finish, Finished, Run
<1>3. CASE Release(l)  BY <1>0, <1>e, <1>3 DEF Release, Finished, Run
<1>4. CASE Commit(l)  BY <1>0, <1>e, <1>4 DEF Commit, Run
<1>5. CASE Say(l)  BY <1>0, <1>e, <1>5 DEF Say, Run
<1>6. CASE Panic(l)  BY <1>0, <1>e, <1>6 DEF Panic, Run
<1> QED  BY <1>1, <1>2, <1>3, <1>4, <1>5, <1>6, <1>7 DEF RunStep, TaskStep

LEMMA RunStepKeeps ==
    ASSUME IInv, NEW l \in Leases, RunStep(l)
    PROVE  IInv'
<1>0. runs \in [Leases -> Run] /\ slot \in [Sessions -> 0..lastLease] /\ lastLease \in Nat
  BY BoundsAssumption DEF IInv, TypeOK
<1>1. Advanced(l)  BY RunStepAdvanced
<1>2. TypeOK'  BY RunStepType DEF IInv
<1>3. UNCHANGED <<pc, op, session, lastLease>>
  BY DEF RunStep, TaskStep, Start, Report, Finish, Release, Commit, Say, Panic,
         handlers, selected, projects
<1>4. AskingInv'  BY <1>3 DEF IInv, AskingInv, Asking
<1>5. HoldInv'
  <2> SUFFICES ASSUME NEW m \in Leases, runs'[m].task \in Holding
               PROVE  slot'[runs'[m].on] = m
    BY DEF HoldInv
  <2>1. runs[m].task \in Holding /\ runs'[m].on = runs[m].on  BY <1>1 DEF Advanced
  <2>2. slot[runs[m].on] = m  BY <2>1 DEF IInv, HoldInv
  <2>3. slot' # slot => m # l  BY <1>1 DEF Advanced
  <2>4. runs[m].on \in Sessions  BY <1>0 DEF Run
  <2> QED  BY <1>0, <1>1, <2>1, <2>2, <2>3, <2>4 DEF Advanced
<1>6. SetupInv'
  <2>1. ASSUME NEW m \in Leases
        PROVE  /\ runs'[m].task = "setup" <=> runs[m].task = "setup"
               /\ runs'[m].owner = runs[m].owner /\ runs'[m].on = runs[m].on
    BY <1>1 DEF Advanced
  <2> QED  BY <1>3, <2>1 DEF IInv, SetupInv
<1>7. EngineInv'
  <2> SUFFICES ASSUME NEW m \in Leases
               PROVE  /\ runs'[m].task = "setup" => runs'[m].engine = "none"
                      /\ runs'[m].task = "ready" => runs'[m].engine = "ready"
                      /\ runs'[m].engine \in {"ready", "running"} =>
                            /\ runs'[m].controlled
                            /\ runs'[m].task \in {"ready", "running", "dropped"}
    BY DEF EngineInv
  <2>1. CASE m = l  BY <1>1, <2>1 DEF Advanced, IInv, EngineInv
  <2>2. CASE m # l  BY <1>1, <2>2 DEF Advanced, IInv, EngineInv
  <2> QED  BY <2>1, <2>2
<1> QED  BY <1>2, <1>4, <1>5, <1>6, <1>7 DEF IInv

LEMMA CancelPostKeeps ==
    ASSUME IInv, NEW s \in Sessions, CancelPost(s)
    PROVE  IInv'
<1>0. runs \in [Leases -> Run]  BY DEF IInv, TypeOK
<1>1. runs' = Cancelled({slot[s]})  BY DEF CancelPost
<1>2. UNCHANGED <<slot, lastLease, fence, generation, known, session, pc, op, awaited,
                  transcript, panics>>
  BY DEF CancelPost, handlers, projects, selected
<1>3. runs' \in [Leases -> Run]  BY <1>1, CancelledType DEF IInv
<1>4. \A l \in Leases :
          /\ runs'[l].owner = runs[l].owner /\ runs'[l].on = runs[l].on
          /\ runs'[l].task = runs[l].task /\ runs'[l].engine = runs[l].engine
          /\ runs'[l].controlled = runs[l].controlled
  BY <1>0, <1>1 DEF Cancelled, Run
<1>5. TypeOK'  BY <1>2, <1>3 DEF IInv, TypeOK
<1>6. AskingInv'  BY <1>2 DEF IInv, AskingInv, Asking
<1>7. HoldInv' /\ EngineInv'  BY <1>2, <1>4 DEF IInv, HoldInv, EngineInv
<1>8. SetupInv'  BY <1>2, <1>4 DEF IInv, SetupInv
<1> QED  BY <1>5, <1>6, <1>7, <1>8 DEF IInv

-----------------------------------------------------------------------------
(* A handler that takes a lease, and what it does with it. *)

LEMMA MineFacts ==
    ASSUME IInv, NEW c \in Clients, pc[c] \in SetupPlaces
    PROVE  /\ Mine(c) \in Leases
           /\ runs[Mine(c)].owner = c /\ runs[Mine(c)].task = "setup"
           /\ runs[Mine(c)].on = session[c] /\ runs[Mine(c)].engine = "none"
           /\ slot[session[c]] = Mine(c)
           /\ \A m \in Leases :
                 runs[m].task = "setup" /\ runs[m].owner = c => m = Mine(c)
<1> DEFINE mine == {l \in OwnTask(c) : runs[l].task = "setup"}
<1>1. \E l \in OwnTask(c) : runs[l].task = "setup"
  BY DEF IInv, SetupInv, OwnTask, TaskLives
<1>2. Mine(c) \in OwnTask(c) /\ runs[Mine(c)].task = "setup"  BY <1>1 DEF Mine
<1>3. Mine(c) \in Leases /\ runs[Mine(c)].owner = c  BY <1>2 DEF OwnTask
<1>4. \A m \in Leases :
          runs[m].task = "setup" /\ runs[m].owner = c =>
              runs[m].on = session[c] /\ slot[session[c]] = m /\ runs[m].engine = "none"
  BY DEF IInv, SetupInv, HoldInv, EngineInv, Holding
<1> HIDE DEF Mine
<1> QED  BY <1>2, <1>3, <1>4

LEMMA AcquireKeeps ==
    ASSUME IInv, NEW c \in Clients, Acquire(c)
    PROVE  IInv'
<1> DEFINE l == lastLease + 1
           new == [NoRun EXCEPT !.owner = c, !.on = session[c], !.made = generation,
                                !.task = "setup"]
<1>0. /\ runs \in [Leases -> Run] /\ slot \in [Sessions -> 0..lastLease]
      /\ lastLease \in Nat /\ MaxLeases \in Nat /\ session[c] \in Sessions
      /\ pc \in [Clients -> Places] /\ op \in [Clients -> Requests]
  BY BoundsAssumption DEF IInv, TypeOK
<1>1. /\ pc[c] = "acquire" /\ op[c] \in Leasing /\ slot[session[c]] = 0
  BY DEF Acquire, At, MayAcquire, Free, IInv, AskingInv
<1>2. /\ lastLease' = l /\ slot' = [slot EXCEPT ![session[c]] = l]
      /\ runs' = [runs EXCEPT ![l] = new]
      /\ op' = op /\ awaited' = awaited
      /\ pc' = [pc EXCEPT ![c] = IF op[c] = "clear" THEN "mutate" ELSE "snapshot"]
      /\ UNCHANGED <<generation, known, session, transcript, panics>>
  BY DEF Acquire, TakeLease, Goto, selected
<1>3. c \in Asking  BY <1>1 DEF Asking, SetupPlaces
<1>4. IsFiniteSet(Asking) /\ Cardinality(Asking) \in Nat  BY FiniteClients DEF Asking
<1>5. Cardinality(Asking \ {c}) = Cardinality(Asking) - 1 /\ Cardinality(Asking \ {c}) \in Nat
      /\ IsFiniteSet(Asking \ {c})
  BY <1>3, <1>4, FS_RemoveElement, FS_CardinalityType
<1>6. l + Cardinality(Asking \ {c}) <= MaxLeases
  BY <1>0, <1>4, <1>5 DEF IInv, AskingInv
<1>7. l \in Leases /\ l \in 1..MaxLeases  BY <1>0, <1>5, <1>6 DEF Leases
<1>8. pc'[c] \in SetupPlaces /\ pc'[c] \in Places /\ \A d \in Clients \ {c} : pc'[d] = pc[d]
  BY <1>0, <1>2 DEF SetupPlaces, Places
<1>9. AskingInv'
  <2>1. Asking' = Asking \ {c}  BY <1>2, <1>8, <1>3 DEF Asking
  <2>2. \A d \in Clients :
          /\ pc'[d] \in {"stop", "wait", "acquire"} => op'[d] \in Leasing
          /\ pc'[d] = "fence" => op'[d] \in Leasing \cup {"resume", "switch"}
    BY <1>2, <1>8 DEF IInv, AskingInv, SetupPlaces
  <2> QED  BY <1>2, <1>6, <2>1, <2>2 DEF AskingInv
<1>10. new \in Run /\ new.owner = c /\ new.on = session[c] /\ new.task = "setup"
       /\ new.engine = "none"
  <2>1. generation \in 0..MaxSwitches /\ 0 \in 0..MaxSays /\ 0 \in Nat
    BY BoundsAssumption DEF IInv, TypeOK
  <2> QED  BY <1>0, <2>1 DEF NoRun, Run
<1>11. TypeOK'
  <2>1. slot' \in [Sessions -> 0..lastLease']  BY <1>0, <1>2
  <2>2. runs' \in [Leases -> Run]  BY <1>0, <1>2, <1>7, <1>10
  <2>3. awaited' \in [Clients -> 0..lastLease']  BY <1>0, <1>2 DEF IInv, TypeOK
  <2>4. pc' \in [Clients -> Places]  BY <1>0, <1>2 DEF Places
  <2>5. fence' \in Clients \cup {Nobody}  BY DEF Acquire, Unlock, IInv, TypeOK
  <2>6. lastLease' \in 0..MaxLeases  BY <1>2, <1>7, <1>0
  <2> QED  BY <1>2, <2>1, <2>2, <2>3, <2>4, <2>5, <2>6 DEF IInv, TypeOK
<1> HIDE DEF new
<1>12. runs'[l] = new /\ \A m \in Leases \ {l} : runs'[m] = runs[m]  BY <1>0, <1>2, <1>7
<1>13. \A m \in Leases : runs[m].task \in Holding =>
           runs[m].on \in Sessions /\ slot[runs[m].on] = m /\ m # l /\ runs[m].on # session[c]
  <2> SUFFICES ASSUME NEW m \in Leases, runs[m].task \in Holding
               PROVE  /\ runs[m].on \in Sessions /\ slot[runs[m].on] = m /\ m # l
                      /\ runs[m].on # session[c]
    OBVIOUS
  <2>1. runs[m].on \in Sessions  BY <1>0 DEF Run
  <2>2. slot[runs[m].on] = m  BY DEF IInv, HoldInv
  <2>3. m \in 0..lastLease /\ m # 0  BY <1>0, <2>1, <2>2 DEF Leases
  <2> QED  BY <1>0, <1>1, <2>1, <2>2, <2>3
<1>14. HoldInv'
  <2> SUFFICES ASSUME NEW m \in Leases, runs'[m].task \in Holding
               PROVE  slot'[runs'[m].on] = m
    BY DEF HoldInv
  <2>1. CASE m = l  BY <1>0, <1>2, <1>10, <1>12, <2>1
  <2>2. CASE m # l  BY <1>0, <1>2, <1>12, <1>13, <2>2
  <2> QED  BY <2>1, <2>2
<1>15. SetupInv'
  <2>1. ASSUME NEW m \in Leases, runs'[m].task = "setup"
        PROVE  /\ runs'[m].owner \in Clients /\ pc'[runs'[m].owner] \in SetupPlaces
               /\ runs'[m].on = session'[runs'[m].owner]
    <3>1. CASE m = l  BY <1>2, <1>8, <1>10, <1>12, <3>1
    <3>2. CASE m # l
      <4>1. runs[m].task = "setup" /\ runs'[m] = runs[m]  BY <1>12, <2>1, <3>2
      <4>2. runs[m].owner \in Clients /\ pc[runs[m].owner] \in SetupPlaces
            /\ runs[m].on = session[runs[m].owner]
        BY <4>1 DEF IInv, SetupInv
      <4> QED  BY <1>2, <1>8, <4>1, <4>2
    <3> QED  BY <3>1, <3>2
  <2>2. ASSUME NEW d \in Clients, pc'[d] \in SetupPlaces
        PROVE  \E m \in Leases : runs'[m].owner = d /\ runs'[m].task = "setup"
    <3>1. CASE d = c  BY <1>7, <1>10, <1>12, <3>1
    <3>2. CASE d # c
      <4>1. PICK m \in Leases : runs[m].owner = d /\ runs[m].task = "setup"
        BY <1>8, <2>2, <3>2 DEF IInv, SetupInv
      <4> QED  BY <1>12, <1>13, <4>1 DEF Holding
    <3> QED  BY <3>1, <3>2
  <2> QED  BY <2>1, <2>2 DEF SetupInv
<1>16. EngineInv'
  <2> SUFFICES ASSUME NEW m \in Leases
               PROVE  /\ runs'[m].task = "setup" => runs'[m].engine = "none"
                      /\ runs'[m].task = "ready" => runs'[m].engine = "ready"
                      /\ runs'[m].engine \in {"ready", "running"} =>
                            /\ runs'[m].controlled
                            /\ runs'[m].task \in {"ready", "running", "dropped"}
    BY DEF EngineInv
  <2>1. CASE m = l  BY <1>10, <1>12, <2>1
  <2>2. CASE m # l  BY <1>12, <2>2 DEF IInv, EngineInv
  <2> QED  BY <2>1, <2>2
<1> QED  BY <1>9, <1>11, <1>14, <1>15, <1>16 DEF IInv

LEMMA SnapshotKeeps ==
    ASSUME IInv, NEW c \in Clients, Snapshot(c)
    PROVE  IInv'
<1> DEFINE l == Mine(c)
<1>0. /\ runs \in [Leases -> Run] /\ transcript[session[c]] \in Nat
      /\ pc \in [Clients -> Places]
  BY DEF IInv, TypeOK
<1>1. pc[c] = "snapshot" /\ pc[c] \in SetupPlaces  BY DEF Snapshot, At, SetupPlaces
<1>2. l \in Leases  BY <1>1, MineFacts
<1> HIDE DEF l
<1>3. /\ runs' = [runs EXCEPT ![l].view = transcript[session[c]]]
      /\ pc' = [pc EXCEPT ![c] = IF op[c] = "compact" THEN "mutate" ELSE "register"]
      /\ UNCHANGED <<op, awaited, slot, lastLease, generation, known, session,
                     transcript, panics>>
  BY DEF Snapshot, Goto, selected, l
<1>4. \A m \in Leases :
          /\ runs'[m].owner = runs[m].owner /\ runs'[m].on = runs[m].on
          /\ runs'[m].task = runs[m].task /\ runs'[m].engine = runs[m].engine
          /\ runs'[m].controlled = runs[m].controlled
  BY <1>0, <1>2, <1>3 DEF Run
<1>5. \A d \in Clients :
          /\ pc'[d] \in SetupPlaces <=> pc[d] \in SetupPlaces
          /\ pc[d] \notin SetupPlaces => pc'[d] = pc[d]
  BY <1>0, <1>1, <1>3 DEF SetupPlaces
<1>6. TypeOK'
  <2>1. [runs[l] EXCEPT !.view = transcript[session[c]]] \in Run
    BY <1>0, <1>2, RunUpdates
  <2>2. runs' \in [Leases -> Run]  BY <1>0, <1>2, <1>3, <2>1
  <2>3. pc' \in [Clients -> Places]  BY <1>0, <1>3 DEF Places
  <2>4. fence' \in Clients \cup {Nobody}  BY DEF Snapshot, Unlock, IInv, TypeOK
  <2> QED  BY <1>3, <2>2, <2>3, <2>4 DEF IInv, TypeOK
<1>7. AskingInv'
  <2>1. Asking' = Asking  BY <1>3, <1>5 DEF Asking
  <2> QED  BY <1>3, <1>5, <2>1 DEF IInv, AskingInv, SetupPlaces
<1>8. HoldInv' /\ EngineInv'  BY <1>3, <1>4 DEF IInv, HoldInv, EngineInv
<1>9. SetupInv'  BY <1>3, <1>4, <1>5 DEF IInv, SetupInv
<1> QED  BY <1>6, <1>7, <1>8, <1>9 DEF IInv

\* The handler returns, and its lease passes to a task, is dropped or finished.
Leaves(c) ==
    \/ Register(c) \/ SnapshotFails(c) \/ SetupDropped(c) \/ Mutate(c)

Passed(c, l) ==
    /\ \A m \in Leases \ {l} : runs'[m] = runs[m]
    /\ runs'[l].on = runs[l].on
    /\ \/ /\ runs'[l].task = "ready" /\ runs'[l].engine = "ready"
          /\ runs'[l].controlled /\ slot' = slot
       \/ runs'[l].task = "dropped" /\ runs'[l].engine = "none" /\ slot' = slot
       \/ /\ runs'[l].task = "finished" /\ runs'[l].engine = "none"
          /\ slot' = [slot EXCEPT ![session[c]] = Free]

LEMMA LeavesPassed ==
    ASSUME IInv, NEW c \in Clients, Leaves(c)
    PROVE  /\ pc[c] \in SetupPlaces
           /\ Return(c) /\ UNCHANGED <<lastLease, generation, known, session, panics>>
           /\ Unlock(c) \/ UNCHANGED fence
           /\ Passed(c, Mine(c)) /\ runs' \in [Leases -> Run]
<1>0. runs \in [Leases -> Run] /\ slot \in [Sessions -> 0..lastLease]
      /\ session[c] \in Sessions
  BY DEF IInv, TypeOK
<1>1. pc[c] \in SetupPlaces
  BY DEF Leaves, Register, SnapshotFails, SetupDropped, Mutate, At, SetupPlaces
<1>2. Return(c) /\ UNCHANGED <<lastLease, generation, known, session, panics>>
      /\ (Unlock(c) \/ UNCHANGED fence)
  BY DEF Leaves, Register, SnapshotFails, SetupDropped, Mutate, selected, projects
<1>3. PICK l \in Leases : l = Mine(c)  BY <1>1, MineFacts
<1>4. /\ runs[l] \in Run /\ runs[l].engine = "none"
      /\ runs[l].on = session[c] /\ slot[session[c]] = l
  BY <1>0, <1>1, <1>3, MineFacts
<1>5. Passed(c, l) /\ runs' \in [Leases -> Run]
  <2>1. CASE Register(c)
    <3>1. runs' = [runs EXCEPT ![l].controlled = TRUE, ![l].task = "ready",
                               ![l].engine = "ready"]
          /\ slot' = slot
      BY <1>3, <2>1 DEF Register
    <3> QED  BY <1>0, <1>4, <3>1 DEF Passed, Run
  <2>2. CASE SetupDropped(c)
    <3>1. runs' = [runs EXCEPT ![l].task = "dropped"] /\ slot' = slot
      BY <1>3, <2>2 DEF SetupDropped
    <3>2. [runs[l] EXCEPT !.task = "dropped"] \in Run  BY <1>4, RunUpdates
    <3> QED  BY <1>0, <1>4, <3>1, <3>2 DEF Passed, Run
  <2>3. CASE SnapshotFails(c) \/ Mutate(c)
    <3>1. Finished(l, "finished")  BY <1>3, <2>3 DEF SnapshotFails, Mutate
    <3>2. runs' \in [Leases -> Run]  BY <3>1, FinishedType DEF IInv
    <3>3. /\ slot' = [slot EXCEPT ![session[c]] = Free]
          /\ runs' = [runs EXCEPT ![l].task = "finished", ![l].done = TRUE]
      BY <1>0, <1>4, <3>1 DEF Finished
    <3> QED  BY <1>0, <1>4, <3>2, <3>3 DEF Passed, Run
  <2> QED  BY <2>1, <2>2, <2>3 DEF Leaves
<1> QED  BY <1>1, <1>2, <1>3, <1>5

LEMMA LeavesKeeps ==
    ASSUME IInv, NEW c \in Clients, Leaves(c)
    PROVE  IInv'
<1>0. /\ runs \in [Leases -> Run] /\ slot \in [Sessions -> 0..lastLease]
      /\ session[c] \in Sessions /\ lastLease \in Nat
      /\ pc \in [Clients -> Places] /\ op \in [Clients -> Requests]
  BY BoundsAssumption DEF IInv, TypeOK
<1>1. /\ pc[c] \in SetupPlaces /\ Return(c) /\ runs' \in [Leases -> Run]
      /\ UNCHANGED <<lastLease, generation, known, session, panics>>
      /\ Unlock(c) \/ UNCHANGED fence
  BY LeavesPassed
<1>2. PICK l \in Leases : l = Mine(c)  BY <1>1, MineFacts
<1>3. /\ Passed(c, l)
      /\ runs[l].owner = c /\ runs[l].task = "setup" /\ runs[l].on = session[c]
      /\ slot[session[c]] = l
      /\ \A m \in Leases : runs[m].task = "setup" /\ runs[m].owner = c => m = l
  BY <1>1, <1>2, LeavesPassed, MineFacts
<1>4. /\ pc'[c] \notin SetupPlaces /\ pc'[c] \in {"idle", "gone"} /\ op'[c] = "none"
      /\ \A d \in Clients \ {c} : pc'[d] = pc[d] /\ op'[d] = op[d]
  BY <1>0, <1>1 DEF Return, SetupPlaces
<1>5. runs'[l].task \in {"ready", "dropped", "finished"} /\ runs'[l].on = session[c]
  BY <1>3 DEF Passed
<1>6. TypeOK'
  <2>1. slot' \in [Sessions -> 0..lastLease]  BY <1>0, <1>3 DEF Passed, Free
  <2>2. transcript' \in [Sessions -> Nat]
    <3>1. transcript \in [Sessions -> Nat] /\ transcript[session[c]] + 1 \in Nat
      BY <1>0 DEF IInv, TypeOK
    <3>2. transcript' = transcript
          \/ transcript' = [transcript EXCEPT ![session[c]] = transcript[session[c]] + 1]
      BY <1>0, <3>1 DEF Leaves, Register, SnapshotFails, SetupDropped, Mutate
    <3> QED  BY <3>1, <3>2
  <2>3. fence' \in Clients \cup {Nobody}  BY <1>1, UnlockType DEF IInv, TypeOK
  <2>4. /\ pc' \in [Clients -> Places] /\ op' \in [Clients -> Requests]
        /\ awaited' \in [Clients -> 0..lastLease]
    BY <1>1, ReturnType DEF IInv
  <2> QED  BY <1>1, <2>1, <2>2, <2>3, <2>4 DEF IInv, TypeOK
<1>7. AskingInv'
  <2>1. Asking' \subseteq Asking  BY <1>4 DEF Asking, Leasing
  <2>2. lastLease' + Cardinality(Asking') <= MaxLeases
    BY <1>1, <2>1, FewerAsking DEF IInv
  <2> QED  BY <1>4, <2>2 DEF IInv, AskingInv
<1>8. HoldInv'
  <2> SUFFICES ASSUME NEW m \in Leases, runs'[m].task \in Holding
               PROVE  slot'[runs'[m].on] = m
    BY DEF HoldInv
  <2>1. CASE m = l  BY <1>3, <1>5, <2>1 DEF Passed, Holding
  <2>2. CASE m # l
    <3>1. runs'[m] = runs[m] /\ slot[runs[m].on] = m /\ runs[m].on \in Sessions
      BY <1>0, <1>3, <2>2 DEF Passed, IInv, HoldInv, Run
    <3>2. runs[m].on # session[c]  BY <1>3, <2>2, <3>1
    <3> QED  BY <1>0, <1>3, <3>1, <3>2 DEF Passed
  <2> QED  BY <2>1, <2>2
<1>9. SetupInv'
  <2>1. ASSUME NEW m \in Leases, runs'[m].task = "setup"
        PROVE  /\ runs'[m].owner \in Clients /\ pc'[runs'[m].owner] \in SetupPlaces
               /\ runs'[m].on = session'[runs'[m].owner]
    <3>1. m # l /\ runs'[m] = runs[m]  BY <1>3, <1>5, <2>1 DEF Passed
    <3>2. runs[m].owner # c  BY <1>3, <2>1, <3>1
    <3> QED  BY <1>1, <1>4, <2>1, <3>1, <3>2 DEF IInv, SetupInv
  <2>2. ASSUME NEW d \in Clients, pc'[d] \in SetupPlaces
        PROVE  \E m \in Leases : runs'[m].owner = d /\ runs'[m].task = "setup"
    <3>1. d # c /\ pc[d] \in SetupPlaces  BY <1>4, <2>2
    <3>2. PICK m \in Leases : runs[m].owner = d /\ runs[m].task = "setup"
      BY <3>1 DEF IInv, SetupInv
    <3>3. m # l  BY <1>3, <3>1, <3>2
    <3> QED  BY <1>3, <3>2, <3>3 DEF Passed
  <2> QED  BY <2>1, <2>2 DEF SetupInv
<1>10. EngineInv'
  <2> SUFFICES ASSUME NEW m \in Leases
               PROVE  /\ runs'[m].task = "setup" => runs'[m].engine = "none"
                      /\ runs'[m].task = "ready" => runs'[m].engine = "ready"
                      /\ runs'[m].engine \in {"ready", "running"} =>
                            /\ runs'[m].controlled
                            /\ runs'[m].task \in {"ready", "running", "dropped"}
    BY DEF EngineInv
  <2>1. CASE m = l  BY <1>3, <2>1 DEF Passed
  <2>2. CASE m # l  BY <1>3, <2>2 DEF Passed, IInv, EngineInv
  <2> QED  BY <2>1, <2>2
<1> QED  BY <1>6, <1>7, <1>8, <1>9, <1>10 DEF IInv

-----------------------------------------------------------------------------
(* The invariant. *)

LEMMA InitInvariant == Init => IInv
<1> SUFFICES ASSUME Init PROVE IInv  OBVIOUS
<1>1. \A l \in Leases : runs[l] = NoRun  BY DEF Init
<1>2. HoldInv /\ EngineInv  BY <1>1 DEF HoldInv, EngineInv, NoRun, Holding
<1>3. SetupInv  BY <1>1 DEF SetupInv, NoRun, Init, SetupPlaces
<1> QED  BY <1>2, <1>3, InitType DEF IInv

LEMMA OutsideInvariant ==
    ASSUME IInv, NEW c \in Clients, Request(c) \/ OutsideStep(c)
    PROVE  IInv'
<1>1. TypeOK' /\ AskingInv' /\ Outside(c)
  BY ReceiveOutside, OutsideStepType, OutsideStepAsking, OutsideStepOutside DEF IInv
<1> QED  BY <1>1, OutsideKeeps DEF IInv

LEMMA StutterKeeps == ASSUME IInv, UNCHANGED vars PROVE IInv'
BY DEF IInv, TypeOK, AskingInv, Asking, HoldInv, SetupInv, EngineInv, vars

LEMMA NextInvariant ==
    ASSUME IInv, [Next]_vars
    PROVE  IInv'
<1>1. CASE UNCHANGED vars  BY <1>1, StutterKeeps
<1>2. ASSUME NEW c \in Clients,
             Request(c) \/ Expire(c) \/ Handle(c) \/ StopTimesOut(c)
      PROVE  IInv'
  <2>1. \/ Request(c) \/ OutsideStep(c) \/ Acquire(c) \/ Snapshot(c) \/ Leaves(c)
    BY <1>2 DEF Handle, OutsideStep, Leaves
  <2> QED  BY <2>1, OutsideInvariant, AcquireKeeps, SnapshotKeeps, LeavesKeeps
<1>3. ASSUME NEW l \in Leases, TaskStep(l) \/ Commit(l) \/ Say(l) \/ Panic(l)
      PROVE  IInv'
  BY <1>3, RunStepKeeps DEF RunStep
<1>4. ASSUME NEW s \in Sessions, CancelPost(s) PROVE IInv'  BY <1>4, CancelPostKeeps
<1> QED  BY <1>1, <1>2, <1>3, <1>4 DEF Next

\* The shape of the slots, handlers and runs is kept, for any number of clients,
\* sessions and leases.
THEOREM TypeCorrect == Spec => []TypeOK
<1>1. Init => IInv  BY InitInvariant
<1>2. IInv /\ [Next]_vars => IInv'  BY NextInvariant
<1>3. IInv => TypeOK  BY DEF IInv
<1> QED  BY <1>1, <1>2, <1>3, PTL DEF Spec

\* Whoever works on a session holds its slot, and the slot holds one lease.
LEMMA OneWriterHolds == ASSUME IInv PROVE OneWriter
<1> SUFFICES ASSUME NEW s \in Sessions
             PROVE  Cardinality(
                      {l \in Leases : runs[l].engine \in {"ready", "running"}
                                      /\ runs[l].on = s}
                      \cup {c \in Conns : At(c, "mutate") /\ session[c] = s}) <= 1
  BY DEF OneWriter
<1> DEFINE engines  == {l \in Leases : runs[l].engine \in {"ready", "running"}
                                       /\ runs[l].on = s}
           handlersOn == {c \in Conns : At(c, "mutate") /\ session[c] = s}
<1>1. \A l \in engines : slot[s] = l
  BY DEF IInv, EngineInv, HoldInv, Holding
<1>2. \A c \in handlersOn :
          /\ slot[s] \in Leases /\ runs[slot[s]].owner = c
          /\ runs[slot[s]].engine = "none"
  BY MineFacts DEF At, SetupPlaces, Clients
<1>3. \E x : engines \cup handlersOn \subseteq {x}
  <2>1. CASE handlersOn = {}  BY <1>1, <2>1
  <2>2. ASSUME NEW c \in handlersOn PROVE engines \cup handlersOn \subseteq {c}
    <3>1. engines = {}  BY <1>1, <1>2, <2>2
    <3>2. \A d \in handlersOn : d = c  BY <1>2, <2>2
    <3> QED  BY <3>1, <3>2
  <2> QED  BY <2>1, <2>2
<1> HIDE DEF engines, handlersOn
<1>4. PICK x : engines \cup handlersOn \subseteq {x}  BY <1>3
<1>5. IsFiniteSet({x}) /\ Cardinality({x}) = 1  BY FS_Singleton
<1>6. Cardinality(engines \cup handlersOn) <= 1  BY <1>4, <1>5, FS_Subset
<1> QED  BY <1>6 DEF engines, handlersOn

\* No second writer enters a session early, not even after a panic.
THEOREM WritersExclude == Spec => []OneWriter
<1>1. Init => IInv  BY InitInvariant
<1>2. IInv /\ [Next]_vars => IInv'  BY NextInvariant
<1>3. IInv => OneWriter  BY OneWriterHolds
<1> QED  BY <1>1, <1>2, <1>3, PTL DEF Spec

-----------------------------------------------------------------------------
(* What a run started from.  Two more invariants ride on the first: a lease that *)
(* is set up or at work has seen the transcript as it stands until it says       *)
(* something itself, and a lease is not handed out before its predecessor on     *)
(* the session has let go of the slot, in the order reported, finished.          *)

AtWork(l) == runs[l].engine \in {"ready", "running"}

ViewInv ==
    \A l \in Leases :
        /\ runs[l].task = "setup" /\ pc[runs[l].owner] = "register" =>
              runs[l].view = transcript[runs[l].on]
        /\ AtWork(l) /\ runs[l].said = 0 => runs[l].view = transcript[runs[l].on]

OrderInv ==
    /\ \A l, m \in Leases :
          l < m /\ m <= lastLease /\ runs[l].on = runs[m].on => runs[l].task \notin Holding
    /\ \A l \in Leases :
          /\ runs[l].task = "none" => runs[l].engine = "none"
          /\ runs[l].task = "reported" => runs[l].told
          /\ runs[l].task = "finished" => runs[l].engine = "none" \/ runs[l].told

StartInv == IInv /\ ViewInv /\ OrderInv /\ RunsInPublishedProject

LEMMA InitStart == Init => StartInv
<1> SUFFICES ASSUME Init PROVE StartInv  OBVIOUS
<1>1. \A l \in Leases : runs[l] = NoRun  BY DEF Init
<1>2. ViewInv  BY <1>1 DEF ViewInv, NoRun, AtWork
<1>3. OrderInv  BY <1>1 DEF OrderInv, NoRun, Holding
<1>4. RunsInPublishedProject  BY DEF Init, RunsInPublishedProject
<1> QED  BY <1>2, <1>3, <1>4, InitInvariant DEF StartInv

\* Handlers without a lease change no run's history.  Only a project switch changes
\* the generation, and it finds no slot taken.
LEMMA OutsideHistory ==
    ASSUME IInv, NEW c \in Clients, Request(c) \/ OutsideStep(c)
    PROVE  /\ transcript' = transcript /\ slot' = slot /\ lastLease' = lastLease
           /\ generation' = generation \/ \A s \in Sessions : slot[s] = Free
           /\ \A l \in Leases :
                 /\ runs'[l].owner = runs[l].owner /\ runs'[l].on = runs[l].on
                 /\ runs'[l].task = runs[l].task /\ runs'[l].engine = runs[l].engine
                 /\ runs'[l].view = runs[l].view /\ runs'[l].said = runs[l].said
                 /\ runs'[l].told = runs[l].told /\ runs'[l].made = runs[l].made
<1>1. Outside(c)  BY ReceiveOutside, OutsideStepOutside DEF IInv
<1>2. runs \in [Leases -> Run]  BY DEF IInv, TypeOK
<1>3. \A l \in Leases :
          /\ runs'[l].owner = runs[l].owner /\ runs'[l].on = runs[l].on
          /\ runs'[l].task = runs[l].task /\ runs'[l].engine = runs[l].engine
          /\ runs'[l].view = runs[l].view /\ runs'[l].said = runs[l].said
          /\ runs'[l].told = runs[l].told /\ runs'[l].made = runs[l].made
  BY <1>1, <1>2 DEF Outside, Cancelled, Run
<1>4. transcript' = transcript
  BY DEF OutsideStep, Expire, StopNothing, StopRefused, StopRun, Stopped, StopTimesOut,
         CancelRun, JoinCancels, Join, Lock, LockTooLate, Switch, SelectionRefused,
         Resume, AcquireRefused, Request, Receive
<1>5. generation' = generation \/ MaySwitch
  <2>1. CASE Switch(c)  BY <2>1 DEF Switch
  <2>2. CASE OutsideStep(c) /\ ~Switch(c)
    <3>0. Lock(c) => selected' = selected  BY Zenon DEF Lock
    <3> USE DEF projects, selected
    <3>1. Expire(c) => generation' = generation  BY DEF Expire
    <3>2. StopNothing(c) => generation' = generation  BY DEF StopNothing
    <3>3. StopRefused(c) => generation' = generation  BY DEF StopRefused
    <3>4. StopRun(c) => generation' = generation  BY DEF StopRun
    <3>5. Stopped(c) => generation' = generation  BY DEF Stopped
    <3>6. StopTimesOut(c) => generation' = generation  BY DEF StopTimesOut
    <3>7. CancelRun(c) => generation' = generation  BY DEF CancelRun
    <3>8. JoinCancels(c) => generation' = generation  BY DEF JoinCancels
    <3>9. Join(c) => generation' = generation  BY DEF Join
    <3>10. Lock(c) => generation' = generation  BY <3>0
    <3>11. LockTooLate(c) => generation' = generation  BY DEF LockTooLate
    <3>12. SelectionRefused(c) => generation' = generation  BY DEF SelectionRefused
    <3>13. Resume(c) => generation' = generation  BY DEF Resume
    <3>14. AcquireRefused(c) => generation' = generation  BY DEF AcquireRefused
    <3> QED  BY <2>2, <3>1, <3>2, <3>3, <3>4, <3>5, <3>6, <3>7, <3>8, <3>9,
                <3>10, <3>11, <3>12, <3>13, <3>14 DEF OutsideStep
  <2>3. CASE Request(c)  BY <2>3 DEF Request, Receive
  <2> QED  BY <2>1, <2>2, <2>3
<1> QED  BY <1>1, <1>3, <1>4, <1>5 DEF Outside, MaySwitch, HasActiveRuns

LEMMA OutsideStart ==
    ASSUME StartInv, NEW c \in Clients, Request(c) \/ OutsideStep(c)
    PROVE  StartInv'
<1>1. IInv' /\ IInv  BY OutsideInvariant DEF StartInv
<1>2. Outside(c)  BY ReceiveOutside, OutsideStepOutside DEF StartInv, IInv
<1>3. /\ transcript' = transcript /\ slot' = slot /\ lastLease' = lastLease
      /\ generation' = generation \/ \A s \in Sessions : slot[s] = Free
      /\ \A l \in Leases :
            /\ runs'[l].owner = runs[l].owner /\ runs'[l].on = runs[l].on
            /\ runs'[l].task = runs[l].task /\ runs'[l].engine = runs[l].engine
            /\ runs'[l].view = runs[l].view /\ runs'[l].said = runs[l].said
            /\ runs'[l].told = runs[l].told /\ runs'[l].made = runs[l].made
  BY <1>1, OutsideHistory
<1>4. \A d \in Clients : pc'[d] = "register" => pc[d] = "register"
  BY <1>2 DEF Outside, SetupPlaces
<1>5. ViewInv'
  <2> SUFFICES ASSUME NEW l \in Leases
               PROVE  /\ runs'[l].task = "setup" /\ pc'[runs'[l].owner] = "register" =>
                            runs'[l].view = transcript'[runs'[l].on]
                      /\ AtWork(l)' /\ runs'[l].said = 0 =>
                            runs'[l].view = transcript'[runs'[l].on]
    BY DEF ViewInv
  <2>1. runs[l].task = "setup" => runs[l].owner \in Clients  BY <1>1 DEF IInv, SetupInv
  <2> QED  BY <1>3, <1>4, <2>1 DEF StartInv, ViewInv, AtWork
<1>6. OrderInv'  BY <1>3 DEF StartInv, OrderInv
<1>7. RunsInPublishedProject'
  <2>1. slot \in [Sessions -> 0..lastLease] /\ lastLease \in 0..MaxLeases
    BY <1>1 DEF IInv, TypeOK
  <2>2. \A s \in Sessions : slot[s] # Free => slot[s] \in Leases
    BY <2>1, BoundsAssumption DEF Free, Leases
  <2> QED  BY <1>3, <2>2 DEF StartInv, RunsInPublishedProject
<1> QED  BY <1>1, <1>5, <1>6, <1>7 DEF StartInv

\* The steps of a run, beyond what Advanced says of them.
LEMMA RunStepHistory ==
    ASSUME IInv, OrderInv, NEW l \in Leases, RunStep(l)
    PROVE  /\ \/ transcript' = transcript /\ runs'[l].said = runs[l].said
              \/ /\ AtWork(l) /\ runs'[l].said # 0
                 /\ transcript' = [transcript EXCEPT ![runs[l].on] = @ + 1]
           /\ generation' = generation
           /\ runs'[l].task # "none"
           /\ runs'[l].task \in {"reported", "finished"} => runs'[l].told
<1>0. runs \in [Leases -> Run] /\ runs[l] \in Run  BY DEF IInv, TypeOK
<1>e. /\ runs[l].engine \in {"ready", "running"} =>
            runs[l].task \in {"ready", "running", "dropped"}
      /\ runs[l].task = "ready" => runs[l].engine = "ready"
      /\ runs[l].task = "reported" => runs[l].told
  BY DEF IInv, EngineInv, OrderInv
<1> USE DEF projects, selected
<1>1. CASE Start(l)  BY <1>0, <1>e, <1>1 DEF Start, Run
<1>2. CASE Report(l)  BY <1>0, <1>e, <1>2 DEF Report, Run
<1>3. CASE Finish(l)  BY <1>0, <1>e, <1>3 DEF Finish, Finished, Run
<1>4. CASE Release(l)  BY <1>0, <1>e, <1>4 DEF Release, Finished, Run
<1>5. CASE Commit(l)  BY <1>0, <1>e, <1>5 DEF Commit, Run
<1>6. CASE Say(l)  BY <1>0, <1>e, <1>6 DEF Say, Run, AtWork
<1>7. CASE Panic(l)  BY <1>0, <1>e, <1>7 DEF Panic, Run
<1> QED  BY <1>1, <1>2, <1>3, <1>4, <1>5, <1>6, <1>7 DEF RunStep, TaskStep

LEMMA RunStepStart ==
    ASSUME StartInv, NEW l \in Leases, RunStep(l)
    PROVE  StartInv'
<1>0. /\ IInv /\ OrderInv /\ runs \in [Leases -> Run] /\ slot \in [Sessions -> 0..lastLease]
      /\ transcript \in [Sessions -> Nat] /\ lastLease \in 0..MaxLeases
  BY DEF StartInv, IInv, TypeOK
<1>1. IInv'  BY <1>0, RunStepKeeps
<1>2. Advanced(l)  BY <1>0, RunStepAdvanced
<1>3. /\ \/ transcript' = transcript /\ runs'[l].said = runs[l].said
         \/ /\ AtWork(l) /\ runs'[l].said # 0
            /\ transcript' = [transcript EXCEPT ![runs[l].on] = @ + 1]
      /\ generation' = generation
      /\ runs'[l].task # "none"
      /\ runs'[l].task \in {"reported", "finished"} => runs'[l].told
  BY <1>0, RunStepHistory
<1>4. UNCHANGED <<pc, lastLease>>
  BY DEF RunStep, TaskStep, Start, Report, Finish, Release, Commit, Say, Panic, handlers
<1>5. runs[l].on \in Sessions  BY <1>0 DEF Run
<1>6. ASSUME NEW m \in Leases, m # l, AtWork(l), runs[m].task \in Holding
      PROVE  runs[m].on # runs[l].on
  BY <1>0, <1>6 DEF IInv, HoldInv, EngineInv, AtWork, Holding
<1>7. ViewInv'
  <2> SUFFICES ASSUME NEW m \in Leases
               PROVE  /\ runs'[m].task = "setup" /\ pc'[runs'[m].owner] = "register" =>
                            runs'[m].view = transcript'[runs'[m].on]
                      /\ runs'[m].engine \in {"ready", "running"} /\ runs'[m].said = 0 =>
                            runs'[m].view = transcript'[runs'[m].on]
    BY DEF ViewInv, AtWork
  <2>1. CASE m = l
    <3>1. runs'[l].task # "setup"  BY <1>2 DEF Advanced
    <3>2. ASSUME runs'[l].engine \in {"ready", "running"}, runs'[l].said = 0
          PROVE  runs'[l].view = transcript'[runs'[l].on]
      <4>1. transcript' = transcript /\ runs[l].said = 0 /\ AtWork(l)
        BY <1>2, <1>3, <3>2 DEF Advanced, AtWork
      <4> QED  BY <1>2, <4>1 DEF Advanced, StartInv, ViewInv
    <3> QED  BY <2>1, <3>1, <3>2
  <2>2. CASE m # l
    <3>1. runs'[m] = runs[m]  BY <1>2, <2>2 DEF Advanced
    <3>2. ASSUME runs[m].task \in Holding
          PROVE  transcript'[runs[m].on] = transcript[runs[m].on]
      <4>1. runs[m].on \in Sessions  BY <1>0 DEF Run
      <4> QED  BY <1>0, <1>3, <1>5, <1>6, <2>2, <3>2, <4>1
    <3>3. runs[m].task = "setup" \/ AtWork(m) => runs[m].task \in Holding
      BY <1>0 DEF IInv, EngineInv, AtWork, Holding
    <3> QED  BY <1>4, <3>1, <3>2, <3>3 DEF StartInv, ViewInv, AtWork
  <2> QED  BY <2>1, <2>2
<1>8. OrderInv'
  <2>1. ASSUME NEW m \in Leases
        PROVE  /\ runs'[m].on = runs[m].on
               /\ runs'[m].task \in Holding => runs[m].task \in Holding
    <3>1. CASE m = l  BY <1>2, <3>1 DEF Advanced
    <3>2. CASE m # l  BY <1>2, <3>2 DEF Advanced
    <3> QED  BY <3>1, <3>2
  <2>2. ASSUME NEW m \in Leases
        PROVE  /\ runs'[m].task = "none" => runs'[m].engine = "none"
               /\ runs'[m].task = "reported" => runs'[m].told
               /\ runs'[m].task = "finished" => runs'[m].engine = "none" \/ runs'[m].told
    <3>1. CASE m = l  BY <1>3, <3>1
    <3>2. CASE m # l  BY <1>0, <1>2, <3>2 DEF Advanced, OrderInv
    <3> QED  BY <3>1, <3>2
  <2>3. \A k, m \in Leases :
            k < m /\ m <= lastLease' /\ runs'[k].on = runs'[m].on => runs'[k].task \notin Holding
    BY <1>0, <1>4, <2>1 DEF OrderInv
  <2> QED  BY <2>2, <2>3 DEF OrderInv
<1>9. RunsInPublishedProject'
  <2> SUFFICES ASSUME NEW s \in Sessions, slot'[s] # 0
               PROVE  runs'[slot'[s]].made = generation'
    BY DEF RunsInPublishedProject, Free
  <2>1. slot'[s] = slot[s]  BY <1>0, <1>2, <1>5 DEF Advanced, Free
  <2>2. slot[s] \in Leases  BY <1>0, <2>1, BoundsAssumption DEF Leases
  <2>3. runs'[slot[s]].made = runs[slot[s]].made  BY <1>2, <2>2 DEF Advanced
  <2> QED  BY <1>3, <2>1, <2>3 DEF StartInv, RunsInPublishedProject, Free
<1> QED  BY <1>1, <1>7, <1>8, <1>9 DEF StartInv

LEMMA AcquireStart ==
    ASSUME StartInv, NEW c \in Clients, Acquire(c)
    PROVE  StartInv'
<1> DEFINE l == lastLease + 1
<1>0. /\ IInv /\ runs \in [Leases -> Run] /\ slot \in [Sessions -> 0..lastLease]
      /\ lastLease \in Nat /\ MaxLeases \in Nat /\ session[c] \in Sessions
      /\ pc \in [Clients -> Places]
  BY BoundsAssumption DEF StartInv, IInv, TypeOK
<1>1. IInv'  BY <1>0, AcquireKeeps
<1>2. /\ lastLease' = l /\ slot' = [slot EXCEPT ![session[c]] = l]
      /\ slot[session[c]] = 0
      /\ runs' = [runs EXCEPT ![l] = [NoRun EXCEPT !.owner = c, !.on = session[c],
                                                   !.made = generation, !.task = "setup"]]
      /\ pc' = [pc EXCEPT ![c] = IF op[c] = "clear" THEN "mutate" ELSE "snapshot"]
      /\ transcript' = transcript /\ generation' = generation
  BY DEF Acquire, MayAcquire, TakeLease, Goto, selected, Free
<1>3. l \in Leases
  <2>1. lastLease' \in 0..MaxLeases  BY <1>1 DEF IInv, TypeOK
  <2> QED  BY <1>0, <1>2, <2>1 DEF Leases
<1>4. /\ \A m \in Leases \ {l} : runs'[m] = runs[m]
      /\ runs'[l].owner = c /\ runs'[l].on = session[c] /\ runs'[l].made = generation
      /\ runs'[l].task = "setup" /\ runs'[l].engine = "none"
  BY <1>0, <1>2, <1>3 DEF NoRun
<1>5. pc'[c] # "register" /\ \A d \in Clients \ {c} : pc'[d] = pc[d]  BY <1>0, <1>2
<1>6. ViewInv'
  <2> SUFFICES ASSUME NEW m \in Leases
               PROVE  /\ runs'[m].task = "setup" /\ pc'[runs'[m].owner] = "register" =>
                            runs'[m].view = transcript[runs'[m].on]
                      /\ runs'[m].engine \in {"ready", "running"} /\ runs'[m].said = 0 =>
                            runs'[m].view = transcript[runs'[m].on]
    BY <1>2 DEF ViewInv, AtWork
  <2>1. CASE m = l  BY <1>4, <1>5, <2>1
  <2>2. CASE m # l
    <3>1. runs'[m] = runs[m]  BY <1>4, <2>2
    <3>2. runs[m].task = "setup" => runs[m].owner \in Clients  BY <1>0 DEF IInv, SetupInv
    <3> QED  BY <1>5, <3>1, <3>2 DEF StartInv, ViewInv, AtWork
  <2> QED  BY <2>1, <2>2
<1>7. OrderInv'
  <2>1. ASSUME NEW k \in Leases, NEW m \in Leases, k < m, m <= l, runs'[k].on = runs'[m].on
        PROVE  runs'[k].task \notin Holding
    <3>1. k # l /\ runs'[k] = runs[k]  BY <1>0, <1>4, <2>1 DEF Leases
    <3>2. CASE m = l
      <4>1. runs[k].on = session[c]  BY <1>4, <2>1, <3>1, <3>2
      <4>2. k # 0  BY DEF Leases
      <4> QED  BY <1>2, <3>1, <4>1, <4>2, <1>0 DEF IInv, HoldInv
    <3>3. CASE m # l
      <4>1. runs'[m] = runs[m] /\ m <= lastLease  BY <1>0, <1>4, <2>1, <3>3 DEF Leases
      <4> QED  BY <2>1, <3>1, <4>1 DEF StartInv, OrderInv
    <3> QED  BY <3>2, <3>3
  <2>2. ASSUME NEW m \in Leases
        PROVE  /\ runs'[m].task = "none" => runs'[m].engine = "none"
               /\ runs'[m].task = "reported" => runs'[m].told
               /\ runs'[m].task = "finished" => runs'[m].engine = "none" \/ runs'[m].told
    <3>1. CASE m = l  BY <1>4, <3>1
    <3>2. CASE m # l  BY <1>4, <3>2 DEF StartInv, OrderInv
    <3> QED  BY <3>1, <3>2
  <2> QED  BY <1>2, <2>1, <2>2 DEF OrderInv
<1>8. RunsInPublishedProject'
  <2> SUFFICES ASSUME NEW s \in Sessions, slot'[s] # 0
               PROVE  runs'[slot'[s]].made = generation
    BY <1>2 DEF RunsInPublishedProject, Free
  <2>1. CASE s = session[c]  BY <1>0, <1>2, <1>4, <2>1
  <2>2. CASE s # session[c]
    <3>1. slot'[s] = slot[s] /\ slot[s] \in Leases /\ slot[s] # l
      BY <1>0, <1>2, <1>3, <2>2 DEF Leases
    <3> QED  BY <1>4, <3>1 DEF StartInv, RunsInPublishedProject, Free
  <2> QED  BY <2>1, <2>2
<1> QED  BY <1>1, <1>6, <1>7, <1>8 DEF StartInv

LEMMA SnapshotStart ==
    ASSUME StartInv, NEW c \in Clients, Snapshot(c)
    PROVE  StartInv'
<1> DEFINE l == Mine(c)
<1>0. /\ IInv /\ runs \in [Leases -> Run] /\ slot \in [Sessions -> 0..lastLease]
      /\ lastLease \in 0..MaxLeases /\ pc \in [Clients -> Places]
  BY DEF StartInv, IInv, TypeOK
<1>1. IInv'  BY <1>0, SnapshotKeeps
<1>2. pc[c] = "snapshot" /\ pc[c] \in SetupPlaces  BY DEF Snapshot, At, SetupPlaces
<1>3. /\ l \in Leases /\ runs[l].owner = c /\ runs[l].task = "setup"
      /\ runs[l].on = session[c] /\ runs[l].engine = "none"
      /\ \A m \in Leases : runs[m].task = "setup" /\ runs[m].owner = c => m = l
  BY <1>0, <1>2, MineFacts
<1> HIDE DEF l
<1>4. /\ runs' = [runs EXCEPT ![l].view = transcript[session[c]]]
      /\ pc' = [pc EXCEPT ![c] = IF op[c] = "compact" THEN "mutate" ELSE "register"]
      /\ UNCHANGED <<slot, lastLease, generation, transcript>>
  BY DEF Snapshot, Goto, selected, l
<1>5. /\ \A m \in Leases \ {l} : runs'[m] = runs[m]
      /\ runs'[l].view = transcript[session[c]]
      /\ \A m \in Leases :
            /\ runs'[m].owner = runs[m].owner /\ runs'[m].on = runs[m].on
            /\ runs'[m].task = runs[m].task /\ runs'[m].engine = runs[m].engine
            /\ runs'[m].said = runs[m].said /\ runs'[m].told = runs[m].told
            /\ runs'[m].made = runs[m].made
  BY <1>0, <1>3, <1>4 DEF Run
<1>6. ViewInv'
  <2> SUFFICES ASSUME NEW m \in Leases
               PROVE  /\ runs'[m].task = "setup" /\ pc'[runs'[m].owner] = "register" =>
                            runs'[m].view = transcript[runs'[m].on]
                      /\ runs'[m].engine \in {"ready", "running"} /\ runs'[m].said = 0 =>
                            runs'[m].view = transcript[runs'[m].on]
    BY <1>4 DEF ViewInv, AtWork
  <2>1. CASE m = l  BY <1>3, <1>5, <2>1
  <2>2. CASE m # l
    <3>1. runs'[m] = runs[m]  BY <1>5, <2>2
    <3>2. runs[m].task = "setup" => runs[m].owner \in Clients \ {c}
      BY <1>0, <1>3, <2>2 DEF IInv, SetupInv
    <3>3. \A d \in Clients \ {c} : pc'[d] = pc[d]  BY <1>0, <1>4
    <3> QED  BY <3>1, <3>2, <3>3 DEF StartInv, ViewInv, AtWork
  <2> QED  BY <2>1, <2>2
<1>7. OrderInv'  BY <1>4, <1>5 DEF StartInv, OrderInv
<1>8. RunsInPublishedProject'
  <2>1. \A s \in Sessions : slot[s] # Free => slot[s] \in Leases
    BY <1>0, BoundsAssumption DEF Free, Leases
  <2> QED  BY <1>4, <1>5, <2>1 DEF StartInv, RunsInPublishedProject
<1> QED  BY <1>1, <1>6, <1>7, <1>8 DEF StartInv

LEMMA LeavesStart ==
    ASSUME StartInv, NEW c \in Clients, Leaves(c)
    PROVE  StartInv'
<1>0. /\ IInv /\ runs \in [Leases -> Run] /\ slot \in [Sessions -> 0..lastLease]
      /\ lastLease \in 0..MaxLeases /\ pc \in [Clients -> Places]
      /\ op \in [Clients -> Requests] /\ transcript \in [Sessions -> Nat]
      /\ session[c] \in Sessions
  BY DEF StartInv, IInv, TypeOK
<1>1. IInv'  BY <1>0, LeavesKeeps
<1>2. /\ pc[c] \in SetupPlaces /\ Return(c) /\ UNCHANGED <<lastLease, generation>>
      /\ Passed(c, Mine(c))
  BY <1>0, LeavesPassed
<1>3. PICK l \in Leases : l = Mine(c)  BY <1>0, <1>2, MineFacts
<1>4. /\ runs[l].owner = c /\ runs[l].task = "setup" /\ runs[l].on = session[c]
      /\ runs[l].engine = "none" /\ slot[session[c]] = l
      /\ \A m \in Leases : runs[m].task = "setup" /\ runs[m].owner = c => m = l
  BY <1>0, <1>2, <1>3, MineFacts
<1>5. Passed(c, l)  BY <1>2, <1>3
<1>6. /\ pc'[c] \in {"idle", "gone"} /\ \A d \in Clients \ {c} : pc'[d] = pc[d]
  BY <1>0, <1>2 DEF Return
<1>7. /\ runs'[l].view = runs[l].view /\ runs'[l].made = runs[l].made
      /\ runs'[l].engine # "none" =>
            runs'[l].task = "ready" /\ pc[c] = "register" /\ transcript' = transcript
      /\ \/ transcript' = transcript
         \/ transcript' = [transcript EXCEPT ![session[c]] = @ + 1]
  <2>1. CASE Register(c)
    BY <1>0, <1>3, <2>1 DEF Register, At, Run
  <2>2. CASE SetupDropped(c)
    BY <1>0, <1>3, <1>4, <2>2 DEF SetupDropped, Run
  <2>3. CASE SnapshotFails(c)
    BY <1>0, <1>3, <1>4, <2>3 DEF SnapshotFails, Finished, Run
  <2>4. CASE Mutate(c)
    <3>1. Finished(l, "finished")  BY <1>3, <2>4 DEF Mutate
    <3>2. /\ runs'[l].view = runs[l].view /\ runs'[l].made = runs[l].made
          /\ runs'[l].engine = "none"
      BY <1>0, <1>4, <3>1 DEF Finished, Run
    <3>3. transcript' = transcript \/ transcript' = [transcript EXCEPT ![session[c]] = @ + 1]
      BY <2>4 DEF Mutate
    <3> QED  BY <3>2, <3>3
  <2> QED  BY <2>1, <2>2, <2>3, <2>4 DEF Leaves
<1>8. ViewInv'
  <2> SUFFICES ASSUME NEW m \in Leases
               PROVE  /\ runs'[m].task = "setup" /\ pc'[runs'[m].owner] = "register" =>
                            runs'[m].view = transcript'[runs'[m].on]
                      /\ runs'[m].engine \in {"ready", "running"} /\ runs'[m].said = 0 =>
                            runs'[m].view = transcript'[runs'[m].on]
    BY DEF ViewInv, AtWork
  <2>1. CASE m = l
    <3>1. runs'[l].task # "setup" /\ runs'[l].on = session[c]
      BY <1>4, <1>5 DEF Passed
    <3>2. pc[c] = "register" => runs[l].view = transcript[session[c]]
      BY <1>4 DEF StartInv, ViewInv
    <3> QED  BY <1>7, <2>1, <3>1, <3>2
  <2>2. CASE m # l
    <3>1. runs'[m] = runs[m]  BY <1>5, <2>2 DEF Passed
    <3>2. ASSUME runs[m].task = "setup" \/ AtWork(m)
          PROVE  transcript'[runs[m].on] = transcript[runs[m].on]
      <4>1. slot[runs[m].on] = m /\ runs[m].on \in Sessions
        BY <1>0, <3>2 DEF IInv, HoldInv, EngineInv, AtWork, Holding, Run
      <4> QED  BY <1>0, <1>4, <1>7, <2>2, <4>1
    <3>3. runs[m].task = "setup" => runs[m].owner \in Clients \ {c}
      BY <1>0, <1>4, <2>2 DEF IInv, SetupInv
    <3> QED  BY <1>6, <3>1, <3>2, <3>3 DEF StartInv, ViewInv, AtWork
  <2> QED  BY <2>1, <2>2
<1>9. OrderInv'
  <2>1. ASSUME NEW m \in Leases
        PROVE  /\ runs'[m].on = runs[m].on
               /\ runs'[m].task \in Holding => runs[m].task \in Holding
    <3>1. CASE m = l  BY <1>4, <1>5, <3>1 DEF Passed, Holding
    <3>2. CASE m # l  BY <1>5, <3>2 DEF Passed
    <3> QED  BY <3>1, <3>2
  <2>2. ASSUME NEW m \in Leases
        PROVE  /\ runs'[m].task = "none" => runs'[m].engine = "none"
               /\ runs'[m].task = "reported" => runs'[m].told
               /\ runs'[m].task = "finished" => runs'[m].engine = "none" \/ runs'[m].told
    <3>1. CASE m = l  BY <1>5, <3>1 DEF Passed
    <3>2. CASE m # l  BY <1>5, <3>2 DEF Passed, StartInv, OrderInv
    <3> QED  BY <3>1, <3>2
  <2>3. \A k, m \in Leases :
            k < m /\ m <= lastLease' /\ runs'[k].on = runs'[m].on => runs'[k].task \notin Holding
    BY <1>2, <2>1 DEF StartInv, OrderInv
  <2> QED  BY <2>2, <2>3 DEF OrderInv
<1>10. RunsInPublishedProject'
  <2> SUFFICES ASSUME NEW s \in Sessions, slot'[s] # 0
               PROVE  runs'[slot'[s]].made = generation
    BY <1>2 DEF RunsInPublishedProject, Free
  <2>1. slot'[s] = slot[s]  BY <1>0, <1>5 DEF Passed, Free
  <2>2. slot[s] \in Leases  BY <1>0, <2>1, BoundsAssumption DEF Leases
  <2>3. runs'[slot[s]].made = runs[slot[s]].made  BY <1>5, <1>7, <2>2 DEF Passed
  <2> QED  BY <2>1, <2>3 DEF StartInv, RunsInPublishedProject, Free
<1> QED  BY <1>1, <1>8, <1>9, <1>10 DEF StartInv

LEMMA CancelPostStart ==
    ASSUME StartInv, NEW s \in Sessions, CancelPost(s)
    PROVE  StartInv'
<1>0. IInv /\ runs \in [Leases -> Run] /\ slot \in [Sessions -> 0..lastLease]
      /\ lastLease \in 0..MaxLeases
  BY DEF StartInv, IInv, TypeOK
<1>1. IInv'  BY <1>0, CancelPostKeeps
<1>2. runs' = Cancelled({slot[s]})  BY DEF CancelPost
<1>3. UNCHANGED <<slot, lastLease, generation, pc, transcript>>
  BY DEF CancelPost, handlers, projects, selected
<1>4. \A l \in Leases :
          /\ runs'[l].owner = runs[l].owner /\ runs'[l].on = runs[l].on
          /\ runs'[l].task = runs[l].task /\ runs'[l].engine = runs[l].engine
          /\ runs'[l].view = runs[l].view /\ runs'[l].said = runs[l].said
          /\ runs'[l].told = runs[l].told /\ runs'[l].made = runs[l].made
  BY <1>0, <1>2 DEF Cancelled, Run
<1>5. ViewInv' /\ OrderInv'
  BY <1>3, <1>4 DEF StartInv, ViewInv, OrderInv, AtWork
<1>6. RunsInPublishedProject'
  <2>1. \A t \in Sessions : slot[t] # Free => slot[t] \in Leases
    BY <1>0, BoundsAssumption DEF Free, Leases
  <2> QED  BY <1>3, <1>4, <2>1 DEF StartInv, RunsInPublishedProject
<1> QED  BY <1>1, <1>5, <1>6 DEF StartInv

LEMMA NextStart ==
    ASSUME StartInv, [Next]_vars
    PROVE  StartInv'
<1>1. CASE UNCHANGED vars
  <2>1. IInv'  BY <1>1, StutterKeeps DEF StartInv
  <2> QED
    BY <1>1, <2>1 DEF StartInv, ViewInv, OrderInv, RunsInPublishedProject, AtWork, vars
<1>2. ASSUME NEW c \in Clients,
             Request(c) \/ Expire(c) \/ Handle(c) \/ StopTimesOut(c)
      PROVE  StartInv'
  <2>1. \/ Request(c) \/ OutsideStep(c) \/ Acquire(c) \/ Snapshot(c) \/ Leaves(c)
    BY <1>2 DEF Handle, OutsideStep, Leaves
  <2> QED  BY <2>1, OutsideStart, AcquireStart, SnapshotStart, LeavesStart
<1>3. ASSUME NEW l \in Leases, TaskStep(l) \/ Commit(l) \/ Say(l) \/ Panic(l)
      PROVE  StartInv'
  BY <1>3, RunStepStart DEF RunStep
<1>4. ASSUME NEW s \in Sessions, CancelPost(s) PROVE StartInv'
  BY <1>4, CancelPostStart
<1> QED  BY <1>1, <1>2, <1>3, <1>4 DEF Next

\* A run is built from the transcript as it stands: no message is said behind the
\* back of an engine that has not spoken yet.
THEOREM StartsCurrent == Spec => []SnapshotCurrent
<1>1. Init => StartInv  BY InitStart
<1>2. StartInv /\ [Next]_vars => StartInv'  BY NextStart
<1>3. StartInv => SnapshotCurrent  BY DEF StartInv, ViewInv, SnapshotCurrent, AtWork
<1> QED  BY <1>1, <1>2, <1>3, PTL DEF Spec

\* Whoever holds a slot was started in the published project.
THEOREM StartsInProject == Spec => []RunsInPublishedProject
<1>1. Init => StartInv  BY InitStart
<1>2. StartInv /\ [Next]_vars => StartInv'  BY NextStart
<1>3. StartInv => RunsInPublishedProject  BY DEF StartInv
<1> QED  BY <1>1, <1>2, <1>3, PTL DEF Spec

\* The client of a run has its terminal before anybody else is handed the session,
\* unless the task that owned the run died.
THEOREM TerminalFirst == Spec => []TerminalBeforeNextLease
<1>1. Init => StartInv  BY InitStart
<1>2. StartInv /\ [Next]_vars => StartInv'  BY NextStart
<1>3. ASSUME StartInv PROVE TerminalBeforeNextLease
  <2> SUFFICES ASSUME NEW l \in Leases, NEW m \in Leases, l < m, m <= lastLease,
                      runs[l].on = runs[m].on, runs[l].engine # "none"
               PROVE  runs[l].told \/ runs[l].task = "released"
    BY DEF TerminalBeforeNextLease
  <2>1. runs[l].task \notin Holding  BY <1>3 DEF StartInv, OrderInv
  <2>2. runs[l].task \in {"none", "finished", "released"}
    BY <1>3, <2>1 DEF StartInv, IInv, TypeOK, Run, Holding
  <2> QED  BY <1>3, <2>2 DEF StartInv, OrderInv
<1> QED  BY <1>1, <1>2, <1>3, PTL DEF Spec

-----------------------------------------------------------------------------
(* A Clear keeps the fence from the moment it looks for a run to stop until *)
(* it owns the slot; and nobody takes a slot without the fence.            *)

Fenced(c) ==
    \/ pc[c] \in {"acquire", "snapshot", "register", "resume", "switch"}
    \/ op[c] = "clear" /\ pc[c] \in {"stop", "wait", "join"}

FenceInv ==
    \A c \in Clients : /\ Fenced(c) => fence = c
                       /\ pc[c] = "cancel" => op[c] # "clear"

\* A slot is held by a lease of its own session that has not finished.
SlotInv ==
    \A s \in Sessions : slot[s] # Free => runs[slot[s]].on = s /\ ~runs[slot[s]].done

\* The slot that a Clear waits for is not handed to anybody else.
ClearInv ==
    \A c \in Clients : op[c] = "clear" =>
        /\ pc[c] \in {"join", "acquire"} => slot[session[c]] = Free
        /\ pc[c] = "wait" => slot[session[c]] \in {Free, awaited[c]}

FencedInv == IInv /\ FenceInv /\ SlotInv /\ ClearInv

\* What a handler's step does to the fence, and to nobody else.
Alone(c) ==
    /\ \A d \in Clients \ {c} : /\ pc'[d] = pc[d] /\ op'[d] = op[d]
                                /\ session'[d] = session[d] /\ awaited'[d] = awaited[d]
    /\ fence' = fence \/ Unlock(c) \/ (fence = Nobody /\ fence' = c)

LEMMA FenceKept ==
    ASSUME FenceInv, NEW c \in Clients, Alone(c),
           Fenced(c)' => fence' = c, pc'[c] = "cancel" => op'[c] # "clear"
    PROVE  FenceInv'
<1> SUFFICES ASSUME NEW d \in Clients
             PROVE  (Fenced(d)' => fence' = d) /\ (pc'[d] = "cancel" => op'[d] # "clear")
  BY DEF FenceInv
<1>1. CASE d = c  BY <1>1
<1>2. CASE d # c
  <2>1. Fenced(d)' => Fenced(d)  BY <1>2 DEF Alone, Fenced
  <2>2. pc'[d] = pc[d] /\ op'[d] = op[d]  BY <1>2 DEF Alone
  <2>3. fence = d => fence' = d
    BY <1>2, ClientsAssumption DEF Alone, Unlock
  <2> QED  BY <2>1, <2>2, <2>3 DEF FenceInv
<1> QED  BY <1>1, <1>2

\* Slots are only given up, and by the lease that has finished.
Shrinks ==
    /\ \A s \in Sessions : slot'[s] \in {Free, slot[s]}
    /\ \A l \in Leases : /\ runs'[l].on = runs[l].on
                         /\ runs'[l].done = runs[l].done \/ slot'[runs[l].on] # l

LEMMA SlotKept ==
    ASSUME TypeOK, SlotInv, Shrinks
    PROVE  SlotInv'
<1> SUFFICES ASSUME NEW s \in Sessions, slot'[s] # Free
             PROVE  runs'[slot'[s]].on = s /\ ~runs'[slot'[s]].done
  BY DEF SlotInv
<1>1. slot'[s] = slot[s] /\ slot[s] # Free  BY DEF Shrinks
<1>2. slot[s] \in Leases
  BY <1>1, BoundsAssumption DEF TypeOK, Free, Leases
<1>3. runs[slot[s]].on = s /\ ~runs[slot[s]].done  BY <1>1 DEF SlotInv
<1> QED  BY <1>1, <1>2, <1>3 DEF Shrinks

LEMMA ClearKept ==
    ASSUME ClearInv, TypeOK, Shrinks, NEW c \in Clients, Alone(c),
           op'[c] = "clear" =>
               /\ pc'[c] \in {"join", "acquire"} => slot'[session'[c]] = Free
               /\ pc'[c] = "wait" => slot'[session'[c]] \in {Free, awaited'[c]}
    PROVE  ClearInv'
<1> SUFFICES ASSUME NEW d \in Clients, op'[d] = "clear"
             PROVE  /\ pc'[d] \in {"join", "acquire"} => slot'[session'[d]] = Free
                    /\ pc'[d] = "wait" => slot'[session'[d]] \in {Free, awaited'[d]}
  BY DEF ClearInv
<1>1. CASE d = c  BY <1>1
<1>2. CASE d # c
  <2>1. /\ pc'[d] = pc[d] /\ op'[d] = op[d]
        /\ session'[d] = session[d] /\ awaited'[d] = awaited[d]
    BY <1>2 DEF Alone
  <2>2. session[d] \in Sessions  BY DEF TypeOK
  <2>3. slot'[session[d]] \in {Free, slot[session[d]]}  BY <2>2 DEF Shrinks
  <2> QED  BY <2>1, <2>3 DEF ClearInv
<1> QED  BY <1>1, <1>2

LEMMA ReturnAlone ==
    ASSUME TypeOK, NEW c \in Clients, Return(c), Unlock(c) \/ fence' = fence,
           \A d \in Clients \ {c} : session'[d] = session[d]
    PROVE  Alone(c) /\ ~Fenced(c)' /\ pc'[c] \notin {"cancel", "join", "acquire", "wait"}
<1>1. /\ \A d \in Clients \ {c} : pc'[d] = pc[d] /\ op'[d] = op[d] /\ awaited'[d] = awaited[d]
      /\ pc'[c] \in {"gone", "idle"} /\ op'[c] = "none"
  BY DEF Return, TypeOK
<1> QED  BY <1>1 DEF Alone, Fenced

LEMMA GotoAlone ==
    ASSUME TypeOK, NEW c \in Clients, NEW next, Goto(c, next),
           fence' = fence \/ Unlock(c) \/ (fence = Nobody /\ fence' = c), session' = session
    PROVE  Alone(c) /\ pc'[c] = next /\ op' = op /\ awaited' = awaited
<1>1. /\ \A d \in Clients \ {c} : pc'[d] = pc[d]
      /\ pc'[c] = next /\ op' = op /\ awaited' = awaited
  BY DEF Goto, TypeOK
<1> QED  BY <1>1 DEF Alone

LEMMA OutsideShrinks ==
    ASSUME IInv, NEW c \in Clients, Request(c) \/ OutsideStep(c)
    PROVE  Shrinks
<1>1. Outside(c)  BY ReceiveOutside, OutsideStepOutside DEF IInv
<1>2. runs \in [Leases -> Run]  BY DEF IInv, TypeOK
<1>3. \A l \in Leases : runs'[l].on = runs[l].on /\ runs'[l].done = runs[l].done
  BY <1>1, <1>2 DEF Outside, Cancelled, Run
<1> QED  BY <1>1, <1>3 DEF Outside, Shrinks

\* Handlers without a lease: what they leave behind in their own place.
LEMMA OutsideFenced ==
    ASSUME IInv, FenceInv, SlotInv, ClearInv, NEW c \in Clients, Request(c) \/ OutsideStep(c)
    PROVE  /\ Alone(c) /\ (Fenced(c)' => fence' = c) /\ (pc'[c] = "cancel" => op'[c] # "clear")
           /\ op'[c] = "clear" =>
                 /\ pc'[c] \in {"join", "acquire"} => slot'[session'[c]] = Free
                 /\ pc'[c] = "wait" => slot'[session'[c]] \in {Free, awaited'[c]}
<1>0. /\ TypeOK
      /\ Fenced(c) => fence = c
      /\ pc[c] = "cancel" => op[c] # "clear"
      /\ op[c] = "clear" =>
            /\ pc[c] \in {"join", "acquire"} => slot[session[c]] = Free
            /\ pc[c] = "wait" => slot[session[c]] \in {Free, awaited[c]}
      /\ pc \in [Clients -> Places] /\ op \in [Clients -> Requests]
      /\ awaited \in [Clients -> 0..lastLease] /\ session \in [Clients -> Sessions]
  BY DEF IInv, FenceInv, ClearInv, TypeOK
<1> DEFINE Goal ==
        /\ Alone(c) /\ (Fenced(c)' => fence' = c) /\ (pc'[c] = "cancel" => op'[c] # "clear")
        /\ op'[c] = "clear" =>
              /\ pc'[c] \in {"join", "acquire"} => slot'[session'[c]] = Free
              /\ pc'[c] = "wait" => slot'[session'[c]] \in {Free, awaited'[c]}
<1> USE DEF At, projects, selected, handlers
<1>1. CASE Request(c)
  <2>1. PICK request \in Requests \ {"none"} : Receive(c, request) /\ (c \in Posts => request = "run")
    BY <1>1 DEF Request, Requests
  <2> QED  BY <1>0, <2>1 DEF Receive, Alone, Fenced
<1>2. CASE Expire(c)
  BY <1>0, <1>2 DEF Expire, Alone, Fenced
<1>3. CASE StopNothing(c)
  <2>1. Alone(c) /\ pc'[c] = "join" /\ op' = op /\ UNCHANGED <<fence, slot, session>>
    BY <1>0, <1>3, GotoAlone DEF StopNothing
  <2> QED  BY <1>0, <1>3, <2>1 DEF StopNothing, Fenced
<1>4. CASE StopRefused(c)
  BY <1>0, <1>4, ReturnAlone DEF StopRefused
<1>5. CASE StopRun(c)
  <2>1. /\ pc[c] = "stop" /\ pc' = [pc EXCEPT ![c] = "wait"] /\ UNCHANGED <<fence, session, slot, op>>
        /\ awaited' = [awaited EXCEPT ![c] = slot[session[c]]]
    BY <1>5 DEF StopRun
  <2>2. pc'[c] = "wait" /\ awaited'[c] = slot[session[c]]
    BY <1>0, <2>1
  <2>3. Alone(c)  BY <1>0, <2>1 DEF Alone
  <2> QED  BY <1>0, <2>1, <2>2, <2>3 DEF Fenced
<1>6. CASE Stopped(c)
  <2>1. Alone(c) /\ pc'[c] = "join" /\ op' = op /\ UNCHANGED <<fence, slot, session>>
    BY <1>0, <1>6, GotoAlone DEF Stopped
  <2>2. pc[c] = "wait" /\ runs[awaited[c]].done  BY <1>6 DEF Stopped
  <2>3. op[c] = "clear" => slot[session[c]] = Free
    <3> SUFFICES ASSUME op[c] = "clear", slot[session[c]] # Free PROVE FALSE  OBVIOUS
    <3>1. slot[session[c]] = awaited[c] /\ session[c] \in Sessions  BY <1>0, <2>2
    <3> QED  BY <2>2, <3>1 DEF SlotInv
  <2> QED  BY <1>0, <2>1, <2>2, <2>3 DEF Fenced
<1>7. CASE StopTimesOut(c)
  BY <1>0, <1>7, ReturnAlone DEF StopTimesOut
<1>8. CASE CancelRun(c)
  <2>1. Alone(c) /\ pc'[c] = "join" /\ op' = op /\ pc[c] = "cancel"
    BY <1>0, <1>8, GotoAlone DEF CancelRun
  <2> QED  BY <1>0, <2>1 DEF Fenced
<1>9. CASE JoinCancels(c)
  <2>1. UNCHANGED <<slot, fence, session, pc, op, awaited>>  BY <1>9 DEF JoinCancels
  <2> QED  BY <1>0, <2>1 DEF Alone, Fenced
<1>10. CASE Join(c)
  <2>1. pc[c] = "join" /\ UNCHANGED <<slot, fence, session>>  BY <1>10 DEF Join
  <2>2. CASE op[c] \in {"run", "compact"}
    <3>1. Goto(c, "fence")  BY <1>10, <2>2 DEF Join
    <3>2. Alone(c) /\ pc'[c] = "fence"  BY <1>0, <2>1, <3>1, GotoAlone
    <3> QED  BY <3>2 DEF Fenced
  <2>3. CASE op[c] = "clear"
    <3>1. Goto(c, "acquire")  BY <1>10, <2>3 DEF Join
    <3>2. Alone(c) /\ pc'[c] = "acquire" /\ op' = op  BY <1>0, <2>1, <3>1, GotoAlone
    <3> QED  BY <1>0, <2>1, <2>3, <3>2 DEF Fenced
  <2>4. CASE op[c] \notin {"run", "compact", "clear"}
    <3>1. Return(c)  BY <1>10, <2>4 DEF Join
    <3> QED  BY <1>0, <2>1, <3>1, ReturnAlone
  <2> QED  BY <2>2, <2>3, <2>4
<1>11. CASE Lock(c)
  <2>1. fence = Nobody /\ fence' = c /\ UNCHANGED <<slot, session>>  BY <1>11, Zenon DEF Lock, selected
  <2>2. PICK next \in {"stop", "resume", "switch", "acquire"} :
            Goto(c, next) /\ (next = "acquire" => op[c] # "clear")
    <3>1. CASE op[c] = "clear"  BY <1>11, <3>1 DEF Lock
    <3>2. CASE op[c] \in {"resume", "switch"}  BY <1>11, <3>2 DEF Lock
    <3>3. CASE op[c] \notin {"clear", "resume", "switch"}  BY <1>11, <3>3 DEF Lock
    <3> QED  BY <3>1, <3>2, <3>3
  <2>3. Alone(c) /\ pc'[c] = next /\ op' = op  BY <1>0, <2>1, <2>2, GotoAlone
  <2> QED  BY <2>1, <2>2, <2>3
<1>12. CASE LockTooLate(c)
  BY <1>0, <1>12, ReturnAlone DEF LockTooLate
<1>13. CASE Switch(c)
  <2>1. \A d \in Clients \ {c} : session'[d] = session[d]  BY <1>0, <1>13 DEF Switch
  <2> QED  BY <1>0, <1>13, <2>1, ReturnAlone DEF Switch
<1>14. CASE SelectionRefused(c)
  BY <1>0, <1>14, ReturnAlone DEF SelectionRefused
<1>15. CASE Resume(c)
  <2>1. \A d \in Clients \ {c} : session'[d] = session[d]  BY <1>0, <1>15 DEF Resume
  <2> QED  BY <1>0, <1>15, <2>1, ReturnAlone DEF Resume
<1>16. CASE AcquireRefused(c)
  BY <1>0, <1>16, ReturnAlone DEF AcquireRefused
<1> QED
  BY <1>1, <1>2, <1>3, <1>4, <1>5, <1>6, <1>7, <1>8, <1>9, <1>10, <1>11, <1>12, <1>13, <1>14,
     <1>15, <1>16 DEF OutsideStep

\* A handler's step that hands out no lease keeps the three of them.
LEMMA AloneKeeps ==
    ASSUME FencedInv, NEW c \in Clients, Alone(c), Shrinks,
           Fenced(c)' => fence' = c, pc'[c] = "cancel" => op'[c] # "clear",
           op'[c] = "clear" =>
               /\ pc'[c] \in {"join", "acquire"} => slot'[session'[c]] = Free
               /\ pc'[c] = "wait" => slot'[session'[c]] \in {Free, awaited'[c]}
    PROVE  FenceInv' /\ SlotInv' /\ ClearInv'
<1>1. FenceInv /\ SlotInv /\ ClearInv /\ TypeOK  BY DEF FencedInv, IInv
<1>2. FenceInv'  BY <1>1, FenceKept
<1>3. SlotInv'  BY <1>1, SlotKept
<1>4. ClearInv'  BY <1>1, ClearKept
<1> QED  BY <1>2, <1>3, <1>4

LEMMA AcquireFenced ==
    ASSUME FencedInv, NEW c \in Clients, Acquire(c)
    PROVE  FenceInv' /\ SlotInv' /\ ClearInv'
<1> DEFINE l == lastLease + 1
<1>0. /\ IInv /\ runs \in [Leases -> Run] /\ slot \in [Sessions -> 0..lastLease]
      /\ lastLease \in Nat /\ MaxLeases \in Nat /\ session[c] \in Sessions
      /\ pc \in [Clients -> Places]
  BY BoundsAssumption DEF FencedInv, IInv, TypeOK
<1>1. /\ lastLease' = l /\ slot' = [slot EXCEPT ![session[c]] = l]
      /\ runs' = [runs EXCEPT ![l] = [NoRun EXCEPT !.owner = c, !.on = session[c],
                                                   !.made = generation, !.task = "setup"]]
      /\ pc[c] = "acquire"
      /\ pc' = [pc EXCEPT ![c] = IF op[c] = "clear" THEN "mutate" ELSE "snapshot"]
      /\ UNCHANGED <<op, awaited, session>>
  BY DEF Acquire, At, TakeLease, Goto, selected
<1>2. l \in Leases
  <2>1. IInv'  BY <1>0, AcquireKeeps
  <2>2. lastLease' \in 0..MaxLeases  BY <2>1 DEF IInv, TypeOK
  <2> QED  BY <1>0, <1>1, <2>2 DEF Leases
<1>3. /\ \A m \in Leases \ {l} : runs'[m] = runs[m]
      /\ runs'[l].on = session[c] /\ ~runs'[l].done
  BY <1>0, <1>1, <1>2 DEF NoRun
<1>4. fence = c /\ \A d \in Clients \ {c} : ~Fenced(d)
  <2>1. fence = c  BY <1>1 DEF FencedInv, FenceInv, Fenced
  <2> QED  BY <2>1 DEF FencedInv, FenceInv
<1>5. /\ \A d \in Clients \ {c} : pc'[d] = pc[d]
      /\ pc'[c] \in {"mutate", "snapshot"}
      /\ pc'[c] = "snapshot" => fence' = fence
  <2>1. pc'[c] = (IF op[c] = "clear" THEN "mutate" ELSE "snapshot")  BY <1>0, <1>1
  <2>2. op[c] # "clear" => fence' = fence  BY DEF Acquire
  <2> QED  BY <1>0, <1>1, <2>1, <2>2
<1>6. FenceInv'
  <2> SUFFICES ASSUME NEW d \in Clients
               PROVE  (Fenced(d)' => fence' = d) /\ (pc'[d] = "cancel" => op'[d] # "clear")
    BY DEF FenceInv
  <2>1. CASE d = c
    <3>1. Fenced(c)' => pc'[c] = "snapshot"  BY <1>5 DEF Fenced
    <3> QED  BY <1>4, <1>5, <2>1, <3>1
  <2>2. CASE d # c
    <3>1. Fenced(d)' => Fenced(d)  BY <1>1, <1>5, <2>2 DEF Fenced
    <3> QED  BY <1>1, <1>4, <1>5, <2>2, <3>1 DEF FencedInv, FenceInv
  <2> QED  BY <2>1, <2>2
<1>7. SlotInv'
  <2> SUFFICES ASSUME NEW s \in Sessions, slot'[s] # 0
               PROVE  runs'[slot'[s]].on = s /\ ~runs'[slot'[s]].done
    BY DEF SlotInv, Free
  <2>1. CASE s = session[c]  BY <1>0, <1>1, <1>3, <2>1
  <2>2. CASE s # session[c]
    <3>1. slot'[s] = slot[s] /\ slot[s] \in Leases /\ slot[s] # l
      BY <1>0, <1>1, <1>2, <2>2 DEF Leases
    <3> QED  BY <1>3, <3>1 DEF FencedInv, SlotInv, Free
  <2> QED  BY <2>1, <2>2
<1>8. ClearInv'
  <2> SUFFICES ASSUME NEW d \in Clients, op'[d] = "clear"
               PROVE  pc'[d] \notin {"join", "acquire", "wait"}
    BY DEF ClearInv
  <2>1. CASE d = c  BY <1>5, <2>1
  <2>2. CASE d # c
    <3>1. ~Fenced(d) /\ op[d] = "clear"  BY <1>1, <1>4, <2>2
    <3> QED  BY <1>5, <2>2, <3>1 DEF Fenced
  <2> QED  BY <2>1, <2>2
<1> QED  BY <1>6, <1>7, <1>8

LEMMA SnapshotFenced ==
    ASSUME FencedInv, NEW c \in Clients, Snapshot(c)
    PROVE  FenceInv' /\ SlotInv' /\ ClearInv'
<1>0. IInv /\ TypeOK /\ runs \in [Leases -> Run]  BY DEF FencedInv, IInv, TypeOK
<1>1. /\ runs' = [runs EXCEPT ![Mine(c)].view = transcript[session[c]]]
      /\ pc[c] = "snapshot" /\ UNCHANGED <<slot, session>>
  BY DEF Snapshot, At, selected
<1>2. Mine(c) \in Leases  BY <1>0, <1>1, MineFacts DEF SetupPlaces
<1>3. \A m \in Leases : runs'[m].on = runs[m].on /\ runs'[m].done = runs[m].done
  BY <1>0, <1>1, <1>2 DEF Run
<1>4. Shrinks  BY <1>1, <1>3 DEF Shrinks
<1>5. fence = c  BY <1>1 DEF FencedInv, FenceInv, Fenced
<1>6. CASE op[c] = "compact"
  <2>1. Goto(c, "mutate") /\ Unlock(c)  BY <1>6 DEF Snapshot
  <2>2. Alone(c) /\ pc'[c] = "mutate"  BY <1>0, <1>1, <2>1, GotoAlone
  <2>3. ~Fenced(c)'  BY <2>2 DEF Fenced
  <2> QED  BY <1>4, <2>2, <2>3, AloneKeeps
<1>7. CASE op[c] # "compact"
  <2>1. Goto(c, "register") /\ fence' = fence  BY <1>7 DEF Snapshot
  <2>2. Alone(c) /\ pc'[c] = "register"  BY <1>0, <1>1, <2>1, GotoAlone
  <2> QED  BY <1>4, <1>5, <2>1, <2>2, AloneKeeps
<1> QED  BY <1>6, <1>7

LEMMA LeavesFenced ==
    ASSUME FencedInv, NEW c \in Clients, Leaves(c)
    PROVE  FenceInv' /\ SlotInv' /\ ClearInv'
<1>0. /\ IInv /\ TypeOK /\ runs \in [Leases -> Run] /\ slot \in [Sessions -> 0..lastLease]
      /\ session[c] \in Sessions
  BY DEF FencedInv, IInv, TypeOK
<1>1. /\ pc[c] \in SetupPlaces /\ Return(c) /\ UNCHANGED session
      /\ Unlock(c) \/ fence' = fence
      /\ Passed(c, Mine(c))
  BY <1>0, LeavesPassed
<1>2. PICK l \in Leases : l = Mine(c)  BY <1>0, <1>1, MineFacts
<1>3. runs[l].on = session[c] /\ slot[session[c]] = l  BY <1>0, <1>1, <1>2, MineFacts
<1>4. Alone(c) /\ ~Fenced(c)' /\ pc'[c] \notin {"cancel", "join", "acquire", "wait"}
  BY <1>0, <1>1, ReturnAlone
<1>5. \A s \in Sessions : slot'[s] \in {Free, slot[s]}
  BY <1>0, <1>1 DEF Passed
<1>6. /\ \A m \in Leases \ {l} : runs'[m] = runs[m]
      /\ runs'[l].on = runs[l].on
  BY <1>1, <1>2 DEF Passed
<1>7. runs'[l].done = runs[l].done \/ slot'[runs[l].on] # l
  <2>1. CASE Register(c)
    <3>1. runs' = [runs EXCEPT ![l].controlled = TRUE, ![l].task = "ready",
                               ![l].engine = "ready"]
      BY <1>2, <2>1 DEF Register
    <3> QED  BY <1>0, <3>1 DEF Run
  <2>2. CASE SetupDropped(c)
    <3>1. runs' = [runs EXCEPT ![l].task = "dropped"]
      BY <1>2, <2>2 DEF SetupDropped
    <3> QED  BY <1>0, <3>1 DEF Run
  <2>3. CASE SnapshotFails(c) \/ Mutate(c)
    <3>1. slot' = [slot EXCEPT ![session[c]] = IF @ = l THEN Free ELSE @]
      BY <1>2, <1>3, <2>3 DEF SnapshotFails, Mutate, Finished
    <3>2. l # Free  BY BoundsAssumption DEF Leases, Free
    <3> QED  BY <1>0, <1>3, <3>1, <3>2
  <2> QED  BY <2>1, <2>2, <2>3 DEF Leaves
<1>8. Shrinks  BY <1>5, <1>6, <1>7 DEF Shrinks
<1> QED  BY <1>4, <1>8, AloneKeeps

\* A step of no handler: the runs go on, or are cancelled from outside.
LEMMA NobodyKeeps ==
    ASSUME FencedInv, Shrinks, UNCHANGED <<fence, session, pc, op, awaited>>
    PROVE  FenceInv' /\ SlotInv' /\ ClearInv'
<1>1. FenceInv /\ SlotInv /\ ClearInv /\ TypeOK  BY DEF FencedInv, IInv
<1>2. FenceInv'  BY <1>1 DEF FenceInv, Fenced
<1>3. SlotInv'  BY <1>1, SlotKept
<1>4. ClearInv'
  <2>1. \A d \in Clients : slot'[session[d]] \in {Free, slot[session[d]]}
    BY <1>1 DEF TypeOK, Shrinks
  <2> QED  BY <1>1, <2>1 DEF ClearInv
<1> QED  BY <1>2, <1>3, <1>4

LEMMA RunStepFenced ==
    ASSUME FencedInv, NEW l \in Leases, RunStep(l)
    PROVE  FenceInv' /\ SlotInv' /\ ClearInv'
<1>0. /\ IInv /\ runs \in [Leases -> Run] /\ slot \in [Sessions -> 0..lastLease]
      /\ runs[l].on \in Sessions /\ l # Free
  <2>1. IInv /\ runs \in [Leases -> Run] /\ slot \in [Sessions -> 0..lastLease]
    BY DEF FencedInv, IInv, TypeOK
  <2>2. runs[l].on \in Sessions  BY <2>1 DEF Run
  <2>3. l # Free  BY BoundsAssumption DEF Leases, Free
  <2> QED  BY <2>1, <2>2, <2>3
<1>1. Advanced(l)  BY <1>0, RunStepAdvanced
<1>2. UNCHANGED <<fence, session, pc, op, awaited>>
  BY DEF RunStep, TaskStep, Start, Report, Finish, Release, Commit, Say, Panic,
         handlers, selected, projects
<1>3. runs'[l].done = runs[l].done \/ slot'[runs[l].on] # l
  <2>1. CASE Finish(l) \/ Release(l)
    <3>1. slot' = [slot EXCEPT ![runs[l].on] = IF @ = l THEN Free ELSE @]
      BY <2>1 DEF Finish, Release, Finished
    <3>2. slot'[runs[l].on] = (IF slot[runs[l].on] = l THEN Free ELSE slot[runs[l].on])
      BY <1>0, <3>1
    <3> QED  BY <1>0, <3>2
  <2>2. CASE ~(Finish(l) \/ Release(l))
    <3>1. Start(l) \/ Report(l) \/ Commit(l) \/ Say(l) \/ Panic(l)
      BY <2>2 DEF RunStep, TaskStep
    <3> QED  BY <1>0, <3>1 DEF Start, Report, Commit, Say, Panic, Run
  <2> QED  BY <2>1, <2>2
<1>4. Shrinks
  <2>1. \A s \in Sessions : slot'[s] \in {Free, slot[s]}
    BY <1>0, <1>1 DEF Advanced
  <2> QED  BY <1>1, <1>3, <2>1 DEF Shrinks, Advanced
<1> QED  BY <1>2, <1>4, NobodyKeeps

LEMMA CancelPostFenced ==
    ASSUME FencedInv, NEW s \in Sessions, CancelPost(s)
    PROVE  FenceInv' /\ SlotInv' /\ ClearInv'
<1>0. runs \in [Leases -> Run]  BY DEF FencedInv, IInv, TypeOK
<1>1. runs' = Cancelled({slot[s]}) /\ UNCHANGED <<slot, fence, session, pc, op, awaited>>
  BY DEF CancelPost, handlers, projects, selected
<1>2. \A l \in Leases : runs'[l].on = runs[l].on /\ runs'[l].done = runs[l].done
  BY <1>0, <1>1 DEF Cancelled, Run
<1>3. Shrinks  BY <1>1, <1>2 DEF Shrinks
<1> QED  BY <1>1, <1>3, NobodyKeeps

LEMMA NextFenced ==
    ASSUME FencedInv, [Next]_vars
    PROVE  FencedInv'
<1>0. IInv'  BY NextInvariant DEF FencedInv
<1>1. CASE UNCHANGED vars
  BY <1>0, <1>1 DEF FencedInv, FenceInv, Fenced, SlotInv, ClearInv, vars
<1>2. ASSUME NEW c \in Clients,
             Request(c) \/ Expire(c) \/ Handle(c) \/ StopTimesOut(c)
      PROVE  FencedInv'
  <2>1. \/ Request(c) \/ OutsideStep(c) \/ Acquire(c) \/ Snapshot(c) \/ Leaves(c)
    BY <1>2 DEF Handle, OutsideStep, Leaves
  <2>2. CASE Request(c) \/ OutsideStep(c)
    <3>1. IInv /\ FenceInv /\ SlotInv /\ ClearInv  BY DEF FencedInv
    <3>2. Shrinks  BY <2>2, <3>1, OutsideShrinks
    <3> QED  BY <1>0, <2>2, <3>1, <3>2, OutsideFenced, AloneKeeps DEF FencedInv
  <2>3. CASE Acquire(c) \/ Snapshot(c) \/ Leaves(c)
    BY <1>0, <2>3, AcquireFenced, SnapshotFenced, LeavesFenced DEF FencedInv
  <2> QED  BY <2>1, <2>2, <2>3
<1>3. ASSUME NEW l \in Leases, TaskStep(l) \/ Commit(l) \/ Say(l) \/ Panic(l)
      PROVE  FencedInv'
  BY <1>0, <1>3, RunStepFenced DEF FencedInv, RunStep
<1>4. ASSUME NEW s \in Sessions, CancelPost(s) PROVE FencedInv'
  BY <1>0, <1>4, CancelPostFenced DEF FencedInv
<1> QED  BY <1>1, <1>2, <1>3, <1>4 DEF Next

LEMMA InitFenced == Init => FencedInv
<1> SUFFICES ASSUME Init PROVE FencedInv  OBVIOUS
<1>1. FenceInv /\ ClearInv  BY DEF Init, FenceInv, Fenced, ClearInv
<1>2. SlotInv  BY DEF Init, SlotInv
<1> QED  BY <1>1, <1>2, InitInvariant DEF FencedInv

\* No new writer enters between the end of the run a Clear has stopped and the Clear
\* itself, whichever handlers contend for the session.
THEOREM ClearOwnsTheGap == Spec => []ClearFindsSlotFree
<1>1. Init => FencedInv  BY InitFenced
<1>2. FencedInv /\ [Next]_vars => FencedInv'  BY NextFenced
<1>3. FencedInv => ClearFindsSlotFree
  BY DEF FencedInv, ClearInv, ClearFindsSlotFree, At, Clients
<1> QED  BY <1>1, <1>2, <1>3, PTL DEF Spec
=============================================================================
