---------------------------- MODULE VscRemapProofs ----------------------------
(***************************************************************************)
(* Theorems about RemapVolumeSnapshotContents, for any set of VSCs and any *)
(* number of failed calls, kills and runs.                                 *)
(***************************************************************************)
EXTENDS VscRemap, TLAPS

-----------------------------------------------------------------------------
(***************************************************************************)
(* The inductive invariant.  What a run may undo it must have recorded,    *)
(* and what it recorded is what the run found: RunInv relates the cluster, *)
(* the process's memory and `before` at each step of the three modes.      *)
(***************************************************************************)
EndPcs == {"idle", "done"}
OnVSC == {"patchVSC", "deleteVSC", "waitGone", "createVSC"}
StopPcs == {"stop", "waitStopped"}
RecoveryPcs == {"startEtcd", "waitEtcdStarted", "restorePause"}
RollbackPcs == {"getCV", "putCV", "nextVSC"} \cup StopPcs \cup OnVSC
ResumePcs == {"start", "waitStarted", "getCV2", "putCV2"}
EarlyPcs == {"pauseHC", "waitHCP", "stopEtcd", "waitEtcdStopped", "getCV", "putCV"} \cup StopPcs
LatePcs == OnVSC \cup ResumePcs \cup {"verify", "waitReady", "unpause"}

\* Which steps each mode takes, and that main leaves at its first failure.
ModeInv ==
    /\ mode = "rollback" => started /\ pc \in RollbackPcs
    /\ mode = "recovery" => pc \in ResumePcs \cup RecoveryPcs \cup {"idle"}
    /\ mode = "main" => pc \notin RecoveryPcs
    /\ mode = "main" /\ pc # "idle" => ~recoveryFailed /\ ~answerLost
    /\ mode = "main" /\ pc \in EarlyPcs => ~started
    /\ mode = "main" /\ pc \in LatePcs => started
    /\ mode = "main" /\ pc # "idle" /\ ~started => todo = VSC

\* What the controllers cannot undo: they are off, from the first to the last,
\* and none is managed by the ClusterVersion.
Off(w) == replicas[w] = 0 /\ running[w] = 0

StopInv ==
    /\ pc \in StopPcs \cup OnVSC \cup {"nextVSC"} => overrides = AllUnmanaged
    /\ pc \in StopPcs => \A w \in Controllers : w < n => Off(w)
    /\ pc = "waitStopped" => replicas[n] = 0
    /\ pc \in OnVSC \cup {"nextVSC"} => \A w \in Controllers : Off(w)
    /\ mode = "main" /\ pc \notin EndPcs =>
        /\ pc # "pauseHC" => hcPause = "true"
        /\ pc \notin {"pauseHC", "waitHCP"} => hcpPause = "true"
        /\ pc \notin {"pauseHC", "waitHCP", "stopEtcd"} => replicas[Etcd] = 0
        /\ pc \notin {"pauseHC", "waitHCP", "stopEtcd", "waitEtcdStopped"} => running[Etcd] = 0

\* No VSC is ever left deleting: it has lost its finalizer before.
VscInv ==
    /\ destroyed = {}
    /\ \A v \in VSC : vsc[v] # Absent => ~vsc[v].deleting
    /\ pc \in {"patchVSC", "deleteVSC"} => vsc[cur] # Absent
    /\ pc = "deleteVSC" => ~vsc[cur].finalizer
    /\ pc \in {"waitGone", "createVSC"} => vsc[cur] = Absent

\* What the run remembers of the cluster it found.
Recorded(w) == state.replicas[w] # Unrecorded
HandlesOf(c) == [v \in VSC |-> c[v].handle]

BeforeOK ==
    before \in [hcPause : Pauses, replicas : [Workloads -> 0..1],
                overrides : [Controllers -> OverrideState],
                handles : [VSC -> {"none", "source", "destination"}]]

MemoryInv ==
    /\ state.pause = before.hcPause
    /\ HandlesOf(originals) = before.handles
    /\ state.pausedByUs \/ answerLost \/ hcPause = before.hcPause
    /\ mode # "recovery" /\ pc # "pauseHC" => state.pausedByUs
    /\ pc \in {"putCV", "putCV2"} => cvRead.overrides = overrides

\* A workload is scaled only when its count is recorded, which it is before that.
ReplicaInv ==
    /\ \A w \in Workloads : state.replicas[w] >= before.replicas[w]
    /\ \A w \in Workloads : ~Recorded(w) => replicas[w] >= before.replicas[w]
    /\ pc \in {"pauseHC", "waitHCP"} => ~Recorded(Etcd)
    /\ pc = "stopEtcd" => Recorded(Etcd)
    /\ mode = "main" /\ pc \in EarlyPcs \ StopPcs => \A w \in Controllers : ~Recorded(w)
    /\ mode = "main" /\ pc \in StopPcs => \A w \in Controllers : Recorded(w) <=> w <= n
    /\ started \/ pc = "nextVSC" => \A w \in Controllers : Recorded(w)

\* How far the run has come in giving back what it found.
NothingIsChanged == state.changed = EmptyState.changed
BeforeIsChanged == state.changed = ChangesOf(before.overrides)
Sound == ~recoveryFailed /\ ~answerLost
AfterControllers == {"getCV2", "putCV2", "waitReady", "unpause", "done"} \cup RecoveryPcs

OverrideInv ==
    /\ mode = "main" /\ pc \in EarlyPcs \ StopPcs => NothingIsChanged /\ overrides = before.overrides
    /\ mode = "main" /\ pc \in StopPcs \cup OnVSC \cup ResumePcs \cup {"nextVSC", "verify"} =>
            BeforeIsChanged /\ overrides = AllUnmanaged
    /\ mode = "main" /\ pc \in {"waitReady", "unpause", "done"} =>
            BeforeIsChanged /\ overrides = before.overrides
    /\ mode = "rollback" => BeforeIsChanged
    /\ mode = "recovery" /\ Sound /\ pc \in ResumePcs =>
            \/ NothingIsChanged /\ overrides = before.overrides
            \/ BeforeIsChanged /\ overrides = AllUnmanaged
    /\ mode = "recovery" /\ Sound /\ pc \in RecoveryPcs => overrides = before.overrides

ResumeInv ==
    ~recoveryFailed =>
        /\ pc = "start" => \A w \in Controllers : w < n => replicas[w] >= before.replicas[w]
        /\ pc = "waitStarted" => \A w \in Controllers : w <= n => replicas[w] >= before.replicas[w]
        /\ pc \in AfterControllers => \A w \in Controllers : replicas[w] >= before.replicas[w]
        /\ pc \in {"waitEtcdStarted", "restorePause"} => replicas[Etcd] >= before.replicas[Etcd]

HandleInv ==
    /\ mode = "main" /\ ~started => HandlesOf(vsc) = before.handles
    /\ mode = "rollback" /\ pc \in EarlyPcs => todo = VSC
    /\ mode = "rollback" /\ pc = "nextVSC" =>
        \A v \in VSC : v \notin todo => vsc[v].handle = before.handles[v]
    /\ mode = "rollback" /\ pc \in OnVSC =>
        \A v \in VSC : v \notin todo /\ v # cur => vsc[v].handle = before.handles[v]
    /\ mode = "recovery" /\ ~recoveryFailed => HandlesOf(vsc) = before.handles
    /\ mode = "main" /\ pc \in {"unpause", "done"} =>
        \A v \in VSC : vsc[v] # Absent /\ vsc[v].handle = "destination" /\ vsc[v].ready

DoneInv == pc = "done" => hcPause = "none" /\ mode = "main"

RunInv == pc # "idle" => MemoryInv /\ ReplicaInv /\ OverrideInv /\ ResumeInv /\ HandleInv /\ DoneInv

IInv == TypeOK /\ BeforeOK /\ ModeInv /\ StopInv /\ VscInv /\ RunInv /\ FailedRunRestores
-----------------------------------------------------------------------------
(***************************************************************************)
(* Calls.  EffectIs reads the CASE of Effect as what each call does.       *)
(***************************************************************************)
CallPcs == {"pauseHC", "stopEtcd", "putCV", "stop", "patchVSC", "deleteVSC", "createVSC",
            "start", "putCV2", "unpause", "startEtcd", "restorePause"}

EffectIs ==
    /\ pc = "pauseHC" => SetPaused("true")
    /\ pc = "stopEtcd" => Scale(Etcd, 0)
    /\ pc = "putCV" => WriteOverrides(AllUnmanaged)
    /\ pc = "stop" => Scale(n, 0)
    /\ pc = "patchVSC" => SetVSC(cur, RetainedVSC(cur))
    /\ pc = "deleteVSC" => SetVSC(cur, DeletedVSC(cur))
    /\ pc = "createVSC" => SetVSC(cur, ReplacementVSC(cur, TargetHandle))
    /\ pc = "start" => IF Recorded(n) THEN Scale(n, state.replicas[n]) ELSE UNCHANGED cluster
    /\ pc = "putCV2" => WriteOverrides(RestoredOverrides(cvRead.overrides, state.changed))
    /\ pc = "unpause" => SetPaused("none")
    /\ pc = "startEtcd" =>
            IF Recorded(Etcd) THEN Scale(Etcd, state.replicas[Etcd]) ELSE UNCHANGED cluster
    /\ pc = "restorePause" => IF state.pausedByUs THEN SetPaused(state.pause) ELSE UNCHANGED cluster
    /\ pc \notin CallPcs => UNCHANGED cluster

\* A step makes the call of its pc.
LEMMA EffectMeans == Effect => EffectIs
BY DEF Effect, EffectIs, NoCall, Recorded, CallPcs

\* The workloads, as a set of numbers.
LEMMA WorkloadSet == /\ Workloads = {0, 1, 2, 3} /\ Controllers = {1, 2, 3} /\ Etcd \in Workloads
                     /\ Controllers \subseteq Workloads /\ Etcd \notin Controllers
BY DEF Workloads, Controllers, Etcd

\* An absent VSC is told from all contents.
LEMMA ContentHandles ==
    /\ Absent \notin Content /\ Absent.handle = "none"
    /\ \A c \in Content : c # Absent /\ c.handle \in {"source", "destination"}
BY DEF Absent, Content

\* Changes of fields keep a content one.
LEMMA ContentChanges ==
    ASSUME NEW c \in Content, NEW h \in {"source", "destination"}
    PROVE  /\ [c EXCEPT !.finalizer = FALSE, !.policy = "Retain"] \in Content
           /\ [c EXCEPT !.finalizer = TRUE, !.ready = TRUE] \in Content
           /\ [c EXCEPT !.deleting = TRUE] \in Content
           /\ [c EXCEPT !.handle = h, !.finalizer = FALSE, !.deleting = FALSE, !.ready = FALSE] \in Content
<1>1. [c EXCEPT !.finalizer = FALSE, !.policy = "Retain"] \in Content
  BY DEF Content
<1>2. [c EXCEPT !.finalizer = TRUE, !.ready = TRUE] \in Content
  BY DEF Content
<1>3. [c EXCEPT !.deleting = TRUE] \in Content
  BY DEF Content
<1>4. [c EXCEPT !.handle = h, !.finalizer = FALSE, !.deleting = FALSE, !.ready = FALSE] \in Content
  BY DEF Content
<1> QED
  BY <1>1, <1>2, <1>3, <1>4

\* What restoring the overrides a run found gives back.
LEMMA OverridesRestored ==
    \A o \in [Controllers -> OverrideState] :
        /\ RestoredOverrides(AllUnmanaged, ChangesOf(o)) = o
        /\ ChangesOf(o) \in [Controllers -> {"nothing", "absent", "managed"}]
        /\ (\A w \in Controllers : ChangesOf(o)[w] = "nothing") => o = AllUnmanaged
        /\ \A c \in [Controllers -> {"nothing", "absent", "managed"}] :
            RestoredOverrides(o, c) \in [Controllers -> OverrideState]
BY DEF RestoredOverrides, AllUnmanaged, ChangesOf, OverrideState

-----------------------------------------------------------------------------
(***************************************************************************)
(* Types, of the cluster and of the process.                               *)
(***************************************************************************)
ClusterTyped ==
    /\ hcPause \in Pauses /\ hcpPause \in Pauses
    /\ replicas \in [Workloads -> 0..1] /\ running \in [Workloads -> 0..1]
    /\ overrides \in [Controllers -> OverrideState] /\ foreign \in BOOLEAN
    /\ vsc \in [VSC -> Content \cup {Absent}]
    /\ destroyed \subseteq (VSC \X {"source", "destination"})

LEMMA EffectTyped == ASSUME TypeOK, VscInv, Effect PROVE ClusterTyped'
<1>1. EffectIs /\ ClusterTyped
  BY EffectMeans DEF TypeOK, ClusterTyped
<1>a. /\ n \in Workloads /\ state.pause \in Pauses /\ state.replicas \in [Workloads -> 0..Unrecorded]
      /\ state.changed \in [Controllers -> {"nothing", "absent", "managed"}]
      /\ cvRead.overrides \in [Controllers -> OverrideState] /\ cvRead.foreign \in BOOLEAN
  BY WorkloadSet DEF TypeOK, RemapState
<1>2. ASSUME NEW value \in Pauses, SetPaused(value) PROVE ClusterTyped'
  BY <1>1, <1>2 DEF SetPaused, ClusterTyped
<1>3. ASSUME NEW w \in Workloads, NEW count \in 0..1, Scale(w, count) PROVE ClusterTyped'
  BY <1>1, <1>3 DEF Scale, ClusterTyped
<1>4. ASSUME NEW new \in [Controllers -> OverrideState], WriteOverrides(new) PROVE ClusterTyped'
  BY <1>1, <1>4, <1>a DEF WriteOverrides, ClusterTyped
<1>5. ASSUME NEW v \in VSC, NEW c \in Content \cup {Absent}, SetVSC(v, c) PROVE ClusterTyped'
  BY <1>1, <1>5 DEF SetVSC, ClusterTyped
<1>6. CASE UNCHANGED cluster
  BY <1>1, <1>6 DEF cluster, ClusterTyped
<1>7. CASE pc \in {"pauseHC", "unpause", "restorePause"}
  BY <1>1, <1>2, <1>6, <1>7, <1>a DEF EffectIs, Pauses
<1>8. CASE pc \in {"stopEtcd", "stop", "start", "startEtcd"}
  <2>1. \A w \in Workloads : Recorded(w) => state.replicas[w] \in 0..1
    BY <1>a DEF Recorded, Unrecorded
  <2> QED
    BY <1>1, <1>3, <1>6, <1>8, <1>a, <2>1, WorkloadSet DEF EffectIs
<1>9. CASE pc \in {"putCV", "putCV2"}
  <2>1. AllUnmanaged \in [Controllers -> OverrideState]
    BY DEF AllUnmanaged, OverrideState
  <2> QED
    BY <1>1, <1>4, <1>9, <1>a, <2>1, OverridesRestored DEF EffectIs
<1>10. CASE pc \in {"patchVSC", "deleteVSC", "createVSC"}
  <2>1. cur \in VSC /\ originals[cur] \in Content /\ (pc # "createVSC" => vsc[cur] \in Content)
    BY <1>10, <1>1 DEF TypeOK, VscInv
  <2>2. TargetHandle \in {"source", "destination"}
    BY <2>1, ContentHandles DEF TargetHandle
  <2>3. /\ pc = "patchVSC" => RetainedVSC(cur) \in Content
        /\ pc = "deleteVSC" => DeletedVSC(cur) \in Content \cup {Absent}
        /\ pc = "createVSC" => ReplacementVSC(cur, TargetHandle) \in Content
    BY <1>10, <2>1, <2>2, ContentChanges DEF RetainedVSC, DeletedVSC, ReplacementVSC
  <2> QED
    BY <1>1, <1>5, <1>10, <2>1, <2>3 DEF EffectIs
<1> QED
  BY <1>1, <1>6, <1>7, <1>8, <1>9, <1>10 DEF EffectIs, CallPcs

ControlTyped == pc \in Pcs /\ mode \in {"main", "rollback", "recovery"}

ProcessTyped ==
    /\ n \in 1..3 /\ cur \in VSC /\ todo \subseteq VSC /\ started \in BOOLEAN
    /\ originals \in [VSC -> Content]
    /\ state \in RemapState
    /\ cvRead \in [overrides : [Controllers -> OverrideState], foreign : BOOLEAN,
                   current : BOOLEAN]
    /\ recoveryFailed \in BOOLEAN /\ answerLost \in BOOLEAN
    /\ faults \in 0..MaxFaults

LEMMA TypeSplit == TypeOK <=> ClusterTyped /\ ControlTyped /\ ProcessTyped
BY DEF TypeOK, ClusterTyped, ControlTyped, ProcessTyped

LEMMA EmptyTyped == EmptyState \in RemapState
BY DEF EmptyState, RemapState, Pauses, Unrecorded

\* What the process records keeps the type of its memory.
LEMMA StateTyped ==
    ASSUME NEW s \in RemapState, NEW w \in Workloads, NEW count \in 0..1,
           NEW o \in [Controllers -> OverrideState], NEW p \in Pauses
    PROVE  /\ [s EXCEPT !.pausedByUs = TRUE] \in RemapState
           /\ [s EXCEPT !.replicas[w] = count] \in RemapState
           /\ [s EXCEPT !.changed = ChangesOf(o), !.replicas[w] = count] \in RemapState
           /\ [EmptyState EXCEPT !.pause = p] \in RemapState /\ EmptyState \in RemapState
<1>1. EmptyState \in RemapState
  BY EmptyTyped
<1>2. [s.replicas EXCEPT ![w] = count] \in [Workloads -> 0..Unrecorded]
  BY DEF RemapState, Unrecorded
<1>3. ChangesOf(o) \in [Controllers -> {"nothing", "absent", "managed"}]
  BY OverridesRestored
<1>4. [s EXCEPT !.replicas[w] = count] \in RemapState
  BY <1>2 DEF RemapState
<1>5. [s EXCEPT !.changed = ChangesOf(o), !.replicas[w] = count] \in RemapState
  BY <1>2, <1>3 DEF RemapState
<1>6. [s EXCEPT !.pausedByUs = TRUE] \in RemapState
  BY DEF RemapState
<1>7. [EmptyState EXCEPT !.pause = p] \in RemapState
  BY <1>1 DEF RemapState
<1> QED
  BY <1>1, <1>4, <1>5, <1>6, <1>7

\* The command changes the cluster by its calls alone.
LEMMA ProcessCalls ==
    ASSUME Process \/ Deadline \/ CallFails \/ Crash PROVE Effect \/ UNCHANGED cluster
BY DEF Process, Begin, PauseHostedCluster, WaitHostedControlPlanePaused, StopEtcd, WaitEtcdStopped,
       ReadOverrides, OverridesConflict, SetOverrides, StopController, WaitControllerStopped,
       NextVSC, AllReplaced, RetainVSC, DeleteVSC, WaitVSCGone, CreateVSC, VerifyHandles,
       StartController, WaitControllerStarted, RestoreOverrides, WaitReady, Unpause, StartEtcd,
       WaitEtcdStarted, RestorePause, Deadline, CallFails, Crash

\* What an error does, whichever call it is of.
LEMMA ErrorTyped ==
    ASSUME TypeOK, OnError
    PROVE  /\ ControlTyped' /\ n' \in 1..3 /\ todo' \subseteq VSC /\ recoveryFailed' \in BOOLEAN
           /\ UNCHANGED <<cur, started, originals, state, cvRead, before>>
<1>1. mode' \in {"main", "rollback", "recovery"}
  BY DEF OnError, TypeOK
<1>2. pc' \in Pcs
  BY DEF OnError, TypeOK, Pcs
<1>3. todo' \subseteq VSC
  BY DEF OnError, TypeOK
<1>4. n' \in 1..3 /\ recoveryFailed' \in BOOLEAN
  BY DEF OnError, TypeOK
<1>5. UNCHANGED <<cur, started, originals, state, cvRead, before>>
  BY DEF OnError
<1> QED
  BY <1>1, <1>2, <1>3, <1>4, <1>5 DEF ControlTyped

\* Every step of the command leads to a step it has.
LEMMA ControlStep == ASSUME TypeOK, Process \/ Deadline \/ CallFails \/ Crash PROVE ControlTyped'
<1>a. ControlTyped
  BY TypeSplit
<1>1. CASE Deadline \/ CallFails
  BY <1>1, ErrorTyped DEF Deadline, CallFails
<1>2. CASE Crash \/ Begin
  BY <1>2 DEF Crash, Begin, ControlTyped, Pcs
<1>3. CASE AllReplaced
  BY <1>3, <1>a DEF AllReplaced, GoTo, ControlTyped, Pcs
<1>4. ASSUME NEW next \in Pcs, GoTo(next) PROVE ControlTyped'
  BY <1>4, <1>a DEF GoTo, ControlTyped
<1>5. \A next \in {"waitHCP", "stopEtcd", "waitEtcdStopped", "getCV", "putCV", "stop", "waitStopped",
                   "nextVSC", "patchVSC", "deleteVSC", "waitGone", "createVSC"} : next \in Pcs
  BY DEF Pcs
<1>6. \A next \in {"verify", "start", "waitStarted", "getCV2", "putCV2", "waitReady", "unpause", "done",
                   "startEtcd", "waitEtcdStarted", "restorePause", "idle"} : next \in Pcs
  BY DEF Pcs
<1>7. CASE Process /\ ~Begin /\ ~AllReplaced
  <2>1. CASE PauseHostedCluster \/ WaitHostedControlPlanePaused \/ StopEtcd \/ WaitEtcdStopped
             \/ ReadOverrides \/ OverridesConflict \/ SetOverrides \/ StopController
    BY <2>1, <1>4, <1>5, <1>6 DEF PauseHostedCluster, WaitHostedControlPlanePaused, StopEtcd,
       WaitEtcdStopped, ReadOverrides, OverridesConflict, SetOverrides, StopController
  <2>2. CASE WaitControllerStopped \/ NextVSC \/ RetainVSC \/ DeleteVSC \/ WaitVSCGone \/ CreateVSC
             \/ VerifyHandles \/ StartController
    BY <2>2, <1>4, <1>5, <1>6 DEF WaitControllerStopped, NextVSC, RetainVSC, DeleteVSC, WaitVSCGone,
       CreateVSC, VerifyHandles, StartController
  <2>3. CASE WaitControllerStarted \/ RestoreOverrides \/ WaitReady \/ Unpause \/ StartEtcd
             \/ WaitEtcdStarted \/ RestorePause
    BY <2>3, <1>4, <1>6 DEF WaitControllerStarted, RestoreOverrides, WaitReady, Unpause, StartEtcd,
       WaitEtcdStarted, RestorePause, AfterOverrides
  <2> QED
    BY <1>7, <2>1, <2>2, <2>3 DEF Process
<1> QED
  BY <1>1, <1>2, <1>3, <1>7

\* Every step of the command keeps the types of what it remembers.
LEMMA ProcessTypedStep ==
    ASSUME TypeOK, Process \/ Deadline \/ CallFails \/ Crash PROVE ProcessTyped'
<1>a. ProcessTyped /\ ClusterTyped
  BY TypeSplit
<1>b. /\ n \in 1..3 /\ cur \in VSC /\ todo \subseteq VSC /\ started \in BOOLEAN
      /\ originals \in [VSC -> Content] /\ state \in RemapState
      /\ recoveryFailed \in BOOLEAN /\ answerLost \in BOOLEAN /\ faults \in 0..MaxFaults
  BY <1>a DEF ProcessTyped
<1>1. CASE Begin
  <2>1. originals' \in [VSC -> Content]
    BY <1>1, <1>a DEF Begin, ClusterTyped
  <2>2. state' \in RemapState
    BY <1>1, <1>a, StateTyped, WorkloadSet DEF Begin, ClusterTyped, ProcessTyped
  <2>3. n' \in 1..3 /\ cur' \in VSC /\ todo' \subseteq VSC /\ cvRead' = cvRead
    BY <1>1, <1>b DEF Begin
  <2>4. started' \in BOOLEAN /\ recoveryFailed' \in BOOLEAN /\ answerLost' \in BOOLEAN
    BY <1>1 DEF Begin
  <2>5. faults' \in 0..MaxFaults
    BY <1>1, <1>b DEF Begin
  <2> QED
    BY <1>a, <2>1, <2>2, <2>3, <2>4, <2>5 DEF ProcessTyped
<1>2. ASSUME state' \in RemapState, n' \in 1..3,
             UNCHANGED <<cur, todo, started, originals, cvRead, history, faults>>
      PROVE  ProcessTyped'
  BY <1>2, <1>a DEF history, ProcessTyped
<1>3. CASE PauseHostedCluster
  BY <1>2, <1>3, <1>a, <1>b, StateTyped, WorkloadSet DEF PauseHostedCluster, ClusterTyped
<1>4. CASE WaitHostedControlPlanePaused
  <2>1. replicas[Etcd] \in 0..1 /\ Etcd \in Workloads
    BY <1>a, WorkloadSet DEF ClusterTyped
  <2>2. state' \in RemapState
    BY <1>4, <1>a, <1>b, <2>1, StateTyped DEF WaitHostedControlPlanePaused, ClusterTyped
  <2> QED
    BY <1>2, <1>4, <1>b, <2>2 DEF WaitHostedControlPlanePaused
<1>5. CASE SetOverrides
  <2>1. replicas[1] \in 0..1 /\ 1 \in Workloads /\ cvRead.overrides \in [Controllers -> OverrideState]
    BY <1>a, WorkloadSet DEF ClusterTyped, ProcessTyped
  <2>2. state' \in RemapState
    BY <1>5, <1>a, <1>b, <2>1, StateTyped DEF SetOverrides, ClusterTyped
  <2> QED
    BY <1>2, <1>5, <2>2 DEF SetOverrides
<1>6. CASE WaitControllerStopped
  <2>1. n < 3 => n + 1 \in 1..3 /\ n + 1 \in Workloads
    BY <1>b, WorkloadSet
  <2>2. n < 3 => replicas[n + 1] \in 0..1
    BY <1>a, <2>1 DEF ClusterTyped
  <2>3. state' \in RemapState
    <3>1. CASE state' = [state EXCEPT !.replicas[n + 1] = replicas[n + 1]] /\ n < 3
      BY <3>1, <1>a, <1>b, <2>1, <2>2, StateTyped DEF ClusterTyped
    <3> QED
      BY <1>6, <1>b, <3>1 DEF WaitControllerStopped
  <2>4. n' \in 1..3
    BY <1>6, <2>1 DEF WaitControllerStopped
  <2> QED
    BY <1>2, <1>6, <2>3, <2>4 DEF WaitControllerStopped
<1>7. CASE ReadOverrides
  <2>1. cvRead' \in [overrides : [Controllers -> OverrideState], foreign : BOOLEAN, current : BOOLEAN]
    BY <1>7, <1>a DEF ReadOverrides, ClusterTyped
  <2> QED
    BY <1>7, <1>b, <2>1 DEF ReadOverrides, history, ProcessTyped
<1>8. CASE NextVSC
  <2>1. cur' \in VSC /\ todo' \subseteq VSC /\ started' \in BOOLEAN
    BY <1>8, <1>b DEF NextVSC
  <2> QED
    BY <1>8, <1>a, <2>1 DEF NextVSC, history, ProcessTyped
<1>9. CASE AllReplaced \/ VerifyHandles
  BY <1>2, <1>9, <1>b DEF AllReplaced, VerifyHandles
<1>10. CASE WaitControllerStarted
  <2>1. n' \in 1..3
    BY <1>10, <1>b DEF WaitControllerStarted
  <2> QED
    BY <1>2, <1>10, <1>b, <2>1 DEF WaitControllerStarted
<1>11. CASE UNCHANGED <<local, history, faults>>
  BY <1>11, <1>a DEF local, history, ProcessTyped
<1>12. CASE Deadline \/ CallFails
  <2>1. answerLost' \in BOOLEAN
    BY <1>12, <1>b DEF Deadline, CallFails
  <2>2. faults' \in 0..MaxFaults
    BY <1>12, <1>b, VscAssumption DEF Deadline, CallFails
  <2>3. OnError
    BY <1>12 DEF Deadline, CallFails
  <2> QED
    BY <1>a, <2>1, <2>2, <2>3, ErrorTyped DEF ProcessTyped
<1>13. CASE Crash
  <2>1. faults' \in 0..MaxFaults
    BY <1>13, <1>b, VscAssumption DEF Crash
  <2>2. state' \in RemapState
    BY <1>13, <1>a, StateTyped, WorkloadSet DEF Crash, ClusterTyped, ProcessTyped
  <2>3. n' \in 1..3 /\ todo' \subseteq VSC
    BY <1>13 DEF Crash
  <2>4. recoveryFailed' \in BOOLEAN /\ started' \in BOOLEAN
    BY <1>13 DEF Crash
  <2> QED
    BY <1>13, <1>a, <2>1, <2>2, <2>3, <2>4 DEF Crash, ProcessTyped
<1>14. CASE StopEtcd \/ WaitEtcdStopped \/ OverridesConflict \/ StopController \/ RetainVSC \/ DeleteVSC
            \/ WaitVSCGone \/ CreateVSC \/ StartController \/ RestoreOverrides \/ WaitReady \/ Unpause
            \/ StartEtcd \/ WaitEtcdStarted \/ RestorePause
  BY <1>11, <1>14 DEF StopEtcd, WaitEtcdStopped, OverridesConflict, StopController, RetainVSC, DeleteVSC,
        WaitVSCGone, CreateVSC, StartController, RestoreOverrides, WaitReady, Unpause, StartEtcd,
        WaitEtcdStarted, RestorePause
<1> QED
  BY <1>1, <1>3, <1>4, <1>5, <1>6, <1>7, <1>8, <1>9, <1>10, <1>12, <1>13, <1>14 DEF Process

EnvActions == Environment \/ ForeignOverride

\* The others change the cluster, and whether a read is current.
LEMMA EnvTyped == ASSUME TypeOK, EnvActions PROVE TypeOK'
<1>a. ProcessTyped /\ ControlTyped /\ ClusterTyped
  BY TypeSplit
<1>1. ProcessTyped' /\ ControlTyped'
  <2>1. Actor /\ (UNCHANGED cvRead \/ cvRead' = [cvRead EXCEPT !.current = FALSE])
    BY DEF EnvActions, Environment, ForeignOverride, PropagatePause, ReconcileEtcd, ReconcileController,
           PodsFollow, ReconcileVSC
  <2>2. cvRead' \in [overrides : [Controllers -> OverrideState], foreign : BOOLEAN, current : BOOLEAN]
    BY <1>a, <2>1 DEF ProcessTyped
  <2> QED
    BY <1>a, <2>1, <2>2 DEF Actor, history, ProcessTyped, ControlTyped
<1>2. ASSUME PropagatePause PROVE ClusterTyped'
  BY <1>2, <1>a DEF PropagatePause, ClusterTyped
<1>3. ASSUME ForeignOverride PROVE ClusterTyped'
  BY <1>3, <1>a DEF ForeignOverride, ClusterTyped
<1>4. ASSUME NEW w \in Workloads, Scale(w, 1) PROVE ClusterTyped'
  BY <1>4, <1>a DEF Scale, ClusterTyped
<1>5. ASSUME NEW w \in Workloads, PodsFollow(w) PROVE ClusterTyped'
  BY <1>5, <1>a DEF PodsFollow, ClusterTyped
<1>6. ASSUME NEW v \in VSC, ReconcileVSC(v) PROVE ClusterTyped'
  <2>1. vsc[v] \in Content /\ Adopted(v) \in Content /\ vsc[v].handle \in {"source", "destination"}
    BY <1>6, <1>a, ContentChanges, ContentHandles DEF ReconcileVSC, Adopted, ClusterTyped
  <2> QED
    BY <1>6, <1>a, <2>1 DEF ReconcileVSC, ClusterTyped
<1>7. ASSUME ReconcileEtcd PROVE ClusterTyped'
  BY <1>4, <1>7, WorkloadSet DEF ReconcileEtcd
<1>8. ASSUME NEW w \in Controllers, ReconcileController(w) PROVE ClusterTyped'
  BY <1>4, <1>8, WorkloadSet DEF ReconcileController
<1>9. ClusterTyped'
  <2>1. CASE \E w \in Controllers : ReconcileController(w)
    BY <2>1, <1>8
  <2>2. CASE \E w \in Workloads : PodsFollow(w)
    BY <2>2, <1>5
  <2>3. CASE \E v \in VSC : ReconcileVSC(v)
    BY <2>3, <1>6
  <2> QED
    BY <1>2, <1>3, <1>7, <2>1, <2>2, <2>3 DEF EnvActions, Environment
<1> QED
  BY <1>1, <1>9 DEF TypeOK, ClusterTyped, ControlTyped, ProcessTyped

\* Every step keeps the types.
LEMMA TypeStep == TypeOK /\ VscInv /\ [Next]_vars => TypeOK'
<1> SUFFICES ASSUME TypeOK, VscInv, [Next]_vars PROVE TypeOK'
  OBVIOUS
<1>1. CASE Process \/ Deadline \/ CallFails \/ Crash
  <2>1. ClusterTyped'
    <3>1. CASE UNCHANGED cluster
      BY <3>1 DEF cluster, TypeOK, ClusterTyped
    <3> QED
      BY <1>1, <3>1, ProcessCalls, EffectTyped
  <2> QED
    BY <1>1, <2>1, ControlStep, ProcessTypedStep DEF TypeOK, ClusterTyped, ControlTyped, ProcessTyped
<1>2. CASE Environment \/ ForeignOverride
  BY <1>2, EnvTyped DEF EnvActions
<1>3. CASE UNCHANGED vars
  BY <1>3 DEF vars, cluster, local, history, TypeOK
<1> QED
  BY <1>1, <1>2, <1>3 DEF Next

-----------------------------------------------------------------------------
(***************************************************************************)
(* The modes.                                                              *)
(***************************************************************************)
\* A step of the three modes that is not an error leaves the mode and the history.
LEMMA ModeStep == TypeOK /\ ModeInv /\ [Next]_vars => ModeInv'
<1> SUFFICES ASSUME TypeOK, ModeInv, [Next]_vars PROVE ModeInv'
  OBVIOUS
<1> USE DEF ModeInv, RollbackPcs, RecoveryPcs, ResumePcs, EarlyPcs, LatePcs, StopPcs, OnVSC
<1>1. CASE EnvActions \/ UNCHANGED vars
  <2>1. UNCHANGED <<pc, mode, started, todo, recoveryFailed, answerLost>>
    BY <1>1 DEF EnvActions, Environment, ForeignOverride, PropagatePause, ReconcileEtcd, ReconcileController,
           PodsFollow, ReconcileVSC, Actor, history, vars, local
  <2> QED
    BY <2>1
<1>2. CASE Deadline \/ CallFails
  <2>1. OnError /\ pc \notin {"idle", "done", "nextVSC"}
    BY <1>2 DEF Deadline, CallFails, Waits
  <2>2. started' = started /\ recoveryFailed' = (recoveryFailed \/ mode # "main")
    BY <2>1 DEF OnError
  <2>3. mode \in {"main", "rollback", "recovery"}
    BY DEF TypeOK
  <2>4. CASE mode = "main"
    <3>1. CASE started
      BY <2>1, <2>2, <2>4, <3>1 DEF OnError
    <3>2. CASE ~started
      BY <2>1, <2>2, <2>4, <3>2 DEF OnError
    <3> QED
      BY <3>1, <3>2
  <2>5. CASE mode = "rollback"
    BY <2>1, <2>2, <2>5 DEF OnError
  <2>6. CASE mode = "recovery"
    BY <2>1, <2>2, <2>6 DEF OnError
  <2> QED
    BY <2>3, <2>4, <2>5, <2>6
<1>3. CASE Crash
  BY <1>3 DEF Crash
<1>4. CASE Begin
  BY <1>4 DEF Begin
<1>5. CASE NextVSC
  BY <1>5 DEF NextVSC, GoTo, history
<1>6. CASE AllReplaced
  BY <1>6, VscAssumption DEF AllReplaced, GoTo, history
<1>7. CASE UNCHANGED <<started, todo, history, mode>> /\ Process /\ ~AllReplaced /\ ~Begin /\ ~NextVSC
  <2>1. UNCHANGED <<started, todo, recoveryFailed, answerLost, mode>>
    BY <1>7 DEF history
  <2>2. CASE PauseHostedCluster \/ WaitHostedControlPlanePaused \/ StopEtcd \/ WaitEtcdStopped
             \/ ReadOverrides \/ OverridesConflict \/ SetOverrides \/ StopController
    BY <2>1, <2>2 DEF PauseHostedCluster, WaitHostedControlPlanePaused, StopEtcd,
       WaitEtcdStopped, ReadOverrides, OverridesConflict, SetOverrides, StopController, GoTo
  <2>3. CASE WaitControllerStopped \/ RetainVSC \/ DeleteVSC \/ WaitVSCGone \/ CreateVSC
             \/ VerifyHandles \/ StartController
    BY <2>1, <2>3 DEF WaitControllerStopped, RetainVSC, DeleteVSC, WaitVSCGone,
       CreateVSC, VerifyHandles, StartController, GoTo
  <2>4. CASE WaitControllerStarted \/ RestoreOverrides \/ WaitReady \/ Unpause \/ StartEtcd
             \/ WaitEtcdStarted \/ RestorePause
    BY <2>1, <2>4 DEF WaitControllerStarted, RestoreOverrides, WaitReady, Unpause, StartEtcd,
       WaitEtcdStarted, RestorePause, AfterOverrides, GoTo, TypeOK
  <2> QED
    BY <1>7, <2>2, <2>3, <2>4 DEF Process
<1>8. Process /\ ~AllReplaced /\ ~Begin /\ ~NextVSC => UNCHANGED <<started, todo, history, mode>>
  BY DEF Process, PauseHostedCluster, WaitHostedControlPlanePaused, StopEtcd, WaitEtcdStopped,
       ReadOverrides, OverridesConflict, SetOverrides, StopController, WaitControllerStopped,
       RetainVSC, DeleteVSC, WaitVSCGone, CreateVSC, VerifyHandles,
       StartController, WaitControllerStarted, RestoreOverrides, WaitReady, Unpause, StartEtcd,
       WaitEtcdStarted, RestorePause, GoTo, local
<1> QED
  BY <1>1, <1>2, <1>3, <1>4, <1>5, <1>6, <1>7, <1>8 DEF Next, EnvActions

-----------------------------------------------------------------------------
(***************************************************************************)
(* What is stopped stays stopped.                                          *)
(***************************************************************************)
\* No operator brings back a controller below the first that is still deployed.
LEMMA StopEnv == TypeOK /\ StopInv /\ EnvActions => StopInv'
<1> SUFFICES ASSUME TypeOK, StopInv, EnvActions PROVE StopInv'
  OBVIOUS
<1> USE DEF StopInv, StopPcs, OnVSC, EndPcs, Off
<1>0. UNCHANGED <<pc, mode, n>>
  BY DEF EnvActions, Environment, ForeignOverride, PropagatePause, ReconcileEtcd, ReconcileController,
           PodsFollow, ReconcileVSC, Actor
<1>a. n \in 1..3 /\ replicas \in [Workloads -> 0..1] /\ running \in [Workloads -> 0..1]
  BY DEF TypeOK
<1>1. CASE UNCHANGED <<replicas, running, overrides, hcPause, hcpPause>>
  BY <1>0, <1>1
<1>2. CASE PropagatePause
  BY <1>0, <1>2 DEF PropagatePause
<1>3. CASE ReconcileEtcd
  <2>1. /\ hcpPause = "none" /\ replicas' = [replicas EXCEPT ![Etcd] = 1]
        /\ UNCHANGED <<running, overrides, hcPause, hcpPause>>
    BY <1>3 DEF ReconcileEtcd, Scale
  <2>2. \A w \in Controllers : replicas'[w] = replicas[w]
    BY <1>a, <2>1, WorkloadSet
  <2>3. n \in Controllers /\ n \in Workloads
    BY <1>a, WorkloadSet
  <2> QED
    BY <1>0, <2>1, <2>2, <2>3
<1>4. ASSUME NEW w \in Controllers, ReconcileController(w) PROVE StopInv'
  <2>1. /\ replicas[w] = 0 /\ (overrides[w] # "unmanaged" \/ (w > 1 /\ running[w - 1] = 1))
        /\ replicas' = [replicas EXCEPT ![w] = 1]
        /\ UNCHANGED <<running, overrides, hcPause, hcpPause>>
    BY <1>4 DEF ReconcileController, Scale
  <2>2. \A u \in Workloads : u # w => replicas'[u] = replicas[u]
    BY <1>a, <2>1
  <2>3. w \in 1..3 /\ w \in Workloads /\ w # Etcd /\ Etcd \in Workloads /\ n \in Workloads
    BY <1>a, WorkloadSet
  <2>4. overrides = AllUnmanaged => w > 1 /\ w - 1 \in Controllers /\ running[w - 1] = 1
    BY <2>1, <2>3, WorkloadSet DEF AllUnmanaged
  <2>5. pc \in StopPcs => ~(w < n) /\ (pc = "waitStopped" => w # n)
    <3> SUFFICES ASSUME pc \in StopPcs PROVE ~(w < n) /\ (pc = "waitStopped" => w # n)
      OBVIOUS
    <3>1. w - 1 \in Controllers /\ running[w - 1] = 1
      BY <2>4
    <3>2. ~(w - 1 < n)
      BY <3>1
    <3> QED
      BY <1>a, <2>3, <3>2
  <2>6. pc \notin OnVSC \cup {"nextVSC"}
    BY <2>4
  <2>7. \A u \in Controllers : u \in Workloads
    BY WorkloadSet
  <2>8. /\ pc' \in StopPcs => \A u \in Controllers : u < n' => Off(u)'
        /\ pc' = "waitStopped" => replicas'[n'] = 0
    BY <1>0, <2>1, <2>2, <2>3, <2>5, <2>7
  <2> QED
    BY <1>0, <2>1, <2>2, <2>3, <2>6, <2>8
<1>5. ASSUME NEW w \in Workloads, PodsFollow(w) PROVE StopInv'
  <2>1. running' = [running EXCEPT ![w] = replicas[w]] /\ UNCHANGED <<replicas, overrides, hcPause, hcpPause>>
    BY <1>5 DEF PodsFollow
  <2>2. \A u \in Workloads : running'[u] = running[u] \/ running'[u] = replicas[u]
    BY <1>a, <2>1
  <2>3. n \in Workloads /\ Etcd \in Workloads /\ \A u \in Controllers : u \in Workloads
    BY <1>a, WorkloadSet
  <2> QED
    BY <1>0, <2>1, <2>2, <2>3
<1>6. CASE ForeignOverride \/ \E v \in VSC : ReconcileVSC(v)
  BY <1>1, <1>6 DEF ForeignOverride, ReconcileVSC
<1> QED
  BY <1>2, <1>3, <1>4, <1>5, <1>6 DEF EnvActions, Environment

\* The stops, from the first operator to the last controller.
LEMMA StopStep == TypeOK /\ ModeInv /\ StopInv /\ [Next]_vars => StopInv'
<1> SUFFICES ASSUME TypeOK, ModeInv, StopInv, [Next]_vars PROVE StopInv'
  OBVIOUS
<1> USE DEF StopInv, StopPcs, OnVSC, EndPcs, Off
<1>a. /\ n \in 1..3 /\ replicas \in [Workloads -> 0..1] /\ running \in [Workloads -> 0..1]
      /\ mode \in {"main", "rollback", "recovery"}
      /\ n \in Workloads /\ n \in Controllers /\ Etcd \in Workloads /\ Etcd # n
      /\ \A u \in Controllers : u \in Workloads
  BY WorkloadSet DEF TypeOK
<1>1. CASE UNCHANGED vars
  BY <1>1 DEF vars, cluster, local
<1>2. CASE Deadline \/ CallFails
  <2>1. OnError
    BY <1>2 DEF Deadline, CallFails
  <2>2. mode' \in {"rollback", "recovery"} /\ pc' \in {"getCV", "start", "restorePause", "startEtcd", "idle"}
    BY <1>a, <2>1 DEF OnError
  <2> QED
    BY <2>2
<1>3. CASE Crash
  BY <1>3 DEF Crash
<1>4. CASE Begin
  BY <1>4 DEF Begin
<1>5. CASE PauseHostedCluster
  BY <1>5, EffectMeans DEF PauseHostedCluster, EffectIs, SetPaused, GoTo
<1>6. CASE WaitHostedControlPlanePaused
  BY <1>6 DEF WaitHostedControlPlanePaused, GoTo, Awaited, cluster
<1>7. CASE StopEtcd
  <2>1. Scale(Etcd, 0) /\ pc = "stopEtcd" /\ pc' = "waitEtcdStopped" /\ mode' = mode
    BY <1>7, EffectMeans DEF StopEtcd, EffectIs, GoTo
  <2> QED
    BY <1>a, <2>1 DEF Scale
<1>8. CASE WaitEtcdStopped
  BY <1>8 DEF WaitEtcdStopped, GoTo, Awaited, cluster
<1>9. CASE ReadOverrides \/ OverridesConflict
  <2>1. UNCHANGED <<replicas, running, overrides, hcPause, hcpPause, mode>>
    BY <1>9 DEF ReadOverrides, OverridesConflict, GoTo, cluster
  <2>2. CASE pc \in {"getCV", "putCV"} /\ pc' \in {"getCV", "putCV"}
    BY <2>1, <2>2
  <2>3. CASE pc \in {"getCV2", "putCV2"} /\ pc' \in {"getCV2", "putCV2"}
    BY <2>1, <2>3
  <2>4. CASE ReadOverrides
    BY <2>2, <2>3, <2>4 DEF ReadOverrides, GoTo
  <2>5. CASE OverridesConflict
    BY <2>2, <2>3, <2>5 DEF OverridesConflict, GoTo
  <2> QED
    BY <1>9, <2>4, <2>5
<1>10. CASE SetOverrides
  <2>1. /\ overrides' = AllUnmanaged /\ UNCHANGED <<replicas, running, hcPause, hcpPause, mode>>
        /\ pc = "putCV" /\ pc' = "stop" /\ n' = 1
    BY <1>10, EffectMeans DEF SetOverrides, EffectIs, WriteOverrides, GoTo
  <2>2. \A w \in Controllers : ~(w < 1)
    BY WorkloadSet
  <2> QED
    BY <2>1, <2>2
<1>11. CASE StopController
  <2>1. Scale(n, 0) /\ pc = "stop" /\ pc' = "waitStopped" /\ UNCHANGED <<mode, n>>
    BY <1>11, EffectMeans DEF StopController, EffectIs, GoTo, local
  <2> QED
    BY <1>a, <2>1 DEF Scale
<1>12. CASE WaitControllerStopped
  <2>1. /\ pc = "waitStopped" /\ running[n] = 0 /\ UNCHANGED <<replicas, running, overrides, hcPause, hcpPause, mode>>
        /\ IF n < 3 THEN pc' = "stop" /\ n' = n + 1 ELSE pc' = "nextVSC"
    BY <1>12 DEF WaitControllerStopped, GoTo, Awaited, cluster
  <2>2. \A w \in Controllers : w \in 1..3
    BY WorkloadSet
  <2>3. \A w \in Controllers : w <= n => Off(w)
    BY <1>a, <2>1, <2>2
  <2> QED
    BY <1>a, <2>1, <2>2, <2>3
<1>13. CASE NextVSC \/ AllReplaced \/ WaitVSCGone \/ VerifyHandles
  <2>1. /\ UNCHANGED <<replicas, running, overrides, hcPause, hcpPause>>
        /\ pc \in {"nextVSC", "waitGone", "verify"} /\ pc' \in {"createVSC", "patchVSC", "verify", "start"}
        /\ mode' = mode \/ mode' = "recovery" 
        /\ pc = "verify" => pc' = "start"
        /\ pc' \in OnVSC => pc # "verify"
    BY <1>13 DEF NextVSC, AllReplaced, WaitVSCGone, VerifyHandles, GoTo, cluster
  <2> QED
    BY <2>1
<1>14. CASE RetainVSC \/ DeleteVSC \/ CreateVSC
  <2>1. /\ UNCHANGED <<replicas, running, overrides, hcPause, hcpPause, mode>>
        /\ pc \in OnVSC /\ pc' \in OnVSC \cup {"nextVSC"}
    BY <1>14, EffectMeans DEF RetainVSC, DeleteVSC, CreateVSC, EffectIs, SetVSC, GoTo
  <2> QED
    BY <2>1
<1>15. CASE StartController
  <2>1. /\ UNCHANGED <<running, overrides, hcPause, hcpPause, mode>> /\ pc = "start" /\ pc' = "waitStarted"
        /\ UNCHANGED replicas \/ replicas' = [replicas EXCEPT ![n] = state.replicas[n]]
    BY <1>15, EffectMeans DEF StartController, EffectIs, Scale, GoTo, cluster
  <2> QED
    BY <1>a, <2>1
<1>16. CASE WaitControllerStarted \/ RestoreOverrides \/ WaitReady
  <2>1. /\ UNCHANGED <<replicas, running, hcPause, hcpPause, mode>>
        /\ pc \in {"waitStarted", "putCV2", "waitReady"} /\ pc' \in {"start", "getCV2", "waitReady", "startEtcd", "unpause"}
    BY <1>16, EffectMeans DEF WaitControllerStarted, RestoreOverrides, WaitReady, EffectIs, WriteOverrides, GoTo, cluster, AfterOverrides
  <2> QED
    BY <2>1
<1>17. CASE Unpause
  BY <1>17 DEF Unpause, GoTo
<1>18. CASE StartEtcd \/ WaitEtcdStarted \/ RestorePause
  <2>1. pc \in RecoveryPcs /\ mode' = mode /\ pc' \in RecoveryPcs \cup {"idle"}
    BY <1>18 DEF StartEtcd, WaitEtcdStarted, RestorePause, GoTo, RecoveryPcs
  <2> QED
    BY <2>1 DEF ModeInv, RecoveryPcs, RollbackPcs
<1> QED
  BY <1>1, <1>2, <1>3, <1>4, <1>5, <1>6, <1>7, <1>8, <1>9, <1>10, <1>11, <1>12, <1>13, <1>14, <1>15,
     <1>16, <1>17, <1>18, StopEnv DEF Next, Process, EnvActions

-----------------------------------------------------------------------------
(***************************************************************************)
(* The VolumeSnapshotContents.                                             *)
(***************************************************************************)
NoneDeleting == destroyed = {} /\ \A v \in VSC : vsc[v] # Absent => ~vsc[v].deleting

\* What each call does to the VSCs.
LEMMA EffectVsc ==
    ASSUME TypeOK, VscInv, Effect
    PROVE  /\ NoneDeleting'
           /\ pc \notin {"patchVSC", "deleteVSC", "createVSC"} => vsc' = vsc
           /\ \A v \in VSC : v # cur => vsc'[v] = vsc[v]
           /\ pc = "patchVSC" => vsc'[cur] # Absent /\ ~vsc'[cur].finalizer
           /\ pc = "deleteVSC" => vsc'[cur] = Absent
           /\ pc = "createVSC" => vsc'[cur].handle = TargetHandle
<1>1. EffectIs /\ vsc \in [VSC -> Content \cup {Absent}] /\ cur \in VSC /\ originals[cur] \in Content
  BY EffectMeans DEF TypeOK
<1>2. CASE pc \notin {"patchVSC", "deleteVSC", "createVSC"}
  <2>1. UNCHANGED <<vsc, destroyed>>
    BY <1>1, <1>2 DEF EffectIs, CallPcs, SetPaused, Scale, WriteOverrides, cluster
  <2> QED
    BY <1>2, <2>1 DEF VscInv, NoneDeleting
<1>3. CASE pc = "patchVSC"
  <2>1. vsc[cur] \in Content /\ vsc' = [vsc EXCEPT ![cur] = RetainedVSC(cur)] /\ destroyed' = destroyed
    BY <1>1, <1>3 DEF EffectIs, SetVSC, VscInv
  <2>2. RetainedVSC(cur) \in Content /\ RetainedVSC(cur) # Absent
    BY <2>1, ContentChanges, ContentHandles DEF RetainedVSC
  <2>3. ~RetainedVSC(cur).finalizer /\ RetainedVSC(cur).deleting = vsc[cur].deleting
    BY <2>1 DEF RetainedVSC, Content
  <2>4. ~vsc[cur].deleting
    BY <1>1, <1>3 DEF VscInv
  <2> QED
    BY <1>1, <1>3, <2>1, <2>2, <2>3, <2>4 DEF VscInv, NoneDeleting
<1>4. CASE pc = "deleteVSC"
  <2>1. vsc' = [vsc EXCEPT ![cur] = Absent] /\ destroyed' = destroyed
    BY <1>1, <1>4 DEF EffectIs, SetVSC, VscInv, DeletedVSC
  <2> QED
    BY <1>1, <1>4, <2>1 DEF VscInv, NoneDeleting
<1>5. CASE pc = "createVSC"
  <2>1. vsc' = [vsc EXCEPT ![cur] = ReplacementVSC(cur, TargetHandle)] /\ destroyed' = destroyed
    BY <1>1, <1>5 DEF EffectIs, SetVSC
  <2>2. ~ReplacementVSC(cur, TargetHandle).deleting /\ ReplacementVSC(cur, TargetHandle).handle = TargetHandle
    BY <1>1 DEF ReplacementVSC, Content
  <2> QED
    BY <1>1, <1>5, <2>1, <2>2 DEF VscInv, NoneDeleting
<1> QED
  BY <1>2, <1>3, <1>4, <1>5

\* The snapshot controller takes a VSC in hand only while no run replaces one, and
\* none is deleting: it changes no handle.
LEMMA ReconcileVscIs ==
    ASSUME TypeOK, StopInv, VscInv, NEW v \in VSC, ReconcileVSC(v)
    PROVE  /\ pc \notin OnVSC /\ UNCHANGED <<destroyed, pc, cur>>
           /\ vsc[v] \in Content /\ vsc' = [vsc EXCEPT ![v] = Adopted(v)]
           /\ Adopted(v) # Absent /\ ~Adopted(v).deleting
           /\ Adopted(v).handle = vsc[v].handle /\ Adopted(v).ready
<1>1. running[SnapshotController] = 1 /\ SnapshotController \in Controllers
  BY WorkloadSet DEF ReconcileVSC, SnapshotController
<1>2. pc \notin OnVSC
  BY <1>1 DEF StopInv, Off
<1>3. vsc[v] # Absent /\ ~vsc[v].deleting /\ vsc[v] \in Content
  BY DEF ReconcileVSC, VscInv, TypeOK
<1>4. vsc' = [vsc EXCEPT ![v] = Adopted(v)] /\ UNCHANGED <<destroyed, pc, cur>>
  BY <1>3 DEF ReconcileVSC, Actor, TypeOK
<1>5. Adopted(v) # Absent /\ ~Adopted(v).deleting /\ Adopted(v).handle = vsc[v].handle /\ Adopted(v).ready
  <2>1. Adopted(v) \in Content
    BY <1>3, ContentChanges DEF Adopted
  <2>2. ~Adopted(v).deleting /\ Adopted(v).handle = vsc[v].handle /\ Adopted(v).ready
    BY <1>3 DEF Adopted, Content
  <2> QED
    BY <2>1, <2>2, ContentHandles
<1> QED
  BY <1>2, <1>3, <1>4, <1>5

\* A VSC is deleted when nothing holds it any more, and it is then gone.
LEMMA VscStep == TypeOK /\ StopInv /\ VscInv /\ [Next]_vars => VscInv'
<1> SUFFICES ASSUME TypeOK, StopInv, VscInv, [Next]_vars PROVE VscInv'
  OBVIOUS
<1>a. NoneDeleting /\ cur \in VSC /\ vsc \in [VSC -> Content \cup {Absent}]
  BY DEF VscInv, NoneDeleting, TypeOK
<1>1. ASSUME NEW v \in VSC, ReconcileVSC(v) PROVE VscInv'
  <2>1. /\ pc \notin OnVSC /\ UNCHANGED <<destroyed, pc, cur>>
        /\ vsc' = [vsc EXCEPT ![v] = Adopted(v)]
        /\ Adopted(v) # Absent /\ ~Adopted(v).deleting
    BY <1>1, ReconcileVscIs
  <2> QED
    BY <1>a, <2>1 DEF VscInv, OnVSC
<1>2. CASE UNCHANGED <<vsc, destroyed, pc, cur>>
  BY <1>2 DEF VscInv
<1>3. CASE EnvActions /\ ~(\E v \in VSC : ReconcileVSC(v))
  <2>1. UNCHANGED <<vsc, destroyed, pc, cur>>
    BY <1>3 DEF EnvActions, Environment, ForeignOverride, PropagatePause, ReconcileEtcd, ReconcileController,
           PodsFollow, Scale, Actor
  <2> QED
    BY <1>2, <2>1
<1>4. CASE UNCHANGED vars
  BY <1>2, <1>4 DEF vars, cluster, local
<1>5. CASE Process \/ Deadline \/ CallFails \/ Crash
  <2>1. NoneDeleting'
    <3>1. CASE UNCHANGED cluster
      BY <1>a, <3>1 DEF cluster, NoneDeleting
    <3> QED
      BY <1>5, <3>1, ProcessCalls, EffectVsc
  <2>2. CASE pc' \notin OnVSC
    BY <2>1, <2>2 DEF NoneDeleting, VscInv, OnVSC
  <2>3. CASE NextVSC
    <3>1. vsc' = vsc /\ pc' = IF vsc[cur'] = Absent THEN "createVSC" ELSE "patchVSC"
      BY <2>3 DEF NextVSC, GoTo, cluster
    <3> QED
      BY <2>1, <3>1 DEF NoneDeleting, VscInv
  <2>4. CASE RetainVSC
    <3>1. Effect /\ pc = "patchVSC" /\ pc' = "deleteVSC" /\ cur' = cur
      BY <2>4 DEF RetainVSC, GoTo, local
    <3> QED
      BY <2>1, <3>1, EffectVsc DEF NoneDeleting, VscInv
  <2>5. CASE DeleteVSC
    <3>1. Effect /\ pc = "deleteVSC" /\ pc' = "waitGone" /\ cur' = cur
      BY <2>5 DEF DeleteVSC, GoTo, local
    <3> QED
      BY <2>1, <3>1, EffectVsc DEF NoneDeleting, VscInv
  <2>6. CASE WaitVSCGone
    <3>1. pc = "waitGone" /\ pc' = "createVSC" /\ cur' = cur /\ vsc' = vsc
      BY <2>6 DEF WaitVSCGone, GoTo, local, cluster
    <3> QED
      BY <2>1, <3>1 DEF NoneDeleting, VscInv
  <2>7. CASE Deadline \/ CallFails \/ Crash
    <3>1. pc' \notin OnVSC
      <4>1. OnError => pc' \notin OnVSC
        BY DEF OnError, OnVSC, TypeOK
      <4>2. Crash => pc' \notin OnVSC
        BY DEF Crash, OnVSC
      <4> QED
        BY <2>7, <4>1, <4>2 DEF Deadline, CallFails
    <3> QED
      BY <2>2, <3>1
  <2>8. CASE Process /\ ~(NextVSC \/ RetainVSC \/ DeleteVSC \/ WaitVSCGone)
    <3>1. pc' \notin OnVSC
      BY <2>8 DEF Process, Begin, PauseHostedCluster, WaitHostedControlPlanePaused, StopEtcd, WaitEtcdStopped,
       ReadOverrides, OverridesConflict, SetOverrides, StopController, WaitControllerStopped,
       AllReplaced, CreateVSC, VerifyHandles, StartController, WaitControllerStarted, RestoreOverrides,
       WaitReady, Unpause, StartEtcd, WaitEtcdStarted, RestorePause, AfterOverrides, GoTo, OnVSC
    <3> QED
      BY <2>2, <3>1
  <2> QED
    BY <1>5, <2>3, <2>4, <2>5, <2>6, <2>7, <2>8
<1> QED
  BY <1>1, <1>3, <1>4, <1>5 DEF Next, EnvActions

-----------------------------------------------------------------------------
(***************************************************************************)
(* What a run remembers.                                                   *)
(***************************************************************************)
Acts == Process \/ Deadline \/ CallFails

\* Each pc has its own action, or two.
StepAt ==
    /\ pc = "idle" => Begin
    /\ pc = "pauseHC" => PauseHostedCluster
    /\ pc = "waitHCP" => WaitHostedControlPlanePaused
    /\ pc = "stopEtcd" => StopEtcd
    /\ pc = "waitEtcdStopped" => WaitEtcdStopped
    /\ pc \in {"getCV", "getCV2"} => ReadOverrides
    /\ pc = "putCV" => SetOverrides \/ OverridesConflict
    /\ pc = "stop" => StopController
    /\ pc = "waitStopped" => WaitControllerStopped
    /\ pc = "nextVSC" => NextVSC \/ AllReplaced
    /\ pc = "patchVSC" => RetainVSC
    /\ pc = "deleteVSC" => DeleteVSC
    /\ pc = "waitGone" => WaitVSCGone
    /\ pc = "createVSC" => CreateVSC
    /\ pc = "verify" => VerifyHandles
    /\ pc = "start" => StartController
    /\ pc = "waitStarted" => WaitControllerStarted
    /\ pc = "putCV2" => RestoreOverrides \/ OverridesConflict
    /\ pc = "waitReady" => WaitReady
    /\ pc = "unpause" => Unpause
    /\ pc = "startEtcd" => StartEtcd
    /\ pc = "waitEtcdStarted" => WaitEtcdStarted
    /\ pc = "restorePause" => RestorePause
    /\ pc # "done"

LEMMA ProcessAt == Process => StepAt
<1> SUFFICES ASSUME Process PROVE StepAt
  OBVIOUS
<1>1. CASE Begin \/ PauseHostedCluster \/ WaitHostedControlPlanePaused \/ StopEtcd \/ WaitEtcdStopped
        \/ StopController
  BY <1>1 DEF Begin, PauseHostedCluster, WaitHostedControlPlanePaused, StopEtcd, WaitEtcdStopped,
       StopController, StepAt
<1>2. CASE ReadOverrides \/ OverridesConflict \/ SetOverrides \/ WaitControllerStopped
  BY <1>2 DEF ReadOverrides, OverridesConflict, SetOverrides, WaitControllerStopped, StepAt
<1>3. CASE NextVSC \/ AllReplaced \/ RetainVSC \/ DeleteVSC \/ WaitVSCGone \/ CreateVSC \/ VerifyHandles
  BY <1>3 DEF NextVSC, AllReplaced, RetainVSC, DeleteVSC, WaitVSCGone, CreateVSC, VerifyHandles, StepAt
<1>4. CASE StartController \/ WaitControllerStarted \/ RestoreOverrides \/ WaitReady
  BY <1>4 DEF StartController, WaitControllerStarted, RestoreOverrides, WaitReady, StepAt
<1>5. CASE Unpause \/ StartEtcd \/ WaitEtcdStarted \/ RestorePause
  BY <1>5 DEF Unpause, StartEtcd, WaitEtcdStarted, RestorePause, StepAt
<1> QED
  BY <1>1, <1>2, <1>3, <1>4, <1>5 DEF Process

\* An error leads from main to rollback or recovery, and elsewhere is remembered.
ErrorTo ==
    /\ \/ mode = "main" /\ started /\ mode' = "rollback" /\ pc' = "getCV" /\ todo' = VSC
       \/ mode = "main" /\ ~started /\ mode' = "recovery" /\ pc' = "start"
       \/ mode = "rollback" /\ mode' = "recovery" /\ pc' = "start" /\ recoveryFailed'
       \/ mode = "recovery" /\ mode' = "recovery" /\ recoveryFailed'
          /\ pc' \in {"startEtcd", "restorePause", "idle"} /\ (pc = "restorePause" => pc' = "idle")
    /\ n' = 1 /\ UNCHANGED <<cur, started, originals, state, cvRead, before>>
    /\ pc \notin {"idle", "done", "nextVSC"} /\ (mode = "main" => recoveryFailed' = recoveryFailed)

LEMMA ErrorAt == TypeOK /\ (Deadline \/ CallFails) => ErrorTo
<1> SUFFICES ASSUME TypeOK, Deadline \/ CallFails PROVE ErrorTo
  OBVIOUS
<1>1. OnError /\ pc \notin {"idle", "done", "nextVSC"} /\ mode \in {"main", "rollback", "recovery"}
      /\ started \in BOOLEAN /\ recoveryFailed \in BOOLEAN
  BY DEF Deadline, CallFails, Waits, TypeOK
<1>2. n' = 1 /\ UNCHANGED <<cur, started, originals, state, cvRead, before>>
      /\ recoveryFailed' = (recoveryFailed \/ mode # "main")
  BY <1>1 DEF OnError
<1>3. CASE mode = "main" /\ started
  <2>1. mode' = "rollback" /\ pc' = "getCV" /\ todo' = VSC
    BY <1>1, <1>3 DEF OnError
  <2> QED
    BY <1>1, <1>2, <1>3, <2>1 DEF ErrorTo
<1>4. CASE mode = "main" /\ ~started
  <2>1. mode' = "recovery" /\ pc' = "start"
    BY <1>1, <1>4 DEF OnError
  <2> QED
    BY <1>1, <1>2, <1>4, <2>1 DEF ErrorTo
<1>5. CASE mode = "rollback"
  BY <1>1, <1>2, <1>5 DEF OnError, ErrorTo
<1>6. CASE mode = "recovery"
  BY <1>1, <1>2, <1>6 DEF OnError, ErrorTo
<1> QED
  BY <1>1, <1>3, <1>4, <1>5, <1>6

\* What each step leaves alone.
LEMMA Frames ==
    ASSUME Acts, ~Begin
    PROVE  /\ UNCHANGED <<before, originals>>
           /\ cvRead' = cvRead \/ ReadOverrides
           /\ \/ UNCHANGED state
              \/ PauseHostedCluster \/ WaitHostedControlPlanePaused \/ SetOverrides \/ WaitControllerStopped
           /\ answerLost => answerLost'
           /\ recoveryFailed => recoveryFailed'
           /\ pc # "idle"
<1> USE DEF history, local
<1>1. CASE OnError /\ pc # "idle" /\ (answerLost => answerLost')
  BY <1>1 DEF OnError
<1>2. CASE CallFails \/ Deadline
  BY <1>1, <1>2 DEF CallFails, Deadline, Waits
<1>3. CASE PauseHostedCluster \/ WaitHostedControlPlanePaused \/ StopEtcd \/ WaitEtcdStopped
        \/ ReadOverrides \/ OverridesConflict \/ SetOverrides \/ StopController \/ WaitControllerStopped
  BY <1>3 DEF PauseHostedCluster, WaitHostedControlPlanePaused, StopEtcd, WaitEtcdStopped,
       ReadOverrides, OverridesConflict, SetOverrides, StopController, WaitControllerStopped
<1>4. CASE NextVSC \/ AllReplaced \/ RetainVSC \/ DeleteVSC \/ WaitVSCGone \/ CreateVSC \/ VerifyHandles
  BY <1>4 DEF NextVSC, AllReplaced, RetainVSC, DeleteVSC, WaitVSCGone, CreateVSC, VerifyHandles
<1>5. CASE StartController \/ WaitControllerStarted \/ RestoreOverrides \/ WaitReady \/ Unpause \/ StartEtcd
        \/ WaitEtcdStarted \/ RestorePause
  BY <1>5 DEF StartController, WaitControllerStarted, RestoreOverrides, WaitReady, Unpause, StartEtcd,
       WaitEtcdStarted, RestorePause
<1> QED
  BY <1>2, <1>3, <1>4, <1>5 DEF Acts, Process

\* Which calls reach which part of the cluster.
LEMMA EffectParts ==
    ASSUME TypeOK, Effect
    PROVE  /\ pc \notin {"pauseHC", "unpause", "restorePause"} => hcPause' = hcPause
           /\ pc \notin {"putCV", "putCV2"} => overrides' = overrides
           /\ \A w \in Workloads : Recorded(w) \/ replicas'[w] = replicas[w]
                                   \/ (pc = "stop" /\ w = n) \/ (pc = "stopEtcd" /\ w = Etcd)
           /\ pc \notin {"stopEtcd", "stop", "start", "startEtcd"} => replicas' = replicas
<1>1. EffectIs
  BY EffectMeans
<1>2. n \in Workloads /\ Etcd \in Workloads /\ replicas \in [Workloads -> 0..1]
  BY WorkloadSet DEF TypeOK
<1>3. CASE pc \in {"pauseHC", "unpause", "restorePause"}
  BY <1>1, <1>3 DEF EffectIs, SetPaused, cluster
<1>4. CASE pc \in {"putCV", "putCV2"}
  BY <1>1, <1>4 DEF EffectIs, WriteOverrides, cluster
<1>5. CASE pc \in {"patchVSC", "deleteVSC", "createVSC"}
  BY <1>1, <1>5 DEF EffectIs, SetVSC, cluster
<1>6. CASE pc \in {"stopEtcd", "stop", "start", "startEtcd"}
  BY <1>1, <1>2, <1>6 DEF EffectIs, Scale, cluster
<1>7. CASE pc \notin CallPcs
  BY <1>1, <1>7 DEF EffectIs, cluster
<1> QED
  BY <1>3, <1>4, <1>5, <1>6, <1>7 DEF CallPcs

\* The same of a step.
LEMMA StepParts ==
    ASSUME TypeOK, Acts
    PROVE  /\ pc \notin {"pauseHC", "unpause", "restorePause"} => hcPause' = hcPause
           /\ pc \notin {"putCV", "putCV2"} => overrides' = overrides
           /\ \A w \in Workloads : Recorded(w) \/ replicas'[w] = replicas[w]
                                   \/ (pc = "stop" /\ w = n) \/ (pc = "stopEtcd" /\ w = Etcd)
           /\ pc \notin {"stopEtcd", "stop", "start", "startEtcd"} => replicas' = replicas
<1>1. CASE UNCHANGED cluster
  BY <1>1 DEF cluster
<1> QED
  BY <1>1, ProcessCalls, EffectParts DEF Acts

LEMMA MemoryStep ==
    ASSUME TypeOK, ModeInv, pc # "idle", MemoryInv, Acts, ~Begin, pc' # "idle"
    PROVE  MemoryInv'
<1>a. state \in RemapState /\ mode \in {"main", "rollback", "recovery"}
  BY DEF TypeOK
<1>1. UNCHANGED <<before, originals>> /\ (answerLost => answerLost')
  BY Frames
<1>2. state'.pause = state.pause /\ (state.pausedByUs => state'.pausedByUs)
      /\ (PauseHostedCluster => state'.pausedByUs)
  <2>1. CASE UNCHANGED state
    BY <1>a, <2>1 DEF PauseHostedCluster, RemapState
  <2>2. CASE PauseHostedCluster
    BY <1>a, <2>2 DEF PauseHostedCluster, RemapState
  <2>3. CASE WaitHostedControlPlanePaused \/ SetOverrides \/ WaitControllerStopped
    BY <1>a, <2>3 DEF WaitHostedControlPlanePaused, SetOverrides, WaitControllerStopped,
       PauseHostedCluster, RemapState
  <2> QED
    BY <2>1, <2>2, <2>3, Frames
<1>3. HandlesOf(originals)' = before'.handles
  BY <1>1 DEF MemoryInv, HandlesOf
<1>4. mode' # "recovery" /\ pc' # "pauseHC" => state'.pausedByUs
  <2>1. CASE Deadline \/ CallFails
    <3>1. ErrorTo
      BY <2>1, ErrorAt
    <3> QED
      BY <3>1, <1>2 DEF ErrorTo, MemoryInv, ModeInv, EarlyPcs, RollbackPcs, OnVSC, StopPcs
  <2>2. CASE Process /\ pc = "pauseHC"
    BY <1>2, <2>2, ProcessAt DEF StepAt
  <2>3. CASE Process /\ pc # "pauseHC" /\ mode # "recovery"
    BY <1>2, <2>3 DEF MemoryInv
  <2>4. CASE Process /\ mode = "recovery"
    <3>1. mode' = "recovery"
      <4>1. pc \in {"start", "waitStarted", "getCV2", "putCV2", "startEtcd", "waitEtcdStarted", "restorePause"}
        BY <2>4 DEF ModeInv, RecoveryPcs, ResumePcs
      <4> QED
        BY <2>4, <4>1, ProcessAt DEF StepAt, StartController, WaitControllerStarted, ReadOverrides,
           RestoreOverrides, OverridesConflict, StartEtcd, WaitEtcdStarted, RestorePause, GoTo
    <3> QED
      BY <3>1
  <2> QED
    BY <2>1, <2>2, <2>3, <2>4 DEF Acts
<1>5. state'.pausedByUs \/ answerLost' \/ hcPause' = before'.hcPause
  <2>1. CASE pc = "restorePause"
    <3>1. CallFails \/ Deadline => pc' = "idle"
      BY <2>1, ErrorAt DEF ErrorTo, ModeInv, LatePcs, RollbackPcs, OnVSC, StopPcs, RecoveryPcs
    <3>2. Process => pc' = "idle"
      BY <2>1, ProcessAt DEF StepAt, RestorePause, GoTo
    <3> QED
      BY <3>1, <3>2 DEF Acts
  <2>2. CASE pc = "unpause"
    BY <1>2, <2>2 DEF MemoryInv, ModeInv, RollbackPcs, ResumePcs, RecoveryPcs
  <2>3. CASE pc = "pauseHC"
    <3>1. CASE Process
      BY <1>2, <2>3, <3>1, ProcessAt DEF StepAt
    <3>2. CASE hcPause' = hcPause
      BY <1>1, <1>2, <3>2 DEF MemoryInv
    <3>3. CASE CallFails
      BY <3>2, <3>3, <2>3 DEF CallFails, cluster
    <3>4. CASE Deadline
      BY <3>2, <3>4 DEF Deadline, cluster
    <3> QED
      BY <3>1, <3>3, <3>4 DEF Acts
  <2>4. CASE pc \notin {"pauseHC", "unpause", "restorePause"}
    BY <1>1, <1>2, <2>4, StepParts DEF MemoryInv
  <2> QED
    BY <2>1, <2>2, <2>3, <2>4
<1>6. pc' \in {"putCV", "putCV2"} => cvRead'.overrides = overrides'
  <2>1. pc' \in {"putCV", "putCV2"} => ReadOverrides
    BY <1>a DEF Acts, Process, Begin, PauseHostedCluster, WaitHostedControlPlanePaused, StopEtcd, WaitEtcdStopped,
       OverridesConflict, SetOverrides, StopController, WaitControllerStopped,
       NextVSC, AllReplaced, RetainVSC, DeleteVSC, WaitVSCGone, CreateVSC, VerifyHandles,
       StartController, WaitControllerStarted, RestoreOverrides, WaitReady, Unpause, StartEtcd,
       WaitEtcdStarted, RestorePause, Deadline, CallFails, OnError, GoTo, AfterOverrides
  <2> QED
    BY <2>1 DEF ReadOverrides, cluster
<1> QED
  BY <1>1, <1>2, <1>3, <1>4, <1>5, <1>6 DEF MemoryInv

-----------------------------------------------------------------------------
(***************************************************************************)
(* Replica counts.                                                         *)
(***************************************************************************)
\* The steps that record a count, each of one workload, and that of the overrides.
LEMMA RecordSteps ==
    ASSUME TypeOK, Acts, ~Begin
    PROVE  /\ \/ state'.replicas = state.replicas
              \/ pc = "waitHCP" /\ state'.replicas = [state.replicas EXCEPT ![Etcd] = replicas[Etcd]]
              \/ /\ pc = "putCV" /\ mode = "main" /\ SetOverrides
                 /\ state'.replicas = [state.replicas EXCEPT ![1] = replicas[1]]
              \/ /\ pc = "waitStopped" /\ mode = "main" /\ n < 3 /\ WaitControllerStopped
                 /\ state'.replicas = [state.replicas EXCEPT ![n + 1] = replicas[n + 1]]
           /\ \/ state'.changed = state.changed
              \/ /\ pc = "putCV" /\ mode = "main" /\ SetOverrides
                 /\ state'.changed = ChangesOf(cvRead.overrides)
<1>a. state \in RemapState
  BY DEF TypeOK
<1>1. CASE UNCHANGED state
  BY <1>1
<1>2. CASE PauseHostedCluster
  BY <1>a, <1>2 DEF PauseHostedCluster, RemapState
<1>3. CASE WaitHostedControlPlanePaused
  BY <1>a, <1>3 DEF WaitHostedControlPlanePaused, RemapState
<1>4. CASE SetOverrides
  <2>1. CASE mode = "main"
    <3>1. state' = [state EXCEPT !.changed = ChangesOf(cvRead.overrides), !.replicas[1] = replicas[1]]
      BY <1>4, <2>1 DEF SetOverrides
    <3>2. pc = "putCV"
      BY <1>4 DEF SetOverrides
    <3> QED
      BY <1>a, <1>4, <2>1, <3>1, <3>2 DEF RemapState
  <2>2. CASE mode # "main"
    BY <1>4, <2>2 DEF SetOverrides
  <2> QED
    BY <2>1, <2>2
<1>5. CASE WaitControllerStopped
  <2>1. CASE n < 3 /\ mode = "main"
    <3>1. state' = [state EXCEPT !.replicas[n + 1] = replicas[n + 1]] /\ pc = "waitStopped"
      BY <1>5, <2>1 DEF WaitControllerStopped
    <3> QED
      BY <1>a, <1>5, <2>1, <3>1 DEF RemapState
  <2>2. CASE ~(n < 3 /\ mode = "main")
    BY <1>5, <2>2 DEF WaitControllerStopped
  <2> QED
    BY <2>1, <2>2
<1> QED
  BY <1>1, <1>2, <1>3, <1>4, <1>5, Frames

\* A count once recorded stays so, and is that of a workload not scaled before.
LEMMA RecordKept ==
    ASSUME TypeOK, ModeInv, BeforeOK, ReplicaInv, Acts, ~Begin
    PROVE  \A w \in Workloads :
              /\ Recorded(w) => Recorded(w)' /\ state'.replicas[w] = state.replicas[w]
              /\ state'.replicas[w] >= before'.replicas[w]
<1>a. /\ state.replicas \in [Workloads -> 0..Unrecorded] /\ replicas \in [Workloads -> 0..1]
      /\ n \in 1..3 /\ before' = before /\ before.replicas \in [Workloads -> 0..1]
  BY Frames DEF TypeOK, RemapState, BeforeOK
<1>b. Etcd \in Workloads /\ 1 \in Workloads /\ 1 \in Controllers
      /\ (n < 3 => n + 1 \in Workloads /\ n + 1 \in Controllers)
  BY <1>a, WorkloadSet
<1>1. CASE state'.replicas = state.replicas
  BY <1>1, <1>a DEF ReplicaInv, Recorded
<1>2. ASSUME NEW u \in Workloads, ~Recorded(u), state'.replicas = [state.replicas EXCEPT ![u] = replicas[u]]
      PROVE  \A w \in Workloads :
              /\ Recorded(w) => Recorded(w)' /\ state'.replicas[w] = state.replicas[w]
              /\ state'.replicas[w] >= before'.replicas[w]
  <2>1. state'.replicas[u] = replicas[u] /\ \A w \in Workloads : w # u => state'.replicas[w] = state.replicas[w]
    BY <1>2, <1>a
  <2>2. replicas[u] >= before.replicas[u]
    BY <1>2 DEF ReplicaInv
  <2> QED
    BY <1>2, <1>a, <2>1, <2>2 DEF ReplicaInv, Recorded
<1>3. CASE pc = "waitHCP" /\ state'.replicas = [state.replicas EXCEPT ![Etcd] = replicas[Etcd]]
  BY <1>2, <1>3, <1>b DEF ReplicaInv
<1>4. CASE pc = "putCV" /\ mode = "main" /\ state'.replicas = [state.replicas EXCEPT ![1] = replicas[1]]
  <2>1. ~Recorded(1)
    BY <1>4, <1>b DEF ReplicaInv, EarlyPcs, StopPcs
  <2> QED
    BY <1>2, <1>4, <1>b, <2>1
<1>5. CASE pc = "waitStopped" /\ mode = "main" /\ n < 3
           /\ state'.replicas = [state.replicas EXCEPT ![n + 1] = replicas[n + 1]]
  <2>1. ~Recorded(n + 1)
    BY <1>5, <1>a, <1>b DEF ReplicaInv, StopPcs
  <2> QED
    BY <1>2, <1>5, <1>b, <2>1
<1> QED
  BY <1>1, <1>3, <1>4, <1>5, RecordSteps

LEMMA ReplicaStep ==
    ASSUME TypeOK, ModeInv, BeforeOK, ReplicaInv, Acts, ~Begin, pc' # "idle"
    PROVE  ReplicaInv'
<1> USE DEF EarlyPcs, StopPcs
<1>a. /\ state.replicas \in [Workloads -> 0..Unrecorded] /\ replicas \in [Workloads -> 0..1]
      /\ n \in 1..3 /\ mode \in {"main", "rollback", "recovery"} /\ started \in BOOLEAN
  BY DEF TypeOK, RemapState
<1>b. /\ before' = before /\ before.replicas \in [Workloads -> 0..1]
      /\ state'.replicas \in [Workloads -> 0..Unrecorded]
  <2>1. state' \in RemapState
    BY ProcessTypedStep DEF ProcessTyped, Acts
  <2> QED
    BY <2>1, Frames DEF BeforeOK, RemapState
<1>c. /\ Workloads = {0, 1, 2, 3} /\ Controllers = {1, 2, 3} /\ Etcd \in Workloads
      /\ Controllers \subseteq Workloads /\ Etcd \notin Controllers
  BY WorkloadSet
<1>1. \A w \in Workloads : state'.replicas[w] >= before'.replicas[w]
  BY RecordKept
<1>2. \A w \in Workloads : ~Recorded(w)' => replicas'[w] >= before'.replicas[w]
  <2> SUFFICES ASSUME NEW w \in Workloads, ~Recorded(w)' PROVE replicas'[w] >= before.replicas[w]
    BY <1>b
  <2>1. ~Recorded(w) /\ replicas[w] >= before.replicas[w]
    BY RecordKept DEF ReplicaInv
  <2>2. ~(pc = "stop" /\ w = n)
    <3>1. CASE mode = "main"
      BY <3>1, <2>1, <1>a, <1>c DEF ReplicaInv
    <3>2. CASE mode = "rollback"
      BY <3>2, <2>1, <1>a, <1>c DEF ReplicaInv, ModeInv
    <3>3. CASE mode = "recovery"
      BY <3>3 DEF ModeInv, ResumePcs, RecoveryPcs
    <3> QED
      BY <1>a, <3>1, <3>2, <3>3
  <2>3. ~(pc = "stopEtcd" /\ w = Etcd)
    BY <2>1 DEF ReplicaInv
  <2> QED
    BY <2>1, <2>2, <2>3, StepParts
<1>3. CASE Deadline \/ CallFails
  <2>1. ErrorTo
    BY <1>3, ErrorAt
  <2>2. UNCHANGED <<state, started>> /\ pc' \notin {"pauseHC", "waitHCP", "stopEtcd", "nextVSC"} /\ mode' # "main"
    BY <2>1, <1>a DEF ErrorTo
  <2> QED
    BY <1>1, <1>2, <2>2 DEF ReplicaInv, Recorded
<1>4. CASE PauseHostedCluster \/ StopEtcd \/ WaitEtcdStopped \/ ReadOverrides \/ OverridesConflict
  <2>1. /\ state'.replicas = state.replicas /\ UNCHANGED <<started, mode>>
    BY <1>4, <1>a, RecordSteps DEF PauseHostedCluster, StopEtcd, WaitEtcdStopped, ReadOverrides, OverridesConflict,
       GoTo, local, TypeOK, RemapState
  <2>2. /\ pc' \notin StopPcs \cup {"pauseHC", "stopEtcd", "nextVSC"} /\ (pc' = "waitHCP" => pc = "pauseHC")
        /\ pc' \in EarlyPcs => pc \in EarlyPcs \ StopPcs
    BY <1>4 DEF PauseHostedCluster, StopEtcd, WaitEtcdStopped, ReadOverrides, OverridesConflict, GoTo
  <2> QED
    BY <1>1, <1>2, <2>1, <2>2 DEF ReplicaInv, Recorded
<1>5. CASE WaitHostedControlPlanePaused
  <2>1. /\ state'.replicas = [state.replicas EXCEPT ![Etcd] = replicas[Etcd]]
        /\ UNCHANGED <<started, mode>> /\ pc = "waitHCP" /\ pc' = "stopEtcd"
    BY <1>5, <1>a DEF WaitHostedControlPlanePaused, GoTo, TypeOK, RemapState
  <2>2. Recorded(Etcd)' /\ \A w \in Controllers : Recorded(w)' <=> Recorded(w)
    BY <2>1, <1>a, <1>c DEF Recorded, Unrecorded
  <2> QED
    BY <1>1, <1>2, <2>1, <2>2 DEF ReplicaInv
<1>6. CASE SetOverrides
  <2>1. pc = "putCV" /\ pc' = "stop" /\ n' = 1 /\ UNCHANGED <<started, mode>>
    BY <1>6 DEF SetOverrides, GoTo
  <2>2. mode = "main" => state'.replicas = [state.replicas EXCEPT ![1] = replicas[1]]
    BY <1>6, <1>a DEF SetOverrides, TypeOK, RemapState
  <2>3. mode = "main" => ~started /\ \A w \in Controllers : Recorded(w)' <=> w = 1
    BY <2>1, <2>2, <1>a, <1>c DEF Recorded, Unrecorded, ReplicaInv, ModeInv
  <2>4. mode # "main" => \A w \in Controllers : Recorded(w)' <=> Recorded(w)
    BY <1>6 DEF SetOverrides, Recorded
  <2>5. mode = "main" => \A w \in Controllers : Recorded(w)' <=> w <= n'
    BY <2>1, <2>3, <1>c
  <2> QED
    BY <1>1, <1>2, <1>a, <2>1, <2>3, <2>4, <2>5 DEF ReplicaInv
<1>7. CASE StopController
  <2>1. pc = "stop" /\ pc' = "waitStopped" /\ UNCHANGED <<state, n, started, mode>>
    BY <1>7 DEF StopController, GoTo, local
  <2> QED
    BY <1>1, <1>2, <2>1 DEF ReplicaInv, Recorded
<1>8. CASE WaitControllerStopped
  <2>1. pc = "waitStopped" /\ pc' \in {"stop", "nextVSC"} /\ UNCHANGED <<started, mode>>
    BY <1>8 DEF WaitControllerStopped, GoTo
  <2>2. CASE n < 3
    <3>1. pc' = "stop" /\ n' = n + 1
      BY <1>8, <2>2 DEF WaitControllerStopped, GoTo
    <3>2. mode = "main" => state'.replicas = [state.replicas EXCEPT ![n + 1] = replicas[n + 1]]
      BY <1>8, <1>a, <2>2 DEF WaitControllerStopped, TypeOK, RemapState
    <3>3. mode = "main" => \A w \in Controllers : Recorded(w)' <=> w <= n'
      BY <2>1, <2>2, <3>1, <3>2, <1>a, <1>c DEF Recorded, Unrecorded, ReplicaInv
    <3>4. mode = "main" => ~started
      BY <2>1 DEF ModeInv
    <3>5. mode # "main" => state' = state
      BY <1>8, <2>2 DEF WaitControllerStopped
    <3> QED
      BY <1>1, <1>2, <1>a, <2>1, <3>1, <3>3, <3>4, <3>5 DEF ReplicaInv, Recorded
  <2>3. CASE ~(n < 3)
    <3>1. pc' = "nextVSC" /\ state' = state
      BY <1>8, <2>3 DEF WaitControllerStopped, GoTo
    <3>2. mode = "main" => \A w \in Controllers : Recorded(w)
      BY <2>1, <2>3, <1>a, <1>c DEF ReplicaInv
    <3>3. mode = "rollback" => \A w \in Controllers : Recorded(w)
      BY DEF ReplicaInv, ModeInv
    <3>4. mode # "recovery"
      BY <2>1 DEF ModeInv, ResumePcs, RecoveryPcs
    <3> QED
      BY <1>1, <1>2, <1>a, <2>1, <3>1, <3>2, <3>3, <3>4 DEF ReplicaInv, Recorded
  <2> QED
    BY <2>2, <2>3
<1>9. CASE pc \in {"nextVSC"} \cup LatePcs \cup RecoveryPcs /\ Process
  <2>1. state' = state
    BY <1>9, Frames DEF LatePcs, ResumePcs, RecoveryPcs, OnVSC, PauseHostedCluster, WaitHostedControlPlanePaused,
       SetOverrides, WaitControllerStopped
  <2>2. pc' \notin EarlyPcs
    <3>1. CASE pc \in {"nextVSC", "verify"} \cup OnVSC
      BY <1>9, <3>1, ProcessAt DEF StepAt, OnVSC, NextVSC, AllReplaced, RetainVSC, DeleteVSC, WaitVSCGone,
         CreateVSC, VerifyHandles, GoTo
    <3>2. CASE pc \in ResumePcs
      BY <1>9, <3>2, ProcessAt DEF StepAt, ResumePcs, StartController, WaitControllerStarted, ReadOverrides,
         RestoreOverrides, OverridesConflict, AfterOverrides, GoTo
    <3>3. CASE pc \in {"waitReady", "unpause"} \cup RecoveryPcs
      BY <1>9, <3>3, ProcessAt DEF StepAt, RecoveryPcs, WaitReady, Unpause, StartEtcd, WaitEtcdStarted,
         RestorePause, GoTo
    <3> QED
      BY <1>9, <3>1, <3>2, <3>3 DEF LatePcs
  <2>3. started' \/ pc' = "nextVSC" => started \/ pc = "nextVSC"
    <3>1. pc # "nextVSC" => started' = started
      BY <1>9, ProcessAt DEF StepAt, LatePcs, ResumePcs, RecoveryPcs, OnVSC, RetainVSC, DeleteVSC, WaitVSCGone,
         CreateVSC, VerifyHandles, StartController, WaitControllerStarted, ReadOverrides, OverridesConflict,
         RestoreOverrides, WaitReady, Unpause, StartEtcd, WaitEtcdStarted, RestorePause, local
    <3>2. pc' = "nextVSC" => pc = "createVSC" \/ pc = "nextVSC"
      <4>1. CASE pc \in {"nextVSC", "verify"} \cup OnVSC
        BY <1>9, <4>1, ProcessAt DEF StepAt, OnVSC, NextVSC, AllReplaced, RetainVSC, DeleteVSC, WaitVSCGone,
           CreateVSC, VerifyHandles, GoTo
      <4>2. CASE pc \in ResumePcs
        BY <1>9, <4>2, ProcessAt DEF StepAt, ResumePcs, StartController, WaitControllerStarted, ReadOverrides,
           RestoreOverrides, OverridesConflict, AfterOverrides, GoTo
      <4>3. CASE pc \in {"waitReady", "unpause"} \cup RecoveryPcs
        BY <1>9, <4>3, ProcessAt DEF StepAt, RecoveryPcs, WaitReady, Unpause, StartEtcd, WaitEtcdStarted,
           RestorePause, GoTo
      <4> QED
        BY <1>9, <4>1, <4>2, <4>3 DEF LatePcs
    <3>3. pc = "createVSC" => started
      BY <1>a DEF ModeInv, LatePcs, OnVSC, ResumePcs, RecoveryPcs
    <3> QED
      BY <3>1, <3>2, <3>3
  <2> QED
    BY <1>1, <1>2, <2>1, <2>2, <2>3 DEF ReplicaInv, Recorded
<1>10. CASE Process
  <2>1. pc # "idle" /\ pc # "done" /\ pc \in Pcs
    BY <1>10, Frames, ProcessAt DEF StepAt, TypeOK
  <2>2. pc \in {"nextVSC"} \cup LatePcs \cup RecoveryPcs \cup EarlyPcs
    BY <2>1 DEF Pcs, LatePcs, RecoveryPcs, ResumePcs, OnVSC
  <2>3. CASE pc \in EarlyPcs
    BY <1>4, <1>5, <1>6, <1>7, <1>8, <1>10, <2>3, ProcessAt DEF StepAt
  <2> QED
    BY <1>9, <1>10, <2>2, <2>3
<1> QED
  BY <1>3, <1>10 DEF Acts

-----------------------------------------------------------------------------
(***************************************************************************)
(* Overrides.                                                              *)
(***************************************************************************)
\* A call that fails after it took effect is lost, unless it is one whose effect
\* the run undoes all the same.
LEMMA FailedCall ==
    ASSUME TypeOK, Deadline \/ CallFails, ~answerLost'
    PROVE  /\ pc # "putCV2" => overrides' = overrides
           /\ pc # "restorePause" => hcPause' = hcPause
<1>1. CASE UNCHANGED cluster
  BY <1>1 DEF cluster
<1>2. CASE CallFails /\ ~UNCHANGED cluster
  <2>1. pc \notin {"pauseHC", "putCV", "unpause"} /\ Effect
    BY <1>2 DEF CallFails
  <2> QED
    BY <2>1, EffectParts
<1> QED
  BY <1>1, <1>2 DEF Deadline

LEMMA OverrideStep ==
    ASSUME TypeOK, BeforeOK, ModeInv, StopInv, MemoryInv, OverrideInv, Acts, ~Begin, pc' # "idle"
    PROVE  OverrideInv'
<1> USE DEF Sound
<1>a. /\ before' = before /\ before.overrides \in [Controllers -> OverrideState]
      /\ state \in RemapState /\ mode \in {"main", "rollback", "recovery"}
      /\ (~recoveryFailed' => ~recoveryFailed) /\ (~answerLost' => ~answerLost)
  BY Frames DEF TypeOK, BeforeOK
<1>1. CASE Deadline \/ CallFails
  <2>1. ErrorTo
    BY <1>1, ErrorAt
  <2>2. CASE mode = "main" /\ started
    <3>1. pc \in LatePcs
      BY <2>1, <2>2 DEF ErrorTo, ModeInv, EarlyPcs, LatePcs, RecoveryPcs, StopPcs, OnVSC, ResumePcs, Pcs, TypeOK
    <3>2. BeforeIsChanged
      BY <2>2, <3>1 DEF OverrideInv, LatePcs
    <3> QED
      BY <2>1, <2>2, <3>2, <1>a DEF ErrorTo, OverrideInv, BeforeIsChanged
  <2>3. CASE mode = "main" /\ ~started
    <3>1. pc \in EarlyPcs
      BY <2>1, <2>3 DEF ErrorTo, ModeInv, EarlyPcs, LatePcs, RecoveryPcs, StopPcs, OnVSC, ResumePcs, Pcs, TypeOK
    <3>2. ~answerLost' => overrides' = overrides
      BY <1>1, <3>1, FailedCall DEF EarlyPcs, StopPcs
    <3>3. \/ NothingIsChanged /\ overrides = before.overrides
          \/ BeforeIsChanged /\ overrides = AllUnmanaged
      BY <2>3, <3>1 DEF OverrideInv
    <3> QED
      BY <2>1, <2>3, <1>a, <3>2, <3>3 DEF ErrorTo, OverrideInv, NothingIsChanged, BeforeIsChanged, RecoveryPcs
  <2>4. CASE mode # "main"
    BY <2>1, <2>4 DEF ErrorTo, OverrideInv
  <2> QED
    BY <2>2, <2>3, <2>4
<1>2. CASE PauseHostedCluster \/ WaitHostedControlPlanePaused \/ StopEtcd \/ WaitEtcdStopped
         \/ (ReadOverrides /\ pc = "getCV") \/ (OverridesConflict /\ pc = "putCV")
  <2>1. pc \in EarlyPcs \ StopPcs /\ pc' \in EarlyPcs \ StopPcs /\ mode' = mode /\ pc # "putCV2"
    BY <1>2 DEF PauseHostedCluster, WaitHostedControlPlanePaused, StopEtcd, WaitEtcdStopped, ReadOverrides,
       OverridesConflict, GoTo, EarlyPcs, StopPcs
  <2>2. overrides' = overrides
    <3>1. pc # "putCV" => overrides' = overrides
      BY <2>1, StepParts
    <3>2. OverridesConflict => overrides' = overrides
      BY DEF OverridesConflict, cluster
    <3>3. pc = "putCV" => OverridesConflict
      BY <1>2 DEF PauseHostedCluster, WaitHostedControlPlanePaused, StopEtcd, WaitEtcdStopped
    <3> QED
      BY <3>1, <3>2, <3>3
  <2>3. state'.changed = state.changed
    BY <1>2, <1>a DEF PauseHostedCluster, WaitHostedControlPlanePaused, StopEtcd, WaitEtcdStopped, ReadOverrides,
       OverridesConflict, RemapState, local
  <2>4. mode # "recovery"
    BY <2>1 DEF ModeInv, EarlyPcs, ResumePcs, RecoveryPcs, StopPcs
  <2> QED
    BY <1>a, <2>1, <2>2, <2>3, <2>4 DEF OverrideInv, NothingIsChanged, BeforeIsChanged, EarlyPcs, StopPcs,
       OnVSC, ResumePcs
<1>3. CASE SetOverrides
  <2>1. pc = "putCV" /\ pc' = "stop" /\ mode' = mode /\ Effect
    BY <1>3 DEF SetOverrides, GoTo
  <2>2. overrides' = AllUnmanaged
    BY <2>1, EffectMeans DEF EffectIs, WriteOverrides
  <2>3. mode = "main" => state'.changed = ChangesOf(before.overrides)
    <3>1. mode = "main" => state'.changed = ChangesOf(cvRead.overrides)
      BY <1>3, <1>a DEF SetOverrides, RemapState
    <3>2. mode = "main" => cvRead.overrides = before.overrides
      BY <2>1 DEF MemoryInv, OverrideInv, EarlyPcs, StopPcs
    <3> QED
      BY <3>1, <3>2
  <2>4. mode # "main" => state' = state
    BY <1>3 DEF SetOverrides
  <2>5. mode # "recovery"
    BY <2>1 DEF ModeInv, ResumePcs, RecoveryPcs
  <2> QED
    BY <1>a, <2>1, <2>2, <2>3, <2>4, <2>5 DEF OverrideInv, BeforeIsChanged, EarlyPcs, StopPcs
<1>4. CASE StopController \/ WaitControllerStopped \/ NextVSC \/ RetainVSC \/ DeleteVSC \/ WaitVSCGone
         \/ CreateVSC \/ VerifyHandles
  <2>1. /\ pc \in StopPcs \cup OnVSC \cup {"nextVSC", "verify"}
        /\ pc' \in StopPcs \cup OnVSC \cup {"nextVSC", "verify", "start"} /\ mode' = mode
    BY <1>4 DEF StopController, WaitControllerStopped, NextVSC, RetainVSC, DeleteVSC, WaitVSCGone, CreateVSC,
       VerifyHandles, GoTo, StopPcs, OnVSC
  <2>2. overrides' = overrides
    BY <2>1, StepParts DEF StopPcs, OnVSC
  <2>3. state'.changed = state.changed
    BY <2>1, RecordSteps DEF StopPcs, OnVSC
  <2>4. mode # "recovery"
    BY <2>1 DEF ModeInv, OnVSC, ResumePcs, RecoveryPcs, StopPcs
  <2> QED
    BY <1>a, <2>1, <2>2, <2>3, <2>4 DEF OverrideInv, BeforeIsChanged, EarlyPcs, StopPcs, OnVSC, ResumePcs
<1>5. CASE AllReplaced
  <2>1. /\ pc = "nextVSC" /\ UNCHANGED <<overrides, state>> /\ mode # "recovery"
        /\ \/ mode = "main" /\ mode' = "main" /\ pc' = "verify"
           \/ mode = "rollback" /\ mode' = "recovery" /\ pc' = "start"
    BY <1>5, <1>a DEF AllReplaced, GoTo, cluster, ModeInv, ResumePcs, RecoveryPcs
  <2>2. overrides = AllUnmanaged
    BY <2>1 DEF StopInv
  <2> QED
    BY <1>a, <2>1, <2>2 DEF OverrideInv, BeforeIsChanged, EarlyPcs, StopPcs, OnVSC, ResumePcs, RecoveryPcs
<1>6. CASE StartController \/ (WaitControllerStarted /\ pc' \in ResumePcs) \/ (ReadOverrides /\ pc = "getCV2")
         \/ (OverridesConflict /\ pc = "putCV2")
  <2>1. pc \in ResumePcs /\ pc' \in ResumePcs /\ mode' = mode /\ UNCHANGED state
    BY <1>6 DEF StartController, WaitControllerStarted, ReadOverrides, OverridesConflict, GoTo, ResumePcs, local
  <2>2. overrides' = overrides
    BY <1>6, StepParts DEF StartController, WaitControllerStarted, ReadOverrides, OverridesConflict, cluster
  <2>3. mode # "rollback"
    BY <2>1 DEF ModeInv, RollbackPcs, ResumePcs, StopPcs, OnVSC
  <2> QED
    BY <1>a, <2>1, <2>2, <2>3 DEF OverrideInv, NothingIsChanged, BeforeIsChanged, EarlyPcs, StopPcs, OnVSC,
       ResumePcs, RecoveryPcs
<1>7. CASE WaitControllerStarted /\ pc' \notin ResumePcs
  <2>1. /\ pc = "waitStarted" /\ UNCHANGED <<overrides, state, mode>> /\ NothingChanged
        /\ pc' = IF mode = "main" THEN "waitReady" ELSE "startEtcd"
    BY <1>7 DEF WaitControllerStarted, GoTo, AfterOverrides, ResumePcs, cluster
  <2>2. BeforeIsChanged => before.overrides = AllUnmanaged
    BY <1>a, <2>1, OverridesRestored DEF BeforeIsChanged, NothingChanged
  <2>3. mode # "rollback"
    BY <2>1 DEF ModeInv, RollbackPcs, StopPcs, OnVSC
  <2> QED
    BY <1>a, <2>1, <2>2, <2>3 DEF OverrideInv, BeforeIsChanged, EarlyPcs, StopPcs, OnVSC, ResumePcs, RecoveryPcs
<1>8. CASE RestoreOverrides
  <2>1. /\ pc = "putCV2" /\ UNCHANGED <<state, mode>> /\ Effect
        /\ pc' = IF mode = "main" THEN "waitReady" ELSE "startEtcd"
    BY <1>8 DEF RestoreOverrides, GoTo, AfterOverrides, local
  <2>2. overrides' = RestoredOverrides(overrides, state.changed)
    BY <2>1, EffectMeans DEF EffectIs, WriteOverrides, MemoryInv
  <2>3. BeforeIsChanged /\ overrides = AllUnmanaged => overrides' = before.overrides
    BY <1>a, <2>2, OverridesRestored DEF BeforeIsChanged
  <2>4. NothingIsChanged /\ overrides = before.overrides => overrides' = before.overrides
    BY <1>a, <2>2 DEF NothingIsChanged, EmptyState, RestoredOverrides
  <2>5. mode # "rollback"
    BY <2>1 DEF ModeInv, RollbackPcs, StopPcs, OnVSC
  <2> QED
    BY <1>a, <2>1, <2>3, <2>4, <2>5 DEF OverrideInv, BeforeIsChanged, EarlyPcs, StopPcs, OnVSC, ResumePcs, RecoveryPcs
<1>9. CASE WaitReady \/ Unpause
  <2>1. pc \in {"waitReady", "unpause"} /\ pc' \in {"unpause", "done"} /\ UNCHANGED <<state, mode>>
    BY <1>9 DEF WaitReady, Unpause, GoTo, local
  <2>2. overrides' = overrides
    BY <2>1, StepParts
  <2>3. mode = "main"
    BY <2>1, <1>a DEF ModeInv, RollbackPcs, StopPcs, OnVSC, ResumePcs, RecoveryPcs
  <2> QED
    BY <1>a, <2>1, <2>2, <2>3 DEF OverrideInv, BeforeIsChanged, EarlyPcs, StopPcs, OnVSC, ResumePcs
<1>10. CASE StartEtcd \/ WaitEtcdStarted \/ RestorePause
  <2>1. pc \in RecoveryPcs /\ pc' \in RecoveryPcs /\ UNCHANGED <<state, mode>>
    BY <1>10 DEF StartEtcd, WaitEtcdStarted, RestorePause, GoTo, local, RecoveryPcs
  <2>2. overrides' = overrides
    BY <2>1, StepParts DEF RecoveryPcs
  <2>3. mode = "recovery"
    BY <2>1, <1>a DEF ModeInv, RollbackPcs, StopPcs, OnVSC, ResumePcs, RecoveryPcs
  <2> QED
    BY <1>a, <2>1, <2>2, <2>3 DEF OverrideInv, BeforeIsChanged, ResumePcs, RecoveryPcs
<1>11. CASE Process
  BY <1>2, <1>3, <1>4, <1>5, <1>6, <1>7, <1>8, <1>9, <1>10, <1>11
  DEF Process, ReadOverrides, OverridesConflict
<1> QED
  BY <1>1, <1>11 DEF Acts

-----------------------------------------------------------------------------
(***************************************************************************)
(* Giving back.                                                            *)
(***************************************************************************)
\* A workload is scaled back to at least what the run found, or was not scaled.
LEMMA ScaledBack ==
    ASSUME TypeOK, BeforeOK, ReplicaInv, Effect, NEW w \in Workloads,
           (pc = "start" /\ w = n) \/ (pc = "startEtcd" /\ w = Etcd)
    PROVE  replicas'[w] >= before.replicas[w] /\ \A u \in Workloads : u # w => replicas'[u] = replicas[u]
<1>1. EffectIs /\ replicas \in [Workloads -> 0..1]
  BY EffectMeans DEF TypeOK
<1>2. CASE Recorded(w)
  <2>1. replicas' = [replicas EXCEPT ![w] = state.replicas[w]]
    BY <1>1, <1>2 DEF EffectIs, Scale
  <2> QED
    BY <1>1, <2>1 DEF ReplicaInv
<1>3. CASE ~Recorded(w)
  <2>1. replicas' = replicas
    BY <1>1, <1>3 DEF EffectIs, cluster
  <2> QED
    BY <1>3, <2>1 DEF ReplicaInv
<1> QED
  BY <1>2, <1>3

LEMMA ResumeStep ==
    ASSUME TypeOK, BeforeOK, ModeInv, ReplicaInv, ResumeInv, Acts, ~Begin
    PROVE  ResumeInv'
<1>a. /\ before' = before /\ (~recoveryFailed' => ~recoveryFailed) /\ n \in 1..3 /\ mode \in {"main", "rollback", "recovery"}
      /\ replicas \in [Workloads -> 0..1] /\ before.replicas \in [Workloads -> 0..1]
  BY Frames DEF TypeOK, BeforeOK
<1>b. /\ Controllers = {1, 2, 3} /\ Etcd \in Workloads /\ Controllers \subseteq Workloads /\ Etcd \notin Controllers
  BY WorkloadSet
<1>1. CASE Deadline \/ CallFails
  <2>1. ErrorTo
    BY <1>1, ErrorAt
  <2>2. recoveryFailed' \/ (pc' \in {"getCV", "start"} /\ n' = 1)
    BY <2>1, <1>a DEF ErrorTo
  <2> QED
    BY <2>2, <1>b DEF ResumeInv, AfterControllers, RecoveryPcs
<1>2. CASE pc' \notin {"start", "waitStarted"} \cup AfterControllers
  BY <1>2 DEF ResumeInv, AfterControllers, RecoveryPcs
<1>3. CASE AllReplaced \/ VerifyHandles
  <2>1. pc' \in {"verify", "start"} /\ n' = 1
    BY <1>3 DEF AllReplaced, VerifyHandles, GoTo
  <2> QED
    BY <2>1, <1>b DEF ResumeInv, AfterControllers, RecoveryPcs
<1>4. CASE StartController
  <2>1. pc = "start" /\ pc' = "waitStarted" /\ n' = n /\ Effect /\ n \in Workloads
    BY <1>4, <1>a, <1>b DEF StartController, GoTo, local
  <2>2. replicas'[n] >= before.replicas[n] /\ \A u \in Workloads : u # n => replicas'[u] = replicas[u]
    BY <2>1, ScaledBack
  <2>3. ~recoveryFailed => \A w \in Controllers : w <= n' => replicas'[w] >= before'.replicas[w]
    <3> SUFFICES ASSUME ~recoveryFailed, NEW w \in Controllers, w <= n PROVE replicas'[w] >= before.replicas[w]
      BY <1>a, <2>1
    <3>1. CASE w = n
      BY <2>2, <3>1
    <3>2. CASE w # n
      <4>1. w < n /\ w \in Workloads
        BY <3>2, <1>a, <1>b
      <4>2. replicas[w] >= before.replicas[w]
        BY <2>1, <4>1 DEF ResumeInv
      <4> QED
        BY <2>2, <3>2, <4>1, <4>2
    <3> QED
      BY <3>1, <3>2
  <2> QED
    BY <1>a, <2>1, <2>3 DEF ResumeInv, AfterControllers, RecoveryPcs
<1>5. CASE WaitControllerStarted
  <2>1. pc = "waitStarted" /\ replicas' = replicas
    BY <1>5 DEF WaitControllerStarted, cluster
  <2>2. ~recoveryFailed => \A w \in Controllers : w <= n => replicas'[w] >= before'.replicas[w]
    BY <1>a, <2>1 DEF ResumeInv
  <2>3. CASE n < 3
    <3>1. pc' = "start" /\ n' = n + 1
      BY <1>5, <2>3 DEF WaitControllerStarted, GoTo
    <3> QED
      BY <1>a, <1>b, <2>2, <3>1 DEF ResumeInv, AfterControllers, RecoveryPcs
  <2>4. CASE ~(n < 3)
    <3>1. pc' \in {"getCV2", "waitReady", "startEtcd"}
      BY <1>5, <2>4 DEF WaitControllerStarted, GoTo, AfterOverrides
    <3>2. ~recoveryFailed => \A w \in Controllers : replicas'[w] >= before'.replicas[w]
      BY <1>a, <1>b, <2>2, <2>4
    <3> QED
      BY <1>a, <3>1, <3>2 DEF ResumeInv, AfterControllers, RecoveryPcs
  <2> QED
    BY <2>3, <2>4
<1>6. CASE StartEtcd
  <2>1. pc = "startEtcd" /\ pc' \in {"restorePause", "waitEtcdStarted"} /\ Effect
    BY <1>6 DEF StartEtcd, GoTo
  <2>2. replicas'[Etcd] >= before.replicas[Etcd] /\ \A w \in Workloads : w # Etcd => replicas'[w] = replicas[w]
    BY <1>b, <2>1, ScaledBack
  <2>3. ~recoveryFailed => \A w \in Controllers : replicas'[w] >= before'.replicas[w]
    BY <1>a, <1>b, <2>1, <2>2 DEF ResumeInv, AfterControllers, RecoveryPcs
  <2> QED
    BY <1>a, <2>1, <2>2, <2>3 DEF ResumeInv
<1>7. CASE \/ pc = "getCV2" /\ ReadOverrides
           \/ pc = "putCV2" /\ (RestoreOverrides \/ OverridesConflict)
           \/ WaitReady \/ Unpause \/ WaitEtcdStarted \/ RestorePause
  <2>1. /\ pc \in AfterControllers /\ pc # "startEtcd"
        /\ pc' \in {"putCV2", "getCV2", "waitReady", "startEtcd", "unpause", "done", "restorePause", "idle"}
        /\ pc' = "restorePause" => pc = "waitEtcdStarted"
    BY <1>7 DEF ReadOverrides, RestoreOverrides, OverridesConflict, WaitReady, Unpause, WaitEtcdStarted, RestorePause,
       GoTo, AfterControllers, AfterOverrides, RecoveryPcs
  <2>2. replicas' = replicas
    BY <2>1, StepParts DEF AfterControllers, RecoveryPcs
  <2> QED
    BY <1>a, <2>1, <2>2 DEF ResumeInv
<1>8. CASE Process
  <2>1. CASE pc \in EarlyPcs \cup OnVSC
    <3>1. pc' \in EarlyPcs \cup OnVSC \cup {"nextVSC"}
      <4>1. CASE pc \in EarlyPcs
        BY <1>8, <4>1, ProcessAt DEF StepAt, EarlyPcs, StopPcs, PauseHostedCluster, WaitHostedControlPlanePaused, StopEtcd,
           WaitEtcdStopped, ReadOverrides, SetOverrides, OverridesConflict, StopController, WaitControllerStopped, GoTo
      <4>2. CASE pc \in OnVSC
        BY <1>8, <4>2, ProcessAt DEF StepAt, OnVSC, RetainVSC, DeleteVSC, WaitVSCGone, CreateVSC, GoTo
      <4> QED
        BY <2>1, <4>1, <4>2
    <3> QED
      BY <1>2, <3>1 DEF EarlyPcs, StopPcs, OnVSC, AfterControllers, RecoveryPcs
  <2>2. CASE NextVSC
    <3>1. pc' \in {"createVSC", "patchVSC"}
      BY <2>2 DEF NextVSC, GoTo
    <3> QED
      BY <1>2, <3>1 DEF AfterControllers, RecoveryPcs
  <2>3. pc \in Pcs /\ pc # "idle" /\ pc # "done"
    BY <1>8, Frames, ProcessAt DEF StepAt, TypeOK
  <2>4. CASE pc \in {"nextVSC", "verify"}
    BY <1>8, <2>2, <2>4, <1>3, ProcessAt DEF StepAt
  <2>5. CASE pc \in ResumePcs \cup RecoveryPcs \cup {"waitReady", "unpause"}
    BY <1>8, <2>5, <1>4, <1>5, <1>6, <1>7, ProcessAt DEF StepAt, ResumePcs, RecoveryPcs
  <2> QED
    BY <2>1, <2>3, <2>4, <2>5 DEF Pcs, EarlyPcs, StopPcs, OnVSC, ResumePcs, RecoveryPcs
<1> QED
  BY <1>1, <1>8 DEF Acts

-----------------------------------------------------------------------------
(***************************************************************************)
(* Handles, and the end of a run.                                          *)
(***************************************************************************)
\* Only the replacement of a VSC changes it.
LEMMA StepVsc ==
    ASSUME TypeOK, VscInv, Acts
    PROVE  /\ pc \notin {"patchVSC", "deleteVSC", "createVSC"} => vsc' = vsc
           /\ \A v \in VSC : v # cur => vsc'[v] = vsc[v]
<1>1. CASE UNCHANGED cluster
  BY <1>1 DEF cluster
<1> QED
  BY <1>1, ProcessCalls, EffectVsc DEF Acts

LEMMA HandleStep ==
    ASSUME TypeOK, BeforeOK, VscInv, ModeInv, MemoryInv, HandleInv, Acts, ~Begin, pc' # "idle"
    PROVE  HandleInv'
<1>a. /\ before' = before /\ (~recoveryFailed' => ~recoveryFailed)
      /\ mode \in {"main", "rollback", "recovery"} /\ started \in BOOLEAN
  BY Frames DEF TypeOK
<1>1. CASE Deadline \/ CallFails
  <2>1. ErrorTo
    BY <1>1, ErrorAt
  <2>2. CASE mode = "main" /\ started
    BY <2>1, <2>2 DEF ErrorTo, HandleInv, OnVSC
  <2>3. CASE mode = "main" /\ ~started
    <3>1. pc \notin OnVSC
      BY <2>3 DEF ModeInv, LatePcs
    <3>2. HandlesOf(vsc)' = before'.handles
      BY <1>1, <1>a, <2>3, <3>1, StepVsc DEF Acts, HandleInv, HandlesOf, OnVSC
    <3> QED
      BY <2>1, <2>3, <3>2 DEF ErrorTo, HandleInv
  <2>4. CASE mode # "main"
    BY <2>1, <2>4 DEF ErrorTo, HandleInv
  <2> QED
    BY <2>2, <2>3, <2>4
<1>2. CASE Process /\ pc \in EarlyPcs
  <2>1. /\ vsc' = vsc /\ UNCHANGED <<mode, started, todo>> /\ pc' \in EarlyPcs \cup {"nextVSC"}
    <3>1. vsc' = vsc
      BY <1>2, StepVsc DEF Acts, EarlyPcs, StopPcs
    <3> QED
      BY <1>2, <3>1, ProcessAt DEF StepAt, EarlyPcs, StopPcs, PauseHostedCluster, WaitHostedControlPlanePaused, StopEtcd,
           WaitEtcdStopped, ReadOverrides, SetOverrides, OverridesConflict, StopController, WaitControllerStopped, GoTo, local
  <2>2. mode # "recovery"
    BY <1>2 DEF ModeInv, EarlyPcs, StopPcs, ResumePcs, RecoveryPcs
  <2>3. HandlesOf(vsc)' = HandlesOf(vsc)
    BY <2>1 DEF HandlesOf
  <2>4. mode = "rollback" => todo' = VSC
    BY <1>2, <2>1 DEF HandleInv
  <2> QED
    BY <1>a, <2>1, <2>2, <2>3, <2>4 DEF HandleInv, EarlyPcs, StopPcs, OnVSC
<1>3. CASE NextVSC
  <2>1. /\ vsc' = vsc /\ mode' = mode /\ started' /\ pc = "nextVSC" /\ pc' \in OnVSC
        /\ todo' = todo \ {cur'}
    BY <1>3 DEF NextVSC, GoTo, OnVSC, cluster
  <2>2. mode # "recovery"
    BY <2>1 DEF ModeInv, ResumePcs, RecoveryPcs
  <2> QED
    BY <1>a, <2>1, <2>2 DEF HandleInv, EarlyPcs, StopPcs, OnVSC
<1>4. CASE AllReplaced
  <2>1. /\ vsc' = vsc /\ pc = "nextVSC" /\ todo = {} /\ started' = started
        /\ \/ mode = "main" /\ mode' = "main" /\ pc' = "verify"
           \/ mode = "rollback" /\ mode' = "recovery" /\ pc' = "start"
    BY <1>4, <1>a DEF AllReplaced, GoTo, cluster, ModeInv, ResumePcs, RecoveryPcs
  <2>2. mode = "rollback" => HandlesOf(vsc)' = before'.handles
    <3> SUFFICES ASSUME mode = "rollback" PROVE HandlesOf(vsc) = before.handles
      BY <1>a, <2>1 DEF HandlesOf
    <3>1. \A v \in VSC : vsc[v].handle = before.handles[v]
      BY <2>1 DEF HandleInv
    <3> QED
      BY <3>1 DEF HandlesOf, BeforeOK
  <2>3. mode = "main" => HandlesOf(vsc)' = HandlesOf(vsc)
    BY <2>1 DEF HandlesOf
  <2> QED
    BY <1>a, <2>1, <2>2, <2>3 DEF HandleInv
<1>5. CASE Process /\ pc \in OnVSC
  <2>1. /\ mode # "recovery" /\ started
    BY <1>5, <1>a DEF ModeInv, LatePcs, OnVSC, ResumePcs, RecoveryPcs
  <2>2. /\ UNCHANGED <<mode, started, todo, cur>> /\ pc' \in OnVSC \cup {"nextVSC"}
        /\ pc' = "nextVSC" => pc = "createVSC" /\ Effect
    BY <1>5, ProcessAt DEF StepAt, OnVSC, RetainVSC, DeleteVSC, WaitVSCGone, CreateVSC, GoTo, local
  <2>3. \A v \in VSC : v # cur => vsc'[v] = vsc[v]
    BY <1>5, StepVsc DEF Acts
  <2>4. mode = "rollback" /\ pc' = "nextVSC" => vsc'[cur].handle = before.handles[cur]
    <3> SUFFICES ASSUME mode = "rollback", pc' = "nextVSC" PROVE vsc'[cur].handle = before.handles[cur]
      OBVIOUS
    <3>1. vsc'[cur].handle = originals[cur].handle
      BY <2>2, EffectVsc DEF TargetHandle
    <3>2. cur \in VSC
      BY DEF TypeOK
    <3> QED
      BY <3>1, <3>2 DEF MemoryInv, HandlesOf
  <2> QED
    BY <1>5, <1>a, <2>1, <2>2, <2>3, <2>4 DEF HandleInv, EarlyPcs, StopPcs, OnVSC
<1>6. CASE Process /\ pc \in {"verify"} \cup ResumePcs \cup RecoveryPcs
  <2>1. UNCHANGED <<mode, started>> /\ pc' \notin EarlyPcs \cup OnVSC \cup {"nextVSC", "unpause", "done"}
    <3>1. CASE pc \in {"verify"} \cup ResumePcs
      BY <1>6, <3>1, ProcessAt DEF StepAt, ResumePcs, VerifyHandles, StartController, WaitControllerStarted,
         ReadOverrides, RestoreOverrides, OverridesConflict, AfterOverrides, GoTo, local, EarlyPcs, StopPcs, OnVSC
    <3>2. CASE pc \in RecoveryPcs
      BY <1>6, <3>2, ProcessAt DEF StepAt, RecoveryPcs, StartEtcd, WaitEtcdStarted, RestorePause, GoTo, local,
         EarlyPcs, StopPcs, OnVSC
    <3> QED
      BY <1>6, <3>1, <3>2
  <2>2. vsc' = vsc
    BY <1>6, StepVsc DEF Acts, ResumePcs, RecoveryPcs
  <2>3. HandlesOf(vsc)' = HandlesOf(vsc)
    BY <2>2 DEF HandlesOf
  <2> QED
    BY <1>a, <2>1, <2>3 DEF HandleInv
<1>7. CASE WaitReady \/ Unpause
  <2>1. /\ pc \in {"waitReady", "unpause"} /\ pc' \in {"unpause", "done"} /\ UNCHANGED <<mode, started>>
        /\ WaitReady => Awaited /\ pc = "waitReady"
        /\ Unpause => pc = "unpause"
    BY <1>7 DEF WaitReady, Unpause, GoTo, local
  <2>2. vsc' = vsc
    BY <1>7, <2>1, StepVsc DEF Acts, Process
  <2>3. mode = "main"
    BY <2>1, <1>a DEF ModeInv, RollbackPcs, StopPcs, OnVSC, ResumePcs, RecoveryPcs
  <2>4. \A v \in VSC : vsc[v] # Absent /\ vsc[v].handle = "destination" /\ vsc[v].ready
    BY <1>7, <2>1, <2>3 DEF HandleInv, Awaited
  <2>5. HandlesOf(vsc)' = HandlesOf(vsc)
    BY <2>2 DEF HandlesOf
  <2> QED
    BY <1>a, <2>1, <2>2, <2>3, <2>4, <2>5 DEF HandleInv
<1>8. CASE Process
  <2>1. pc \in Pcs /\ pc # "idle" /\ pc # "done"
    BY <1>8, Frames, ProcessAt DEF StepAt, TypeOK
  <2>2. CASE pc \in {"nextVSC", "waitReady", "unpause"}
    BY <1>3, <1>4, <1>7, <1>8, <2>2, ProcessAt DEF StepAt
  <2> QED
    BY <1>2, <1>5, <1>6, <1>8, <2>1, <2>2 DEF Pcs, EarlyPcs, StopPcs, OnVSC, ResumePcs, RecoveryPcs
<1> QED
  BY <1>1, <1>8 DEF Acts

LEMMA DoneStep == ASSUME TypeOK, ModeInv, DoneInv, Acts, ~Begin PROVE DoneInv'
<1>1. pc' = "done" => Unpause
  <2>1. CASE Deadline \/ CallFails
    BY <2>1, ErrorAt DEF ErrorTo
  <2>2. Process /\ pc' = "done" => Unpause
    BY DEF Process, Begin, PauseHostedCluster, WaitHostedControlPlanePaused, StopEtcd, WaitEtcdStopped,
       ReadOverrides, OverridesConflict, SetOverrides, StopController, WaitControllerStopped,
       NextVSC, AllReplaced, RetainVSC, DeleteVSC, WaitVSCGone, CreateVSC, VerifyHandles,
       StartController, WaitControllerStarted, RestoreOverrides, WaitReady, StartEtcd,
       WaitEtcdStarted, RestorePause, AfterOverrides, GoTo
  <2> QED
    BY <2>1, <2>2 DEF Acts
<1>2. CASE Unpause
  <2>1. pc = "unpause" /\ Effect /\ mode' = mode /\ mode \in {"main", "rollback", "recovery"}
    BY <1>2 DEF Unpause, GoTo, TypeOK
  <2>2. hcPause' = "none"
    BY <2>1, EffectMeans DEF EffectIs, SetPaused
  <2>3. mode = "main"
    BY <2>1 DEF ModeInv, RollbackPcs, StopPcs, OnVSC, ResumePcs, RecoveryPcs
  <2> QED
    BY <2>1, <2>2, <2>3 DEF DoneInv
<1> QED
  BY <1>1, <1>2 DEF DoneInv

-----------------------------------------------------------------------------
(***************************************************************************)
(* Begin, the other actors, and the end of a failed run.                   *)
(***************************************************************************)
LEMMA BeginStep == ASSUME TypeOK, Begin PROVE BeforeOK' /\ RunInv'
<1>a. /\ pc' = "pauseHC" /\ mode' = "main" /\ started' = FALSE /\ originals' = vsc /\ before' = Cluster
      /\ state' = [EmptyState EXCEPT !.pause = hcPause]
      /\ UNCHANGED <<hcPause, replicas, overrides, vsc>> /\ recoveryFailed' = FALSE
  BY DEF Begin, cluster
<1>b. /\ state'.pause = hcPause /\ state'.replicas = EmptyState.replicas /\ state'.changed = EmptyState.changed
  BY <1>a DEF EmptyState
<1>c. /\ Cluster.hcPause = hcPause /\ Cluster.replicas = replicas /\ Cluster.overrides = overrides
      /\ Cluster.handles = HandlesOf(vsc)
  BY DEF Cluster, HandlesOf
<1>1. BeforeOK'
  <2>1. \A v \in VSC : vsc[v].handle \in {"none", "source", "destination"}
    BY ContentHandles DEF TypeOK
  <2> QED
    BY <1>a, <2>1 DEF BeforeOK, Cluster, TypeOK
<1>2. MemoryInv'
  <2>1. HandlesOf(originals)' = HandlesOf(vsc)
    BY <1>a DEF HandlesOf
  <2> QED
    BY <1>a, <1>b, <1>c, <2>1 DEF MemoryInv
<1>3. ReplicaInv'
  <2>1. \A w \in Workloads : state'.replicas[w] = Unrecorded
    BY <1>b DEF EmptyState
  <2>2. replicas \in [Workloads -> 0..1] /\ before'.replicas = replicas
    BY <1>a, <1>c DEF TypeOK
  <2>3. \A w \in Workloads : replicas[w] \in 0..1 /\ Unrecorded >= replicas[w] /\ replicas[w] >= replicas[w]
    BY <2>2 DEF Unrecorded
  <2> QED
    BY <1>a, <2>1, <2>2, <2>3, WorkloadSet DEF ReplicaInv, Recorded, StopPcs
<1>4. OverrideInv'
  BY <1>a, <1>b, <1>c DEF OverrideInv, NothingIsChanged, StopPcs, OnVSC, ResumePcs
<1>5. ResumeInv'
  BY <1>a DEF ResumeInv, AfterControllers, RecoveryPcs
<1>6. HandleInv'
  <2>1. HandlesOf(vsc)' = HandlesOf(vsc)
    BY <1>a DEF HandlesOf
  <2> QED
    BY <1>a, <1>c, <2>1 DEF HandleInv
<1> QED
  BY <1>1, <1>2, <1>3, <1>4, <1>5, <1>6, <1>a DEF RunInv, DoneInv

\* The others only bring back what is off and take in hand what is there.
LEMMA EnvKeeps ==
    ASSUME TypeOK, StopInv, VscInv, EnvActions
    PROVE  /\ UNCHANGED <<hcPause, overrides, pc, mode, n, cur, todo, started, originals, state, before,
                          recoveryFailed, answerLost>>
           /\ cvRead'.overrides = cvRead.overrides
           /\ \A w \in Workloads : replicas'[w] >= replicas[w]
           /\ \A v \in VSC : /\ vsc'[v].handle = vsc[v].handle
                             /\ vsc[v] # Absent => vsc'[v] # Absent
                             /\ vsc[v] # Absent /\ vsc[v].ready => vsc'[v].ready
<1>1. /\ UNCHANGED <<hcPause, overrides, pc, mode, n, cur, todo, started, originals, state, before,
                     recoveryFailed, answerLost>>
      /\ cvRead' = cvRead \/ cvRead' = [cvRead EXCEPT !.current = FALSE]
  BY DEF EnvActions, Environment, ForeignOverride, PropagatePause, ReconcileEtcd, ReconcileController,
         PodsFollow, ReconcileVSC, Scale, Actor, history
<1>2. cvRead'.overrides = cvRead.overrides
  BY <1>1 DEF TypeOK
<1>3. \A w \in Workloads : replicas'[w] >= replicas[w]
  <2>1. replicas \in [Workloads -> 0..1] /\ Controllers \subseteq Workloads
    BY WorkloadSet DEF TypeOK
  <2>2. CASE replicas' = replicas
    BY <2>1, <2>2
  <2>3. ASSUME NEW u \in Workloads, Scale(u, 1) PROVE \A w \in Workloads : replicas'[w] >= replicas[w]
    BY <2>1, <2>3 DEF Scale
  <2>4. CASE ReconcileEtcd
    BY <2>3, <2>4, WorkloadSet DEF ReconcileEtcd
  <2>5. CASE \E w \in Controllers : ReconcileController(w)
    BY <2>1, <2>3, <2>5 DEF ReconcileController
  <2>6. ~ReconcileEtcd /\ ~(\E w \in Controllers : ReconcileController(w)) => replicas' = replicas
    BY DEF EnvActions, Environment, ForeignOverride, PropagatePause, PodsFollow, ReconcileVSC
  <2> QED
    BY <2>2, <2>4, <2>5, <2>6
<1>4. \A v \in VSC : /\ vsc'[v].handle = vsc[v].handle
                     /\ vsc[v] # Absent => vsc'[v] # Absent
                     /\ vsc[v] # Absent /\ vsc[v].ready => vsc'[v].ready
  <2>1. ASSUME NEW u \in VSC, ReconcileVSC(u)
        PROVE  \A v \in VSC : /\ vsc'[v].handle = vsc[v].handle
                              /\ vsc[v] # Absent => vsc'[v] # Absent
                              /\ vsc[v] # Absent /\ vsc[v].ready => vsc'[v].ready
    <3>1. /\ vsc' = [vsc EXCEPT ![u] = Adopted(u)] /\ Adopted(u) # Absent
          /\ Adopted(u).handle = vsc[u].handle /\ Adopted(u).ready
      BY <2>1, ReconcileVscIs
    <3> QED
      BY <3>1 DEF TypeOK
  <2>2. ~(\E v \in VSC : ReconcileVSC(v)) => vsc' = vsc
    BY DEF EnvActions, Environment, ForeignOverride, PropagatePause, ReconcileEtcd, ReconcileController,
       PodsFollow, Scale
  <2> QED
    BY <2>1, <2>2
<1> QED
  BY <1>1, <1>2, <1>3, <1>4

LEMMA EnvRun ==
    ASSUME TypeOK, BeforeOK, StopInv, VscInv, RunInv, FailedRunRestores, EnvActions
    PROVE  BeforeOK' /\ RunInv' /\ FailedRunRestores'
<1>a. /\ UNCHANGED <<hcPause, overrides, pc, mode, n, cur, todo, started, originals, state, before,
                     recoveryFailed, answerLost>>
      /\ cvRead'.overrides = cvRead.overrides
      /\ \A w \in Workloads : replicas'[w] >= replicas[w]
      /\ \A v \in VSC : /\ vsc'[v].handle = vsc[v].handle
                        /\ vsc[v] # Absent => vsc'[v] # Absent
                        /\ vsc[v] # Absent /\ vsc[v].ready => vsc'[v].ready
  BY EnvKeeps
<1>b. HandlesOf(vsc)' = HandlesOf(vsc) /\ HandlesOf(originals)' = HandlesOf(originals)
  BY <1>a DEF HandlesOf
<1>c. \A w \in Workloads : replicas[w] >= before.replicas[w] => replicas'[w] >= before'.replicas[w]
  <2>1. replicas \in [Workloads -> 0..1] /\ replicas' \in [Workloads -> 0..1] /\ before.replicas \in [Workloads -> 0..1]
    BY EnvTyped DEF TypeOK, BeforeOK
  <2> QED
    BY <1>a, <2>1
<1>d. Controllers \subseteq Workloads /\ Etcd \in Workloads
  BY WorkloadSet
<1>1. BeforeOK'
  BY <1>a DEF BeforeOK
<1>2. ASSUME MemoryInv PROVE MemoryInv'
  BY <1>2, <1>a, <1>b DEF MemoryInv
<1>3. ASSUME ReplicaInv PROVE ReplicaInv'
  BY <1>3, <1>a, <1>c, <1>d DEF ReplicaInv, Recorded
<1>4. ASSUME OverrideInv PROVE OverrideInv'
  BY <1>4, <1>a DEF OverrideInv, NothingIsChanged, BeforeIsChanged, Sound
<1>5. ASSUME ResumeInv PROVE ResumeInv'
  BY <1>5, <1>a, <1>c, <1>d DEF ResumeInv
<1>6. ASSUME HandleInv PROVE HandleInv'
  BY <1>6, <1>a, <1>b DEF HandleInv
<1>7. ASSUME DoneInv PROVE DoneInv'
  BY <1>7, <1>a DEF DoneInv
<1>8. FailedRunRestores'
  <2>1. Cluster'.handles = HandlesOf(vsc)' /\ Cluster.handles = HandlesOf(vsc)
    BY DEF Cluster, HandlesOf
  <2>2. /\ Cluster'.hcPause = hcPause' /\ Cluster.hcPause = hcPause
        /\ Cluster'.overrides = overrides' /\ Cluster.overrides = overrides
    BY DEF Cluster
  <2> QED
    BY <1>a, <1>b, <1>c, <2>1, <2>2 DEF FailedRunRestores
<1> QED
  BY <1>1, <1>2, <1>3, <1>4, <1>5, <1>6, <1>7, <1>8, <1>a DEF RunInv

\* Only a recovery whose calls all succeeded ends a run that did not fail to recover.
LEMMA RestoreStep ==
    ASSUME TypeOK, BeforeOK, ModeInv, VscInv, RunInv, Acts, ~Begin
    PROVE  FailedRunRestores'
<1> SUFFICES ASSUME pc' = "idle", ~recoveryFailed', ~answerLost' PROVE FailedRunRestores'
  BY DEF FailedRunRestores
<1>a. ~recoveryFailed /\ ~answerLost /\ before' = before /\ pc # "idle"
  BY Frames
<1>1. RestorePause /\ pc = "restorePause" /\ mode = "recovery" /\ Effect
  <2>1. ~(Deadline \/ CallFails)
    BY ErrorAt DEF ErrorTo
  <2>2. RestorePause
    BY <2>1, <1>a DEF Acts, Process, Begin, PauseHostedCluster, WaitHostedControlPlanePaused, StopEtcd, WaitEtcdStopped,
       ReadOverrides, OverridesConflict, SetOverrides, StopController, WaitControllerStopped,
       NextVSC, AllReplaced, RetainVSC, DeleteVSC, WaitVSCGone, CreateVSC, VerifyHandles,
       StartController, WaitControllerStarted, RestoreOverrides, WaitReady, Unpause, StartEtcd,
       WaitEtcdStarted, AfterOverrides, GoTo
  <2>3. pc = "restorePause" /\ Effect
    BY <2>2 DEF RestorePause
  <2> QED
    BY <2>2, <2>3 DEF TypeOK, ModeInv, RollbackPcs, StopPcs, OnVSC, RecoveryPcs
<1>2. MemoryInv /\ ReplicaInv /\ OverrideInv /\ ResumeInv /\ HandleInv
  BY <1>a DEF RunInv
<1>3. hcPause' = before.hcPause
  <2>1. IF state.pausedByUs THEN SetPaused(state.pause) ELSE UNCHANGED cluster
    BY <1>1, EffectMeans DEF EffectIs
  <2> QED
    BY <1>2, <1>a, <2>1 DEF MemoryInv, SetPaused, cluster
<1>4. overrides' = before.overrides /\ replicas' = replicas
  BY <1>1, <1>2, <1>a, StepParts DEF OverrideInv, Sound, RecoveryPcs
<1>5. HandlesOf(vsc)' = before.handles
  <2>1. vsc' = vsc
    BY <1>1, StepVsc
  <2> QED
    BY <1>1, <1>2, <1>a, <2>1 DEF HandleInv, HandlesOf
<1>6. \A w \in Workloads : replicas'[w] >= before.replicas[w]
  BY <1>1, <1>2, <1>4, <1>a, WorkloadSet DEF ResumeInv, AfterControllers, RecoveryPcs
<1> QED
  BY <1>a, <1>3, <1>4, <1>5, <1>6 DEF FailedRunRestores, Cluster, HandlesOf

-----------------------------------------------------------------------------
(***************************************************************************)
(* The theorems.                                                           *)
(***************************************************************************)
LEMMA RunStep ==
    ASSUME TypeOK, BeforeOK, ModeInv, StopInv, VscInv, RunInv, Acts
    PROVE  BeforeOK' /\ RunInv' /\ FailedRunRestores'
<1>1. CASE Begin
  BY <1>1, BeginStep DEF Begin, FailedRunRestores
<1>2. CASE ~Begin
  <2>1. before' = before /\ pc # "idle"
    BY <1>2, Frames
  <2>2. BeforeOK'
    BY <2>1 DEF BeforeOK
  <2>3. FailedRunRestores'
    BY <1>2, RestoreStep
  <2>4. ASSUME pc' # "idle" PROVE RunInv'
    <3>1. MemoryInv /\ ReplicaInv /\ OverrideInv /\ ResumeInv /\ HandleInv /\ DoneInv
      BY <2>1 DEF RunInv
    <3>2. MemoryInv' /\ ReplicaInv'
      BY <1>2, <2>1, <2>4, <3>1, MemoryStep, ReplicaStep
    <3>3. OverrideInv' /\ ResumeInv'
      BY <1>2, <2>1, <2>4, <3>1, OverrideStep, ResumeStep
    <3>4. HandleInv' /\ DoneInv'
      BY <1>2, <2>1, <2>4, <3>1, HandleStep, DoneStep
    <3> QED
      BY <3>2, <3>3, <3>4 DEF RunInv
  <2> QED
    BY <2>2, <2>3, <2>4 DEF RunInv
<1> QED
  BY <1>1, <1>2

\* The cluster and the command start with nothing done.
LEMMA InitInv == Init => IInv
<1> SUFFICES ASSUME Init PROVE IInv
  OBVIOUS
<1>1. TypeOK
  <2>1. hcPause \in Pauses /\ hcpPause \in Pauses /\ overrides \in [Controllers -> OverrideState]
    BY DEF Init, Pauses, OverrideState
  <2>2. replicas \in [Workloads -> 0..1] /\ running \in [Workloads -> 0..1]
    BY DEF Init
  <2>3. vsc \in [VSC -> Content \cup {Absent}] /\ originals \in [VSC -> Content]
    BY DEF Init, Restored, Content
  <2>4. ClusterTyped
    BY <2>1, <2>2, <2>3 DEF ClusterTyped, Init
  <2>5. ControlTyped
    BY DEF Init, ControlTyped, Pcs
  <2>6. cur \in VSC /\ n \in 1..3 /\ faults \in 0..MaxFaults
    BY VscAssumption DEF Init
  <2>7. state \in RemapState
    BY <2>1, EmptyTyped DEF Init
  <2>8. cvRead \in [overrides : [Controllers -> OverrideState], foreign : BOOLEAN, current : BOOLEAN]
    BY <2>1 DEF Init
  <2> QED
    BY <2>3, <2>4, <2>5, <2>6, <2>7, <2>8, TypeSplit DEF ProcessTyped, Init
<1>2. BeforeOK
  <2>1. before = Cluster
    BY DEF Init
  <2>2. \A v \in VSC : vsc[v].handle \in {"none", "source", "destination"}
    BY <1>1, ContentHandles DEF TypeOK
  <2> QED
    BY <1>1, <2>1, <2>2 DEF BeforeOK, Cluster, TypeOK
<1>3. ModeInv
  BY DEF Init, ModeInv, EarlyPcs, StopPcs, LatePcs, OnVSC, ResumePcs, RecoveryPcs
<1>4. StopInv
  BY DEF Init, StopInv, StopPcs, OnVSC, EndPcs
<1>5. VscInv
  BY DEF Init, VscInv, Restored
<1>6. RunInv
  BY DEF Init, RunInv
<1>7. FailedRunRestores
  <2>1. before = Cluster /\ replicas \in [Workloads -> 0..1]
    BY DEF Init
  <2>2. before.replicas = replicas
    BY <2>1 DEF Cluster
  <2>3. \A w \in Workloads : replicas[w] >= before.replicas[w]
    BY <2>1, <2>2
  <2> QED
    BY <2>1, <2>3 DEF FailedRunRestores
<1> QED
  BY <1>1, <1>2, <1>3, <1>4, <1>5, <1>6, <1>7 DEF IInv

LEMMA InvStep == IInv /\ [Next]_vars => IInv'
<1> SUFFICES ASSUME IInv, [Next]_vars PROVE IInv'
  OBVIOUS
<1>1. TypeOK /\ BeforeOK /\ ModeInv /\ StopInv /\ VscInv /\ RunInv /\ FailedRunRestores
  BY DEF IInv
<1>2. TypeOK' /\ ModeInv' /\ StopInv' /\ VscInv'
  BY <1>1, TypeStep, ModeStep, StopStep, VscStep
<1>3. CASE Acts
  BY <1>1, <1>2, <1>3, RunStep DEF IInv
<1>4. CASE EnvActions
  BY <1>1, <1>2, <1>4, EnvRun DEF IInv
<1>5. CASE Crash
  <2>1. pc' = "idle" /\ recoveryFailed' /\ before' = before
    BY <1>5 DEF Crash
  <2> QED
    BY <1>1, <1>2, <2>1 DEF IInv, BeforeOK, RunInv, FailedRunRestores
<1>6. CASE UNCHANGED vars
  BY <1>1, <1>2, <1>6 DEF IInv, BeforeOK, RunInv, FailedRunRestores, MemoryInv, ReplicaInv, OverrideInv, ResumeInv,
     HandleInv, DoneInv, HandlesOf, Recorded, NothingIsChanged, BeforeIsChanged, Sound, Cluster,
     vars, cluster, local, history
<1> QED
  BY <1>3, <1>4, <1>5, <1>6 DEF Next, Acts, EnvActions

\* What the invariant says of the properties the run checks.
LEMMA InvIsSafe == IInv => RemapIsSafe
<1> SUFFICES ASSUME IInv PROVE RemapIsSafe
  OBVIOUS
<1>1. TypeOK /\ BeforeOK /\ ModeInv /\ StopInv /\ VscInv /\ RunInv /\ FailedRunRestores
  BY DEF IInv
<1>2. ReplacedWhileStopped
  BY <1>1, WorkloadSet DEF ReplacedWhileStopped, StopInv, OnVSC, Off, AllUnmanaged, EndPcs
<1>3. CompletedRunResumes
  <2> SUFFICES ASSUME pc = "done" PROVE CompletedRunResumes
    BY DEF CompletedRunResumes
  <2>1. OverrideInv /\ ResumeInv /\ HandleInv /\ DoneInv
    BY <1>1 DEF RunInv
  <2>2. mode = "main" /\ hcPause = "none" /\ ~recoveryFailed
    BY <1>1, <2>1 DEF DoneInv, ModeInv
  <2>3. overrides = before.overrides
    BY <2>1, <2>2 DEF OverrideInv
  <2>4. \A w \in Controllers : replicas[w] >= before.replicas[w]
    BY <2>1, <2>2 DEF ResumeInv, AfterControllers
  <2>5. \A v \in VSC : vsc[v].handle = "destination" /\ vsc[v].ready
    BY <2>1, <2>2 DEF HandleInv
  <2> QED
    BY <2>2, <2>3, <2>4, <2>5 DEF CompletedRunResumes
<1> QED
  BY <1>1, <1>2, <1>3 DEF RemapIsSafe, SnapshotsSurvive, VscInv

\* Whatever fails, whoever is killed and however often the remap is run: VSCs are
\* replaced only while the controllers are stopped, no snapshot is deleted, a
\* failed run whose recovery worked leaves what it found, and a completed one
\* leaves every VSC ready on its copy with the controllers and overrides back.
THEOREM RemapSafe == Spec => []RemapIsSafe
<1>1. Init => IInv
  BY InitInv
<1>2. IInv /\ [Next]_vars => IInv'
  BY InvStep
<1> QED
  BY <1>1, <1>2, InvIsSafe, PTL DEF Spec

\* A read that is still current has seen the override someone else added.
ForeignInv == pc \in {"putCV", "putCV2"} /\ cvRead.current => cvRead.foreign = foreign

LEMMA ForeignStep == TypeOK /\ ForeignInv /\ [Next]_vars => ForeignInv' /\ (foreign => foreign')
<1> SUFFICES ASSUME TypeOK, ForeignInv, [Next]_vars PROVE ForeignInv' /\ (foreign => foreign')
  OBVIOUS
<1>a. cvRead \in [overrides : [Controllers -> OverrideState], foreign : BOOLEAN, current : BOOLEAN]
      /\ foreign \in BOOLEAN
  BY DEF TypeOK
<1>1. CASE ForeignOverride
  BY <1>1, <1>a DEF ForeignOverride, ForeignInv
<1>2. CASE (Environment \/ UNCHANGED vars) /\ ~ForeignOverride
  <2>1. UNCHANGED <<pc, cvRead, foreign>>
    BY <1>2 DEF Environment, PropagatePause, ReconcileEtcd, ReconcileController, PodsFollow, ReconcileVSC, Scale,
       Actor, vars, cluster, local
  <2> QED
    BY <2>1 DEF ForeignInv
<1>3. CASE ReadOverrides
  BY <1>3, <1>a DEF ReadOverrides, GoTo, cluster, ForeignInv
<1>4. CASE (Acts \/ Crash) /\ ~ReadOverrides
  <2>1. pc' \notin {"putCV", "putCV2"}
    <3>1. CASE Deadline \/ CallFails
      BY <3>1, ErrorAt DEF ErrorTo
    <3>2. CASE Crash
      BY <3>2 DEF Crash
    <3>3. CASE Process
      BY <1>4, <3>3 DEF Process, Begin, PauseHostedCluster, WaitHostedControlPlanePaused, StopEtcd, WaitEtcdStopped,
       OverridesConflict, SetOverrides, StopController, WaitControllerStopped,
       NextVSC, AllReplaced, RetainVSC, DeleteVSC, WaitVSCGone, CreateVSC, VerifyHandles,
       StartController, WaitControllerStarted, RestoreOverrides, WaitReady, Unpause, StartEtcd,
       WaitEtcdStarted, RestorePause, AfterOverrides, GoTo
    <3> QED
      BY <1>4, <3>1, <3>2, <3>3 DEF Acts
  <2>2. foreign => foreign'
    <3>1. CASE foreign' = foreign
      BY <3>1
    <3>2. CASE UNCHANGED cluster
      BY <3>2 DEF cluster
    <3>3. Effect => foreign' = foreign \/ (pc \in {"putCV", "putCV2"} /\ foreign' = cvRead.foreign)
      BY EffectMeans DEF EffectIs, SetPaused, Scale, SetVSC, WriteOverrides, cluster, CallPcs
    <3>4. UNCHANGED cluster \/ (pc \in {"putCV", "putCV2"} => cvRead.current)
      <4>1. CASE CallFails
        BY <4>1 DEF CallFails, cluster
      <4>2. CASE Deadline \/ Crash
        BY <4>2 DEF Deadline, Crash
      <4>3. CASE Process
        BY <4>3, ProcessAt DEF StepAt, SetOverrides, RestoreOverrides, OverridesConflict
      <4> QED
        BY <1>4, <4>1, <4>2, <4>3 DEF Acts
    <3> QED
      BY <1>4, <1>a, <3>1, <3>2, <3>3, <3>4, ProcessCalls DEF Acts, ForeignInv
  <2> QED
    BY <2>1, <2>2 DEF ForeignInv
<1> QED
  BY <1>1, <1>2, <1>3, <1>4 DEF Next, Acts

\* No run, whatever it read and however it conflicts, replaces an override that
\* someone else added to the ClusterVersion.
THEOREM ForeignKept == Spec => ForeignOverrideKept
<1>1. Init => IInv /\ ForeignInv
  BY InitInv DEF Init, ForeignInv
<1>2. IInv /\ ForeignInv /\ [Next]_vars => IInv' /\ ForeignInv'
  BY InvStep, ForeignStep DEF IInv
<1>3. IInv /\ ForeignInv /\ [Next]_vars => [foreign => foreign']_vars
  BY ForeignStep DEF IInv
<1> QED
  BY <1>1, <1>2, <1>3, PTL DEF Spec, ForeignOverrideKept
===============================================================================
