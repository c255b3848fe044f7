------------------------------- MODULE VscRemap -------------------------------
(***************************************************************************)
(* RemapVolumeSnapshotContents                                             *)
(* (cmd/hcp/internal/client/management_cluster.go): the VolumeSnapshot-    *)
(* Contents (VSCs) of a hosted control plane are deleted and created again *)
(* with the handles of the copied snapshots, while HyperShift, etcd and    *)
(* the snapshot controllers are stopped.                                   *)
(*                                                                         *)
(* The command runs in three modes: "main" is the function itself,         *)
(* "rollback" the part of its deferred function that puts the original     *)
(* VSCs back, "recovery" recoverSnapshotReconciliation.  Every remote call *)
(* is one step, and may fail before or after it took effect.  The other    *)
(* actors are the HyperShift operator, the ClusterVersion operator, the    *)
(* operators of the snapshot controllers, the snapshot controller and      *)
(* whoever else edits the ClusterVersion overrides.                        *)
(***************************************************************************)
EXTENDS Naturals, FiniteSets

CONSTANTS
    VSC,        \* names of the VolumeSnapshotContents to remap
    MaxFaults   \* bound: failed calls and crashes in a behaviour

ASSUME VscAssumption == IsFiniteSet(VSC) /\ VSC # {} /\ MaxFaults \in Nat

\* Workloads, in the order snapshotControllerWorkloads lists the last three:
\* each is deployed by the one before it.
Etcd == 0
StorageOperator == 1      \* cluster-storage-operator
SnapshotOperator == 2     \* csi-snapshot-controller-operator
SnapshotController == 3   \* csi-snapshot-controller
Controllers == 1..3
Workloads == 0..3

VARIABLES
    \* the management cluster
    hcPause,   \* HostedCluster spec.pausedUntil
    hcpPause,  \* HostedControlPlane spec.pausedUntil
    replicas,  \* spec.replicas of each workload
    running,   \* status.replicas of each workload
    overrides, \* ClusterVersion override of each controller
    foreign,   \* an override someone else added to the same list
    vsc,       \* the VolumeSnapshotContents
    destroyed, \* snapshots deleted in AWS by the snapshot controller
    \* the process
    pc, mode,
    n,         \* the controller being stopped or started
    cur,       \* the VSC being replaced
    todo,      \* the VSCs not yet replaced in this mode
    started,   \* replacementsStarted
    originals, \* the VSCs as listed at the start
    state,     \* remapState: what pauseSnapshotReconciliation remembers
    cvRead,    \* the overrides read by the running update, and if still current
    \* history
    before,    \* the cluster when the run started
    recoveryFailed, \* a call of rollback or recovery failed in this run
    answerLost,     \* a pause or override call failed after taking effect
    faults

cluster == <<hcPause, hcpPause, replicas, running, overrides, foreign, vsc, destroyed>>
local == <<n, cur, todo, started, originals, state, cvRead>>
history == <<before, recoveryFailed, answerLost>>
vars == <<cluster, pc, mode, local, history, faults>>

Absent == [handle |-> "none"]
Content == [handle : {"source", "destination"}, policy : {"Delete", "Retain"},
            finalizer : BOOLEAN, deleting : BOOLEAN, ready : BOOLEAN]
Pauses == {"none", "true"}
OverrideState == {"absent", "managed", "unmanaged"}
Unrecorded == 2   \* a replica count not in state.deployments

\* remapState.  changed[w] is what restoring the override of w brings back.
RemapState == [pause : Pauses, pausedByUs : BOOLEAN,
               replicas : [Workloads -> 0..Unrecorded],
               changed : [Controllers -> {"nothing", "absent", "managed"}]]

EmptyState == [pause |-> "none", pausedByUs |-> FALSE,
               replicas |-> [w \in Workloads |-> Unrecorded],
               changed |-> [w \in Controllers |-> "nothing"]]

Pcs == {"idle", "done", "pauseHC", "waitHCP", "stopEtcd", "waitEtcdStopped",
        "getCV", "putCV", "stop", "waitStopped", "nextVSC", "patchVSC",
        "deleteVSC", "waitGone", "createVSC", "verify", "start", "waitStarted",
        "getCV2", "putCV2", "waitReady", "unpause", "startEtcd",
        "waitEtcdStarted", "restorePause"}

Cluster == [hcPause |-> hcPause, replicas |-> replicas, overrides |-> overrides,
            handles |-> [v \in VSC |-> vsc[v].handle]]

TypeOK ==
    /\ hcPause \in Pauses /\ hcpPause \in Pauses
    /\ replicas \in [Workloads -> 0..1] /\ running \in [Workloads -> 0..1]
    /\ overrides \in [Controllers -> OverrideState] /\ foreign \in BOOLEAN
    /\ vsc \in [VSC -> Content \cup {Absent}]
    /\ destroyed \subseteq (VSC \X {"source", "destination"})
    /\ pc \in Pcs /\ mode \in {"main", "rollback", "recovery"}
    /\ n \in 1..3 /\ cur \in VSC /\ todo \subseteq VSC /\ started \in BOOLEAN
    /\ originals \in [VSC -> Content]
    /\ state \in RemapState
    /\ cvRead \in [overrides : [Controllers -> OverrideState], foreign : BOOLEAN,
                   current : BOOLEAN]
    /\ recoveryFailed \in BOOLEAN /\ answerLost \in BOOLEAN
    /\ faults \in 0..MaxFaults

Restored == [handle |-> "source", policy |-> "Delete", finalizer |-> TRUE,
             deleting |-> FALSE, ready |-> TRUE]

Init ==
    /\ hcPause = "none" /\ hcpPause = "none"
    /\ replicas = [w \in Workloads |-> 1] /\ running = [w \in Workloads |-> 1]
    /\ overrides \in [Controllers -> {"absent", "managed"}]
    /\ \A u, w \in Controllers : overrides[u] = overrides[w]
    /\ foreign = FALSE
    /\ vsc = [v \in VSC |-> Restored] /\ destroyed = {}
    /\ pc = "idle" /\ mode = "main" /\ n = 1
    /\ cur = (CHOOSE v \in VSC : TRUE) /\ todo = {} /\ started = FALSE
    /\ originals = [v \in VSC |-> Restored]
    /\ state = EmptyState
    /\ cvRead = [overrides |-> overrides, foreign |-> FALSE, current |-> FALSE]
    /\ before = Cluster
    /\ recoveryFailed = FALSE /\ answerLost = FALSE /\ faults = 0
-----------------------------------------------------------------------------
(***************************************************************************)
(* The remote calls: what each one does to the cluster.                    *)
(***************************************************************************)
SetPaused(value) == /\ hcPause' = value
                    /\ UNCHANGED <<hcpPause, replicas, running, overrides, foreign, vsc, destroyed>>

Scale(w, count) == /\ replicas' = [replicas EXCEPT ![w] = count]
                   /\ UNCHANGED <<hcPause, hcpPause, running, overrides, foreign, vsc, destroyed>>

\* A write based on a read that is no longer current is refused by the API.
WriteOverrides(new) == /\ overrides' = new /\ foreign' = cvRead.foreign
                       /\ UNCHANGED <<hcPause, hcpPause, replicas, running, vsc, destroyed>>

SetVSC(v, content) == /\ vsc' = [vsc EXCEPT ![v] = content]
                      /\ UNCHANGED <<hcPause, hcpPause, replicas, running, overrides, foreign, destroyed>>

\* replaceVSC, first call: no finalizers, and Retain, so that the snapshot in
\* AWS outlives the object.
RetainedVSC(v) == [vsc[v] EXCEPT !.finalizer = FALSE, !.policy = "Retain"]

DeletedVSC(v) == IF vsc[v].finalizer THEN [vsc[v] EXCEPT !.deleting = TRUE] ELSE Absent

\* replacementVSC: the original without status and finalizers.
ReplacementVSC(v, handle) ==
    [originals[v] EXCEPT !.handle = handle, !.finalizer = FALSE,
                         !.deleting = FALSE, !.ready = FALSE]

\* setSnapshotControllerOverrides and the changes it returns.
AllUnmanaged == [w \in Controllers |-> "unmanaged"]
ChangesOf(read) == [w \in Controllers |->
                       IF read[w] = "unmanaged" THEN "nothing" ELSE read[w]]

\* restoreSnapshotControllerOverrides.
RestoredOverrides(read, changed) ==
    [w \in Controllers |->
        CASE changed[w] = "absent" /\ read[w] = "unmanaged" -> "absent"
          [] changed[w] = "managed" /\ read[w] # "absent" -> "managed"
          [] OTHER -> read[w]]

\* The effect of the call the process is about to make.
TargetHandle == IF mode = "main" THEN "destination" ELSE originals[cur].handle

\* Nothing to start or restore: the step makes no call.
NoCall == \/ pc = "start" /\ state.replicas[n] = Unrecorded
          \/ pc = "startEtcd" /\ state.replicas[Etcd] = Unrecorded
          \/ pc = "restorePause" /\ ~state.pausedByUs

Effect ==
    IF NoCall THEN UNCHANGED cluster ELSE
    CASE pc = "pauseHC" -> SetPaused("true")
      [] pc = "stopEtcd" -> Scale(Etcd, 0)
      [] pc = "putCV" -> WriteOverrides(AllUnmanaged)
      [] pc = "stop" -> Scale(n, 0)
      [] pc = "patchVSC" -> SetVSC(cur, RetainedVSC(cur))
      [] pc = "deleteVSC" -> SetVSC(cur, DeletedVSC(cur))
      [] pc = "createVSC" -> SetVSC(cur, ReplacementVSC(cur, TargetHandle))
      [] pc = "start" -> Scale(n, state.replicas[n])
      [] pc = "putCV2" -> WriteOverrides(RestoredOverrides(cvRead.overrides, state.changed))
      [] pc = "unpause" -> SetPaused("none")
      [] pc = "startEtcd" -> Scale(Etcd, state.replicas[Etcd])
      [] pc = "restorePause" -> SetPaused(state.pause)
      [] OTHER -> UNCHANGED cluster
-----------------------------------------------------------------------------
(***************************************************************************)
(* RemapVolumeSnapshotContents and its helpers.                            *)
(***************************************************************************)
GoTo(next) == pc' = next /\ UNCHANGED mode

\* What the running wait polls for.
Awaited ==
    CASE pc = "waitHCP" -> hcpPause = "true"
      [] pc = "waitEtcdStopped" -> running[Etcd] = 0
      [] pc = "waitStopped" -> running[n] = 0
      [] pc = "waitGone" -> vsc[cur] = Absent
      [] pc = "waitStarted" -> state.replicas[n] \in {running[n], Unrecorded}
      [] pc = "waitReady" ->
            \A v \in VSC : vsc[v] # Absent /\ vsc[v].handle = "destination" /\ vsc[v].ready
      [] pc = "waitEtcdStarted" -> running[Etcd] = state.replicas[Etcd]
      [] OTHER -> FALSE

Waits == {"waitHCP", "waitEtcdStopped", "waitStopped", "waitGone", "waitStarted",
          "waitReady", "waitEtcdStarted"}

\* The list of VSCs must hold every mapped one (remapOriginals).
Begin ==
    /\ pc = "idle"
    /\ \A v \in VSC : vsc[v] # Absent
    /\ originals' = vsc
    /\ state' = [EmptyState EXCEPT !.pause = hcPause]
    /\ pc' = "pauseHC" /\ mode' = "main" /\ n' = 1
    /\ todo' = VSC /\ started' = FALSE
    /\ before' = Cluster /\ recoveryFailed' = FALSE /\ answerLost' = FALSE
    /\ UNCHANGED <<cluster, cur, cvRead, faults>>

PauseHostedCluster ==
    /\ pc = "pauseHC" /\ Effect /\ GoTo("waitHCP")
    /\ state' = [state EXCEPT !.pausedByUs = TRUE]
    /\ UNCHANGED <<n, cur, todo, started, originals, cvRead, history, faults>>

WaitHostedControlPlanePaused ==
    /\ pc = "waitHCP" /\ Awaited /\ GoTo("stopEtcd")
    /\ state' = [state EXCEPT !.replicas[Etcd] = replicas[Etcd]]
    /\ UNCHANGED <<cluster, n, cur, todo, started, originals, cvRead, history, faults>>

StopEtcd ==
    /\ pc = "stopEtcd" /\ Effect /\ GoTo("waitEtcdStopped")
    /\ UNCHANGED <<local, history, faults>>

WaitEtcdStopped ==
    /\ pc = "waitEtcdStopped" /\ Awaited /\ GoTo("getCV")
    /\ UNCHANGED <<cluster, local, history, faults>>

\* RetryOnConflict: read the list of overrides, change it, write it back.
ReadOverrides ==
    /\ pc \in {"getCV", "getCV2"}
    /\ GoTo(IF pc = "getCV" THEN "putCV" ELSE "putCV2")
    /\ cvRead' = [overrides |-> overrides, foreign |-> foreign, current |-> TRUE]
    /\ UNCHANGED <<cluster, n, cur, todo, started, originals, state, history, faults>>

OverridesConflict ==
    /\ pc \in {"putCV", "putCV2"} /\ ~cvRead.current
    /\ GoTo(IF pc = "putCV" THEN "getCV" ELSE "getCV2")
    /\ UNCHANGED <<cluster, local, history, faults>>

\* Mutant: the update is made from the first read, whatever happened since.
SetOverridesFromFirstRead ==
    /\ pc = "putCV" /\ Effect /\ GoTo("stop")
    /\ n' = 1
    /\ state' = IF mode = "main"
                THEN [state EXCEPT !.changed = ChangesOf(cvRead.overrides),
                                   !.replicas[1] = replicas[1]]
                ELSE state
    /\ UNCHANGED <<cur, todo, started, originals, cvRead, history, faults>>

\* Only the pause remembers what it changed; the rollback discards it.
SetOverrides ==
    /\ pc = "putCV" /\ cvRead.current /\ Effect /\ GoTo("stop")
    /\ n' = 1
    /\ state' = IF mode = "main"
                THEN [state EXCEPT !.changed = ChangesOf(cvRead.overrides),
                                   !.replicas[1] = replicas[1]]
                ELSE state
    /\ UNCHANGED <<cur, todo, started, originals, cvRead, history, faults>>

StopController ==
    /\ pc = "stop" /\ Effect /\ GoTo("waitStopped")
    /\ UNCHANGED <<local, history, faults>>

\* In main mode the replicas of the next controller are recorded when it is read.
WaitControllerStopped ==
    /\ pc = "waitStopped" /\ Awaited
    /\ IF n < 3
       THEN /\ GoTo("stop") /\ n' = n + 1
            /\ state' = IF mode = "main"
                        THEN [state EXCEPT !.replicas[n + 1] = replicas[n + 1]]
                        ELSE state
       ELSE GoTo("nextVSC") /\ n' = 1 /\ UNCHANGED state
    /\ UNCHANGED <<cluster, cur, todo, started, originals, cvRead, history, faults>>

\* The next VSC, in map order: if it is missing only the Create is made.
NextVSC ==
    /\ pc = "nextVSC" /\ todo # {}
    /\ \E v \in todo :
        /\ cur' = v /\ todo' = todo \ {v}
        /\ GoTo(IF vsc[v] = Absent THEN "createVSC" ELSE "patchVSC")
    /\ started' = TRUE
    /\ UNCHANGED <<cluster, n, originals, state, cvRead, history, faults>>

\* Main goes on to verify the handles; a finished rollback to recovery.
AllReplaced ==
    /\ pc = "nextVSC" /\ todo = {}
    /\ IF mode = "main" THEN GoTo("verify") ELSE pc' = "start" /\ mode' = "recovery"
    /\ n' = 1
    /\ UNCHANGED <<cluster, cur, todo, started, originals, state, cvRead, history, faults>>

RetainVSC == pc = "patchVSC" /\ vsc[cur] # Absent /\ Effect /\ GoTo("deleteVSC") /\ UNCHANGED <<local, history, faults>>
DeleteVSC == pc = "deleteVSC" /\ vsc[cur] # Absent /\ Effect /\ GoTo("waitGone") /\ UNCHANGED <<local, history, faults>>
WaitVSCGone == pc = "waitGone" /\ Awaited /\ GoTo("createVSC") /\ UNCHANGED <<cluster, local, history, faults>>
CreateVSC == pc = "createVSC" /\ Effect /\ GoTo("nextVSC") /\ UNCHANGED <<local, history, faults>>

VerifyHandles ==
    /\ pc = "verify" /\ \A v \in VSC : vsc[v].handle = "destination"
    /\ GoTo("start") /\ n' = 1
    /\ UNCHANGED <<cluster, cur, todo, started, originals, state, cvRead, history, faults>>

\* resumeSnapshotControllers, in main and in recovery.
StartController ==
    /\ pc = "start" /\ Effect /\ GoTo("waitStarted")
    /\ UNCHANGED <<local, history, faults>>

AfterOverrides == IF mode = "main" THEN "waitReady" ELSE "startEtcd"
NothingChanged == \A w \in Controllers : state.changed[w] = "nothing"

WaitControllerStarted ==
    /\ pc = "waitStarted" /\ Awaited
    /\ IF n < 3 THEN GoTo("start") /\ n' = n + 1
       ELSE GoTo(IF NothingChanged THEN AfterOverrides ELSE "getCV2") /\ n' = 1
    /\ UNCHANGED <<cluster, cur, todo, started, originals, state, cvRead, history, faults>>

RestoreOverrides ==
    /\ pc = "putCV2" /\ cvRead.current /\ Effect /\ GoTo(AfterOverrides)
    /\ UNCHANGED <<local, history, faults>>

WaitReady ==
    /\ pc = "waitReady" /\ Awaited
    /\ GoTo("unpause")
    /\ UNCHANGED <<cluster, local, history, faults>>

\* Mutant: the control plane is left paused.
UnpauseForgotten ==
    /\ pc = "unpause" /\ GoTo("done")
    /\ UNCHANGED <<cluster, local, history, faults>>

Unpause ==
    /\ pc = "unpause" /\ Effect /\ GoTo("done")
    /\ UNCHANGED <<local, history, faults>>

\* recoverSnapshotReconciliation after its controllers: etcd, then the pause.
StartEtcd ==
    /\ pc = "startEtcd" /\ Effect
    /\ GoTo(IF NoCall THEN "restorePause" ELSE "waitEtcdStarted")
    /\ UNCHANGED <<local, history, faults>>

WaitEtcdStarted ==
    /\ pc = "waitEtcdStarted" /\ Awaited
    /\ GoTo("restorePause")
    /\ UNCHANGED <<cluster, local, history, faults>>

RestorePause ==
    /\ pc = "restorePause" /\ Effect /\ GoTo("idle")
    /\ UNCHANGED <<local, history, faults>>

\* Mutant: the rollback does not stop the snapshot controllers first.
OnErrorUnstopped ==
    /\ CASE mode = "main" /\ started -> mode' = "rollback" /\ pc' = "nextVSC" /\ todo' = VSC
         [] mode = "main" /\ ~started -> mode' = "recovery" /\ pc' = "start" /\ UNCHANGED todo
         [] mode = "rollback" -> mode' = "recovery" /\ pc' = "start" /\ UNCHANGED todo
         [] mode = "recovery" ->
              /\ UNCHANGED <<mode, todo>>
              /\ pc' = IF pc \in {"startEtcd", "waitEtcdStarted"} THEN "restorePause"
                       ELSE IF pc = "restorePause" THEN "idle" ELSE "startEtcd"
    /\ n' = 1
    /\ recoveryFailed' = (recoveryFailed \/ mode # "main")
    /\ UNCHANGED <<cur, started, originals, state, cvRead, before>>

(***************************************************************************)
(* A call returns an error.  Main leaves for rollback if a replacement was *)
(* begun, else for recovery; rollback for recovery; recovery skips to its  *)
(* next part, so that a failed restart of a controller also leaves the     *)
(* overrides as they are.                                                  *)
(***************************************************************************)
OnError ==
    /\ CASE mode = "main" /\ started -> mode' = "rollback" /\ pc' = "getCV" /\ todo' = VSC
         [] mode = "main" /\ ~started -> mode' = "recovery" /\ pc' = "start" /\ UNCHANGED todo
         [] mode = "rollback" -> mode' = "recovery" /\ pc' = "start" /\ UNCHANGED todo
         [] mode = "recovery" ->
              /\ UNCHANGED <<mode, todo>>
              /\ pc' = IF pc \in {"startEtcd", "waitEtcdStarted"} THEN "restorePause"
                       ELSE IF pc = "restorePause" THEN "idle" ELSE "startEtcd"
    /\ n' = 1
    /\ recoveryFailed' = (recoveryFailed \/ mode # "main")
    /\ UNCHANGED <<cur, started, originals, state, cvRead, before>>

CallFails ==
    /\ pc \notin {"idle", "done", "nextVSC"} /\ ~NoCall
    /\ faults < MaxFaults /\ faults' = faults + 1
    /\ OnError
    /\ \/ UNCHANGED <<cluster, answerLost>>
       \/ /\ pc \in {"putCV", "putCV2"} => cvRead.current
          /\ Effect /\ cluster' # cluster
          /\ answerLost' = (answerLost \/ pc \in {"pauseHC", "putCV", "unpause"})

\* The process is killed: its deferred recovery does not run.  In rollback and
\* recovery this is also what the end of their two minutes does.
Crash ==
    /\ pc \notin {"idle", "done"}
    /\ faults < MaxFaults /\ faults' = faults + 1
    /\ pc' = "idle" /\ mode' = "main" /\ recoveryFailed' = TRUE
    /\ n' = 1 /\ todo' = {} /\ started' = FALSE /\ state' = EmptyState
    /\ UNCHANGED <<cluster, cur, originals, cvRead, before, answerLost>>

Process ==
    \/ Begin \/ PauseHostedCluster \/ WaitHostedControlPlanePaused \/ StopEtcd
    \/ WaitEtcdStopped \/ ReadOverrides \/ OverridesConflict \/ SetOverrides
    \/ StopController \/ WaitControllerStopped \/ NextVSC \/ AllReplaced
    \/ RetainVSC \/ DeleteVSC \/ WaitVSCGone \/ CreateVSC \/ VerifyHandles
    \/ StartController \/ WaitControllerStarted \/ RestoreOverrides \/ WaitReady
    \/ Unpause \/ StartEtcd \/ WaitEtcdStarted \/ RestorePause
-----------------------------------------------------------------------------
(***************************************************************************)
(* The other actors.                                                       *)
(***************************************************************************)
Actor == UNCHANGED <<pc, mode, n, cur, todo, started, originals, state, history, faults>>

\* HyperShift copies the pause to the HostedControlPlane; an unpaused control
\* plane gets its etcd back.
PropagatePause ==
    /\ hcpPause # hcPause /\ hcpPause' = hcPause
    /\ Actor /\ UNCHANGED <<hcPause, replicas, running, overrides, foreign, vsc, destroyed, cvRead>>

ReconcileEtcd ==
    /\ hcpPause = "none" /\ replicas[Etcd] = 0
    /\ Actor /\ Scale(Etcd, 1) /\ UNCHANGED cvRead

\* The ClusterVersion operator and the operators it deploys keep a controller
\* at one replica, unless it is unmanaged and its own operator is stopped.
ReconcileController(w) ==
    /\ replicas[w] = 0
    /\ overrides[w] # "unmanaged" \/ (w > 1 /\ running[w - 1] = 1)
    /\ Actor /\ Scale(w, 1) /\ UNCHANGED cvRead

PodsFollow(w) ==
    /\ running[w] # replicas[w]
    /\ running' = [running EXCEPT ![w] = replicas[w]]
    /\ Actor /\ UNCHANGED <<hcPause, hcpPause, replicas, overrides, foreign, vsc, destroyed, cvRead>>

\* The snapshot controller protects a VSC and reports it ready; a deletion it
\* finishes, and with policy Delete removes the snapshot too.
Adopted(v) == [vsc[v] EXCEPT !.finalizer = TRUE, !.ready = TRUE]

ReconcileVSC(v) ==
    /\ running[SnapshotController] = 1
    /\ vsc[v] # Absent /\ (vsc[v].deleting \/ vsc[v] # Adopted(v))
    /\ vsc' = [vsc EXCEPT ![v] = IF @.deleting THEN Absent ELSE Adopted(v)]
    /\ destroyed' = IF vsc[v].deleting /\ vsc[v].policy = "Delete"
                    THEN destroyed \cup {<<v, vsc[v].handle>>}
                    ELSE destroyed
    /\ Actor /\ UNCHANGED <<hcPause, hcpPause, replicas, running, overrides, foreign, cvRead>>

\* Someone else adds an override to the list.  Only between a read and its write
\* does the time matter: at any other the next read just finds it.
ForeignOverride ==
    /\ pc \in {"putCV", "putCV2"} /\ ~foreign /\ foreign' = TRUE
    /\ cvRead' = [cvRead EXCEPT !.current = FALSE]
    /\ Actor /\ UNCHANGED <<hcPause, hcpPause, replicas, running, overrides, vsc, destroyed>>

Environment ==
    \/ PropagatePause \/ ReconcileEtcd
    \/ \E w \in Controllers : ReconcileController(w)
    \/ \E w \in Workloads : PodsFollow(w)
    \/ \E v \in VSC : ReconcileVSC(v)

\* Nothing more happens by itself.
Settled == ~ENABLED Environment

\* A wait ends with the deadline of its context (--timeout, or two minutes in
\* rollback and recovery) when the cluster has settled without what it awaits.
Deadline ==
    /\ pc \in Waits /\ ~Awaited /\ Settled
    /\ OnError
    /\ UNCHANGED <<cluster, answerLost, faults>>

Next == Process \/ Deadline \/ Environment \/ ForeignOverride \/ CallFails \/ Crash

\* The command and the cluster's controllers keep working; a failed command is
\* started again.
Fairness == WF_vars(Process) /\ WF_vars(Deadline) /\ WF_vars(Environment)

Spec == Init /\ [][Next]_vars

\* The command was completed, or cannot be started again because a VSC is
\* missing: nothing more happens.
Terminated ==
    /\ pc = "done" \/ (pc = "idle" /\ \E v \in VSC : vsc[v] = Absent)
    /\ UNCHANGED vars

FairSpec == Init /\ [][Next \/ Terminated]_vars /\ Fairness
-----------------------------------------------------------------------------
(***************************************************************************)
(* Properties.                                                             *)
(***************************************************************************)
\* A VSC is patched, deleted or created, forwards or in a rollback, only while
\* no snapshot controller runs and none of their operators can bring it back
\* (lines 143-144: "while HyperShift and snapshot reconciliation are stopped").
ReplacedWhileStopped ==
    pc \in {"patchVSC", "deleteVSC", "createVSC"} =>
        /\ \A w \in Controllers : running[w] = 0 /\ overrides[w] = "unmanaged"
        /\ mode = "main" => hcpPause = "true" /\ running[Etcd] = 0

\* A run that failed, and whose recovery did not, leaves the cluster as it
\* found it: the pause, the overrides, every handle, and every workload that
\* ran.  Lost answers are excepted: what such a call did is not undone.
FailedRunRestores ==
    pc = "idle" /\ ~recoveryFailed /\ ~answerLost =>
        /\ Cluster.hcPause = before.hcPause
        /\ Cluster.overrides = before.overrides
        /\ Cluster.handles = before.handles
        /\ \A w \in Workloads : replicas[w] >= before.replicas[w]

\* A run that succeeds leaves every VSC on its destination snapshot and ready,
\* the control plane unpaused, the overrides as that run found them, and every
\* controller running that ran.
CompletedRunResumes ==
    pc = "done" =>
        /\ \A v \in VSC : vsc[v].handle = "destination" /\ vsc[v].ready
        /\ hcPause = "none"
        /\ overrides = before.overrides
        /\ \A w \in Controllers : replicas[w] >= before.replicas[w]

\* No update of the ClusterVersion replaces an override someone else added in
\* the meantime, whatever it read before (setSnapshotControllerOverrides).
ForeignOverrideKept == [][foreign => foreign']_vars

\* Deleting and creating VSCs whose policy may be Delete never deletes a
\* snapshot in AWS, whatever fails in between and whoever runs again.
SnapshotsSurvive == destroyed = {}

\* What holds of a remap at every moment, with runs that fail, are killed and given again.
RemapIsSafe ==
    /\ TypeOK /\ SnapshotsSurvive
    /\ ReplacedWhileStopped /\ FailedRunRestores /\ CompletedRunResumes

\* Every run ends: no wait of main, rollback or recovery polls for a state that
\* cannot come.  A run that succeeds does not start etcd itself; unpausing brings
\* it back.
RunsEnd == (pc # "idle") ~> (pc = "idle" \/ (pc = "done" /\ running[Etcd] = 1))
=============================================================================
