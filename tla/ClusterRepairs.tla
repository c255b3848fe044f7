--------------------------- MODULE ClusterRepairs ---------------------------
(***************************************************************************)
(* Two repairs that remove something and rely on others to put it right:   *)
(* `osdctl cluster detach-stuck-volume` detaches the EBS volumes of pods   *)
(* of openshift-monitoring that do not run, found through their claims,    *)
(* and `osdctl cluster resync` deletes the ClusterSync and waits until     *)
(* Hive has made a new one that reports success.                           *)
(***************************************************************************)
EXTENDS Integers, FiniteSets

CONSTANTS
    Fixer,
    MonitoringPod,       \* each has one claim, and the claim one volume
    MaxSyncs,            \* bound: ClusterSyncs ever made
    MaxRepairFaults      \* bound: failed calls, time-outs and kills

NoSync == [id |-> 0, failed |-> "none"]

VARIABLES
    running,      \* pods in phase Running
    bound,        \* claims bound to a volume of the CSI driver
    attached,     \* pods whose volume is attached
    sync,         \* the ClusterSync and its condition Failed
    lastSync,
    fpc, volumes, \* of each SRE: step; pods whose volumes are to be detached
    deletedSync,  \* and the ClusterSync when the run deleted it
    ranSince,     \* pods that have not left Running since the run began
    repairFaults

repairVars == <<running, bound, attached, sync, lastSync, fpc, volumes, deletedSync, ranSince, repairFaults>>

RepairInit ==
    /\ running = MonitoringPod /\ bound \in SUBSET MonitoringPod /\ attached = MonitoringPod
    /\ lastSync = 1 /\ sync = [id |-> 1, failed |-> "False"]
    /\ fpc = [f \in Fixer |-> "idle"] /\ volumes = [f \in Fixer |-> {}] /\ deletedSync = [f \in Fixer |-> 0]
    /\ ranSince = [f \in Fixer |-> {}] /\ repairFaults = 0
-----------------------------------------------------------------------------
RepairStep(f, from, to) == fpc[f] = from /\ fpc' = [fpc EXCEPT ![f] = to]

ListStuckPods(f) ==
    /\ RepairStep(f, "idle", "claims") /\ volumes' = [volumes EXCEPT ![f] = MonitoringPod \ running]
    /\ ranSince' = [ranSince EXCEPT ![f] = running]
    /\ UNCHANGED <<running, bound, attached, sync, lastSync, deletedSync, repairFaults>>

\* Claims, then volumes; those without a CSI volume are passed over, and nothing to
\* detach is an error.
ResolveVolumes(f) ==
    /\ volumes' = [volumes EXCEPT ![f] = @ \cap bound]
    /\ RepairStep(f, "claims", IF volumes'[f] = {} THEN "failed" ELSE "detach")
    /\ UNCHANGED <<running, bound, attached, sync, lastSync, deletedSync, ranSince, repairFaults>>

\* A volume that is attached nowhere is an error, which ends the loop.
DetachVolume(f) ==
    /\ \E v \in volumes[f] :
        /\ volumes' = [volumes EXCEPT ![f] = @ \ {v}] /\ attached' = attached \ {v}
        /\ RepairStep(f, "detach", IF v \in attached THEN "detach" ELSE "failed")
    /\ UNCHANGED <<running, bound, sync, lastSync, deletedSync, ranSince, repairFaults>>

VolumesDetached(f) ==
    /\ volumes[f] = {} /\ RepairStep(f, "detach", "done")
    /\ UNCHANGED <<running, bound, attached, sync, lastSync, volumes, deletedSync, ranSince, repairFaults>>

\* Exactly one ClusterSync is in the namespace of the cluster.
FindSync(f) ==
    /\ RepairStep(f, "idle", IF sync = NoSync THEN "failed" ELSE "deleteSync")
    /\ UNCHANGED <<running, bound, attached, sync, lastSync, volumes, deletedSync, ranSince, repairFaults>>

\* It is deleted by its name, whichever one has the name by now.
DeleteSync(f) ==
    /\ RepairStep(f, "deleteSync", IF sync = NoSync THEN "failed" ELSE "awaitSync")
    /\ sync' = NoSync /\ deletedSync' = [deletedSync EXCEPT ![f] = lastSync]
    /\ UNCHANGED <<running, bound, attached, lastSync, volumes, ranSince, repairFaults>>

\* Mutant: a ClusterSync that is not there counts as not failed.
AwaitAnySync(f) ==
    /\ sync.failed # "True" /\ RepairStep(f, "awaitSync", "synced")
    /\ UNCHANGED <<running, bound, attached, sync, lastSync, volumes, deletedSync, ranSince, repairFaults>>

\* Polled until it is there and says that no SyncSet failed.
AwaitSync(f) ==
    /\ sync.failed = "False" /\ RepairStep(f, "awaitSync", "synced")
    /\ UNCHANGED <<running, bound, attached, sync, lastSync, volumes, deletedSync, ranSince, repairFaults>>

RepairFails(f) ==
    /\ fpc[f] \notin {"idle", "done", "synced", "failed"} /\ RepairStep(f, fpc[f], "failed")
    /\ repairFaults < MaxRepairFaults /\ repairFaults' = repairFaults + 1
    /\ UNCHANGED <<running, bound, attached, sync, lastSync, volumes, deletedSync, ranSince>>

RepairRun(f) ==
    \/ ListStuckPods(f) \/ ResolveVolumes(f) \/ DetachVolume(f) \/ VolumesDetached(f)
    \/ FindSync(f) \/ DeleteSync(f) \/ AwaitSync(f) \/ RepairFails(f)

\* Pods stop, and start on a node that their volume can be attached to.
PodStops(p) ==
    /\ p \in running /\ running' = running \ {p}
    /\ ranSince' = [f \in Fixer |-> ranSince[f] \ {p}]
    /\ UNCHANGED <<bound, attached, sync, lastSync, fpc, volumes, deletedSync, repairFaults>>

PodRuns(p) ==
    /\ p \notin running /\ running' = running \cup {p} /\ attached' = attached \cup {p}
    /\ UNCHANGED <<bound, sync, lastSync, fpc, volumes, deletedSync, ranSince, repairFaults>>

HiveSyncs ==
    /\ IF sync = NoSync THEN lastSync < MaxSyncs /\ lastSync' = lastSync + 1 ELSE UNCHANGED lastSync
    /\ \E failed \in {"none", "True", "False"} : sync' = [id |-> lastSync', failed |-> failed]
    /\ UNCHANGED <<running, bound, attached, fpc, volumes, deletedSync, ranSince, repairFaults>>

RepairNext ==
    \/ \E f \in Fixer : RepairRun(f)
    \/ \E p \in MonitoringPod : PodStops(p) \/ PodRuns(p)
    \/ HiveSyncs

RepairSpec == RepairInit /\ [][RepairNext]_repairVars
-----------------------------------------------------------------------------
\* A pod that runs all through a command keeps its volume (one that comes back
\* between the listing and the call may lose it), and a resync reports success of
\* a ClusterSync that Hive made after the deletion, also when another SRE resyncs.
RepairsAreSound ==
    [][/\ \A p \in attached \ attached' : \E f \in Fixer : p \notin ranSince[f] /\ p \in volumes[f]
       /\ \A f \in Fixer : fpc[f] = "awaitSync" /\ fpc'[f] = "synced" => sync.id > deletedSync[f]]_repairVars
=============================================================================
