---------------------------- MODULE NodeSettings ----------------------------
(***************************************************************************)
(* The commands that change what nodes are made of by patching one object: *)
(* `cluster resize control-plane`, `change-ebs-volume-type` and `imdsv2`   *)
(* on the ControlPlaneMachineSet, `imdsv2` on the worker MachinePools of   *)
(* Hive, and `cluster resize request-serving-nodes` on the HostedCluster.  *)
(*                                                                         *)
(* Each reads a copy, decides, asks the SRE and sends the difference from  *)
(* its copy as a merge patch, without a resource version.  SREs may work   *)
(* on one cluster at a time; the operators roll the masters meanwhile.     *)
(* Infra nodes are MachinePoolDance's.                                     *)
(***************************************************************************)
EXTENDS Integers, FiniteSets

CONSTANTS
    Engineer,
    Master,
    WorkerPool,
    MaxNodeFaults     \* bound: failed calls and kills

MasterCount == Cardinality(Master)
AsWanted == [updated |-> MasterCount, ready |-> MasterCount]
InstanceType == {"m5.2xlarge", "m5.4xlarge", "m6i.4xlarge"}
Family(t) == IF t = "m6i.4xlarge" THEN "m6i" ELSE "m5"
Size == 1..2                      \* of ClusterSizingConfiguration, in its order
OnMasters == {"resize", "volume", "imdsv2"}
OnHosted == {"size", "removeOverride"}

VARIABLES
    cpms,         \* provider spec of the ControlPlaneMachineSet
    active,       \* spec.state is Active
    masters,      \* the spec each master was made with, and whether it is ready
    cpmsStatus,   \* updated and ready replicas, as last reported
    hosted,       \* annotations of the HostedCluster; 0 is none
    hostedSize,   \* its hosted-cluster-size label
    workers,      \* authentication and override annotation of each MachinePool
    npc, job, copy, want,   \* of each engineer: step, command, object read, object to be
    poolAtHand,   \* of imdsv2: the worker pool at hand
    poolsLeft,    \* and those the run has yet to patch
    rolled,       \* imdsv2 says "Master nodes migrated" at its end
    stuck,        \* pools at which a run ended with the override in place
    nodeFaults

nodeVars == <<cpms, active, masters, cpmsStatus, hosted, hostedSize, workers, npc, job, copy,
              want, poolAtHand, poolsLeft, rolled, stuck, nodeFaults>>
objects == <<cpms, active, masters, cpmsStatus, hosted, hostedSize, workers>>

Nothing == [none |-> TRUE]
Old == [type |-> "m5.2xlarge", disk |-> <<"gp2", 3000>>, imds |-> "Optional"]

NodeInit ==
    /\ cpms = Old /\ active = TRUE
    /\ masters = [m \in Master |-> [spec |-> Old, ready |-> TRUE]]
    /\ cpmsStatus = AsWanted
    /\ hosted = [override |-> 0, other |-> FALSE] /\ hostedSize = 1
    /\ workers = [p \in WorkerPool |-> [imds |-> "Optional", override |-> FALSE]]
    /\ npc = [e \in Engineer |-> "idle"] /\ job = [e \in Engineer |-> "none"]
    /\ copy = [e \in Engineer |-> Nothing] /\ want = copy
    /\ poolAtHand = [e \in Engineer |-> "none"]
    /\ poolsLeft = [e \in Engineer |-> {}]
    /\ rolled = [e \in Engineer |-> FALSE]
    /\ stuck = {} /\ nodeFaults = 0
-----------------------------------------------------------------------------
NodeGoTo(e, step) == npc' = [npc EXCEPT ![e] = step]
Reads(e, object, target) == copy' = [copy EXCEPT ![e] = object] /\ want' = [want EXCEPT ![e] = target]

\* Mutant: the wanted object is written as a whole, as by Update.
Overwritten(object, e) == want[e]

\* client.MergeFrom: what differs between the copy and the wanted object is
\* written, whatever the object has become.
Patched(object, e) ==
    [f \in DOMAIN object |-> IF copy[e][f] # want[e][f] THEN want[e][f] ELSE object[f]]

AllReady == \A m \in Master : masters[m].ready

\* preFlightChecks of volume and imdsv2: etcd and the operators are as healthy as
\* the masters they run on.  resize has none; volume also looks at the status.
PreFlight(e) ==
    /\ npc[e] = "idle"
    /\ \E j \in OnMasters :
        /\ job' = [job EXCEPT ![e] = j]
        /\ j # "resize" => active /\ AllReady /\ (j = "volume" => cpmsStatus.ready = MasterCount)
        /\ \E first \in {"masters"} \cup (IF j = "imdsv2" THEN {"workers"} ELSE {}) :
            NodeGoTo(e, first)
    /\ UNCHANGED <<objects, copy, want, poolAtHand, poolsLeft, rolled, stuck, nodeFaults>>

\* validateAWSInstanceTypeChange, against the copy.
AllowedChange(from, to) == Family(from) = Family(to) \/ (Family(from) = "m5" /\ Family(to) = "m6i")

Target(j, old) ==
    CASE j = "resize" -> {[old EXCEPT !.type = t] : t \in {u \in InstanceType : AllowedChange(old.type, u)}}
      [] j = "volume" -> {[old EXCEPT !.disk = <<"gp3", 0>>]}
      [] j = "imdsv2" -> {[old EXCEPT !.imds = "Required"]}

\* --nodes says whether the workers follow.
AfterMasters(e) == IF job[e] = "imdsv2" THEN {"workers", "validate"} ELSE {"done"}

\* The ControlPlaneMachineSet is read, checked and shown at the prompt; one that
\* is as wanted already is skipped, except by resize.
ReadMasters(e) ==
    /\ npc[e] = "masters"
    /\ IF job[e] = "resize" /\ ~active THEN NodeGoTo(e, "failed") /\ UNCHANGED <<copy, want>>
       ELSE \E target \in Target(job[e], cpms) :
            IF target = cpms /\ job[e] # "resize"
            THEN (\E next \in AfterMasters(e) : NodeGoTo(e, next)) /\ UNCHANGED <<copy, want>>
            ELSE Reads(e, cpms, target) /\ NodeGoTo(e, "patchMasters")
    /\ UNCHANGED <<objects, job, poolAtHand, poolsLeft, rolled, stuck, nodeFaults>>

\* The SRE confirms.  resize and volume then offer a service log and end; imdsv2
\* waits for the masters.
PatchMasters(e) ==
    /\ npc[e] = "patchMasters" /\ cpms' = Patched(cpms, e)
    /\ NodeGoTo(e, IF job[e] = "imdsv2" THEN "roll" ELSE "done")
    /\ UNCHANGED <<active, masters, cpmsStatus, hosted, hostedSize, workers, job, copy, want,
                   poolAtHand, poolsLeft, rolled, stuck, nodeFaults>>

\* One poll of MonitorCPMSRollout, the first of which is immediate.
MonitorRollout(e) ==
    /\ npc[e] = "roll" /\ cpmsStatus = AsWanted
    /\ rolled' = [rolled EXCEPT ![e] = TRUE]
    /\ \E next \in AfterMasters(e) : NodeGoTo(e, next)
    /\ UNCHANGED <<objects, job, copy, want, poolAtHand, poolsLeft, stuck, nodeFaults>>

\* migrateWorkersToIMDSv2 lists what needs it and asks.
ListWorkers(e) ==
    /\ npc[e] = "workers"
    /\ \E agreed \in BOOLEAN :
        poolsLeft' = [poolsLeft EXCEPT ![e] =
            IF agreed THEN {p \in WorkerPool : workers[p].imds # "Required"} ELSE {}]
    /\ NodeGoTo(e, "pool")
    /\ UNCHANGED <<objects, job, copy, want, poolAtHand, rolled, stuck, nodeFaults>>

\* The pool is read, patched with the annotation that lets Hive accept the change,
\* read again, and patched without the annotation.
WorkersPatched(e) ==
    /\ npc[e] = "pool" /\ poolsLeft[e] = {} /\ NodeGoTo(e, "validate")
    /\ UNCHANGED <<objects, job, copy, want, poolAtHand, poolsLeft, rolled, stuck, nodeFaults>>

ReadPool(e) ==
    /\ npc[e] = "pool"
    /\ \E p \in poolsLeft[e] :
        /\ poolAtHand' = [poolAtHand EXCEPT ![e] = p]
        /\ poolsLeft' = [poolsLeft EXCEPT ![e] = @ \ {p}]
        /\ Reads(e, workers[p], [imds |-> "Required", override |-> TRUE])
    /\ NodeGoTo(e, "patchPool")
    /\ UNCHANGED <<objects, job, rolled, stuck, nodeFaults>>

PatchPool(e) ==
    /\ npc[e] = "patchPool"
    /\ workers' = [workers EXCEPT ![poolAtHand[e]] = Patched(@, e)]
    /\ NodeGoTo(e, "readAgain")
    /\ UNCHANGED <<cpms, active, masters, cpmsStatus, hosted, hostedSize, job, copy, want, poolAtHand,
                   poolsLeft, rolled, stuck, nodeFaults>>

\* Mutant: the annotation is deleted before the copy is taken to compare with.
CompareTooLate(e) ==
    /\ npc[e] = "readAgain"
    /\ LET found == [workers[poolAtHand[e]] EXCEPT !.override = FALSE] IN Reads(e, found, found)
    /\ NodeGoTo(e, "dropOverride")
    /\ UNCHANGED <<objects, job, poolAtHand, poolsLeft, rolled, stuck, nodeFaults>>

ReadAgain(e) ==
    /\ npc[e] = "readAgain"
    /\ LET found == workers[poolAtHand[e]] IN Reads(e, found, [found EXCEPT !.override = FALSE])
    /\ NodeGoTo(e, "dropOverride")
    /\ UNCHANGED <<objects, job, poolAtHand, poolsLeft, rolled, stuck, nodeFaults>>

DropOverride(e) ==
    /\ npc[e] = "dropOverride"
    /\ workers' = [workers EXCEPT ![poolAtHand[e]] = Patched(@, e)]
    /\ NodeGoTo(e, "pool")
    /\ UNCHANGED <<cpms, active, masters, cpmsStatus, hosted, hostedSize, job, copy, want, poolAtHand,
                   poolsLeft, rolled, stuck, nodeFaults>>

\* validateIMDSv2 wants the nodes ready; of the machines it only warns.
ValidateNodes(e) ==
    /\ npc[e] = "validate"
    /\ \/ AllReady /\ NodeGoTo(e, "done")
       \/ ~AllReady /\ NodeGoTo(e, "failed")
    /\ UNCHANGED <<objects, job, copy, want, poolAtHand, poolsLeft, rolled, stuck, nodeFaults>>

\* The size is given, or is the next after that of the label; one that is the
\* label's already is refused.
ReadHosted(e) ==
    /\ npc[e] = "idle"
    /\ \/ /\ job' = [job EXCEPT ![e] = "size"]
          /\ \E size \in Size \ {hostedSize} :
                Reads(e, hosted, [hosted EXCEPT !.override = size])
       \/ /\ job' = [job EXCEPT ![e] = "removeOverride"] /\ hosted.override # 0
          /\ Reads(e, hosted, [hosted EXCEPT !.override = 0])
    /\ NodeGoTo(e, "patchHosted")
    /\ UNCHANGED <<objects, poolAtHand, poolsLeft, rolled, stuck, nodeFaults>>

\* The reads and the service log that follow only warn.
PatchHosted(e) ==
    /\ npc[e] = "patchHosted" /\ hosted' = Patched(hosted, e) /\ NodeGoTo(e, "done")
    /\ UNCHANGED <<cpms, active, masters, cpmsStatus, hostedSize, workers, job, copy, want, poolAtHand,
                   poolsLeft, rolled, stuck, nodeFaults>>

\* A call fails, the SRE says no, the rollout is not seen in time, or a kill.
NodeRunFails(e) ==
    /\ npc[e] \notin {"idle", "done", "failed"} /\ NodeGoTo(e, "failed")
    /\ nodeFaults < MaxNodeFaults /\ nodeFaults' = nodeFaults + 1
    /\ stuck' = IF npc[e] \in {"readAgain", "dropOverride"} THEN stuck \cup {poolAtHand[e]} ELSE stuck
    /\ UNCHANGED <<objects, job, copy, want, poolAtHand, poolsLeft, rolled>>

NodeRun(e) ==
    \/ PreFlight(e) \/ ReadMasters(e) \/ PatchMasters(e) \/ MonitorRollout(e) \/ ListWorkers(e)
    \/ WorkersPatched(e) \/ ReadPool(e) \/ PatchPool(e) \/ ReadAgain(e) \/ DropOverride(e)
    \/ ValidateNodes(e) \/ ReadHosted(e) \/ PatchHosted(e) \/ NodeRunFails(e)
-----------------------------------------------------------------------------
(***************************************************************************)
(* The operators: one master at a time is replaced, and the status follows *)
(* later; HyperShift sizes the cluster by its annotations.                 *)
(***************************************************************************)
runs == <<npc, job, copy, want, poolAtHand, poolsLeft, rolled, stuck, nodeFaults>>

ReplaceMaster ==
    /\ active /\ AllReady
    /\ \E m \in Master : masters[m].spec # cpms /\ masters' = [masters EXCEPT ![m] = [spec |-> cpms, ready |-> FALSE]]
    /\ UNCHANGED <<cpms, active, cpmsStatus, hosted, hostedSize, workers, runs>>

MasterReady ==
    /\ \E m \in Master : masters' = [masters EXCEPT ![m].ready = TRUE]
    /\ ~AllReady /\ UNCHANGED <<cpms, active, cpmsStatus, hosted, hostedSize, workers, runs>>

ReportStatus ==
    /\ cpmsStatus' = [updated |-> Cardinality({m \in Master : masters[m].spec = cpms}),
                      ready |-> Cardinality({m \in Master : masters[m].ready})]
    /\ cpmsStatus' # cpmsStatus
    /\ UNCHANGED <<cpms, active, masters, hosted, hostedSize, workers, runs>>

Deactivate ==
    /\ active /\ active' = FALSE
    /\ UNCHANGED <<cpms, masters, cpmsStatus, hosted, hostedSize, workers, runs>>

Resize ==
    /\ hosted.override # 0 /\ hostedSize' = hosted.override
    /\ hostedSize' # hostedSize
    /\ UNCHANGED <<cpms, active, masters, cpmsStatus, hosted, workers, runs>>

Annotate ==
    /\ ~hosted.other /\ hosted' = [hosted EXCEPT !.other = TRUE]
    /\ UNCHANGED <<cpms, active, masters, cpmsStatus, hostedSize, workers, runs>>

NodeNext ==
    \/ \E e \in Engineer : NodeRun(e)
    \/ ReplaceMaster \/ MasterReady \/ ReportStatus \/ Deactivate \/ Resize \/ Annotate

NodeSpec == NodeInit /\ [][NodeNext]_nodeVars
-----------------------------------------------------------------------------
About(e, f) ==
    CASE job[e] = "resize" -> f = "type"
      [] job[e] = "volume" -> f = "disk"
      [] job[e] = "imdsv2" -> f \in {"imds", "override"}
      [] OTHER -> f = "override"

Changes(object) == {f \in DOMAIN object : object'[f] # object[f]}

\* Whatever else is edited between the copy and the patch, by other commands, by
\* operators or by another SRE, a command changes what it is about and nothing
\* else of the ControlPlaneMachineSet and of the annotations.
OthersEditsKept ==
    [][\A f \in Changes(cpms) \cup (Changes(hosted) \ {"other"}) :
            \E e \in Engineer : npc[e] \in {"patchMasters", "patchHosted"} /\ About(e, f)]_nodeVars

\* "Remove the override annotation now that the patch is applied": a MachinePool
\* keeps the annotation that lifts Hive's protection only while a run is between
\* its two patches, or because a run ended there.
OverrideIsTemporary ==
    \A p \in WorkerPool : workers[p].override =>
        \/ p \in stuck
        \/ \E e \in Engineer : poolAtHand[e] = p /\ npc[e] \in {"readAgain", "dropOverride"}
=============================================================================
