--------------------------- MODULE MachinePoolDance ---------------------------
(***************************************************************************)
(* The machine pool dance (pkg/infra/machinepool.go, RunMachinePoolDance), *)
(* by which `cluster resize infra` and the RHOBS migration replace a       *)
(* cluster's infra nodes: a temporary pool is created, the original one is *)
(* deleted and made anew, and the temporary pool is deleted.  Several SREs *)
(* may be at it, and a run that ended may be followed by another.          *)
(***************************************************************************)
EXTENDS Integers, FiniteSets

CONSTANTS
    Runs,
    Replicas,    \* of the infra pool
    MaxNodes,    \* bound: nodes that ever exist, numbered as they join
    MaxFaults    \* bound: kills, failed calls, nodes that stop being ready

ASSUME DanceAssumption ==
    /\ Replicas \in Nat \ {0} /\ MaxNodes \in Nat /\ MaxNodes >= Replicas /\ MaxFaults \in Nat
    /\ "none" \notin Runs /\ "old" \notin Runs

Node == 1..MaxNodes
Pool == {"infra", "infra2"}     \* infra2 is the temporary pool

VARIABLES
    pool,      \* Hive's MachinePools: absent, present or deleting
    made,      \* the run that created each pool
    of,        \* the pool of each node
    node,      \* the state of each node
    pc,
    original,  \* the nodes a run listed before it deleted the original pool
    temporary, \* and before it deleted the temporary one
    faults

nodes == <<of, node>>
vars == <<pool, made, nodes, pc, original, temporary, faults>>

Live == {"joining", "ready", "down", "draining"}
Ended == {"done", "failed", "timedOut"}

TypeOK ==
    /\ pool \in [Pool -> {"absent", "present", "deleting"}]
    /\ made \in [Pool -> Runs \cup {"old", "none"}]
    /\ of \in [Node -> Pool] /\ node \in [Node -> Live \cup {"unborn", "gone"}]
    /\ pc \in [Runs -> Ended \cup
         {"start", "createTemp", "wait1", "list1", "deleteOriginal", "pool1", "drain1", "gone1",
          "createNew", "wait2", "list2", "deleteTemp", "pool2", "wait3", "gone2"}]
    /\ original \in [Runs -> SUBSET {n \in Node : of[n] = "infra"}]
    /\ temporary \in [Runs -> SUBSET {n \in Node : of[n] = "infra2"}]
    /\ faults \in 0..MaxFaults

Nodes(p) == {n \in Node : of[n] = p /\ node[n] \in Live}
InfraNodes == Nodes("infra") \cup Nodes("infra2")

Init ==
    /\ pool = [p \in Pool |-> IF p = "infra" THEN "present" ELSE "absent"]
    /\ made = [p \in Pool |-> IF p = "infra" THEN "old" ELSE "none"]
    /\ of = [n \in Node |-> "infra"]
    /\ node = [n \in Node |-> IF n <= Replicas THEN "ready" ELSE "unborn"]
    /\ pc = [r \in Runs |-> "start"]
    /\ original = [r \in Runs |-> {}] /\ temporary = original /\ faults = 0
-----------------------------------------------------------------------------
GoTo(r, l) == pc' = [pc EXCEPT ![r] = l] /\ UNCHANGED faults

\* GetInfraMachinePool; a pool that is being deleted is still found.
Start(r) ==
    /\ pc[r] = "start"
    /\ GoTo(r, IF pool["infra"] = "absent" THEN "failed" ELSE "createTemp")
    /\ UNCHANGED <<pool, made, nodes, original, temporary>>

\* A pool of the name that is there makes Create fail.
CreatePool(r, p, from, to) ==
    /\ pc[r] = from
    /\ IF pool[p] = "absent"
         THEN /\ pool' = [pool EXCEPT ![p] = "present"] /\ made' = [made EXCEPT ![p] = r]
              /\ GoTo(r, to)
         ELSE GoTo(r, "failed") /\ UNCHANGED <<pool, made>>
    /\ UNCHANGED <<nodes, original, temporary>>

CreateTemp(r) == CreatePool(r, "infra2", "createTemp", "wait1")
CreateNew(r) == CreatePool(r, "infra", "createNew", "wait2")

\* countReadyNodes: a node that drains is still Ready.
ReadyNodes == Cardinality({n \in InfraNodes : node[n] \in {"ready", "draining"}})

\* Mutant: as many as there were will do.
SomeReady == ReadyNodes >= Replicas

\* Mutant: more than twice as many.
TooManyReady == ReadyNodes > 2 * Replicas

DoubleReady == ReadyNodes >= 2 * Replicas

WaitForNodes(r) ==
    /\ pc[r] \in {"wait1", "wait2"} /\ DoubleReady
    /\ GoTo(r, IF pc[r] = "wait1" THEN "list1" ELSE "list2")
    /\ UNCHANGED <<pool, made, nodes, original, temporary>>

ListNodes(r) ==
    \/ /\ pc[r] = "list1" /\ GoTo(r, "deleteOriginal")
       /\ original' = [original EXCEPT ![r] = Nodes("infra")]
       /\ UNCHANGED <<pool, made, nodes, temporary>>
    \/ /\ pc[r] = "list2" /\ GoTo(r, "deleteTemp")
       /\ temporary' = [temporary EXCEPT ![r] = Nodes("infra2")]
       /\ UNCHANGED <<pool, made, nodes, original>>

DeletePool(r, p, from, to) ==
    /\ pc[r] = from
    /\ IF pool[p] = "absent"
         THEN GoTo(r, "failed") /\ UNCHANGED pool
         ELSE GoTo(r, to) /\ pool' = [pool EXCEPT ![p] = "deleting"]
    /\ UNCHANGED <<made, nodes, original, temporary>>

DeleteOriginal(r) == DeletePool(r, "infra", "deleteOriginal", "pool1")
DeleteTemp(r) == DeletePool(r, "infra2", "deleteTemp", "pool2")

\* waitForMachinePoolDeletion.
PoolDeleted(r) ==
    /\ \/ pc[r] = "pool1" /\ pool["infra"] = "absent" /\ GoTo(r, "drain1")
       \/ pc[r] = "pool2" /\ pool["infra2"] = "absent" /\ GoTo(r, "wait3")
    /\ UNCHANGED <<pool, made, nodes, original, temporary>>

\* waitForNodesDeletion, waitForNodesGone and the last poll, which counts nodes.
NodesDeleted(r) ==
    /\ \/ pc[r] \in {"drain1", "gone1"} /\ Nodes("infra") = {} /\ GoTo(r, "createNew")
       \/ pc[r] = "gone2" /\ Nodes("infra2") = {} /\ GoTo(r, "done")
       \/ pc[r] = "wait3" /\ Cardinality(InfraNodes) = Replicas /\ GoTo(r, "done")
    /\ UNCHANGED <<pool, made, nodes, original, temporary>>

\* The poll for nodes to go times out: onTimeout terminates the listed instances.
TerminateInstances(r) ==
    /\ \/ pc[r] = "drain1" /\ Nodes("infra") # {} /\ GoTo(r, "gone1")
       \/ pc[r] = "wait3" /\ Cardinality(InfraNodes) # Replicas /\ GoTo(r, "gone2")
    /\ LET listed == IF pc[r] = "drain1" THEN original[r] ELSE temporary[r]
       IN node' = [n \in Node |-> IF n \in listed \cap InfraNodes THEN "gone" ELSE node[n]]
    /\ UNCHANGED <<pool, made, of, original, temporary>>

\* Any other poll that times out ends the run; so do these two for the callers
\* that pass no onTimeout.
TimeOut(r) ==
    /\ pc[r] \in {"wait1", "wait2", "pool1", "pool2", "drain1", "wait3", "gone1", "gone2"}
    /\ GoTo(r, "timedOut")
    /\ UNCHANGED <<pool, made, nodes, original, temporary>>

\* A call fails or the process is killed.
Fail(r) ==
    /\ pc[r] \notin Ended /\ faults < MaxFaults /\ faults' = faults + 1
    /\ pc' = [pc EXCEPT ![r] = "failed"]
    /\ UNCHANGED <<pool, made, nodes, original, temporary>>

Step(r) == \/ Start(r) \/ CreateTemp(r) \/ WaitForNodes(r) \/ ListNodes(r) \/ DeleteOriginal(r)
           \/ PoolDeleted(r) \/ NodesDeleted(r) \/ TerminateInstances(r) \/ CreateNew(r) \/ DeleteTemp(r)
-----------------------------------------------------------------------------
(***************************************************************************)
(* Hive and the cluster.                                                   *)
(***************************************************************************)
Join(n) ==
    /\ node[n] = "unborn" /\ \A m \in 1..(n - 1) : node[m] # "unborn"
    /\ \E p \in Pool :
         /\ pool[p] = "present" /\ of' = [of EXCEPT ![n] = p]
         /\ Cardinality({m \in Nodes(p) : node[m] # "draining"}) < Replicas
    /\ node' = [node EXCEPT ![n] = "joining"]
    /\ UNCHANGED <<pool, made, pc, original, temporary, faults>>

Change(n, from, to) ==
    /\ node[n] \in from /\ node' = [node EXCEPT ![n] = to]
    /\ UNCHANGED <<pool, made, of, pc, original, temporary>>

BecomeReady(n) == Change(n, {"joining", "down"}, "ready") /\ UNCHANGED faults
Drained(n) == Change(n, {"draining"}, "gone") /\ UNCHANGED faults
GoDown(n) == Change(n, {"ready"}, "down") /\ faults < MaxFaults /\ faults' = faults + 1

\* The MachineSets of a pool go before the pool does; their nodes drain.
RemovePool(p) ==
    /\ pool[p] = "deleting" /\ pool' = [pool EXCEPT ![p] = "absent"]
    /\ node' = [n \in Node |-> IF n \in Nodes(p) THEN "draining" ELSE node[n]]
    /\ UNCHANGED <<made, of, pc, original, temporary, faults>>

Cluster == \/ \E n \in Node : Join(n) \/ BecomeReady(n) \/ Drained(n)
           \/ \E p \in Pool : RemovePool(p)

Next == \/ \E r \in Runs : Step(r) \/ TimeOut(r) \/ Fail(r)
        \/ Cluster
        \/ \E n \in Node : GoDown(n)

Spec == Init /\ [][Next]_vars

\* Hive and the cluster do what they are told, and a run takes its steps.
Fairness == WF_vars(Cluster) /\ \A r \in Runs : WF_vars(Step(r))

FairSpec == Spec /\ Fairness
-----------------------------------------------------------------------------
\* "to safely resize infra nodes": at no time are fewer infra nodes in service
\* than the pool had, but for those that failed by themselves.
InService == {n \in InfraNodes : node[n] \in {"ready", "down"}}
EnoughInfra == Cardinality(InService) >= Replicas

\* "replacement complete": the pool is the run's, the temporary pool is gone and
\* no node of the original pool is left.
DoneMeansReplaced ==
    \A r \in Runs : pc[r] = "done" =>
        /\ pool["infra"] = "present" /\ made["infra"] = r /\ pool["infra2"] = "absent"
        /\ \A n \in original[r] : node[n] = "gone"

\* A run completes unless something fails or one of its polls times out: none of
\* them waits for what the dance itself has made impossible.
RunCompletes == \A r \in Runs : <>(pc[r] \in {"done", "timedOut"} \/ faults > 0)
=============================================================================
