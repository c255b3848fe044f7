---------------------------- MODULE ManifestWorkMove ----------------------------
(***************************************************************************)
(* `osdctl hcp restore manifestwork` and `reassign`                        *)
(* (cmd/hcp/internal/cmd/manifestwork.go, reassign.go).                    *)
(*                                                                         *)
(* A hosted control plane is described by ManifestWorks on the service     *)
(* cluster, in the namespace of the management cluster that runs it.  Two  *)
(* commands copy them, first the Velero resources, then the cluster's own, *)
(* into the namespace of a replacement; a third changes the assignment in  *)
(* OCM.  Several SREs may run any of them; clusters-service keeps editing  *)
(* the works of the assigned management cluster.                           *)
(***************************************************************************)
EXTENDS Integers

CONSTANTS
    SRE,
    MaxFaults    \* bound: calls that fail, with or without their effect

MC == {"old", "new"}
Assignment == MC \cup {"other"}
Velero == {"secret", "schedules"}
Reconciled == {"hosted", "pool"}     \* HostedCluster and NodePool can be paused
Cluster == {"namespaces"} \cup Reconciled
Work == Velero \cup Cluster
None == [version |-> -1, paused |-> FALSE]   \* there is no such work

VARIABLES
    assigned,   \* OCM: the management cluster of the cluster
    works,      \* works[m][w]: content of the work, or None
    mpc,        \* of each SRE
    move,       \* ManifestWorkMovePlan of each SRE
    reassign,   \* ReassignmentPlan of each SRE
    faults

moveVars == <<assigned, works, mpc, move, reassign, faults>>

Content == [version : {0, 1}, paused : BOOLEAN]
NoMove == [kind |-> "none", source |-> "none", names |-> {},
           content |-> [w \in Work |-> None], missing |-> {}, unpaused |-> {}]
NoReassignment == [source |-> "none", target |-> "none"]

Fresh == [version |-> 0, paused |-> FALSE]

\* The node pool is yet to be made.
MoveInit ==
    /\ assigned = "old"
    /\ works = [m \in MC |-> [w \in Work |-> IF m = "old" /\ w # "pool" THEN Fresh ELSE None]]
    /\ mpc = [s \in SRE |-> "idle"] /\ move = [s \in SRE |-> NoMove]
    /\ reassign = [s \in SRE |-> NoReassignment] /\ faults = 0
-----------------------------------------------------------------------------
GoTo(s, next) == mpc' = [mpc EXCEPT ![s] = next]
Ended == {"idle", "moved"}

\* A run's plans end with it; that of a move that succeeded is kept to look at.
MoveEnds(s, how) ==
    /\ GoTo(s, how)
    /\ move' = IF how = "moved" THEN move ELSE [move EXCEPT ![s] = NoMove]
    /\ reassign' = [reassign EXCEPT ![s] = NoReassignment]

\* destinationManifestWorks: the copy is paused whether or not the source is.
Destination(kind, content) ==
    IF kind = "cluster" THEN [w \in Work |-> IF content[w] # None /\ w \in Reconciled
                                              THEN [content[w] EXCEPT !.paused = TRUE]
                                              ELSE content[w]]
    ELSE content

\* missingDestinationManifestWorks: what exists must be equal to what is planned.
Matches(content, names) == \A w \in names : works["new"][w] \in {None, content[w]}
Missing(names) == {w \in names : works["new"][w] = None}

\* requireDestinationVeleroResources.
VeleroMoved(kind) == kind = "cluster" => \A w \in Velero : works["new"][w] # None

\* The two Velero works, or clusterManifestWorks: there may be node pools.
Copied(kind, source) ==
    {w \in (IF kind = "velero" THEN Velero ELSE Cluster) : works[source][w] # None}

\* PrepareVeleroManifestWorkMove and PrepareClusterManifestWorkMove read and
\* check; a plan that cannot be made ends the command with nothing changed.
\* The source defaults to the assigned management cluster.
Prepare(s) ==
    /\ mpc[s] \in Ended
    /\ \E kind \in {"velero", "cluster"}, source \in {"old", assigned} \cap MC :
        LET names == Copied(kind, source)
            content == Destination(kind, works[source])
        IN /\ source # "new"
           /\ VeleroMoved(kind)
           /\ (IF kind = "velero" THEN Velero ELSE Cluster \ {"pool"}) \subseteq names
           /\ Matches(content, names)
           /\ move' = [move EXCEPT ![s] =
                [kind |-> kind, source |-> source, names |-> names, content |-> content,
                 missing |-> Missing(names),
                 unpaused |-> IF kind = "cluster" THEN names \cap Reconciled ELSE {}]]
    /\ GoTo(s, "planned") /\ UNCHANGED <<assigned, works, reassign, faults>>

\* The SRE confirms, and MoveManifestWorks looks again; or it ends here.
Confirm(s) ==
    /\ mpc[s] = "planned"
    /\ IF Matches(move[s].content, move[s].missing)
       THEN /\ move' = [move EXCEPT ![s].missing = Missing(@)]
            /\ GoTo(s, "pause") /\ UNCHANGED reassign
       ELSE MoveEnds(s, "idle")
    /\ UNCHANGED <<assigned, works, faults>>

Paused(m, w) == [works EXCEPT ![m][w].paused = TRUE]
Rank == [secret |-> 1, schedules |-> 2, namespaces |-> 3, hosted |-> 4, pool |-> 5]
First(names) == CHOOSE w \in names : \A u \in names : Rank[w] <= Rank[u]

\* pauseManifestWork, of the source as it is now, retried on conflict.
PauseSource(s) ==
    /\ mpc[s] = "pause" /\ move[s].unpaused # {}
    /\ LET w == First(move[s].unpaused) IN
        /\ works' = Paused(move[s].source, w)
        /\ move' = [move EXCEPT ![s].unpaused = @ \ {w}]
    /\ UNCHANGED <<assigned, mpc, reassign, faults>>

\* Mutant: creation begins with the HostedCluster paused only.
PausedEnough(s) ==
    /\ mpc[s] = "pause" /\ "hosted" \notin move[s].unpaused
    /\ GoTo(s, IF move[s].missing = {} THEN "moved" ELSE "create")
    /\ UNCHANGED <<assigned, works, move, reassign, faults>>

AllPaused(s) ==
    /\ mpc[s] = "pause" /\ move[s].unpaused = {}
    /\ GoTo(s, IF move[s].missing = {} THEN "moved" ELSE "create")
    /\ UNCHANGED <<assigned, works, move, reassign, faults>>

\* The API refuses a name that exists.
NextWork(s) == First(move[s].missing)

Create(s) ==
    /\ mpc[s] = "create" /\ works["new"][NextWork(s)] = None
    /\ works' = [works EXCEPT !["new"][NextWork(s)] = move[s].content[NextWork(s)]]
    /\ GoTo(s, "verify") /\ UNCHANGED <<assigned, move, reassign, faults>>

Verify(s) ==
    /\ mpc[s] = "verify" /\ works["new"][NextWork(s)] = move[s].content[NextWork(s)]
    /\ move' = [move EXCEPT ![s].missing = @ \ {NextWork(s)}]
    /\ GoTo(s, IF move[s].missing = {NextWork(s)} THEN "moved" ELSE "create")
    /\ UNCHANGED <<assigned, works, reassign, faults>>

\* A work that exists, or differs from what was created, ends the run.
Refused(s) ==
    /\ \/ mpc[s] = "create" /\ works["new"][NextWork(s)] # None
       \/ mpc[s] = "verify" /\ works["new"][NextWork(s)] # move[s].content[NextWork(s)]
    /\ MoveEnds(s, "idle") /\ UNCHANGED <<assigned, works, faults>>

\* PrepareReassignment, and the prompt; then the assignment is read again.
Preview(s) ==
    /\ mpc[s] \in Ended
    /\ \E target \in {"new", "other"} \ {assigned} :
        reassign' = [reassign EXCEPT ![s] = [source |-> assigned, target |-> target]]
    /\ move' = [move EXCEPT ![s] = NoMove]
    /\ GoTo(s, "previewed") /\ UNCHANGED <<assigned, works, faults>>

CheckAssignment(s) ==
    /\ mpc[s] = "previewed"
    /\ IF assigned = reassign[s].source
       THEN GoTo(s, "reassign") /\ UNCHANGED <<move, reassign>>
       ELSE MoveEnds(s, "idle")
    /\ UNCHANGED <<assigned, works, faults>>

\* UpdateManagementClusterAssignment is unconditional: an assignment made since
\* the check is overwritten.
Reassign(s) ==
    /\ mpc[s] = "reassign" /\ assigned' = reassign[s].target
    /\ GoTo(s, "confirm") /\ UNCHANGED <<works, move, reassign, faults>>

\* The read after it decides only what is reported.
ReadBack(s) ==
    /\ mpc[s] = "confirm" /\ MoveEnds(s, "idle") /\ UNCHANGED <<assigned, works, faults>>

\* A call returns an error, having had its effect or not; or the process ends.
Fail(s) ==
    /\ mpc[s] \notin Ended /\ MoveEnds(s, "idle")
    /\ faults < MaxFaults /\ faults' = faults + 1
    /\ CASE mpc[s] = "pause" /\ move[s].unpaused # {} ->
              works' \in {works, Paused(move[s].source, First(move[s].unpaused))}
         [] mpc[s] = "create" /\ works["new"][NextWork(s)] = None ->
              works' \in {works, [works EXCEPT !["new"][NextWork(s)] = move[s].content[NextWork(s)]]}
         [] OTHER -> UNCHANGED works
    /\ assigned' \in {assigned} \cup (IF mpc[s] = "reassign" THEN {reassign[s].target} ELSE {})

Command(s) ==
    \/ Prepare(s) \/ Confirm(s) \/ PauseSource(s) \/ AllPaused(s) \/ Create(s)
    \/ Verify(s) \/ Refused(s)
    \/ Preview(s) \/ CheckAssignment(s) \/ Reassign(s) \/ ReadBack(s)
-----------------------------------------------------------------------------
\* clusters-service edits a work of the assigned management cluster, leaving its
\* pause alone, or adds the pool while the old one is assigned.
EditWork(w) ==
    /\ assigned \in MC /\ works[assigned][w] # None /\ works[assigned][w].version = 0
    /\ works' = [works EXCEPT ![assigned][w].version = 1]
    /\ UNCHANGED <<assigned, mpc, move, reassign, faults>>

AddPool ==
    /\ assigned = "old" /\ works["old"]["pool"] = None
    /\ works' = [works EXCEPT !["old"]["pool"] = Fresh]
    /\ UNCHANGED <<assigned, mpc, move, reassign, faults>>

MoveNext ==
        \/ \E s \in SRE : Command(s) \/ Fail(s)
        \/ \E w \in {"schedules"} \cup Reconciled : EditWork(w)
        \/ AddPool

MoveSpec == MoveInit /\ [][MoveNext]_moveVars
-----------------------------------------------------------------------------
\* "Both source and destination resources will remain paused": the HostedCluster
\* and the NodePool are never reconciled in both management clusters, whichever
\* SREs move, reassign, fail and begin again, and whoever edits the works.
NeverBothActive ==
    \A w \in Reconciled : works["new"][w] # None =>
        works["new"][w].paused /\ works["old"][w].paused

\* A move that says it is complete has left every work of its plan in the
\* replacement, below the Velero resources, and paused what it copied.
MoveComplete ==
    \A s \in SRE : mpc[s] = "moved" /\ move[s].kind = "cluster" =>
        /\ \A w \in move[s].names \cup Velero : works["new"][w] # None
        /\ \A w \in move[s].names \cap Reconciled : works[move[s].source][w].paused
=============================================================================
