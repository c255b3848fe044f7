--------------------------- MODULE EmergencyAccess ---------------------------
(***************************************************************************)
(* Access when a cluster's API server is out of reach: `osdctl jumphost`   *)
(* (a key pair, a security group and an EC2 instance found again by their  *)
(* tags) and `osdctl cluster break-glass` (pods on Hive found again by the *)
(* label of their cluster), each with the command that takes it away.      *)
(* SREs create and delete side by side in one account and on one Hive.     *)
(***************************************************************************)
EXTENDS Integers, FiniteSets

CONSTANTS
    Responder,
    PrivateCluster,      \* clusters that are reached from a pod on Hive
    MaxHosts, MaxGroups, MaxPods,   \* bounds: instances, groups and pods ever made
    MaxAccessFaults      \* bound: failed calls, time-outs and kills

NoGroup == 0

VARIABLES
    keyPair,        \* the key pair named red-hat-sre-jumphost exists
    group,          \* the security group of that name in the VPC, NoGroup if there is none
    groups,         \* ids given to groups
    hosts,          \* state of each instance that DescribeInstances returns, by id
    hostsMade,
    jumpPods,       \* jump pods: cluster and whether started, by id
    podsMade,
    apc, inHand,    \* of each run: step; group, instance or pod it works on
    subject,        \* and the cluster of break-glass
    accessFaults

accessVars == <<keyPair, group, groups, hosts, hostsMade, jumpPods, podsMade, apc, inHand, subject, accessFaults>>
account == <<keyPair, group, groups, hosts, hostsMade>>
hive == <<jumpPods, podsMade>>

AccessInit ==
    /\ keyPair = FALSE /\ group = NoGroup /\ groups = 0
    /\ hosts = <<>> /\ hostsMade = 0 /\ jumpPods = <<>> /\ podsMade = 0
    /\ apc = [r \in Responder |-> "idle"] /\ inHand = [r \in Responder |-> 0]
    /\ subject \in [Responder -> PrivateCluster] /\ accessFaults = 0
-----------------------------------------------------------------------------
Goes(r, from, to) == apc[r] = from /\ apc' = [apc EXCEPT ![r] = to]
Holds(r, id) == inHand' = [inHand EXCEPT ![r] = id]
Without(f, gone) == [k \in DOMAIN f \ gone |-> f[k]]
Terminated(h) ==
    IF h \in DOMAIN hosts /\ hosts[h] # "terminated" THEN [hosts EXCEPT ![h] = "shutting-down"] ELSE hosts
With(f, k, v) == [j \in DOMAIN f \cup {k} |-> IF j = k THEN v ELSE f[j]]

BeginJumphost(r) ==
    /\ \E first \in {"key", "findHost"} : Goes(r, "idle", first)
    /\ UNCHANGED <<account, hive, inHand, subject, accessFaults>>

BreakGlass(r) ==
    /\ \E first \in {"createPod", "listPods"} : Goes(r, "idle", first)
    /\ UNCHANGED <<account, hive, inHand, subject, accessFaults>>

\* AWS refuses a second key pair, or a second group in the VPC, of the name.
CreateKeyPair(r) ==
    /\ IF keyPair THEN Goes(r, "key", "failed") ELSE Goes(r, "key", "group")
    /\ keyPair' = TRUE
    /\ UNCHANGED <<group, groups, hosts, hostsMade, hive, inHand, subject, accessFaults>>

CreateGroup(r) ==
    /\ IF group # NoGroup
       THEN Goes(r, "group", "failed") /\ UNCHANGED <<group, groups, inHand>>
       ELSE /\ Goes(r, "group", "launch") /\ groups < MaxGroups /\ groups' = groups + 1
            /\ group' = groups' /\ Holds(r, groups')
    /\ UNCHANGED <<keyPair, hosts, hostsMade, hive, subject, accessFaults>>

Launch(r) ==
    /\ hostsMade < MaxHosts
    /\ IF group # inHand[r] \/ ~keyPair
       THEN Goes(r, "launch", "failed") /\ UNCHANGED <<hosts, hostsMade, inHand>>
       ELSE /\ Goes(r, "launch", "waitRunning") /\ hostsMade' = hostsMade + 1
            /\ hosts' = With(hosts, hostsMade', "pending") /\ Holds(r, hostsMade')
    /\ UNCHANGED <<keyPair, group, groups, hive, subject, accessFaults>>

\* An instance that does not come up within five minutes is terminated.
AwaitRunning(r) ==
    /\ \/ /\ inHand[r] \in DOMAIN hosts /\ hosts[inHand[r]] = "running"
          /\ Goes(r, "waitRunning", "done") /\ UNCHANGED <<hosts, accessFaults>>
       \/ /\ Goes(r, "waitRunning", "failed") /\ accessFaults < MaxAccessFaults /\ accessFaults' = accessFaults + 1
          /\ hosts' = Terminated(inHand[r])
    /\ UNCHANGED <<keyPair, group, groups, hostsMade, hive, inHand, subject>>

\* The first instance listed with the tags, whatever its state.
FindHost(r) ==
    /\ IF DOMAIN hosts = {} THEN Goes(r, "findHost", "deleteKey") /\ UNCHANGED <<hosts, inHand>>
       ELSE \E h \in DOMAIN hosts :
            /\ Goes(r, "findHost", "waitTerminated") /\ Holds(r, h)
            /\ hosts' = Terminated(h)
    /\ UNCHANGED <<keyPair, group, groups, hostsMade, hive, subject, accessFaults>>

AwaitTerminated(r) ==
    /\ inHand[r] \in DOMAIN hosts => hosts[inHand[r]] = "terminated"
    /\ Goes(r, "waitTerminated", "deleteKey")
    /\ UNCHANGED <<account, hive, inHand, subject, accessFaults>>

DeleteKeyPair(r) ==
    /\ Goes(r, "deleteKey", "findGroup") /\ keyPair' = FALSE
    /\ UNCHANGED <<group, groups, hosts, hostsMade, hive, inHand, subject, accessFaults>>

FindGroup(r) ==
    /\ Goes(r, "findGroup", IF group = NoGroup THEN "deleted" ELSE "deleteGroup")
    /\ Holds(r, group) /\ UNCHANGED <<account, hive, subject, accessFaults>>

\* AWS refuses while an instance has the group; a group that is gone is an error too.
DeleteGroup(r) ==
    /\ IF group = inHand[r] /\ \A h \in DOMAIN hosts : hosts[h] = "terminated"
       THEN Goes(r, "deleteGroup", "deleted") /\ group' = NoGroup
       ELSE Goes(r, "deleteGroup", "failed") /\ UNCHANGED group
    /\ UNCHANGED <<keyPair, groups, hosts, hostsMade, hive, inHand, subject, accessFaults>>
-----------------------------------------------------------------------------
PodsOf(c) == {p \in DOMAIN jumpPods : jumpPods[p].cluster = c}

CreatePod(r) ==
    /\ podsMade < MaxPods /\ podsMade' = podsMade + 1
    /\ jumpPods' = With(jumpPods, podsMade', [cluster |-> subject[r], started |-> FALSE])
    /\ Holds(r, podsMade') /\ Goes(r, "createPod", "waitPod")
    /\ UNCHANGED <<account, subject, accessFaults>>

AwaitPod(r) ==
    /\ inHand[r] \in DOMAIN jumpPods /\ jumpPods[inHand[r]].started
    /\ Goes(r, "waitPod", "done") /\ UNCHANGED <<account, hive, inHand, subject, accessFaults>>

ListPods(r) ==
    /\ Goes(r, "listPods", IF PodsOf(subject[r]) = {} THEN "dropped" ELSE "deletePods")
    /\ UNCHANGED <<account, hive, inHand, subject, accessFaults>>

\* After the prompt: all that have the label now, not those listed.
DeletePods(r) ==
    /\ Goes(r, "deletePods", "waitPods") /\ jumpPods' = Without(jumpPods, PodsOf(subject[r]))
    /\ UNCHANGED <<account, podsMade, inHand, subject, accessFaults>>

\* Mutant: the pods listed before the deletion are looked at, without the label.
AwaitOnce(r) ==
    /\ Goes(r, "waitPods", "dropped") /\ UNCHANGED <<account, hive, inHand, subject, accessFaults>>

AwaitNoPods(r) ==
    /\ PodsOf(subject[r]) = {} /\ Goes(r, "waitPods", "dropped")
    /\ UNCHANGED <<account, hive, inHand, subject, accessFaults>>

\* A call fails, a wait times out, the SRE says no, or a kill.
AccessFails(r) ==
    /\ apc[r] \notin {"idle", "done", "failed", "deleted", "dropped", "waitRunning"}
    /\ Goes(r, apc[r], "failed")
    /\ accessFaults < MaxAccessFaults /\ accessFaults' = accessFaults + 1
    /\ UNCHANGED <<account, hive, inHand, subject>>

\* A run that has ended makes room for another.
EndAccess(r) ==
    /\ \E end \in {"done", "failed", "deleted", "dropped"} : Goes(r, end, "idle")
    /\ Holds(r, 0) /\ UNCHANGED <<account, hive, subject, accessFaults>>

HostState ==
    /\ \E h \in DOMAIN hosts :
        \/ hosts[h] = "pending" /\ hosts' = With(hosts, h, "running")
        \/ hosts[h] = "shutting-down" /\ hosts' = With(hosts, h, "terminated")
        \/ hosts[h] = "terminated" /\ hosts' = Without(hosts, {h})
    /\ UNCHANGED <<keyPair, group, groups, hostsMade, hive, apc, inHand, subject, accessFaults>>

PodStarts ==
    /\ \E p \in DOMAIN jumpPods : ~jumpPods[p].started /\ jumpPods' = [jumpPods EXCEPT ![p].started = TRUE]
    /\ UNCHANGED <<account, podsMade, apc, inHand, subject, accessFaults>>

\* The two commands have nothing in common.
JumphostNext ==
    \/ \E r \in Responder :
        \/ BeginJumphost(r) \/ CreateKeyPair(r) \/ CreateGroup(r) \/ Launch(r) \/ AwaitRunning(r)
        \/ FindHost(r) \/ AwaitTerminated(r) \/ DeleteKeyPair(r) \/ FindGroup(r) \/ DeleteGroup(r)
        \/ AccessFails(r) \/ EndAccess(r)
    \/ HostState

BreakGlassNext ==
    \/ \E r \in Responder :
        \/ BreakGlass(r) \/ CreatePod(r) \/ AwaitPod(r) \/ ListPods(r) \/ DeletePods(r) \/ AwaitNoPods(r)
        \/ AccessFails(r) \/ EndAccess(r)
    \/ PodStarts

AccessSpec == AccessInit /\ [][JumphostNext \/ BreakGlassNext]_accessVars
-----------------------------------------------------------------------------
\* When `jumphost delete` reports success, no instance of a jumphost is left
\* running, although it looks at one instance only and others create jumphosts
\* meanwhile: the security group, which it deletes last, is refused.
DeletedMeansNoHost ==
    [][\A r \in Responder : apc[r] # "deleted" /\ apc'[r] = "deleted" =>
            \A h \in DOMAIN hosts' : hosts'[h] = "terminated"]_accessVars

\* "Access has been dropped": no pod gives access to the cluster, whoever made it,
\* and the pods of other clusters have not been touched.
DroppedMeansNoPod ==
    [][\A r \in Responder :
        /\ apc[r] # "dropped" /\ apc'[r] = "dropped" =>
                \A p \in DOMAIN jumpPods' : jumpPods'[p].cluster # subject[r]
        /\ apc[r] = "deletePods" /\ apc'[r] = "waitPods" =>
                \A p \in DOMAIN jumpPods : jumpPods[p].cluster # subject[r] => p \in DOMAIN jumpPods']_accessVars
=============================================================================
