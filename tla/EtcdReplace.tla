----------------------------- MODULE EtcdReplace -----------------------------
(***************************************************************************)
(* `osdctl cluster etcd-health-check` and `etcd-member-replace`: a member  *)
(* is removed from etcd, the quorum guard is turned off, the secrets of    *)
(* its node are deleted, etcd is redeployed and the guard turned on again. *)
(* SREs may work side by side, and the etcd operator goes on meanwhile.    *)
(***************************************************************************)
EXTENDS Integers, FiniteSets

CONSTANTS
    EtcdSRE,
    EtcdNode,
    MaxMemberId,      \* bound: ids of members, the first ones included
    MaxEtcdFaults     \* bound: failed calls and kills

ASSUME EtcdAssumption == IsFiniteSet(EtcdNode)

EtcdSecret == {"peer", "serving", "metrics"}
NoMember == 0

VARIABLES
    member,       \* id of each node's member, NoMember if it is not one
    crashing,     \* nodes whose etcd container waits after a crash
    available,    \* the member that EtcdMembersAvailable reports, as last written
    etcdSecrets,  \* secrets of each node
    guard,        \* the quorum guard
    lastMember,
    epc, target, memberId,    \* of each SRE's run: step, node, id read
    etcdFaults

etcdVars == <<member, crashing, available, etcdSecrets, guard, lastMember, epc, target, memberId, etcdFaults>>
etcd == <<member, crashing, available, lastMember>>

Numbered == CHOOSE f \in [EtcdNode -> 1..Cardinality(EtcdNode)] : \A m, n \in EtcdNode : m # n => f[m] # f[n]

EtcdInit ==
    /\ member = Numbered /\ lastMember = Cardinality(EtcdNode)
    /\ crashing = {} /\ available = {}
    /\ etcdSecrets = [n \in EtcdNode |-> EtcdSecret] /\ guard = TRUE
    /\ epc = [e \in EtcdSRE |-> "idle"] /\ target = [e \in EtcdSRE |-> {}] /\ memberId = [e \in EtcdSRE |-> NoMember]
    /\ etcdFaults = 0
-----------------------------------------------------------------------------
EtcdGoTo(e, step) == epc' = [epc EXCEPT ![e] = step]
First(nodes) == CHOOSE n \in nodes : \A m \in nodes : Numbered[n] <= Numbered[m]

\* The health check names the first member that the condition calls unhealthy.
HealthCheck(e) ==
    /\ epc[e] = "idle" /\ available # {}
    /\ target' = [target EXCEPT ![e] = available] /\ EtcdGoTo(e, "named")
    /\ UNCHANGED <<etcd, etcdSecrets, guard, memberId, etcdFaults>>

\* The first pod listed that waits after a crash must be the one of --node.
CheckPods(e) ==
    /\ epc[e] = "named"
    /\ EtcdGoTo(e, IF crashing # {} /\ target[e] = {First(crashing)} THEN "read" ELSE "failed")
    /\ UNCHANGED <<etcd, etcdSecrets, guard, target, memberId, etcdFaults>>

NodeOf(e) == CHOOSE n \in EtcdNode : n \in target[e]

\* The id is read from the member list: nothing, if the node is not in it.
ReadMemberId(e) ==
    /\ epc[e] = "read"
    /\ memberId' = [memberId EXCEPT ![e] = member[NodeOf(e)]] /\ EtcdGoTo(e, "remove")
    /\ UNCHANGED <<etcd, etcdSecrets, guard, target, etcdFaults>>

\* Mutant: the output of `member remove` is printed and its error is not looked at.
RemoveUnchecked(e) ==
    /\ epc[e] = "remove" /\ EtcdGoTo(e, "guardOff")
    /\ member' = [n \in EtcdNode |-> IF member[n] = memberId[e] THEN NoMember ELSE member[n]]
    /\ UNCHANGED <<crashing, available, lastMember, etcdSecrets, guard, target, memberId, etcdFaults>>

\* After the prompt; etcdctl fails on an id that is no member's, and on none.
RemoveMember(e) ==
    /\ epc[e] = "remove"
    /\ IF \E n \in EtcdNode : member[n] = memberId[e] /\ memberId[e] # NoMember
       THEN /\ member' = [n \in EtcdNode |-> IF member[n] = memberId[e] THEN NoMember ELSE member[n]]
            /\ EtcdGoTo(e, "guardOff")
       ELSE EtcdGoTo(e, "failed") /\ UNCHANGED member
    /\ UNCHANGED <<crashing, available, lastMember, etcdSecrets, guard, target, memberId, etcdFaults>>

GuardOff(e) ==
    /\ epc[e] = "guardOff" /\ guard' = FALSE /\ EtcdGoTo(e, "secrets")
    /\ UNCHANGED <<etcd, etcdSecrets, target, memberId, etcdFaults>>

\* One after the other, in their order; one that is gone already is an error.
DeleteSecrets(e) ==
    /\ epc[e] \in {"secrets", "serving", "metrics"}
    /\ LET secret == IF epc[e] = "secrets" THEN "peer" ELSE epc[e] IN
        IF secret \in etcdSecrets[NodeOf(e)]
        THEN /\ etcdSecrets' = [etcdSecrets EXCEPT ![NodeOf(e)] = @ \ {secret}]
             /\ EtcdGoTo(e, CASE secret = "peer" -> "serving" [] secret = "serving" -> "metrics" [] OTHER -> "redeploy")
        ELSE EtcdGoTo(e, "failed") /\ UNCHANGED etcdSecrets
    /\ UNCHANGED <<etcd, guard, target, memberId, etcdFaults>>

\* The patch that forces the redeployment, and the one that ends the run.
Redeploy(e) ==
    /\ epc[e] = "redeploy" /\ EtcdGoTo(e, "guardOn")
    /\ UNCHANGED <<etcd, etcdSecrets, guard, target, memberId, etcdFaults>>

GuardOn(e) ==
    /\ epc[e] = "guardOn" /\ guard' = TRUE /\ EtcdGoTo(e, "done")
    /\ UNCHANGED <<etcd, etcdSecrets, target, memberId, etcdFaults>>

\* A call fails, the SRE says no, or a kill.
ReplaceFails(e) ==
    /\ epc[e] \notin {"idle", "done", "failed"} /\ EtcdGoTo(e, "failed")
    /\ etcdFaults < MaxEtcdFaults /\ etcdFaults' = etcdFaults + 1
    /\ UNCHANGED <<etcd, etcdSecrets, guard, target, memberId>>

ReplaceRun(e) ==
    \/ HealthCheck(e) \/ CheckPods(e) \/ ReadMemberId(e) \/ RemoveMember(e) \/ GuardOff(e)
    \/ DeleteSecrets(e) \/ Redeploy(e) \/ GuardOn(e) \/ ReplaceFails(e)
-----------------------------------------------------------------------------
(***************************************************************************)
(* The etcd operator and the pods.                                         *)
(***************************************************************************)
EtcdCrash(n) ==
    /\ n \notin crashing /\ crashing' = crashing \cup {n}
    /\ UNCHANGED <<member, available, lastMember, etcdSecrets, guard, epc, target, memberId, etcdFaults>>

ReportAvailable ==
    /\ available' = IF crashing = {} THEN {} ELSE {First(crashing)}
    /\ available' # available
    /\ UNCHANGED <<member, crashing, lastMember, etcdSecrets, guard, epc, target, memberId, etcdFaults>>

\* The operator makes secrets that are missing, and joins a node that is no member.
MakeSecrets(n) ==
    /\ etcdSecrets[n] # EtcdSecret /\ etcdSecrets' = [etcdSecrets EXCEPT ![n] = EtcdSecret]
    /\ UNCHANGED <<etcd, guard, epc, target, memberId, etcdFaults>>

Rejoin(n) ==
    /\ member[n] = NoMember /\ etcdSecrets[n] = EtcdSecret /\ lastMember < MaxMemberId
    /\ lastMember' = lastMember + 1 /\ member' = [member EXCEPT ![n] = lastMember']
    /\ crashing' = crashing \ {n}
    /\ UNCHANGED <<available, etcdSecrets, guard, epc, target, memberId, etcdFaults>>

EtcdNext ==
    \/ \E e \in EtcdSRE : ReplaceRun(e)
    \/ \E n \in EtcdNode : EtcdCrash(n) \/ MakeSecrets(n) \/ Rejoin(n)
    \/ ReportAvailable

EtcdSpec == EtcdInit /\ [][EtcdNext]_etcdVars
-----------------------------------------------------------------------------
Past(e) == epc[e] \in {"guardOff", "secrets", "serving", "metrics", "redeploy", "guardOn", "done"}

\* A member is replaced by one run: of the SREs who read the same id, one gets
\* beyond the removal, so that a second run never deletes the secrets that the
\* operator has made for the member's successor.
ReplacedByOneRun ==
    \A d, e \in EtcdSRE : d # e /\ Past(d) /\ Past(e) => memberId[d] # memberId[e]
=============================================================================
