-------------------------- MODULE NodeCommandsProofs --------------------------
(***************************************************************************)
(* Proofs that, however many SREs give the commands of NodeCommands, an    *)
(* etcd member is replaced by one of them, Hive's override annotation is   *)
(* taken off again or remembered, and a patch changes what it is about;    *)
(* and that one machine pool dance never takes a node that is needed.      *)
(***************************************************************************)
EXTENDS NodeCommands, FiniteSetTheorems, FunctionTheorems, TLAPS

AnyCommand == Dance \/ Settings \/ Etcd \/ Rest
-----------------------------------------------------------------------------
(***************************************************************************)
(* etcd.  Ids only grow, and what a run has removed no node has any more:  *)
(* a run that gets beyond the removal found the id at some node, so its id *)
(* is none of those removed before it.                                     *)
(***************************************************************************)
EtcdTyped ==
    /\ member \in [EtcdNode -> Nat] /\ lastMember \in Nat
    /\ epc = [e \in EtcdSRE |-> epc[e]]
    /\ memberId = [e \in EtcdSRE |-> memberId[e]]

IdsGiven == \A n \in EtcdNode : member[n] <= lastMember

RemovedIsGone ==
    \A e \in EtcdSRE : Past(e) =>
        /\ memberId[e] \in 1..lastMember
        /\ \A n \in EtcdNode : member[n] # memberId[e]

EtcdInv == EtcdTyped /\ IdsGiven /\ RemovedIsGone /\ ReplacedByOneRun

\* The first members can be numbered, for they are finitely many.
LEMMA NumberedNodes ==
    /\ Cardinality(EtcdNode) \in Nat
    /\ Numbered \in [EtcdNode -> 1..Cardinality(EtcdNode)]
<1> DEFINE k == Cardinality(EtcdNode)
<1>1. k \in Nat /\ ExistsBijection(1..k, EtcdNode)
  BY FS_CardinalityType, EtcdAssumption
<1>2. ExistsBijection(EtcdNode, 1..k)
  BY <1>1, Fun_ExistsBijSymmetric
<1>3. PICK f : f \in Bijection(EtcdNode, 1..k)
  BY <1>2 DEF ExistsBijection
<1>4. f \in [EtcdNode -> 1..k] /\ \A m, n \in EtcdNode : m # n => f[m] # f[n]
  BY <1>3 DEF Bijection, Injection, Surjection, IsInjective
<1> QED
  BY <1>1, <1>4 DEF Numbered

LEMMA EtcdInvInit == EtcdInit => EtcdInv
<1> SUFFICES ASSUME EtcdInit PROVE EtcdInv
  OBVIOUS
<1>1. member \in [EtcdNode -> 1..Cardinality(EtcdNode)] /\ lastMember = Cardinality(EtcdNode)
  BY NumberedNodes DEF EtcdInit
<1>2. IdsGiven /\ member \in [EtcdNode -> Nat] /\ lastMember \in Nat
  BY <1>1, NumberedNodes DEF IdsGiven
<1>3. epc = [e \in EtcdSRE |-> epc[e]] /\ memberId = [e \in EtcdSRE |-> memberId[e]]
  <2>1. epc = [e \in EtcdSRE |-> "idle"] /\ memberId = [e \in EtcdSRE |-> NoMember]
    BY DEF EtcdInit
  <2> QED
    BY <2>1
<1>4. \A e \in EtcdSRE : ~Past(e)
  BY DEF EtcdInit, Past
<1> QED
  BY <1>2, <1>3, <1>4 DEF EtcdInv, EtcdTyped, RemovedIsGone, ReplacedByOneRun

\* A step of a run that neither removes a member nor reads an id, and one of the
\* operator or a pod that makes no member, leaves what the invariant is about.
LEMMA EtcdInvKept ==
    ASSUME EtcdInv,
           member' = member, lastMember' = lastMember, epc' = [d \in EtcdSRE |-> epc'[d]],
           memberId' = [e \in EtcdSRE |-> memberId'[e]],
           \A e \in EtcdSRE : Past(e)' => Past(e) /\ memberId'[e] = memberId[e]
    PROVE  EtcdInv'
BY DEF EtcdInv, EtcdTyped, IdsGiven, RemovedIsGone, ReplacedByOneRun

LEMMA EtcdRunStep ==
    ASSUME EtcdInv, NEW e \in EtcdSRE, ReplaceRun(e)
    PROVE  EtcdInv'
<1> EtcdTyped /\ IdsGiven /\ RemovedIsGone /\ ReplacedByOneRun
  BY DEF EtcdInv
<1>1. CASE HealthCheck(e) \/ CheckPods(e) \/ GuardOff(e) \/ DeleteSecrets(e) \/ Redeploy(e) \/ GuardOn(e) \/ ReplaceFails(e)
  <2>1. member' = member /\ lastMember' = lastMember /\ memberId' = memberId
    BY <1>1 DEF HealthCheck, CheckPods, GuardOff, DeleteSecrets, Redeploy, GuardOn, ReplaceFails, etcd
  <2>2. /\ epc' = [d \in EtcdSRE |-> epc'[d]] /\ \A d \in EtcdSRE : d # e => epc'[d] = epc[d]
        /\ Past(e)' => Past(e)
    <3> USE DEF EtcdTyped, EtcdGoTo, Past
    <3>1. CASE HealthCheck(e)
      BY <3>1 DEF HealthCheck
    <3>2. CASE CheckPods(e)
      BY <3>2 DEF CheckPods
    <3>3. CASE GuardOff(e) \/ Redeploy(e) \/ GuardOn(e)
      BY <3>3 DEF GuardOff, Redeploy, GuardOn
    <3>4. CASE DeleteSecrets(e)
      BY <3>4 DEF DeleteSecrets
    <3>5. CASE ReplaceFails(e)
      BY <3>5 DEF ReplaceFails
    <3> QED
      BY <1>1, <3>1, <3>2, <3>3, <3>4, <3>5
  <2>3. \A d \in EtcdSRE : Past(d)' => Past(d)
    BY <2>2 DEF Past
  <2>4. memberId' = [d \in EtcdSRE |-> memberId'[d]]
    BY <2>1 DEF EtcdTyped
  <2> QED
    BY <2>1, <2>2, <2>3, <2>4, EtcdInvKept
<1>2. CASE ReadMemberId(e)
  <2>1. member' = member /\ lastMember' = lastMember /\ epc[e] = "read" /\ epc' = [epc EXCEPT ![e] = "remove"]
    BY <1>2 DEF ReadMemberId, EtcdGoTo, etcd
  <2>2. memberId' = [d \in EtcdSRE |-> memberId'[d]] /\ \A d \in EtcdSRE : d # e => memberId'[d] = memberId[d]
    BY <1>2 DEF ReadMemberId, EtcdTyped
  <2>3. epc' = [d \in EtcdSRE |-> epc'[d]] /\ \A d \in EtcdSRE : Past(d)' => Past(d) /\ d # e
    BY <2>1 DEF Past, EtcdTyped
  <2> QED
    BY <2>1, <2>2, <2>3, EtcdInvKept
<1>3. CASE RemoveMember(e)
  <2>1. memberId' = memberId /\ lastMember' = lastMember /\ epc[e] = "remove"
    BY <1>3 DEF RemoveMember
  <2>2. CASE \E n \in EtcdNode : member[n] = memberId[e] /\ memberId[e] # NoMember
    <3>1. /\ member' = [n \in EtcdNode |-> IF member[n] = memberId[e] THEN NoMember ELSE member[n]]
          /\ epc' = [epc EXCEPT ![e] = "guardOff"]
      BY <1>3, <2>2 DEF RemoveMember, EtcdGoTo
    <3>2. memberId[e] \in 1..lastMember
      BY <2>2 DEF IdsGiven, NoMember, EtcdTyped
    <3>3. EtcdTyped' /\ IdsGiven'
      <4>1. member' \in [EtcdNode -> Nat] /\ \A n \in EtcdNode : member'[n] <= lastMember
        BY <3>1 DEF EtcdTyped, IdsGiven, NoMember
      <4>2. epc' = [d \in EtcdSRE |-> epc'[d]]
        BY <3>1 DEF EtcdTyped
      <4> QED
        BY <2>1, <4>1, <4>2 DEF EtcdTyped, IdsGiven
    <3>4. \A d \in EtcdSRE : d # e => (Past(d)' <=> Past(d))
      BY <3>1 DEF Past, EtcdTyped
    <3>5. RemovedIsGone'
      <4>1. \A n \in EtcdNode : member'[n] \in {member[n], NoMember} /\ member'[n] # memberId[e]
        BY <3>1, <3>2 DEF NoMember
      <4> QED
        BY <2>1, <3>2, <3>4, <4>1 DEF RemovedIsGone, NoMember, EtcdTyped
    <3>6. \A d \in EtcdSRE : d # e /\ Past(d) => memberId[d] # memberId[e]
      BY <2>2 DEF RemovedIsGone
    <3>7. ReplacedByOneRun'
      BY <2>1, <3>4, <3>6 DEF ReplacedByOneRun
    <3> QED
      BY <3>3, <3>5, <3>7 DEF EtcdInv
  <2>3. CASE ~\E n \in EtcdNode : member[n] = memberId[e] /\ memberId[e] # NoMember
    <3>1. member' = member /\ epc' = [epc EXCEPT ![e] = "failed"]
      BY <1>3, <2>3 DEF RemoveMember, EtcdGoTo
    <3>2. epc' = [d \in EtcdSRE |-> epc'[d]] /\ \A d \in EtcdSRE : Past(d)' => Past(d)
      BY <3>1 DEF Past, EtcdTyped
    <3>3. memberId' = [d \in EtcdSRE |-> memberId'[d]]
      BY <2>1 DEF EtcdTyped
    <3> QED
      BY <2>1, <3>1, <3>2, <3>3, EtcdInvKept
  <2> QED
    BY <2>2, <2>3
<1> QED
  BY <1>1, <1>2, <1>3 DEF ReplaceRun

LEMMA EtcdOperatorStep ==
    ASSUME EtcdInv, ReportAvailable \/ \E n \in EtcdNode : EtcdCrash(n) \/ MakeSecrets(n) \/ Rejoin(n)
    PROVE  EtcdInv'
<1> USE DEF EtcdInv, EtcdTyped
<1>1. epc' = epc /\ memberId' = memberId
  BY DEF ReportAvailable, EtcdCrash, MakeSecrets, Rejoin
<1>2. \A e \in EtcdSRE : Past(e)' <=> Past(e)
  BY <1>1 DEF Past
<1>3. CASE ReportAvailable \/ \E n \in EtcdNode : EtcdCrash(n) \/ MakeSecrets(n)
  <2>1. member' = member /\ lastMember' = lastMember
    BY <1>3 DEF ReportAvailable, EtcdCrash, MakeSecrets, etcd
  <2> QED
    BY <1>1, <1>2, <2>1, EtcdInvKept
<1>4. ASSUME NEW n \in EtcdNode, Rejoin(n) PROVE EtcdInv'
  <2>1. lastMember' = lastMember + 1 /\ member' = [member EXCEPT ![n] = lastMember + 1]
    BY <1>4 DEF Rejoin
  <2>2. EtcdTyped' /\ IdsGiven'
    BY <1>1, <2>1 DEF IdsGiven
  <2>3. RemovedIsGone'
    BY <1>1, <1>2, <2>1 DEF RemovedIsGone
  <2>4. ReplacedByOneRun'
    BY <1>1, <1>2 DEF ReplacedByOneRun
  <2> QED
    BY <2>2, <2>3, <2>4
<1> QED
  BY <1>3, <1>4

\* A member is replaced by one run, for any number of SREs and masters, whichever
\* calls fail: of those who read the same id one gets beyond `member remove`.
THEOREM OneRunPerMember == NodeCommandsSpec => []ReplacedByOneRun
<1>1. NodeCommandsInit => EtcdInv
  BY EtcdInvInit DEF NodeCommandsInit
<1>2. EtcdInv /\ [AnyCommand]_nodeCommandVars => EtcdInv'
  <2> SUFFICES ASSUME EtcdInv, [AnyCommand]_nodeCommandVars PROVE EtcdInv'
    OBVIOUS
  <2>1. CASE Etcd
    BY <2>1, EtcdRunStep, EtcdOperatorStep DEF Etcd, EtcdNext
  <2>2. CASE UNCHANGED etcdVars
    BY <2>2 DEF etcdVars, EtcdInv, EtcdTyped, IdsGiven, RemovedIsGone, ReplacedByOneRun, Past
  <2> QED
    BY <2>1, <2>2 DEF AnyCommand, Dance, Settings, Rest, nodeCommandVars
<1>3. EtcdInv => ReplacedByOneRun
  BY DEF EtcdInv
<1> QED
  BY <1>1, <1>2, <1>3, PTL DEF NodeCommandsSpec, AnyCommand
-----------------------------------------------------------------------------
(***************************************************************************)
(* The override.  A run at its second patch takes the annotation off only  *)
(* if its second copy has it; a copy without it shows that some run was    *)
(* faster, and then the annotation is another run's, if it is there.       *)
(***************************************************************************)
MachinePool == [imds : {"Optional", "Required"}, override : BOOLEAN]

PoolsTyped ==
    /\ workers \in [WorkerPool -> MachinePool]
    /\ poolsLeft \in [Engineer -> SUBSET WorkerPool]
    /\ npc = [e \in Engineer |-> npc[e]] /\ poolAtHand = [e \in Engineer |-> poolAtHand[e]]
    /\ copy = [e \in Engineer |-> copy[e]] /\ want = [e \in Engineer |-> want[e]]

AtPool(e) ==
    /\ npc[e] \in {"patchPool", "readAgain", "dropOverride"} => poolAtHand[e] \in WorkerPool
    /\ npc[e] \in {"patchPool", "dropOverride"} => copy[e] \in MachinePool /\ want[e] \in MachinePool
    /\ npc[e] = "patchPool" => want[e].override
    /\ npc[e] = "dropOverride" => ~want[e].override

Removes(e, p) == poolAtHand[e] = p /\ (npc[e] = "readAgain" \/ (npc[e] = "dropOverride" /\ copy[e].override))

OverrideHasRemover ==
    \A p \in WorkerPool : workers[p].override => p \in stuck \/ \E e \in Engineer : Removes(e, p)

OverrideInv == PoolsTyped /\ (\A e \in Engineer : AtPool(e)) /\ OverrideHasRemover

LEMMA OverrideInvInit == NodeInit => OverrideInv
<1> SUFFICES ASSUME NodeInit PROVE OverrideInv
  OBVIOUS
<1>1. PoolsTyped
  BY DEF NodeInit, PoolsTyped, MachinePool
<1>2. \A e \in Engineer : AtPool(e)
  BY DEF NodeInit, AtPool
<1>3. \A p \in WorkerPool : ~workers[p].override
  BY DEF NodeInit
<1> QED
  BY <1>1, <1>2, <1>3 DEF OverrideInv, OverrideHasRemover

\* What a merge patch makes of a pool.
LEMMA PatchedPool ==
    ASSUME NEW object \in MachinePool, NEW e \in Engineer, copy[e] \in MachinePool, want[e] \in MachinePool
    PROVE  /\ Patched(object, e) \in MachinePool
           /\ Patched(object, e).override =
                IF copy[e].override # want[e].override THEN want[e].override ELSE object.override
BY DEF Patched, MachinePool

\* A step of a run that patches no pool keeps the invariant if it leaves the pools
\* alone and what the run itself is at fits its step.
LEMMA RunElsewhere ==
    ASSUME OverrideInv, NEW e \in Engineer, PoolsTyped', AtPool(e)', workers' = workers,
           \A d \in Engineer : d # e =>
               npc'[d] = npc[d] /\ poolAtHand'[d] = poolAtHand[d] /\ copy'[d] = copy[d] /\ want'[d] = want[d],
           stuck \subseteq stuck',
           \A p \in WorkerPool : workers[p].override /\ Removes(e, p) => Removes(e, p)' \/ p \in stuck'
    PROVE  OverrideInv'
<1>1. \A d \in Engineer : AtPool(d)'
  BY DEF OverrideInv, AtPool
<1>2. \A d \in Engineer, p \in WorkerPool : workers[p].override /\ Removes(d, p) => Removes(d, p)' \/ p \in stuck'
  BY DEF Removes
<1>3. OverrideHasRemover'
  BY <1>2 DEF OverrideInv, OverrideHasRemover
<1> QED
  BY <1>1, <1>3 DEF OverrideInv

\* The steps that are about no worker pool.
OffPools(e) ==
    \/ PreFlight(e) \/ ReadMasters(e) \/ PatchMasters(e) \/ MonitorRollout(e) \/ ListWorkers(e)
    \/ WorkersPatched(e) \/ ValidateNodes(e) \/ ReadHosted(e) \/ PatchHosted(e)

LEMMA OffPoolsStep ==
    ASSUME OverrideInv, NEW e \in Engineer, OffPools(e)
    PROVE  OverrideInv'
<1> PoolsTyped /\ AtPool(e)
  BY DEF OverrideInv
<1>1. workers' = workers /\ stuck' = stuck /\ poolAtHand' = poolAtHand
  BY DEF OffPools, PreFlight, ReadMasters, PatchMasters, MonitorRollout, ListWorkers, WorkersPatched,
         ValidateNodes, ReadHosted, PatchHosted, objects
<1>2. poolsLeft' \in [Engineer -> SUBSET WorkerPool]
  BY DEF OffPools, PreFlight, ReadMasters, PatchMasters, MonitorRollout, ListWorkers, WorkersPatched,
         ValidateNodes, ReadHosted, PatchHosted, PoolsTyped
<1>3. /\ npc[e] \notin {"patchPool", "readAgain", "dropOverride"}
      /\ npc'[e] \notin {"patchPool", "readAgain", "dropOverride"}
      /\ npc' = [d \in Engineer |-> npc'[d]] /\ \A d \in Engineer : d # e => npc'[d] = npc[d]
  <2> USE DEF PoolsTyped, NodeGoTo, AfterMasters
  <2>1. CASE PreFlight(e)
    BY <2>1 DEF PreFlight
  <2>2. CASE ReadMasters(e)
    BY <2>2 DEF ReadMasters
  <2>3. CASE PatchMasters(e) \/ MonitorRollout(e)
    BY <2>3 DEF PatchMasters, MonitorRollout
  <2>4. CASE ListWorkers(e) \/ WorkersPatched(e) \/ ValidateNodes(e)
    BY <2>4 DEF ListWorkers, WorkersPatched, ValidateNodes
  <2>5. CASE ReadHosted(e) \/ PatchHosted(e)
    BY <2>5 DEF ReadHosted, PatchHosted
  <2> QED
    BY <2>1, <2>2, <2>3, <2>4, <2>5 DEF OffPools
<1>4. /\ copy' = [d \in Engineer |-> copy'[d]] /\ want' = [d \in Engineer |-> want'[d]]
      /\ \A d \in Engineer : d # e => copy'[d] = copy[d] /\ want'[d] = want[d]
  <2>1. CASE UNCHANGED <<copy, want>>
    BY <2>1 DEF PoolsTyped
  <2>2. CASE \E object, wanted : Reads(e, object, wanted)
    BY <2>2 DEF PoolsTyped, Reads
  <2> QED
    BY <2>1, <2>2 DEF OffPools, PreFlight, ReadMasters, PatchMasters, MonitorRollout, ListWorkers, WorkersPatched,
         ValidateNodes, ReadHosted, PatchHosted
<1>5. PoolsTyped'
  BY <1>1, <1>2, <1>3, <1>4 DEF PoolsTyped
<1>6. AtPool(e)'
  BY <1>3 DEF AtPool
<1>7. \A p : ~Removes(e, p)
  BY <1>3 DEF Removes
<1> QED
  BY <1>1, <1>3, <1>4, <1>5, <1>6, <1>7, RunElsewhere

LEMMA PoolStep ==
    ASSUME OverrideInv, NEW e \in Engineer,
           ReadPool(e) \/ PatchPool(e) \/ ReadAgain(e) \/ DropOverride(e) \/ NodeRunFails(e)
    PROVE  OverrideInv'
<1> PoolsTyped /\ (\A d \in Engineer : AtPool(d)) /\ OverrideHasRemover
  BY DEF OverrideInv
<1>1. CASE ReadPool(e)
  <2>1. PICK p \in poolsLeft[e] :
            /\ poolAtHand' = [poolAtHand EXCEPT ![e] = p]
            /\ poolsLeft' = [poolsLeft EXCEPT ![e] = @ \ {p}]
            /\ copy' = [copy EXCEPT ![e] = workers[p]]
            /\ want' = [want EXCEPT ![e] = [imds |-> "Required", override |-> TRUE]]
    BY <1>1 DEF ReadPool, Reads
  <2>2. npc[e] = "pool" /\ npc' = [npc EXCEPT ![e] = "patchPool"] /\ workers' = workers /\ stuck' = stuck
    BY <1>1 DEF ReadPool, NodeGoTo, objects
  <2>3. p \in WorkerPool /\ workers[p] \in MachinePool
    BY <2>1 DEF PoolsTyped
  <2>4. PoolsTyped'
    BY <2>1, <2>2, <2>3 DEF PoolsTyped
  <2>5. AtPool(e)'
    BY <2>1, <2>2, <2>3 DEF AtPool, PoolsTyped, MachinePool
  <2>6. \A q : ~Removes(e, q)
    BY <2>2 DEF Removes
  <2>7. \A d \in Engineer : d # e =>
            npc'[d] = npc[d] /\ poolAtHand'[d] = poolAtHand[d] /\ copy'[d] = copy[d] /\ want'[d] = want[d]
    BY <2>1, <2>2 DEF PoolsTyped
  <2> QED
    BY <2>2, <2>4, <2>5, <2>6, <2>7, RunElsewhere
<1>2. CASE PatchPool(e)
  <2> DEFINE p == poolAtHand[e]
  <2>1. /\ npc[e] = "patchPool" /\ npc' = [npc EXCEPT ![e] = "readAgain"]
        /\ workers' = [workers EXCEPT ![p] = Patched(workers[p], e)]
        /\ UNCHANGED <<copy, want, poolAtHand, poolsLeft, stuck>>
    BY <1>2 DEF PatchPool, NodeGoTo
  <2>2. p \in WorkerPool /\ workers[p] \in MachinePool /\ copy[e] \in MachinePool /\ want[e] \in MachinePool
    BY <2>1 DEF AtPool, PoolsTyped
  <2>3. PoolsTyped'
    BY <2>1, <2>2, PatchedPool DEF PoolsTyped
  <2>4. \A d \in Engineer : AtPool(d)'
    BY <2>1, <2>2 DEF AtPool, PoolsTyped
  <2>5. Removes(e, p)'
    BY <2>1 DEF Removes, PoolsTyped
  <2>6. \A d \in Engineer, q \in WorkerPool : Removes(d, q) => Removes(d, q)'
    BY <2>1 DEF Removes, PoolsTyped
  <2>7. \A q \in WorkerPool : q # p => workers'[q] = workers[q]
    BY <2>1 DEF PoolsTyped
  <2>8. OverrideHasRemover'
    BY <2>1, <2>5, <2>6, <2>7 DEF OverrideHasRemover
  <2> QED
    BY <2>3, <2>4, <2>8 DEF OverrideInv
<1>3. CASE ReadAgain(e)
  <2> DEFINE p == poolAtHand[e]
  <2>1. /\ npc[e] = "readAgain" /\ npc' = [npc EXCEPT ![e] = "dropOverride"]
        /\ copy' = [copy EXCEPT ![e] = workers[p]]
        /\ want' = [want EXCEPT ![e] = [workers[p] EXCEPT !.override = FALSE]]
        /\ UNCHANGED <<workers, poolAtHand, poolsLeft, stuck>>
    BY <1>3 DEF ReadAgain, NodeGoTo, Reads, objects
  <2>2. p \in WorkerPool /\ workers[p] \in MachinePool
    BY <2>1 DEF AtPool, PoolsTyped
  <2>3. PoolsTyped'
    BY <2>1 DEF PoolsTyped
  <2>4. AtPool(e)'
    BY <2>1, <2>2 DEF AtPool, PoolsTyped, MachinePool
  <2>5. \A q \in WorkerPool : workers[q].override /\ Removes(e, q) => Removes(e, q)'
    BY <2>1 DEF Removes, PoolsTyped
  <2>6. \A d \in Engineer : d # e =>
            npc'[d] = npc[d] /\ poolAtHand'[d] = poolAtHand[d] /\ copy'[d] = copy[d] /\ want'[d] = want[d]
    BY <2>1 DEF PoolsTyped
  <2> QED
    BY <2>1, <2>3, <2>4, <2>5, <2>6, RunElsewhere
<1>4. CASE DropOverride(e)
  <2> DEFINE p == poolAtHand[e]
  <2>1. /\ npc[e] = "dropOverride" /\ npc' = [npc EXCEPT ![e] = "pool"]
        /\ workers' = [workers EXCEPT ![p] = Patched(workers[p], e)]
        /\ UNCHANGED <<copy, want, poolAtHand, poolsLeft, stuck>>
    BY <1>4 DEF DropOverride, NodeGoTo
  <2>2. /\ p \in WorkerPool /\ workers[p] \in MachinePool
        /\ copy[e] \in MachinePool /\ want[e] \in MachinePool /\ ~want[e].override
    BY <2>1 DEF AtPool, PoolsTyped
  <2>3. PoolsTyped'
    BY <2>1, <2>2, PatchedPool DEF PoolsTyped
  <2>4. \A d \in Engineer : AtPool(d)'
    BY <2>1 DEF AtPool, PoolsTyped
  <2>5. workers'[p].override => workers[p].override /\ ~copy[e].override
    BY <2>1, <2>2, PatchedPool DEF PoolsTyped, MachinePool
  <2>6. \A q \in WorkerPool : q # p => workers'[q] = workers[q]
    BY <2>1 DEF PoolsTyped
  <2>7. \A q \in WorkerPool : workers'[q].override => workers[q].override /\ ~Removes(e, q)
    BY <2>1, <2>5, <2>6 DEF Removes
  <2>8. \A d \in Engineer, q \in WorkerPool : d # e /\ Removes(d, q) => Removes(d, q)'
    BY <2>1 DEF Removes, PoolsTyped
  <2>9. OverrideHasRemover'
    BY <2>1, <2>7, <2>8 DEF OverrideHasRemover
  <2> QED
    BY <2>3, <2>4, <2>9 DEF OverrideInv
<1>5. CASE NodeRunFails(e)
  <2>1. /\ npc' = [npc EXCEPT ![e] = "failed"] /\ UNCHANGED <<workers, copy, want, poolAtHand, poolsLeft>>
        /\ stuck' = IF npc[e] \in {"readAgain", "dropOverride"} THEN stuck \cup {poolAtHand[e]} ELSE stuck
    BY <1>5 DEF NodeRunFails, NodeGoTo, objects
  <2>2. PoolsTyped' /\ AtPool(e)'
    BY <2>1 DEF PoolsTyped, AtPool
  <2>3. stuck \subseteq stuck' /\ \A p : Removes(e, p) => p \in stuck'
    BY <2>1 DEF Removes
  <2>4. \A d \in Engineer : d # e =>
            npc'[d] = npc[d] /\ poolAtHand'[d] = poolAtHand[d] /\ copy'[d] = copy[d] /\ want'[d] = want[d]
    BY <2>1 DEF PoolsTyped
  <2> QED
    BY <2>1, <2>2, <2>3, <2>4, RunElsewhere
<1> QED
  BY <1>1, <1>2, <1>3, <1>4, <1>5

\* The operators change neither a MachinePool nor anything of a run.
LEMMA OverrideInvKept ==
    ASSUME OverrideInv, UNCHANGED <<workers, npc, copy, want, poolAtHand, poolsLeft, stuck>>
    PROVE  OverrideInv'
BY DEF OverrideInv, PoolsTyped, AtPool, OverrideHasRemover, Removes

LEMMA NodeStep ==
    ASSUME OverrideInv, NodeNext
    PROVE  OverrideInv'
<1>1. CASE \E e \in Engineer : NodeRun(e)
  BY <1>1, OffPoolsStep, PoolStep DEF NodeRun, OffPools
<1>2. CASE ReplaceMaster \/ MasterReady \/ ReportStatus \/ Deactivate \/ Resize \/ Annotate
  <2>1. UNCHANGED <<workers, npc, copy, want, poolAtHand, poolsLeft, stuck>>
    BY <1>2 DEF ReplaceMaster, MasterReady, ReportStatus, Deactivate, Resize, Annotate, runs
  <2> QED
    BY <2>1, OverrideInvKept
<1> QED
  BY <1>1, <1>2 DEF NodeNext

\* A MachinePool keeps the annotation that lifts Hive's protection only while a run
\* is between its two patches, or because one ended there: for any number of SREs
\* that migrate the same pools, in whatever order their reads and patches fall.
THEOREM OverrideGoes == NodeCommandsSpec => []OverrideIsTemporary
<1>1. NodeCommandsInit => OverrideInv
  BY OverrideInvInit DEF NodeCommandsInit
<1>2. OverrideInv /\ [AnyCommand]_nodeCommandVars => OverrideInv'
  <2> SUFFICES ASSUME OverrideInv, [AnyCommand]_nodeCommandVars PROVE OverrideInv'
    OBVIOUS
  <2>1. CASE Settings
    BY <2>1, NodeStep DEF Settings
  <2>2. CASE UNCHANGED nodeVars
    BY <2>2, OverrideInvKept DEF nodeVars
  <2> QED
    BY <2>1, <2>2 DEF AnyCommand, Dance, Etcd, Rest, nodeCommandVars
<1>3. OverrideInv => OverrideIsTemporary
  BY DEF OverrideInv, OverrideHasRemover, Removes, OverrideIsTemporary
<1> QED
  BY <1>1, <1>2, <1>3, PTL DEF NodeCommandsSpec, AnyCommand
-----------------------------------------------------------------------------
(***************************************************************************)
(* Merge patches.  A run's copy and what it wants differ in nothing but    *)
(* what its command is about, from the read to the patch, so the patch     *)
(* writes nothing else, whatever the object has become meanwhile.          *)
(***************************************************************************)
CpmsField == {"type", "disk", "imds"}
HostedField == {"override", "other"}

ObjectsShaped ==
    /\ cpms = [f \in CpmsField |-> cpms[f]]
    /\ hosted = [f \in HostedField |-> hosted[f]]

RunsShaped ==
    /\ npc = [e \in Engineer |-> npc[e]] /\ job = [e \in Engineer |-> job[e]]
    /\ copy = [e \in Engineer |-> copy[e]] /\ want = [e \in Engineer |-> want[e]]

EditsOnlyItsOwn(e) ==
    /\ npc[e] = "masters" => job[e] \in OnMasters
    /\ npc[e] = "patchMasters" =>
        job[e] \in OnMasters /\ \A f \in CpmsField : copy[e][f] # want[e][f] => About(e, f)
    /\ npc[e] = "patchHosted" =>
        job[e] \in OnHosted /\ \A f \in HostedField : copy[e][f] # want[e][f] => About(e, f)

EditInv == ObjectsShaped /\ RunsShaped /\ \A e \in Engineer : EditsOnlyItsOwn(e)

LEMMA EditInvInit == NodeInit => EditInv
<1> SUFFICES ASSUME NodeInit PROVE EditInv
  OBVIOUS
<1>1. ObjectsShaped
  BY DEF NodeInit, Old, ObjectsShaped, CpmsField, HostedField
<1>2. RunsShaped /\ \A e \in Engineer : npc[e] = "idle"
  BY DEF NodeInit, RunsShaped
<1> QED
  BY <1>1, <1>2 DEF EditInv, EditsOnlyItsOwn

\* What a command wants of a ControlPlaneMachineSet differs in what it is about.
LEMMA TargetIsOwn ==
    ASSUME NEW e \in Engineer, job[e] \in OnMasters, cpms = [f \in CpmsField |-> cpms[f]],
           NEW wanted \in Target(job[e], cpms), NEW f \in CpmsField, wanted[f] # cpms[f]
    PROVE  About(e, f)
<1>1. CASE job[e] = "resize"
  BY <1>1 DEF Target, About, CpmsField
<1>2. CASE job[e] = "volume"
  BY <1>2 DEF Target, About, CpmsField
<1>3. CASE job[e] = "imdsv2"
  BY <1>3 DEF Target, About, CpmsField
<1> QED
  BY <1>1, <1>2, <1>3 DEF OnMasters

\* A step of one run keeps the invariant if what that run is at fits its step.
LEMMA EditsOfOthers ==
    ASSUME EditInv, NEW e \in Engineer, ObjectsShaped', RunsShaped', EditsOnlyItsOwn(e)',
           \A d \in Engineer : d # e =>
               npc'[d] = npc[d] /\ job'[d] = job[d] /\ copy'[d] = copy[d] /\ want'[d] = want[d]
    PROVE  EditInv'
<1>1. \A d \in Engineer : EditsOnlyItsOwn(d)'
  BY DEF EditInv, EditsOnlyItsOwn, About
<1> QED
  BY <1>1 DEF EditInv

\* The steps between a read and a patch of the ControlPlaneMachineSet or the HostedCluster.
LEMMA EditStep ==
    ASSUME EditInv, NEW e \in Engineer,
           PreFlight(e) \/ ReadMasters(e) \/ PatchMasters(e) \/ ReadHosted(e) \/ PatchHosted(e)
    PROVE  EditInv'
<1> ObjectsShaped /\ RunsShaped /\ EditsOnlyItsOwn(e)
  BY DEF EditInv
<1>1. CASE PreFlight(e)
  <2>1. PICK j \in OnMasters, first \in {"masters", "workers"} :
            job' = [job EXCEPT ![e] = j] /\ npc' = [npc EXCEPT ![e] = first]
    BY <1>1 DEF PreFlight, NodeGoTo
  <2>2. UNCHANGED <<cpms, hosted, copy, want>>
    BY <1>1 DEF PreFlight, objects
  <2>3. ObjectsShaped' /\ RunsShaped' /\ EditsOnlyItsOwn(e)'
    BY <2>1, <2>2 DEF ObjectsShaped, RunsShaped, EditsOnlyItsOwn
  <2>4. \A d \in Engineer : d # e =>
            npc'[d] = npc[d] /\ job'[d] = job[d] /\ copy'[d] = copy[d] /\ want'[d] = want[d]
    BY <2>1, <2>2 DEF RunsShaped
  <2> QED
    BY <2>3, <2>4, EditsOfOthers
<1>2. CASE ReadMasters(e)
  <2>1. job[e] \in OnMasters /\ UNCHANGED <<cpms, hosted, job>>
    BY <1>2 DEF ReadMasters, objects, EditsOnlyItsOwn
  <2>2. CASE \E step \in {"failed", "workers", "validate", "done"} :
                npc' = [npc EXCEPT ![e] = step] /\ UNCHANGED <<copy, want>>
    <3>1. ObjectsShaped' /\ RunsShaped' /\ EditsOnlyItsOwn(e)'
      BY <2>1, <2>2 DEF ObjectsShaped, RunsShaped, EditsOnlyItsOwn
    <3>2. \A d \in Engineer : d # e =>
              npc'[d] = npc[d] /\ job'[d] = job[d] /\ copy'[d] = copy[d] /\ want'[d] = want[d]
      BY <2>1, <2>2 DEF RunsShaped
    <3> QED
      BY <3>1, <3>2, EditsOfOthers
  <2>3. CASE \E wanted \in Target(job[e], cpms) :
                Reads(e, cpms, wanted) /\ npc' = [npc EXCEPT ![e] = "patchMasters"]
    <3>1. PICK wanted \in Target(job[e], cpms) :
              copy' = [copy EXCEPT ![e] = cpms] /\ want' = [want EXCEPT ![e] = wanted]
      BY <2>3 DEF Reads
    <3>2. \A f \in CpmsField : wanted[f] # cpms[f] => About(e, f)
      BY <2>1, TargetIsOwn DEF ObjectsShaped
    <3>3. npc' = [npc EXCEPT ![e] = "patchMasters"]
      BY <2>3
    <3>4. ObjectsShaped' /\ RunsShaped'
      BY <2>1, <3>1, <3>3 DEF ObjectsShaped, RunsShaped
    <3>5. EditsOnlyItsOwn(e)'
      BY <2>1, <3>1, <3>2, <3>3 DEF EditsOnlyItsOwn, RunsShaped, About
    <3>6. \A d \in Engineer : d # e =>
              npc'[d] = npc[d] /\ job'[d] = job[d] /\ copy'[d] = copy[d] /\ want'[d] = want[d]
      BY <2>1, <3>1, <3>3 DEF RunsShaped
    <3> QED
      BY <3>4, <3>5, <3>6, EditsOfOthers
  <2> QED
    BY <1>2, <2>2, <2>3 DEF ReadMasters, AfterMasters, NodeGoTo
<1>3. CASE PatchMasters(e)
  <2>1. /\ cpms' = Patched(cpms, e) /\ UNCHANGED <<hosted, job, copy, want>>
        /\ \E step \in {"roll", "done"} : npc' = [npc EXCEPT ![e] = step]
    BY <1>3 DEF PatchMasters, NodeGoTo
  <2>2. ObjectsShaped' /\ RunsShaped' /\ EditsOnlyItsOwn(e)'
    BY <2>1 DEF ObjectsShaped, RunsShaped, EditsOnlyItsOwn, Patched
  <2>3. \A d \in Engineer : d # e =>
            npc'[d] = npc[d] /\ job'[d] = job[d] /\ copy'[d] = copy[d] /\ want'[d] = want[d]
    BY <2>1 DEF RunsShaped
  <2> QED
    BY <2>2, <2>3, EditsOfOthers
<1>4. CASE ReadHosted(e)
  <2>1. PICK j \in OnHosted, v \in Size \cup {0} :
            /\ job' = [job EXCEPT ![e] = j]
            /\ copy' = [copy EXCEPT ![e] = hosted] /\ want' = [want EXCEPT ![e] = [hosted EXCEPT !.override = v]]
    <3>1. CASE \E size \in Size \ {hostedSize} : Reads(e, hosted, [hosted EXCEPT !.override = size])
      BY <1>4, <3>1 DEF ReadHosted, Reads, OnHosted
    <3>2. CASE Reads(e, hosted, [hosted EXCEPT !.override = 0])
      BY <1>4, <3>2 DEF ReadHosted, Reads, OnHosted
    <3> QED
      BY <1>4, <3>1, <3>2 DEF ReadHosted
  <2>2. npc' = [npc EXCEPT ![e] = "patchHosted"] /\ UNCHANGED <<cpms, hosted>>
    BY <1>4 DEF ReadHosted, NodeGoTo, objects
  <2>3. ObjectsShaped' /\ RunsShaped'
    BY <2>1, <2>2 DEF ObjectsShaped, RunsShaped
  <2>4. EditsOnlyItsOwn(e)'
    BY <2>1, <2>2 DEF EditsOnlyItsOwn, ObjectsShaped, RunsShaped, About, OnHosted, HostedField
  <2>5. \A d \in Engineer : d # e =>
            npc'[d] = npc[d] /\ job'[d] = job[d] /\ copy'[d] = copy[d] /\ want'[d] = want[d]
    BY <2>1, <2>2 DEF RunsShaped
  <2> QED
    BY <2>3, <2>4, <2>5, EditsOfOthers
<1>5. CASE PatchHosted(e)
  <2>1. hosted' = Patched(hosted, e) /\ UNCHANGED <<cpms, job, copy, want>> /\ npc' = [npc EXCEPT ![e] = "done"]
    BY <1>5 DEF PatchHosted, NodeGoTo
  <2>2. ObjectsShaped' /\ RunsShaped' /\ EditsOnlyItsOwn(e)'
    BY <2>1 DEF ObjectsShaped, RunsShaped, EditsOnlyItsOwn, Patched
  <2>3. \A d \in Engineer : d # e =>
            npc'[d] = npc[d] /\ job'[d] = job[d] /\ copy'[d] = copy[d] /\ want'[d] = want[d]
    BY <2>1 DEF RunsShaped
  <2> QED
    BY <2>2, <2>3, EditsOfOthers
<1> QED
  BY <1>1, <1>2, <1>3, <1>4, <1>5

\* The steps that are about neither object, of workers, of the rollout and of failures.
OffObjects(e) ==
    \/ MonitorRollout(e) \/ ListWorkers(e) \/ WorkersPatched(e) \/ ReadPool(e) \/ PatchPool(e) \/ ReadAgain(e)
    \/ DropOverride(e) \/ ValidateNodes(e) \/ NodeRunFails(e)

LEMMA OffObjectsStep ==
    ASSUME EditInv, NEW e \in Engineer, OffObjects(e)
    PROVE  EditInv' /\ UNCHANGED <<cpms, hosted>>
<1> ObjectsShaped /\ RunsShaped
  BY DEF EditInv
<1>1. UNCHANGED <<cpms, hosted, job>>
  BY DEF OffObjects, MonitorRollout, ListWorkers, WorkersPatched, ReadPool, PatchPool, ReadAgain, DropOverride,
         ValidateNodes, NodeRunFails, objects
<1>2. \E step : npc' = [npc EXCEPT ![e] = step] /\ step \notin {"masters", "patchMasters", "patchHosted"}
  <2>1. CASE MonitorRollout(e)
    BY <2>1 DEF MonitorRollout, AfterMasters, NodeGoTo
  <2>2. CASE ListWorkers(e) \/ WorkersPatched(e) \/ ReadPool(e) \/ PatchPool(e)
    BY <2>2 DEF ListWorkers, WorkersPatched, ReadPool, PatchPool, NodeGoTo
  <2>3. CASE ReadAgain(e) \/ DropOverride(e)
    BY <2>3 DEF ReadAgain, DropOverride, NodeGoTo
  <2>4. CASE ValidateNodes(e) \/ NodeRunFails(e)
    BY <2>4 DEF ValidateNodes, NodeRunFails, NodeGoTo
  <2> QED
    BY <2>1, <2>2, <2>3, <2>4 DEF OffObjects
<1>3. UNCHANGED <<copy, want>> \/ \E object, wanted : Reads(e, object, wanted)
  BY DEF OffObjects, MonitorRollout, ListWorkers, WorkersPatched, ReadPool, PatchPool, ReadAgain, DropOverride,
         ValidateNodes, NodeRunFails
<1>4. copy' = [d \in Engineer |-> copy'[d]] /\ want' = [d \in Engineer |-> want'[d]]
  BY <1>3 DEF Reads, RunsShaped
<1>5. ObjectsShaped' /\ RunsShaped' /\ EditsOnlyItsOwn(e)'
  BY <1>1, <1>2, <1>4 DEF ObjectsShaped, RunsShaped, EditsOnlyItsOwn
<1>6. \A d \in Engineer : d # e => copy'[d] = copy[d] /\ want'[d] = want[d]
  BY <1>3 DEF Reads, RunsShaped
<1>7. \A d \in Engineer : d # e => npc'[d] = npc[d] /\ job'[d] = job[d]
  BY <1>1, <1>2 DEF RunsShaped
<1> QED
  BY <1>1, <1>5, <1>6, <1>7, EditsOfOthers

LEMMA EditInvKept ==
    ASSUME EditInv, UNCHANGED <<cpms, npc, job, copy, want>>, ObjectsShaped'
    PROVE  EditInv'
BY DEF EditInv, RunsShaped, EditsOnlyItsOwn, About

LEMMA EditNodeStep ==
    ASSUME EditInv, NodeNext
    PROVE  EditInv'
<1>1. CASE \E e \in Engineer : NodeRun(e)
  BY <1>1, EditStep, OffObjectsStep DEF NodeRun, OffObjects
<1>2. CASE ReplaceMaster \/ MasterReady \/ ReportStatus \/ Deactivate \/ Resize \/ Annotate
  <2>1. UNCHANGED <<cpms, npc, job, copy, want>>
    BY <1>2 DEF ReplaceMaster, MasterReady, ReportStatus, Deactivate, Resize, Annotate, runs
  <2>2. hosted' = hosted \/ hosted' = [hosted EXCEPT !.other = TRUE]
    BY <1>2 DEF ReplaceMaster, MasterReady, ReportStatus, Deactivate, Resize, Annotate
  <2>3. ObjectsShaped'
    BY <2>1, <2>2 DEF EditInv, ObjectsShaped
  <2> QED
    BY <2>1, <2>3, EditInvKept
<1> QED
  BY <1>1, <1>2 DEF NodeNext

\* What a step may change of the two objects.
OwnEdits ==
    \A f \in Changes(cpms) \cup (Changes(hosted) \ {"other"}) :
        \E e \in Engineer : npc[e] \in {"patchMasters", "patchHosted"} /\ About(e, f)

LEMMA StepEdits ==
    ASSUME EditInv, NodeNext
    PROVE  OwnEdits
<1> SUFFICES ASSUME NEW f \in Changes(cpms) \cup (Changes(hosted) \ {"other"})
             PROVE  \E e \in Engineer : npc[e] \in {"patchMasters", "patchHosted"} /\ About(e, f)
  BY DEF OwnEdits
<1>1. ASSUME NEW e \in Engineer, NodeRun(e)
      PROVE  npc[e] \in {"patchMasters", "patchHosted"} /\ About(e, f)
  <2>1. CASE PatchMasters(e)
    <3>1. npc[e] = "patchMasters" /\ cpms' = Patched(cpms, e) /\ hosted' = hosted
      BY <2>1 DEF PatchMasters
    <3>2. f \in CpmsField /\ cpms'[f] # cpms[f]
      BY <3>1 DEF Changes, EditInv, ObjectsShaped
    <3>3. copy[e][f] # want[e][f]
      BY <3>1, <3>2 DEF Patched, EditInv, ObjectsShaped
    <3> QED
      BY <3>1, <3>2, <3>3 DEF EditInv, EditsOnlyItsOwn
  <2>2. CASE PatchHosted(e)
    <3>1. npc[e] = "patchHosted" /\ hosted' = Patched(hosted, e) /\ cpms' = cpms
      BY <2>2 DEF PatchHosted
    <3>2. f \in HostedField /\ hosted'[f] # hosted[f]
      BY <3>1 DEF Changes, EditInv, ObjectsShaped
    <3>3. copy[e][f] # want[e][f]
      BY <3>1, <3>2 DEF Patched, EditInv, ObjectsShaped
    <3> QED
      BY <3>1, <3>2, <3>3 DEF EditInv, EditsOnlyItsOwn
  <2>3. CASE PreFlight(e) \/ ReadMasters(e) \/ ReadHosted(e)
    BY <2>3 DEF PreFlight, ReadMasters, ReadHosted, objects, Changes
  <2>4. CASE OffObjects(e)
    BY <2>4, OffObjectsStep DEF Changes
  <2> QED
    BY <1>1, <2>1, <2>2, <2>3, <2>4 DEF NodeRun, OffObjects
<1>2. CASE ReplaceMaster \/ MasterReady \/ ReportStatus \/ Deactivate \/ Resize
  <2>1. UNCHANGED <<cpms, hosted>>
    BY <1>2 DEF ReplaceMaster, MasterReady, ReportStatus, Deactivate, Resize
  <2> QED
    BY <2>1 DEF Changes
<1>3. CASE Annotate
  <2>1. cpms' = cpms /\ hosted' = [hosted EXCEPT !.other = TRUE]
    BY <1>3 DEF Annotate
  <2> QED
    BY <2>1 DEF Changes, EditInv, ObjectsShaped, HostedField
<1> QED
  BY <1>1, <1>2, <1>3 DEF NodeNext

\* A command changes what it is about and nothing else of the ControlPlaneMachineSet
\* and of the HostedCluster's annotations, whatever other SREs, commands and operators
\* write between its copy and its patch.
THEOREM PatchesKeepOthersEdits == NodeCommandsSpec => OthersEditsKept
<1>1. NodeCommandsInit => EditInv
  BY EditInvInit DEF NodeCommandsInit
<1>2. EditInv /\ [AnyCommand]_nodeCommandVars => EditInv' /\ [OwnEdits]_nodeVars
  <2> SUFFICES ASSUME EditInv, [AnyCommand]_nodeCommandVars PROVE EditInv' /\ [OwnEdits]_nodeVars
    OBVIOUS
  <2>1. CASE Settings
    BY <2>1, EditNodeStep, StepEdits DEF Settings
  <2>2. CASE UNCHANGED nodeVars
    <3>1. UNCHANGED <<cpms, hosted, npc, job, copy, want>>
      BY <2>2 DEF nodeVars
    <3>2. ObjectsShaped'
      BY <3>1 DEF EditInv, ObjectsShaped
    <3> QED
      BY <2>2, <3>1, <3>2, EditInvKept
  <2> QED
    BY <2>1, <2>2 DEF AnyCommand, Dance, Etcd, Rest, nodeCommandVars
<1> QED
  BY <1>1, <1>2, PTL DEF NodeCommandsSpec, AnyCommand, OthersEditsKept, OwnEdits

-----------------------------------------------------------------------------
(***************************************************************************)
(* The machine pool dance.  A pool may be deleted only while the other one *)
(* is there and carries the load by itself; that it does is what the wait  *)
(* for twice the nodes shows, because no pool ever has more than its       *)
(* replicas besides the nodes that drain, and none drains at these waits.  *)
(***************************************************************************)
Other(p) == IF p = "infra" THEN "infra2" ELSE "infra"
Serving(p) == {n \in Node : of[n] = p /\ node[n] \in {"ready", "down"}}
Full(p) == Cardinality(Serving(p)) >= Replicas
Staying(p) == {n \in Nodes(p) : node[n] # "draining"}
NoneDrains(p) == \A n \in Nodes(p) : node[n] # "draining"

PoolsCarry ==
    /\ \A p \in Pool : Cardinality(Staying(p)) <= Replicas
    /\ \A p \in Pool : pool[p] # "present" => pool[Other(p)] = "present" /\ Full(Other(p))
    /\ Full("infra") \/ Full("infra2")

BeforeTemp == {"start", "createTemp"}
OldInPlace == BeforeTemp \cup {"wait1", "list1", "deleteOriginal"}
TempInPlace == {"wait1", "list1", "deleteOriginal", "pool1", "drain1", "gone1", "createNew",
                "wait2", "list2", "deleteTemp"}
NewInPlace == {"wait2", "list2", "deleteTemp", "pool2", "wait3", "gone2", "done"}

\* What a run knows of the pools at each step, and of the nodes it has listed.
Dancing(r) ==
    /\ \A n \in original[r] \cup temporary[r] : node[n] # "unborn"
    /\ pc[r] \in BeforeTemp => pool["infra2"] = "absent" /\ Nodes("infra2") = {}
    /\ pc[r] \in OldInPlace => pool["infra"] = "present" /\ NoneDrains("infra")
    /\ pc[r] \in TempInPlace => pool["infra2"] = "present" /\ NoneDrains("infra2")
    /\ pc[r] \in {"list1", "deleteOriginal"} => Full("infra2")
    /\ pc[r] \in {"drain1", "gone1", "createNew"} => pool["infra"] = "absent"
    /\ pc[r] = "createNew" => Nodes("infra") = {}
    /\ pc[r] \in NewInPlace \cup {"createNew"} => \A n \in original[r] : node[n] = "gone"
    /\ pc[r] \in NewInPlace => pool["infra"] = "present" /\ made["infra"] = r
    /\ pc[r] \in {"wait2", "list2", "deleteTemp"} => NoneDrains("infra")
    /\ pc[r] \in {"list2", "deleteTemp"} => Full("infra")
    /\ pc[r] \in {"wait3", "gone2", "done"} => pool["infra2"] = "absent"

DanceInv == TypeOK /\ PoolsCarry /\ \A r \in Runs : Dancing(r)

\* Sets of nodes are finite, and a larger one has no fewer.
LEMMA NodeSets ==
    /\ \A S \in SUBSET Node : IsFiniteSet(S) /\ Cardinality(S) \in Nat
    /\ \A S, T \in SUBSET Node : T \subseteq S => Cardinality(T) <= Cardinality(S)
<1>1. IsFiniteSet(Node)
  BY FS_Interval, DanceAssumption DEF Node
<1>2. \A S \in SUBSET Node : IsFiniteSet(S) /\ Cardinality(S) \in Nat
  BY <1>1, FS_Subset, FS_CardinalityType
<1>3. ASSUME NEW S \in SUBSET Node, NEW T \in SUBSET Node, T \subseteq S PROVE Cardinality(T) <= Cardinality(S)
  BY <1>2, <1>3, FS_Subset
<1> QED
  BY <1>2, <1>3

\* Nodes that are still in service carry the load as before.
LEMMA StillFull == ASSUME NEW p, Full(p), Serving(p) \subseteq Serving(p)' PROVE Full(p)'
<1>1. Serving(p) \in SUBSET Node /\ Serving(p)' \in SUBSET Node
  BY DEF Serving
<1>2. Cardinality(Serving(p)) <= Cardinality(Serving(p)')
  BY <1>1, NodeSets
<1>3. Cardinality(Serving(p)) \in Nat /\ Cardinality(Serving(p)') \in Nat
  BY <1>1, NodeSets
<1> QED
  BY <1>2, <1>3, DanceAssumption DEF Full

\* When twice the nodes are ready and none drains, each pool carries the load.
LEMMA DoubleReadyFull ==
    ASSUME TypeOK, PoolsCarry, NoneDrains("infra"), NoneDrains("infra2"), DoubleReady
    PROVE  Full("infra") /\ Full("infra2")
<1> DEFINE A == {n \in Nodes("infra") : node[n] = "ready"}
           B == {n \in Nodes("infra2") : node[n] = "ready"}
<1>1. {n \in InfraNodes : node[n] \in {"ready", "draining"}} = A \cup B /\ A \cap B = {}
  BY DEF InfraNodes, NoneDrains, Nodes
<1>2. A \in SUBSET Node /\ B \in SUBSET Node /\ Staying("infra") \in SUBSET Node /\ Staying("infra2") \in SUBSET Node
      /\ Serving("infra") \in SUBSET Node /\ Serving("infra2") \in SUBSET Node
  BY DEF Nodes, Staying, Serving
<1>3. A \subseteq Staying("infra") /\ A \subseteq Serving("infra")
      /\ B \subseteq Staying("infra2") /\ B \subseteq Serving("infra2")
  BY DEF Nodes, Staying, Serving
<1>4. Cardinality(A) <= Replicas /\ Cardinality(B) <= Replicas
  <2>1. Cardinality(Staying("infra")) <= Replicas /\ Cardinality(Staying("infra2")) <= Replicas
    BY DEF PoolsCarry, Pool
  <2>2. Cardinality(A) <= Cardinality(Staying("infra")) /\ Cardinality(B) <= Cardinality(Staying("infra2"))
    BY <1>2, <1>3, NodeSets
  <2>3. /\ Cardinality(A) \in Nat /\ Cardinality(B) \in Nat
        /\ Cardinality(Staying("infra")) \in Nat /\ Cardinality(Staying("infra2")) \in Nat
    BY <1>2, NodeSets
  <2> HIDE DEF A, B
  <2> QED
    BY <2>1, <2>2, <2>3, DanceAssumption
<1>5. Cardinality(A \cup B) = Cardinality(A) + Cardinality(B)
  <2>1. IsFiniteSet(A) /\ IsFiniteSet(B) /\ Cardinality(A) \in Nat /\ Cardinality(B) \in Nat
    BY <1>2, NodeSets
  <2>2. Cardinality(A \cup B) = Cardinality(A) + Cardinality(B) - Cardinality(A \cap B)
    BY <2>1, FS_Union
  <2>3. Cardinality(A \cap B) = 0
    BY <1>1, FS_EmptySet
  <2> HIDE DEF A, B
  <2> QED
    BY <2>1, <2>2, <2>3
<1>6. Cardinality(A \cup B) >= 2 * Replicas
  BY <1>1 DEF DoubleReady, ReadyNodes
<1>7. Cardinality(A) >= Replicas /\ Cardinality(B) >= Replicas
  <2>1. Cardinality(A) \in Nat /\ Cardinality(B) \in Nat
    BY <1>2, NodeSets
  <2> HIDE DEF A, B
  <2> QED
    BY <1>4, <1>5, <1>6, <2>1, DanceAssumption
<1>8. Cardinality(A) <= Cardinality(Serving("infra")) /\ Cardinality(B) <= Cardinality(Serving("infra2"))
  BY <1>2, <1>3, NodeSets
<1>9. /\ Cardinality(A) \in Nat /\ Cardinality(B) \in Nat
      /\ Cardinality(Serving("infra")) \in Nat /\ Cardinality(Serving("infra2")) \in Nat
  BY <1>2, NodeSets
<1> HIDE DEF A, B
<1> QED
  BY <1>7, <1>8, <1>9, DanceAssumption DEF Full

\* A pool that gets no nodes has no more than it should.
LEMMA StayingFits ==
    ASSUME PoolsCarry, \A p \in Pool : Staying(p)' \subseteq Staying(p)
    PROVE  \A p \in Pool : Cardinality(Staying(p)') <= Replicas
<1> SUFFICES ASSUME NEW p \in Pool PROVE Cardinality(Staying(p)') <= Replicas
  OBVIOUS
<1>1. Staying(p) \in SUBSET Node /\ Staying(p)' \in SUBSET Node
  BY DEF Staying, Nodes
<1>2. Cardinality(Staying(p)') <= Cardinality(Staying(p)) /\ Cardinality(Staying(p)') \in Nat /\ Cardinality(Staying(p)) \in Nat
  BY <1>1, NodeSets
<1>3. Cardinality(Staying(p)) <= Replicas
  BY DEF PoolsCarry
<1> QED
  BY <1>2, <1>3, DanceAssumption

\* A step of the run that changes neither pools nor nodes.
LEMMA ControlDance ==
    ASSUME NEW r, Runs = {r}, DanceInv,
           Start(r) \/ WaitForNodes(r) \/ ListNodes(r) \/ PoolDeleted(r) \/ NodesDeleted(r) \/ TimeOut(r) \/ Fail(r)
    PROVE  DanceInv'
<1> USE DEF BeforeTemp, OldInPlace, TempInPlace, NewInPlace
<1>a. TypeOK /\ PoolsCarry /\ Dancing(r) /\ r \in Runs
  BY DEF DanceInv
<1>b. UNCHANGED <<pool, made, of, node>>
  BY DEF Start, WaitForNodes, ListNodes, PoolDeleted, NodesDeleted, TimeOut, Fail, nodes
<1>c. \A p : Nodes(p)' = Nodes(p) /\ Serving(p)' = Serving(p) /\ Staying(p)' = Staying(p)
             /\ (NoneDrains(p)' <=> NoneDrains(p)) /\ (Full(p)' <=> Full(p))
  BY <1>b DEF Nodes, Serving, Staying, NoneDrains, Full
<1>d. PoolsCarry'
  BY <1>a, <1>b, <1>c DEF PoolsCarry
<1>e. pc \in [Runs -> Ended \cup
         {"start", "createTemp", "wait1", "list1", "deleteOriginal", "pool1", "drain1", "gone1",
          "createNew", "wait2", "list2", "deleteTemp", "pool2", "wait3", "gone2"}]
  BY <1>a DEF TypeOK
<1>1. CASE Start(r)
  <2>1. pc[r] = "start" /\ pc' = [pc EXCEPT ![r] = IF pool["infra"] = "absent" THEN "failed" ELSE "createTemp"]
        /\ UNCHANGED <<original, temporary, faults>>
    BY <1>1 DEF Start, GoTo
  <2>2. TypeOK'
    BY <1>a, <1>b, <2>1 DEF TypeOK, Ended
  <2>3. Dancing(r)'
    BY <1>a, <1>b, <1>c, <1>e, <2>1 DEF Dancing
  <2> QED
    BY <1>d, <2>2, <2>3 DEF DanceInv
<1>2. CASE WaitForNodes(r)
  <2>1. pc[r] \in {"wait1", "wait2"} /\ DoubleReady
        /\ pc' = [pc EXCEPT ![r] = IF pc[r] = "wait1" THEN "list1" ELSE "list2"]
        /\ UNCHANGED <<original, temporary, faults>>
    BY <1>2 DEF WaitForNodes, GoTo
  <2>2. TypeOK'
    BY <1>a, <1>b, <2>1 DEF TypeOK
  <2>3. Full("infra") /\ Full("infra2")
    BY <1>a, <2>1, DoubleReadyFull DEF Dancing
  <2>4. Dancing(r)'
    BY <1>a, <1>b, <1>c, <1>e, <2>1, <2>3 DEF Dancing
  <2> QED
    BY <1>d, <2>2, <2>4 DEF DanceInv
<1>3. CASE ListNodes(r)
  <2>1. CASE pc[r] = "list1"
    <3>1. /\ pc' = [pc EXCEPT ![r] = "deleteOriginal"] /\ original' = [original EXCEPT ![r] = Nodes("infra")]
          /\ UNCHANGED <<temporary, faults>>
      BY <1>3, <2>1 DEF ListNodes, GoTo
    <3>2. Nodes("infra") \in SUBSET {n \in Node : of[n] = "infra"} /\ \A n \in Nodes("infra") : node[n] # "unborn"
      BY DEF Nodes, Live
    <3>3. TypeOK'
      BY <1>a, <1>b, <3>1, <3>2 DEF TypeOK
    <3>4. original'[r] = Nodes("infra")
      BY <1>a, <3>1 DEF TypeOK
    <3>5. Dancing(r)'
      BY <1>a, <1>b, <1>c, <1>e, <2>1, <3>1, <3>2, <3>4 DEF Dancing
    <3> QED
      BY <1>d, <3>3, <3>5 DEF DanceInv
  <2>2. CASE pc[r] # "list1"
    <3>1. /\ pc[r] = "list2" /\ pc' = [pc EXCEPT ![r] = "deleteTemp"]
          /\ temporary' = [temporary EXCEPT ![r] = Nodes("infra2")]
          /\ UNCHANGED <<original, faults>>
      BY <1>3, <2>2 DEF ListNodes, GoTo
    <3>2. Nodes("infra2") \in SUBSET {n \in Node : of[n] = "infra2"} /\ \A n \in Nodes("infra2") : node[n] # "unborn"
      BY DEF Nodes, Live
    <3>3. TypeOK'
      BY <1>a, <1>b, <3>1, <3>2 DEF TypeOK
    <3>4. temporary'[r] = Nodes("infra2")
      BY <1>a, <3>1 DEF TypeOK
    <3>5. Dancing(r)'
      BY <1>a, <1>b, <1>c, <1>e, <3>1, <3>2, <3>4 DEF Dancing
    <3> QED
      BY <1>d, <3>3, <3>5 DEF DanceInv
  <2> QED
    BY <2>1, <2>2
<1>4. CASE PoolDeleted(r)
  <2>1. /\ \/ pc[r] = "pool1" /\ pool["infra"] = "absent" /\ pc' = [pc EXCEPT ![r] = "drain1"]
           \/ pc[r] = "pool2" /\ pool["infra2"] = "absent" /\ pc' = [pc EXCEPT ![r] = "wait3"]
        /\ UNCHANGED <<original, temporary, faults>>
    BY <1>4 DEF PoolDeleted, GoTo
  <2>2. TypeOK'
    BY <1>a, <1>b, <2>1 DEF TypeOK
  <2>3. Dancing(r)'
    BY <1>a, <1>b, <1>c, <1>e, <2>1 DEF Dancing
  <2> QED
    BY <1>d, <2>2, <2>3 DEF DanceInv
<1>5. CASE NodesDeleted(r)
  <2>1. /\ \/ pc[r] \in {"drain1", "gone1"} /\ Nodes("infra") = {} /\ pc' = [pc EXCEPT ![r] = "createNew"]
           \/ pc[r] \in {"gone2", "wait3"} /\ pc' = [pc EXCEPT ![r] = "done"]
        /\ UNCHANGED <<original, temporary, faults>>
    BY <1>5 DEF NodesDeleted, GoTo
  <2>2. TypeOK'
    BY <1>a, <1>b, <2>1 DEF TypeOK, Ended
  <2>3. Nodes("infra") = {} => \A n \in original[r] : node[n] = "gone"
    <3> SUFFICES ASSUME Nodes("infra") = {}, NEW n \in original[r] PROVE node[n] = "gone"
      OBVIOUS
    <3>1. n \in Node /\ of[n] = "infra" /\ node[n] # "unborn" /\ node[n] \in Live \cup {"unborn", "gone"}
      BY <1>a DEF TypeOK, Dancing
    <3> QED
      BY <3>1 DEF Nodes
  <2>4. Dancing(r)'
    BY <1>a, <1>b, <1>c, <1>e, <2>1, <2>3 DEF Dancing
  <2> QED
    BY <1>d, <2>2, <2>4 DEF DanceInv
<1>6. CASE TimeOut(r) \/ Fail(r)
  <2>1. /\ \E l \in {"timedOut", "failed"} : pc' = [pc EXCEPT ![r] = l]
        /\ UNCHANGED <<original, temporary>> /\ faults' \in 0..MaxFaults
    BY <1>a, <1>6, DanceAssumption DEF TimeOut, Fail, GoTo, TypeOK
  <2>2. TypeOK'
    BY <1>a, <1>b, <2>1 DEF TypeOK, Ended
  <2>3. Dancing(r)'
    BY <1>a, <1>b, <1>c, <1>e, <2>1 DEF Dancing
  <2> QED
    BY <1>d, <2>2, <2>3 DEF DanceInv
<1> QED
  BY <1>1, <1>2, <1>3, <1>4, <1>5, <1>6

LEMMA PoolDance ==
    ASSUME NEW r, Runs = {r}, DanceInv, CreateTemp(r) \/ CreateNew(r) \/ DeleteOriginal(r) \/ DeleteTemp(r)
    PROVE  DanceInv'
<1> USE DEF BeforeTemp, OldInPlace, TempInPlace, NewInPlace
<1>a. TypeOK /\ PoolsCarry /\ Dancing(r) /\ r \in Runs /\ UNCHANGED <<of, node, original, temporary, faults>>
  BY DEF DanceInv, CreateTemp, CreateNew, CreatePool, DeleteOriginal, DeleteTemp, DeletePool, nodes, GoTo
<1>b. \A p : Nodes(p)' = Nodes(p) /\ Serving(p)' = Serving(p) /\ Staying(p)' = Staying(p)
             /\ (NoneDrains(p)' <=> NoneDrains(p)) /\ (Full(p)' <=> Full(p))
  BY <1>a DEF Nodes, Serving, Staying, NoneDrains, Full
<1>c. /\ pool \in [Pool -> {"absent", "present", "deleting"}] /\ made \in [Pool -> Runs \cup {"old", "none"}]
      /\ pc \in [Runs -> Ended \cup
         {"start", "createTemp", "wait1", "list1", "deleteOriginal", "pool1", "drain1", "gone1",
          "createNew", "wait2", "list2", "deleteTemp", "pool2", "wait3", "gone2"}]
      /\ "infra" \in Pool /\ "infra2" \in Pool
  BY <1>a DEF TypeOK, Pool
<1>1. CASE UNCHANGED <<pool, made>> /\ pc' = [pc EXCEPT ![r] = "failed"]
  <2>1. TypeOK'
    BY <1>1, <1>a DEF TypeOK, Ended
  <2>2. PoolsCarry'
    BY <1>1, <1>a, <1>b DEF PoolsCarry
  <2>3. Dancing(r)'
    BY <1>1, <1>a, <1>b, <1>c DEF Dancing
  <2> QED
    BY <2>1, <2>2, <2>3 DEF DanceInv
<1>2. CASE CreateTemp(r) /\ pool["infra2"] = "absent"
  <2>1. /\ pc[r] = "createTemp" /\ pool' = [pool EXCEPT !["infra2"] = "present"] /\ made' = [made EXCEPT !["infra2"] = r]
        /\ pc' = [pc EXCEPT ![r] = "wait1"]
    BY <1>2 DEF CreateTemp, CreatePool, GoTo
  <2>2. TypeOK'
    BY <1>a, <1>c, <2>1 DEF TypeOK
  <2>3. PoolsCarry'
    BY <1>a, <1>b, <1>c, <2>1 DEF PoolsCarry, Other, Pool, Dancing
  <2>4. Nodes("infra2") = {} /\ NoneDrains("infra2")
    BY <1>a, <2>1 DEF Dancing, NoneDrains
  <2>5. Dancing(r)'
    BY <1>a, <1>b, <1>c, <2>1, <2>4 DEF Dancing
  <2> QED
    BY <2>2, <2>3, <2>5 DEF DanceInv
<1>3. CASE CreateNew(r) /\ pool["infra"] = "absent"
  <2>1. /\ pc[r] = "createNew" /\ pool' = [pool EXCEPT !["infra"] = "present"] /\ made' = [made EXCEPT !["infra"] = r]
        /\ pc' = [pc EXCEPT ![r] = "wait2"]
    BY <1>3 DEF CreateNew, CreatePool, GoTo
  <2>2. TypeOK'
    BY <1>a, <1>c, <2>1 DEF TypeOK
  <2>3. PoolsCarry'
    BY <1>a, <1>b, <1>c, <2>1 DEF PoolsCarry, Other, Pool, Dancing
  <2>4. Nodes("infra") = {} /\ NoneDrains("infra")
    BY <1>a, <2>1 DEF Dancing, NoneDrains
  <2>5. Dancing(r)'
    BY <1>a, <1>b, <1>c, <2>1, <2>4 DEF Dancing
  <2> QED
    BY <2>2, <2>3, <2>5 DEF DanceInv
<1>4. CASE DeleteOriginal(r) /\ pool["infra"] # "absent"
  <2>1. /\ pc[r] = "deleteOriginal" /\ pool' = [pool EXCEPT !["infra"] = "deleting"] /\ made' = made
        /\ pc' = [pc EXCEPT ![r] = "pool1"]
    BY <1>4 DEF DeleteOriginal, DeletePool, GoTo
  <2>2. TypeOK'
    BY <1>a, <1>c, <2>1 DEF TypeOK
  <2>3. Full("infra2") /\ pool["infra2"] = "present"
    BY <1>a, <2>1 DEF Dancing
  <2>4. PoolsCarry'
    BY <1>a, <1>b, <1>c, <2>1, <2>3 DEF PoolsCarry, Other, Pool
  <2>5. Dancing(r)'
    BY <1>a, <1>b, <1>c, <2>1 DEF Dancing
  <2> QED
    BY <2>2, <2>4, <2>5 DEF DanceInv
<1>5. CASE DeleteTemp(r) /\ pool["infra2"] # "absent"
  <2>1. /\ pc[r] = "deleteTemp" /\ pool' = [pool EXCEPT !["infra2"] = "deleting"] /\ made' = made
        /\ pc' = [pc EXCEPT ![r] = "pool2"]
    BY <1>5 DEF DeleteTemp, DeletePool, GoTo
  <2>2. TypeOK'
    BY <1>a, <1>c, <2>1 DEF TypeOK
  <2>3. Full("infra") /\ pool["infra"] = "present"
    BY <1>a, <2>1 DEF Dancing
  <2>4. PoolsCarry'
    BY <1>a, <1>b, <1>c, <2>1, <2>3 DEF PoolsCarry, Other, Pool
  <2>5. Dancing(r)'
    BY <1>a, <1>b, <1>c, <2>1 DEF Dancing
  <2> QED
    BY <2>2, <2>4, <2>5 DEF DanceInv
<1> QED
  BY <1>1, <1>2, <1>3, <1>4, <1>5 DEF CreateTemp, CreateNew, CreatePool, DeleteOriginal, DeleteTemp, DeletePool, GoTo

\* What the cluster, or the termination of instances, may do to the nodes of a pool
\* that is not being deleted.
NodesKept(p) ==
    /\ Serving(p) \subseteq Serving(p)'
    /\ NoneDrains(p) => NoneDrains(p)'
    /\ \A n \in Node : node'[n] = "unborn" => node[n] = "unborn"
    /\ \A n \in Node : node[n] = "gone" => node'[n] = "gone"

\* A step that leaves the pools' records, and takes no node from a pool that carries the load.
LEMMA NodesDance ==
    ASSUME NEW r, Runs = {r}, DanceInv, TypeOK', UNCHANGED <<pool, made, original, temporary>>,
           pc' = pc \/ (pc[r] \in {"drain1", "wait3"}
                        /\ pc' = [pc EXCEPT ![r] = IF pc[r] = "drain1" THEN "gone1" ELSE "gone2"]),
           \A p \in Pool : Cardinality(Staying(p)') <= Replicas,
           \A p \in Pool : pool[p] = "present" => NodesKept(p),
           \A n \in Node : node'[n] = "unborn" => node[n] = "unborn",
           \A n \in Node : node[n] = "gone" => node'[n] = "gone",
           \A p \in Pool : pool[p] = "absent" /\ Nodes(p) = {} => Nodes(p)' = {}
    PROVE  DanceInv'
<1> USE DEF BeforeTemp, OldInPlace, TempInPlace, NewInPlace
<1>a. TypeOK /\ PoolsCarry /\ Dancing(r) /\ r \in Runs /\ "infra" \in Pool /\ "infra2" \in Pool
  BY DEF DanceInv, Pool
<1>b. \A p \in Pool : pool[p] = "present" => (Full(p) => Full(p)') /\ (NoneDrains(p) => NoneDrains(p)')
  BY StillFull DEF NodesKept
<1>1. PoolsCarry'
  <2>1. \A p \in Pool : pool[p] # "present" => pool[Other(p)] = "present" /\ Full(Other(p))'
    BY <1>a, <1>b DEF PoolsCarry, Other, Pool
  <2>2. Full("infra")' \/ Full("infra2")'
    <3>1. CASE pool["infra"] = "present" /\ pool["infra2"] = "present"
      BY <1>a, <1>b, <3>1 DEF PoolsCarry
    <3>2. CASE pool["infra"] # "present"
      BY <1>a, <2>1, <3>2 DEF Other
    <3>3. CASE pool["infra2"] # "present"
      BY <1>a, <2>1, <3>3 DEF Other
    <3> QED
      BY <3>1, <3>2, <3>3
  <2> QED
    BY <2>1, <2>2 DEF PoolsCarry
<1>2. Dancing(r)'
  <2>1. \A n \in original[r] \cup temporary[r] : n \in Node
    BY <1>a DEF TypeOK
  <2>2. pc'[r] = pc[r] \/ (pc[r] = "drain1" /\ pc'[r] = "gone1") \/ (pc[r] = "wait3" /\ pc'[r] = "gone2")
    BY <1>a DEF TypeOK
  <2>3. \A n \in original[r] \cup temporary[r] : node'[n] # "unborn"
    BY <1>a, <2>1 DEF Dancing
  <2>4. pc'[r] \in NewInPlace \cup {"createNew"} => \A n \in original[r] : node'[n] = "gone"
    BY <1>a, <2>1, <2>2 DEF Dancing
  <2> QED
    BY <1>a, <1>b, <2>2, <2>3, <2>4 DEF Dancing
<1> QED
  BY <1>1, <1>2 DEF DanceInv

\* The termination of instances takes only nodes of a pool that is gone.
LEMMA TerminateDance == ASSUME NEW r, Runs = {r}, DanceInv, TerminateInstances(r) PROVE DanceInv'
<1>a. TypeOK /\ PoolsCarry /\ Dancing(r) /\ r \in Runs
  BY DEF DanceInv
<1> DEFINE listed == IF pc[r] = "drain1" THEN original[r] ELSE temporary[r]
<1>1. /\ pc[r] \in {"drain1", "wait3"} /\ pc' = [pc EXCEPT ![r] = IF pc[r] = "drain1" THEN "gone1" ELSE "gone2"]
      /\ node' = [n \in Node |-> IF n \in listed \cap InfraNodes THEN "gone" ELSE node[n]]
      /\ UNCHANGED <<pool, made, of, original, temporary, faults>>
  BY DEF TerminateInstances, GoTo
<1>2. pc[r] = "drain1" => pool["infra"] = "absent" /\ \A n \in listed : of[n] = "infra"
  BY <1>a DEF Dancing, TypeOK
<1>3. pc[r] = "wait3" => pool["infra2"] = "absent" /\ \A n \in listed : of[n] = "infra2"
  BY <1>a, <1>1 DEF Dancing, TypeOK
<1>4. \A n \in Node : node'[n] = node[n] \/ (node'[n] = "gone" /\ node[n] \in Live /\ pool[of[n]] = "absent")
  <2> SUFFICES ASSUME NEW n \in Node, n \in listed \cap InfraNodes PROVE node[n] \in Live /\ pool[of[n]] = "absent"
    BY <1>1
  <2>1. node[n] \in Live
    BY DEF InfraNodes, Nodes
  <2> QED
    BY <1>1, <1>2, <1>3, <2>1
<1> HIDE DEF listed
<1>5. TypeOK'
  <2>1. node' \in [Node -> Live \cup {"unborn", "gone"}]
    BY <1>a, <1>1 DEF TypeOK
  <2>2. pc' \in [Runs -> Ended \cup
         {"start", "createTemp", "wait1", "list1", "deleteOriginal", "pool1", "drain1", "gone1",
          "createNew", "wait2", "list2", "deleteTemp", "pool2", "wait3", "gone2"}]
    BY <1>a, <1>1 DEF TypeOK
  <2> QED
    BY <1>a, <1>1, <2>1, <2>2 DEF TypeOK
<1>6. \A p \in Pool : Staying(p)' \subseteq Staying(p)
  BY <1>1, <1>4 DEF Staying, Nodes, Live
<1>7. \A p \in Pool : Cardinality(Staying(p)') <= Replicas
  BY <1>a, <1>6, StayingFits
<1>8. \A p \in Pool : pool[p] = "present" => NodesKept(p)
  BY <1>1, <1>4 DEF NodesKept, Serving, NoneDrains, Nodes, Live
<1>9. \A n \in Node : node'[n] = "unborn" => node[n] = "unborn"
  BY <1>4
<1>10. \A n \in Node : node[n] = "gone" => node'[n] = "gone"
  BY <1>4 DEF Live
<1>11. \A p \in Pool : Nodes(p) = {} => Nodes(p)' = {}
  BY <1>1, <1>4 DEF Nodes, Live
<1> QED
  BY <1>1, <1>5, <1>7, <1>8, <1>9, <1>10, <1>11, NodesDance

\* A node joins a pool that is there and lacks one.
LEMMA JoinDance == ASSUME NEW r, Runs = {r}, DanceInv, NEW n \in Node, Join(n) PROVE DanceInv'
<1>a. TypeOK /\ PoolsCarry /\ Dancing(r) /\ r \in Runs
  BY DEF DanceInv
<1>1. PICK p \in Pool : /\ pool[p] = "present" /\ of' = [of EXCEPT ![n] = p]
                        /\ Cardinality({m \in Nodes(p) : node[m] # "draining"}) < Replicas
  BY DEF Join
<1>2. /\ node[n] = "unborn" /\ node' = [node EXCEPT ![n] = "joining"]
      /\ UNCHANGED <<pool, made, pc, original, temporary, faults>>
  BY DEF Join
<1>3. /\ of'[n] = p /\ node'[n] = "joining"
      /\ \A m \in Node : m # n => of'[m] = of[m] /\ node'[m] = node[m]
  BY <1>a, <1>1, <1>2 DEF TypeOK
<1>4. n \notin original[r] \cup temporary[r]
  BY <1>a, <1>2 DEF Dancing
<1>5. TypeOK'
  <2>1. of' \in [Node -> Pool] /\ node' \in [Node -> Live \cup {"unborn", "gone"}]
    BY <1>a, <1>1, <1>2 DEF TypeOK, Live
  <2>2. original' \in [Runs -> SUBSET {m \in Node : of'[m] = "infra"}]
        /\ temporary' \in [Runs -> SUBSET {m \in Node : of'[m] = "infra2"}]
    BY <1>a, <1>2, <1>3, <1>4 DEF TypeOK
  <2> QED
    BY <1>a, <1>2, <2>1, <2>2 DEF TypeOK
<1>6. \A q \in Pool : q # p => Staying(q)' = Staying(q) /\ Nodes(q)' = Nodes(q)
  BY <1>2, <1>3 DEF Staying, Nodes, Live
<1>7. Cardinality(Staying(p)') <= Replicas
  <2>1. Staying(p)' = Staying(p) \cup {n} /\ Staying(p) \in SUBSET Node
    BY <1>2, <1>3 DEF Staying, Nodes, Live
  <2>2. IsFiniteSet(Staying(p)) /\ Cardinality(Staying(p)) \in Nat
    BY <2>1, NodeSets
  <2>3. Cardinality(Staying(p)) < Replicas
    BY <1>1 DEF Staying
  <2>4. Cardinality(Staying(p) \cup {n}) = Cardinality(Staying(p)) + 1
    <3>1. n \notin Staying(p) /\ IsFiniteSet(Staying(p))
      BY <1>2, <2>2 DEF Staying, Nodes, Live
    <3>2. Cardinality(Staying(p) \cup {n}) =
            IF n \in Staying(p) THEN Cardinality(Staying(p)) ELSE Cardinality(Staying(p)) + 1
      BY <3>1, FS_AddElement, Zenon
    <3> QED
      BY <3>1, <3>2
  <2> QED
    BY <2>1, <2>2, <2>3, <2>4, DanceAssumption
<1>8. \A q \in Pool : Cardinality(Staying(q)') <= Replicas
  BY <1>a, <1>6, <1>7 DEF PoolsCarry
<1>9. \A q \in Pool : NodesKept(q)
  BY <1>2, <1>3 DEF NodesKept, Serving, NoneDrains, Nodes, Live
<1>10. \A m \in Node : (node'[m] = "unborn" => node[m] = "unborn") /\ (node[m] = "gone" => node'[m] = "gone")
  BY <1>2, <1>3
<1>11. \A q \in Pool : pool[q] = "absent" /\ Nodes(q) = {} => Nodes(q)' = {}
  BY <1>1, <1>6
<1> QED
  BY <1>2, <1>5, <1>8, <1>9, <1>10, <1>11, NodesDance

\* A node becomes ready, goes down, or has drained.
LEMMA ChangeDance ==
    ASSUME NEW r, Runs = {r}, DanceInv, NEW n \in Node, BecomeReady(n) \/ Drained(n) \/ GoDown(n)
    PROVE  DanceInv'
<1>a. TypeOK /\ PoolsCarry /\ Dancing(r) /\ r \in Runs
  BY DEF DanceInv
<1>1. PICK to \in {"ready", "down", "gone"} :
         /\ node' = [node EXCEPT ![n] = to]
         /\ \/ to = "ready" /\ node[n] \in {"joining", "down"}
            \/ to = "down" /\ node[n] = "ready"
            \/ to = "gone" /\ node[n] = "draining"
  BY DEF BecomeReady, Drained, GoDown, Change
<1>2. UNCHANGED <<pool, made, of, pc, original, temporary>> /\ faults' \in 0..MaxFaults
  BY <1>a, DanceAssumption DEF BecomeReady, Drained, GoDown, Change, TypeOK
<1>3. node'[n] = to /\ \A m \in Node : m # n => node'[m] = node[m]
  BY <1>a, <1>1 DEF TypeOK
<1>4. TypeOK'
  <2>1. node' \in [Node -> Live \cup {"unborn", "gone"}]
    BY <1>a, <1>1 DEF TypeOK, Live
  <2> QED
    BY <1>a, <1>2, <2>1 DEF TypeOK
<1>5. \A p \in Pool : Staying(p)' \subseteq Staying(p)
  BY <1>1, <1>2, <1>3 DEF Staying, Nodes, Live
<1>6. \A p \in Pool : Cardinality(Staying(p)') <= Replicas
  BY <1>a, <1>5, StayingFits
<1>7. \A p \in Pool : NodesKept(p)
  BY <1>1, <1>2, <1>3 DEF NodesKept, Serving, NoneDrains, Nodes, Live
<1>8. \A m \in Node : (node'[m] = "unborn" => node[m] = "unborn") /\ (node[m] = "gone" => node'[m] = "gone")
  BY <1>1, <1>3
<1>9. \A p \in Pool : Nodes(p) = {} => Nodes(p)' = {}
  BY <1>1, <1>2, <1>3 DEF Nodes, Live
<1> QED
  BY <1>2, <1>4, <1>6, <1>7, <1>8, <1>9, NodesDance

\* Hive takes away a pool that is being deleted: the other one carries the load.
LEMMA RemoveDance == ASSUME NEW r, Runs = {r}, DanceInv, NEW p \in Pool, RemovePool(p) PROVE DanceInv'
<1>a. TypeOK /\ PoolsCarry /\ Dancing(r) /\ r \in Runs
  BY DEF DanceInv
<1>1. /\ pool[p] = "deleting" /\ pool' = [pool EXCEPT ![p] = "absent"]
      /\ node' = [n \in Node |-> IF n \in Nodes(p) THEN "draining" ELSE node[n]]
      /\ UNCHANGED <<made, of, pc, original, temporary, faults>>
  BY DEF RemovePool
<1>2. Other(p) \in Pool /\ Other(p) # p /\ Pool = {p, Other(p)} /\ pool[Other(p)] = "present" /\ Full(Other(p))
  BY <1>a, <1>1 DEF Other, Pool, PoolsCarry
<1>3. \A n \in Node : of[n] = Other(p) => node'[n] = node[n]
  BY <1>1, <1>2 DEF Nodes
<1>4. \A n \in Node : node'[n] = node[n] \/ (node'[n] = "draining" /\ node[n] \in Live)
  BY <1>1 DEF Nodes
<1>5. TypeOK'
  <2>1. node' \in [Node -> Live \cup {"unborn", "gone"}] /\ pool' \in [Pool -> {"absent", "present", "deleting"}]
    BY <1>a, <1>1 DEF TypeOK, Live
  <2> QED
    BY <1>a, <1>1, <2>1 DEF TypeOK
<1>6. /\ Serving(Other(p))' = Serving(Other(p)) /\ Staying(Other(p))' = Staying(Other(p))
      /\ (NoneDrains(Other(p))' <=> NoneDrains(Other(p)))
  BY <1>1, <1>3 DEF Serving, Staying, NoneDrains, Nodes, Other
<1>7. Staying(p)' = {} /\ Cardinality(Staying(p)') <= Replicas
  <2>1. Staying(p)' = {}
    BY <1>1 DEF Staying, Nodes
  <2> QED
    BY <2>1, FS_EmptySet, DanceAssumption
<1>8. PoolsCarry'
  <2>1. Full(Other(p))'
    BY <1>2, <1>6 DEF Full
  <2>2. pool'[p] = "absent" /\ pool'[Other(p)] = "present"
    BY <1>a, <1>1, <1>2 DEF TypeOK
  <2>3. \A q \in Pool : Cardinality(Staying(q)') <= Replicas
    BY <1>a, <1>2, <1>6, <1>7 DEF PoolsCarry
  <2>4. \A q \in Pool : pool'[q] # "present" => pool'[Other(q)] = "present" /\ Full(Other(q))'
    BY <1>2, <2>1, <2>2
  <2>5. Full("infra")' \/ Full("infra2")'
    BY <2>1 DEF Other
  <2> QED
    BY <2>3, <2>4, <2>5 DEF PoolsCarry
<1>9. Dancing(r)'
  <2>1. pc' = pc /\ original' = original /\ temporary' = temporary /\ made' = made
    BY <1>1
  <2>2. /\ \A n \in original[r] \cup temporary[r] : node'[n] # "unborn"
        /\ \A n \in original[r] : node[n] = "gone" => node'[n] = "gone"
    BY <1>a, <1>4 DEF Dancing, TypeOK, Live
  <2>3. CASE p = "infra"
    <3>1. pool'["infra"] = "absent" /\ pool'["infra2"] = pool["infra2"] /\ (NoneDrains("infra2")' <=> NoneDrains("infra2"))
          /\ (Full("infra2")' <=> Full("infra2"))
      BY <1>a, <1>1, <1>6, <2>3 DEF TypeOK, Other, Full
    <3>2. pc[r] \notin OldInPlace \cup NewInPlace \cup {"drain1", "gone1", "createNew"}
      BY <1>a, <1>1, <2>3 DEF Dancing
    <3> QED
      BY <1>a, <2>1, <2>2, <3>1, <3>2 DEF Dancing, BeforeTemp, OldInPlace, TempInPlace, NewInPlace
  <2>4. CASE p = "infra2"
    <3>1. pool'["infra2"] = "absent" /\ pool'["infra"] = pool["infra"] /\ (NoneDrains("infra")' <=> NoneDrains("infra"))
          /\ (Full("infra")' <=> Full("infra"))
      BY <1>a, <1>1, <1>6, <2>4 DEF TypeOK, Other, Full
    <3>2. pc[r] \notin BeforeTemp \cup TempInPlace \cup {"wait3", "gone2", "done"}
      BY <1>a, <1>1, <2>4 DEF Dancing
    <3> QED
      BY <1>a, <2>1, <2>2, <3>1, <3>2 DEF Dancing, BeforeTemp, OldInPlace, TempInPlace, NewInPlace
  <2> QED
    BY <2>3, <2>4 DEF Pool
<1> QED
  BY <1>5, <1>8, <1>9 DEF DanceInv

LEMMA DanceInvInit == ASSUME NEW r, Runs = {r}, Init PROVE DanceInv
<1> DEFINE first == {n \in Node : n <= Replicas}
<1>1. /\ pool = [p \in Pool |-> IF p = "infra" THEN "present" ELSE "absent"]
      /\ of = [n \in Node |-> "infra"]
      /\ node = [n \in Node |-> IF n <= Replicas THEN "ready" ELSE "unborn"]
      /\ pc = [s \in Runs |-> "start"] /\ original = [s \in Runs |-> {}] /\ temporary = [s \in Runs |-> {}]
  BY DEF Init
<1>2. TypeOK
  BY <1>1, DanceAssumption DEF Init, TypeOK, Live, Pool
<1>3. first = 1..Replicas /\ Cardinality(first) = Replicas
  <2>1. first = 1..Replicas
    BY DanceAssumption DEF Node
  <2>2. Cardinality(1..Replicas) = Replicas
    BY FS_Interval, DanceAssumption
  <2> QED
    BY <2>1, <2>2
<1>4. /\ Nodes("infra") = first /\ Serving("infra") = first /\ Staying("infra") = first
      /\ Nodes("infra2") = {} /\ Staying("infra2") = {}
  BY <1>1 DEF Nodes, Serving, Staying, Live
<1>5. PoolsCarry
  <2>1. Full("infra") /\ Cardinality(Staying("infra")) <= Replicas
    BY <1>3, <1>4, DanceAssumption DEF Full
  <2>2. Cardinality(Staying("infra2")) <= Replicas
    BY <1>4, FS_EmptySet, DanceAssumption
  <2> QED
    BY <1>1, <2>1, <2>2 DEF PoolsCarry, Pool, Other
<1>6. Dancing(r)
  BY <1>1, <1>4 DEF Dancing, BeforeTemp, OldInPlace, TempInPlace, NewInPlace, NoneDrains, Nodes, Pool, first
<1> QED
  BY <1>2, <1>5, <1>6 DEF DanceInv

LEMMA DanceStep == ASSUME NEW r, Runs = {r}, DanceInv, Next PROVE DanceInv'
<1>1. ASSUME NEW s \in Runs, Step(s) \/ TimeOut(s) \/ Fail(s) PROVE DanceInv'
  BY <1>1, ControlDance, PoolDance, TerminateDance DEF Step
<1>2. CASE Cluster
  BY <1>2, JoinDance, ChangeDance, RemoveDance DEF Cluster
<1>3. CASE \E n \in Node : GoDown(n)
  BY <1>3, ChangeDance
<1> QED
  BY <1>1, <1>2, <1>3 DEF Next

\* What the invariant says of the properties the run checks.
LEMMA DanceInvIsSafe == ASSUME NEW r, Runs = {r}, DanceInv PROVE DanceIsSafe
<1>1. EnoughInfra
  <2>1. ASSUME NEW p \in Pool, Full(p) PROVE EnoughInfra
    <3>1. Serving(p) \subseteq InService /\ Serving(p) \in SUBSET Node /\ InService \in SUBSET Node
      BY DEF Serving, InService, InfraNodes, Nodes, Live, Pool
    <3>2. /\ Cardinality(Serving(p)) <= Cardinality(InService)
          /\ Cardinality(Serving(p)) \in Nat /\ Cardinality(InService) \in Nat
      BY <3>1, NodeSets
    <3> QED
      BY <2>1, <3>2, DanceAssumption DEF EnoughInfra, Full
  <2> QED
    BY <2>1 DEF DanceInv, PoolsCarry, Pool
<1>2. DoneMeansReplaced
  BY DEF DanceInv, Dancing, DoneMeansReplaced, NewInPlace
<1> QED
  BY <1>1, <1>2 DEF DanceInv, DanceIsSafe

\* One dance, of any number of nodes, that may be killed, fail or time out at any step:
\* there are always as many infra nodes in service as the pool had, and when it reports
\* success the pool is its own and no node of the original pool is left.
THEOREM DanceCarriesLoad == ASSUME NEW r, Runs = {r} PROVE NodeCommandsSpec => []DanceIsSafe
<1>1. NodeCommandsInit => DanceInv
  BY DanceInvInit DEF NodeCommandsInit
<1>2. DanceInv /\ [AnyCommand]_nodeCommandVars => DanceInv'
  <2> SUFFICES ASSUME DanceInv, [AnyCommand]_nodeCommandVars PROVE DanceInv'
    OBVIOUS
  <2>1. CASE Dance
    BY <2>1, DanceStep DEF Dance
  <2>2. CASE UNCHANGED danceVars
    BY <2>2 DEF danceVars, vars, nodes, DanceInv, TypeOK, PoolsCarry, Dancing, Full, Serving, Staying, NoneDrains, Nodes
  <2> QED
    BY <2>1, <2>2 DEF AnyCommand, Settings, Etcd, Rest, nodeCommandVars
<1>3. DanceInv => DanceIsSafe
  BY DanceInvIsSafe
<1> QED
  BY <1>1, <1>2, <1>3, PTL DEF NodeCommandsSpec, AnyCommand
===============================================================================
