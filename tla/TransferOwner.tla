----------------------------- MODULE TransferOwner -----------------------------
(***************************************************************************)
(* `osdctl cluster transfer-owner` (cmd/cluster/transferowner.go): a       *)
(* Region Lead moves a cluster from the old owner to the new one and runs  *)
(* the command again after a run that failed.  A run replaces the pull     *)
(* secret, then changes four records in OCM one after the other: the       *)
(* organisation and the creator of the subscription, the ClusterOwner role *)
(* bindings and the registration with the clusters service (CS).           *)
(***************************************************************************)
EXTENDS Integers, FiniteSets

CONSTANTS
    OrgChanged,   \* the owners belong to two organisations
    DryRun,       \* --dry-run
    MaxFaults     \* bound: failed calls, kills and refusals of the SRE

ASSUME TransferAssumption ==
    OrgChanged \in BOOLEAN /\ DryRun \in BOOLEAN /\ MaxFaults \in Nat

Owner == {"old", "new"}
Org(u) == IF OrgChanged THEN u ELSE "shared"

VARIABLES
    hypershift,    \* a hosted control plane cluster; never changes
    org, creator,  \* the subscription's
    owners,        \* accounts with a ClusterOwner binding
    csOrg,         \* the cluster's organisation in CS
    source,        \* the secret on Hive, or in the ManifestWork
    syncSet,       \* "pull-secret-replacement" is on Hive
    success,       \* ClusterSync has a FirstSuccessTime for it
    target,        \* the cluster's pull secret
    pods,          \* whose token each of the restarted pods has
    pc,
    seen,          \* the subscription as read at the start
    log,           \* service logs the customer got
    faults

ocm == <<org, creator, owners, csOrg>>
secret == <<source, syncSet, success, target>>
vars == <<hypershift, ocm, secret, pods, pc, seen, log, faults>>

Idle == {"idle", "failed", "done"}

TypeOK ==
    /\ hypershift \in BOOLEAN
    /\ org \in {Org(u) : u \in Owner} /\ creator \in Owner
    /\ owners \subseteq Owner /\ csOrg \in {Org(u) : u \in Owner}
    /\ source \in Owner \cup {"none"} /\ syncSet \in BOOLEAN /\ success \in BOOLEAN
    /\ target \in Owner /\ pods \in [{"telemeter", "agent"} -> Owner]
    /\ pc \in Idle \cup {"notify", "work", "delete", "create", "sync", "await", "cleanup",
          "telemeter", "verify", "validate", "org", "creator", "unbind", "bind", "register",
          "agent", "check"}
    /\ seen \in [org : {Org(u) : u \in Owner}, creator : Owner]
    /\ log \subseteq {"initiated", "complete"} /\ faults \in 0..MaxFaults

Init ==
    /\ hypershift \in BOOLEAN
    /\ org = Org("old") /\ creator = "old" /\ owners = {"old"} /\ csOrg = Org("old")
    /\ source = "old" /\ syncSet = FALSE /\ success = FALSE /\ target = "old"
    /\ pods = [d \in {"telemeter", "agent"} |-> "old"]
    /\ pc = "idle" /\ seen = [org |-> org, creator |-> creator]
    /\ log = {} /\ faults = 0
-----------------------------------------------------------------------------
Step(from, to) == pc = from /\ pc' = to /\ UNCHANGED <<hypershift, faults>>

Begin ==
    /\ pc \in Idle /\ pc' = "notify"
    /\ seen' = [org |-> org, creator |-> creator]
    /\ UNCHANGED <<hypershift, ocm, secret, pods, log, faults>>

\* A service log that cannot be posted is printed, and the run goes on.
NotifyCustomer ==
    /\ Step("notify", IF hypershift THEN "work" ELSE "delete")
    /\ log' \in {log, log \cup {"initiated"}}
    /\ UNCHANGED <<ocm, secret, pods, seen>>

\* updateManifestWork: an Upsert of the registries, then 60 seconds of waiting.
UpdateManifestWork ==
    /\ Step("work", "verify") /\ source' = "new"
    /\ UNCHANGED <<ocm, syncSet, success, target, pods, seen, log>>

\* Mutant: the secret is not created again.
OnlyDelete ==
    /\ Step("delete", IF source = "none" THEN "failed" ELSE "sync") /\ source' = "none"
    /\ UNCHANGED <<ocm, syncSet, success, target, pods, seen, log>>

\* updatePullSecret.
DeleteSecret ==
    /\ Step("delete", IF source = "none" THEN "failed" ELSE "create") /\ source' = "none"
    /\ UNCHANGED <<ocm, syncSet, success, target, pods, seen, log>>

CreateSecret ==
    /\ Step("create", "sync") /\ source' = "new"
    /\ UNCHANGED <<ocm, syncSet, success, target, pods, seen, log>>

\* awaitPullSecretSyncSet.
CreateSyncSet ==
    /\ Step("sync", IF syncSet THEN "failed" ELSE "await") /\ syncSet' = TRUE
    /\ UNCHANGED <<ocm, source, success, target, pods, seen, log>>

SyncConfirmed ==
    /\ success /\ Step("await", "cleanup")
    /\ UNCHANGED <<ocm, secret, pods, seen, log>>

SyncTimedOut ==
    /\ ~success /\ Step("await", "failed")
    /\ UNCHANGED <<ocm, secret, pods, seen, log>>

DeleteSyncSet ==
    /\ Step("cleanup", "telemeter") /\ syncSet' = FALSE
    /\ UNCHANGED <<ocm, source, success, target, pods, seen, log>>

\* rolloutPods: a restarted pod reads the cluster's pull secret.
RolloutTelemeter ==
    /\ Step("telemeter", "verify") /\ pods' = [pods EXCEPT !["telemeter"] = target]
    /\ UNCHANGED <<ocm, secret, seen, log>>

\* verifyClusterPullSecret: the SRE compares and only says yes to the new one.
VerifySecret ==
    /\ Step("verify", IF target = "new" THEN "validate" ELSE "failed")
    /\ UNCHANGED <<ocm, secret, pods, seen, log>>

\* validateOldOwner only warns; the SRE goes on.  A dry run ends here.
ValidateOldOwner ==
    /\ Step("validate", IF DryRun THEN "idle" ELSE "org")
    /\ UNCHANGED <<ocm, secret, pods, seen, log>>

\* Mutant: a subscription that has left the old owner needs no patch.
PatchOrgIfOld ==
    /\ Step("org", "creator")
    /\ org' = IF seen = [org |-> Org("old"), creator |-> "old"] THEN Org("old") ELSE Org("new")
    /\ UNCHANGED <<creator, owners, csOrg, secret, pods, seen, log>>

PatchOrg ==
    /\ Step("org", "creator") /\ org' = Org("new")
    /\ UNCHANGED <<creator, owners, csOrg, secret, pods, seen, log>>

PatchCreator ==
    /\ Step("creator", "unbind") /\ creator' = "new"
    /\ UNCHANGED <<org, owners, csOrg, secret, pods, seen, log>>

\* deleteOldRoleBinding takes the first binding listed, whoever's it is; that it
\* fails or finds none does not end the run.
DeleteRoleBinding ==
    /\ pc = "unbind" /\ pc' = "bind"
    /\ \/ \E b \in owners : owners' = owners \ {b} /\ UNCHANGED faults
       \/ owners = {} /\ UNCHANGED <<owners, faults>>
       \/ faults < MaxFaults /\ faults' = faults + 1 /\ UNCHANGED owners
    /\ UNCHANGED <<hypershift, org, creator, csOrg, secret, pods, seen, log>>

\* Mutant: a creator that was the new owner already is taken to be bound.
AddUnlessCreator ==
    /\ Step("bind", "register")
    /\ owners' = IF seen.creator = "new" THEN owners ELSE owners \cup {"new"}
    /\ UNCHANGED <<org, creator, csOrg, secret, pods, seen, log>>

\* The SDK reports a 409 as an error, so the case below it is never reached.
AddRoleBinding ==
    /\ Step("bind", IF "new" \in owners THEN "failed" ELSE "register")
    /\ owners' = owners \cup {"new"}
    /\ UNCHANGED <<org, creator, csOrg, secret, pods, seen, log>>

\* Mutant: the two organisations are swapped.
RegisterOld ==
    /\ Step("register", IF hypershift THEN "check" ELSE "agent") /\ csOrg' = Org("old")
    /\ UNCHANGED <<org, creator, owners, secret, pods, seen, log>>

RegisterCluster ==
    /\ Step("register", IF hypershift THEN "check" ELSE "agent") /\ csOrg' = Org("new")
    /\ UNCHANGED <<org, creator, owners, secret, pods, seen, log>>

RolloutAgent ==
    /\ Step("agent", "check") /\ pods' = [pods EXCEPT !["agent"] = target]
    /\ UNCHANGED <<ocm, secret, seen, log>>

\* validateTransfer, "Transfer complete" and the closing service log.
Complete ==
    /\ Step("check", IF csOrg = Org("new") THEN "done" ELSE "failed")
    /\ log' \in {log, IF csOrg = Org("new") THEN log \cup {"complete"} ELSE log}
    /\ UNCHANGED <<ocm, secret, pods, seen>>

\* A call fails or the SRE declines, which ends the run, or it is killed.
Fail ==
    /\ pc \notin Idle /\ faults < MaxFaults /\ faults' = faults + 1 /\ pc' = "failed"
    /\ UNCHANGED <<hypershift, ocm, secret, pods, seen, log>>

Run == \/ NotifyCustomer \/ UpdateManifestWork \/ DeleteSecret \/ CreateSecret \/ CreateSyncSet
       \/ SyncConfirmed \/ SyncTimedOut \/ DeleteSyncSet \/ RolloutTelemeter \/ VerifySecret
       \/ ValidateOldOwner \/ PatchOrg \/ PatchCreator \/ DeleteRoleBinding \/ AddRoleBinding
       \/ RegisterCluster \/ RolloutAgent \/ Complete
-----------------------------------------------------------------------------
\* The secret reaches a hosted cluster from its ManifestWork by itself, a classic
\* one while the SyncSet is there; ClusterSync drops the status of one that is gone.
Propagate ==
    /\ source # "none" /\ (hypershift \/ syncSet) /\ target' = source
    /\ success' = (success \/ syncSet)
    /\ UNCHANGED <<hypershift, ocm, source, syncSet, pods, pc, seen, log, faults>>

DropStatus ==
    /\ ~syncSet /\ success /\ success' = FALSE
    /\ UNCHANGED <<hypershift, ocm, source, syncSet, target, pods, pc, seen, log, faults>>

Next == Begin \/ Run \/ Fail \/ Propagate \/ DropStatus

Spec == Init /\ [][Next]_vars

\* A run takes its steps or fails, the SRE runs the command again, and what is
\* there to be copied is copied.  Waiting for a sync does not always time out.
Fairness == /\ WF_vars(Begin) /\ WF_vars(Run) /\ WF_vars(Propagate) /\ WF_vars(DropStatus)
            /\ SF_vars(SyncConfirmed) /\ SF_vars(VerifySecret /\ target = "new")

FairSpec == Spec /\ Fairness
-----------------------------------------------------------------------------
\* "Transfer complete": the subscription, CS and the bindings name the new owner,
\* and the cluster and its restarted pods have the new owner's secret.
CompleteMeansTransferred ==
    pc = "done" =>
        /\ org = Org("new") /\ creator = "new" /\ "new" \in owners /\ csOrg = Org("new")
        /\ target = "new"
        /\ ~hypershift => \A d \in DOMAIN pods : pods[d] = "new"

\* "org has to be patched before creator", and CS follows the subscription: in
\* every state, whatever failed before, a later record never runs ahead.
RecordsInOrder ==
    /\ creator = "new" => org = Org("new")
    /\ OrgChanged /\ csOrg = Org("new") => creator = "new"

\* As long as nothing fails the cluster is without an owner, and Hive without the
\* secret, only between a deletion and the call after it.
GapsAreShort ==
    faults = 0 => (owners = {} => pc = "bind") /\ (source = "none" => pc = "create")

\* "this could be because of a previously failed run": running the command again
\* until nothing fails completes the transfer of a hosted control plane.  A classic
\* one may find the secret, or not find the SyncSet's name free, and never pass.
HostedRerunsComplete == hypershift => <>(pc = "done")

\* "This is a dry run, nothing changed."
DryRunChangesNothing == DryRun => source = "old" /\ target = "old" /\ log = {}
=============================================================================
