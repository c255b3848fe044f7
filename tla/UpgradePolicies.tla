--------------------------- MODULE UpgradePolicies ---------------------------
(***************************************************************************)
(* `osdctl hcp transition-to-eus` and `osdctl hcp force-upgrade`, for a    *)
(* list of hosted clusters, one after the other.  Both delete the          *)
(* recurring upgrade policies of a cluster: the first to change its        *)
(* channel, after which it makes them again, the second to schedule one    *)
(* manual upgrade.  Then the customer is told.  A failure is noted and the *)
(* next cluster taken.  SREs may run both side by side.                    *)
(***************************************************************************)
EXTENDS Integers, FiniteSets

CONSTANTS
    Upgrader,             \* SREs
    Hosted,               \* clusters
    Recurring,            \* what a recurring policy says
    MaxPolicyId,          \* bound: ids of policies
    MaxUpgradeFaults      \* bound: calls that fail

NoPolicy == 0

VARIABLES
    channel, scheduled,   \* of each cluster: channel group, whether an upgrade is scheduled
    recurring,            \* id of each of its recurring policies, NoPolicy if there is none
    lastPolicyId,
    upc, forced,          \* of each SRE: step; force-upgrade, or the transition
    clustersLeft, cluster,
    listed,               \* recurring policies that were listed, with their ids
    removed, again, shown,\* those deleted, made again, and printed for a restoration by hand
    verified,             \* the change of the channel has been verified
    customerTold,         \* what the customer is told: nothing, or which message
    upgradeFaults

ocmState == <<channel, scheduled, recurring, lastPolicyId>>
policyRun == <<listed, removed, again, shown, verified, customerTold>>
upgradeVars == <<ocmState, upc, forced, clustersLeft, cluster, policyRun, upgradeFaults>>

UpgradeInit ==
    /\ channel = [c \in Hosted |-> "stable"] /\ scheduled \in [Hosted -> BOOLEAN]
    /\ recurring \in [Hosted -> {[p \in Recurring |-> 1], [p \in Recurring |-> NoPolicy]}] /\ lastPolicyId = 1
    /\ upc = [u \in Upgrader |-> "idle"] /\ forced \in [Upgrader -> BOOLEAN]
    /\ clustersLeft = [u \in Upgrader |-> {}] /\ cluster = [u \in Upgrader |-> {}]
    /\ listed = [u \in Upgrader |-> <<>>] /\ removed = [u \in Upgrader |-> {}] /\ again = [u \in Upgrader |-> {}]
    /\ shown = [u \in Upgrader |-> {}]
    /\ verified = [u \in Upgrader |-> FALSE]
    /\ customerTold = [u \in Upgrader |-> "nothing"]
    /\ upgradeFaults = 0
-----------------------------------------------------------------------------
UpgradeStep(u, from, to) == upc[u] = from /\ upc' = [upc EXCEPT ![u] = to]
Now(u) == CHOOSE c \in Hosted : c \in cluster[u]
CallFails == upgradeFaults < MaxUpgradeFaults /\ upgradeFaults' = upgradeFaults + 1
CallWorks == UNCHANGED upgradeFaults

\* Of the clusters named, a transition takes those that are hosted, ready, on an even
\* y-stream and on the stable channel.  Then the SRE is asked.
GetClusters(u) ==
    /\ UpgradeStep(u, "idle", "next")
    /\ \E named \in SUBSET Hosted \ {{}} :
        clustersLeft' = [clustersLeft EXCEPT ![u] = IF forced[u] THEN named ELSE {c \in named : channel[c] = "stable"}]
    /\ UNCHANGED <<ocmState, forced, cluster, policyRun, upgradeFaults>>

NextCluster(u) ==
    /\ UpgradeStep(u, "next", "list")
    /\ \E c \in clustersLeft[u] :
        /\ cluster' = [cluster EXCEPT ![u] = {c}] /\ clustersLeft' = [clustersLeft EXCEPT ![u] = @ \ {c}]
    /\ listed' = [listed EXCEPT ![u] = <<>>]
    /\ removed' = [removed EXCEPT ![u] = {}]
    /\ again' = [again EXCEPT ![u] = {}]
    /\ shown' = [shown EXCEPT ![u] = {}]
    /\ verified' = [verified EXCEPT ![u] = FALSE]
    /\ customerTold' = [customerTold EXCEPT ![u] = "nothing"]
    /\ UNCHANGED <<ocmState, forced, upgradeFaults>>

\* A forced upgrade is refused if one is scheduled, or none leads to the y-stream.
ListPolicies(u) ==
    /\ upc[u] = "list"
    /\ LET found == [p \in {q \in Recurring : recurring[Now(u)][q] # NoPolicy} |-> recurring[Now(u)][p]] IN
        \/ CallFails /\ UpgradeStep(u, "list", "failed") /\ UNCHANGED listed
        \/ /\ CallWorks /\ listed' = [listed EXCEPT ![u] = found]
           /\ \/ forced[u] /\ UpgradeStep(u, "list", "failed")
              \/ ~(forced[u] /\ scheduled[Now(u)]) /\ UpgradeStep(u, "list", "delete")
    /\ UNCHANGED <<ocmState, forced, clustersLeft, cluster, removed, again, shown, verified, customerTold>>

\* By id, one after the other.  If one fails a transition restores those it deleted.
DeletePolicy(u) ==
    /\ upc[u] = "delete"
    /\ \E p \in DOMAIN listed[u] \ removed[u] :
        IF recurring[Now(u)][p] = listed[u][p]
        THEN /\ recurring' = [recurring EXCEPT ![Now(u)][p] = NoPolicy]
             /\ removed' = [removed EXCEPT ![u] = @ \cup {p}] /\ UpgradeStep(u, "delete", "delete") /\ CallWorks
        ELSE /\ UpgradeStep(u, "delete", IF forced[u] \/ removed[u] = {} THEN "failed" ELSE "restoreAfterFailure")
             /\ CallWorks /\ UNCHANGED <<recurring, removed>>
    /\ UNCHANGED <<channel, scheduled, lastPolicyId, forced, clustersLeft, cluster, listed, again,
                   shown, verified, customerTold>>

DeletionFails(u) ==
    /\ DOMAIN listed[u] # removed[u] /\ CallFails
    /\ UpgradeStep(u, "delete", IF forced[u] \/ removed[u] = {} THEN "failed" ELSE "restoreAfterFailure")
    /\ UNCHANGED <<ocmState, forced, clustersLeft, cluster, policyRun>>

ScheduleUpgrade(u) ==
    /\ upc[u] = "delete" /\ forced[u] /\ DOMAIN listed[u] = removed[u]
    /\ \/ CallWorks /\ UpgradeStep(u, "delete", "done") /\ scheduled' = [scheduled EXCEPT ![Now(u)] = TRUE]
       \/ CallFails /\ UpgradeStep(u, "delete", "failed") /\ UNCHANGED scheduled
    /\ UNCHANGED <<channel, recurring, lastPolicyId, forced, clustersLeft, cluster, policyRun>>

\* The change, and ten looks at the channel.
Changed(u) == IF DOMAIN listed[u] = {} THEN "done" ELSE "restore"
NotChanged(u) == IF removed[u] = {} THEN "failed" ELSE "restoreAfterFailure"
ChangeChannel(u) ==
    /\ upc[u] = "delete" /\ ~forced[u] /\ DOMAIN listed[u] = removed[u]
    /\ \/ CallWorks /\ UpgradeStep(u, "delete", "verify") /\ channel' = [channel EXCEPT ![Now(u)] = "eus"]
       \/ CallFails /\ UpgradeStep(u, "delete", NotChanged(u)) /\ UNCHANGED channel
    /\ UNCHANGED <<scheduled, recurring, lastPolicyId, forced, clustersLeft, cluster, policyRun>>

VerifyChannel(u) ==
    /\ upc[u] = "verify"
    /\ \/ /\ CallWorks /\ channel[Now(u)] = "eus" /\ UpgradeStep(u, "verify", Changed(u))
          /\ verified' = [verified EXCEPT ![u] = TRUE]
       \/ CallFails /\ UpgradeStep(u, "verify", NotChanged(u)) /\ UNCHANGED verified
    /\ UNCHANGED <<ocmState, forced, clustersLeft, cluster, listed, removed, again, shown, customerTold>>

\* All that were listed, or those deleted if a deletion failed.
ToRestore(u) == removed[u] \ again[u]
RestorePolicy(u) ==
    /\ upc[u] \in {"restore", "restoreAfterFailure"} /\ CallWorks /\ lastPolicyId < MaxPolicyId
    /\ \E p \in ToRestore(u) :
        /\ recurring' = [recurring EXCEPT ![Now(u)][p] = lastPolicyId + 1]
        /\ again' = [again EXCEPT ![u] = @ \cup {p}]
    /\ lastPolicyId' = lastPolicyId + 1 /\ UpgradeStep(u, upc[u], upc[u])
    /\ UNCHANGED <<channel, scheduled, forced, clustersLeft, cluster, listed, removed, shown, verified, customerTold>>

\* Those made again are deleted; only after a failure is what is to be restored printed.
\* Mutant: nothing is printed.
NotRestoredSilently(u) ==
    /\ upc[u] \in {"restore", "restoreAfterFailure"}
    /\ ToRestore(u) # {}
    /\ CallFails
    /\ UpgradeStep(u, upc[u], "failed")
    /\ recurring' = [recurring EXCEPT ![Now(u)] = [p \in Recurring |-> IF p \in again[u] THEN NoPolicy ELSE @[p]]]
    /\ again' = [again EXCEPT ![u] = {}]
    /\ UNCHANGED <<channel, scheduled, lastPolicyId, forced, clustersLeft, cluster, listed,
                   removed, shown, verified, customerTold>>

PoliciesNotRestored(u) ==
    /\ upc[u] \in {"restore", "restoreAfterFailure"}
    /\ ToRestore(u) # {}
    /\ CallFails
    /\ UpgradeStep(u, upc[u], "failed")
    /\ recurring' = [recurring EXCEPT ![Now(u)] = [p \in Recurring |-> IF p \in again[u] THEN NoPolicy ELSE @[p]]]
    /\ again' = [again EXCEPT ![u] = {}]
    /\ shown' = [shown EXCEPT ![u] = IF upc[u] = "restoreAfterFailure" THEN removed[u] ELSE {}]
    /\ UNCHANGED <<channel, scheduled, lastPolicyId, forced, clustersLeft, cluster, listed,
                   removed, verified, customerTold>>

Restored(u) ==
    /\ ToRestore(u) = {}
    /\ UpgradeStep(u, "restore", "done") \/ UpgradeStep(u, "restoreAfterFailure", "failed")
    /\ UNCHANGED <<ocmState, forced, clustersLeft, cluster, policyRun, upgradeFaults>>

\* If the SRE agrees.  A failed transition is told of only when policies were restored
\* or printed.
TellCustomer(u) ==
    /\ UpgradeStep(u, "done", "next") \/ UpgradeStep(u, "failed", "next")
    /\ \E yes \in BOOLEAN : customerTold' = [customerTold EXCEPT ![u] =
        IF ~yes THEN "nothing"
        ELSE IF upc[u] = "done" THEN (IF forced[u] THEN "upgrade scheduled" ELSE "success")
        ELSE IF ~forced[u] /\ again[u] \cup shown[u] # {} THEN "attempted" ELSE "nothing"]
    /\ UNCHANGED <<ocmState, forced, clustersLeft, cluster, listed, removed, again, shown, verified, upgradeFaults>>

UpgradeRun(u) ==
    \/ GetClusters(u) \/ NextCluster(u) \/ ListPolicies(u) \/ DeletePolicy(u) \/ DeletionFails(u) \/ ScheduleUpgrade(u)
    \/ ChangeChannel(u) \/ VerifyChannel(u) \/ RestorePolicy(u)
    \/ PoliciesNotRestored(u) \/ Restored(u) \/ TellCustomer(u)

UpgradeNext == \E u \in Upgrader : UpgradeRun(u)

UpgradeSpec == UpgradeInit /\ [][UpgradeNext]_upgradeVars
-----------------------------------------------------------------------------
Lost(u) == removed[u] \ (again[u] \cup shown[u])

\* A transition that does not come off leaves every recurring policy it deleted in
\* force or printed for the SRE; one that tells the customer of success has them all
\* in force, and a customer is told of a forced upgrade only if it is scheduled.
PoliciesAccountedFor ==
    \A u \in Upgrader :
        /\ upc[u] = "failed" /\ ~forced[u] /\ ~verified[u] => Lost(u) = {}
        /\ customerTold[u] = "success" => channel[Now(u)] = "eus" /\ removed[u] \subseteq again[u]
        /\ customerTold[u] = "upgrade scheduled" => scheduled[Now(u)]
=============================================================================
