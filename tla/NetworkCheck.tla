----------------------------- MODULE NetworkCheck -----------------------------
(***************************************************************************)
(* `osdctl network verify-egress`: flags and cluster decide whether probes *)
(* run as instances in subnets of the customer's VPC or as pods in the     *)
(* cluster, with what credentials, and which notice follows a failure.  An *)
(* instance in a public subnet always fails: such a subnet must be refused.*)
(***************************************************************************)
EXTENDS Naturals, FiniteSets

CONSTANTS Subnet

\* What OCM says of the cluster, or "none": no --cluster-id.  Own subnets ("byo") may
\* be public; those of a PrivateLink cluster count as private.
EgressKind == {"none", "tagged", "privatelink", "byo", "gcp", "hosted"}
Platform == {"classic", "hcp", "zeroegress", "gcp"}

VARIABLES
    npc,                                \* step; "clean" and "blocked" are the exits with a result
    egressKind, egressReady,            \* the cluster, and whether its state is ready
    podFlag, credsFlag, subnetFlag, groupFlag, allFlag, quietFlag, platformFlag,
    publicSubnet,                       \* those with a default route to an internet gateway
    podMode, platform, restAs,          \* what the run decides on, and whose credentials
    chosen, foundPrivate, probed,       \* subnets to probe, with routes read, and done
    egressBlocked, notice               \* of the last probe; what the customer was told

egressFlags == <<podFlag, credsFlag, subnetFlag, groupFlag, allFlag, quietFlag, platformFlag>>
egressWorld == <<egressKind, egressReady, egressFlags, publicSubnet>>
egressVars == <<npc, egressWorld, podMode, platform, restAs, chosen, foundPrivate, probed, egressBlocked, notice>>

EgressInit ==
    /\ npc = "input" /\ egressKind \in EgressKind /\ egressReady \in BOOLEAN
    /\ podFlag \in BOOLEAN /\ credsFlag \in {"none", "reason", "kubeconfig"} /\ subnetFlag \in SUBSET Subnet
    /\ groupFlag \in BOOLEAN
    /\ allFlag \in BOOLEAN
    /\ quietFlag \in BOOLEAN
    /\ platformFlag \in {"none"} \cup Platform
    /\ publicSubnet \in SUBSET Subnet
    /\ podMode = FALSE /\ platform = "none" /\ restAs = "none"
    /\ chosen = {} /\ foundPrivate = {} /\ probed = {} /\ egressBlocked = "no" /\ notice = "none"
-----------------------------------------------------------------------------
EgressStep(from, to) == npc = from /\ npc' = to

\* log.Fatal: a call failed.
EgressFails ==
    /\ npc \in {"input", "cluster", "pods", "cloud", "subnets", "routes", "group"} /\ npc' = "fatal"
    /\ UNCHANGED <<egressWorld, podMode, platform, restAs, chosen, foundPrivate, probed, egressBlocked, notice>>

\* Without --region a run of no cluster may be refused too: EgressFails.
ValidateInput ==
    /\ EgressStep("input", IF /\ podFlag
                              /\ \/ egressKind = "none" /\ platformFlag = "none"
                                 \/ egressKind # "none" /\ credsFlag = "none"
                           THEN "fatal" ELSE "cluster")
    /\ UNCHANGED <<egressWorld, podMode, platform, restAs, chosen, foundPrivate, probed, egressBlocked, notice>>

PlatformOf ==
    IF platformFlag # "none" THEN platformFlag
    ELSE IF egressKind = "none" THEN "none"
    ELSE IF egressKind \in {"hosted", "gcp"} THEN (IF egressKind = "gcp" THEN "gcp" ELSE "hcp")
    ELSE "classic"

FlagConflicts == subnetFlag # {} \/ groupFlag \/ allFlag

\* Mutant: hosted clusters are forced into pod mode without a look at the reason.
ForcePods ==
    /\ npc = "cluster" /\ platform' = PlatformOf
    /\ podMode' = (podFlag \/ platform' = "hcp")
    /\ npc' = IF platform' = "none" \/ (podMode' /\ FlagConflicts) THEN "fatal" ELSE IF podMode' THEN "pods" ELSE "cloud"
    /\ UNCHANGED <<egressWorld, restAs, chosen, foundPrivate, probed, egressBlocked, notice>>

\* A hosted control plane is only looked at from inside, which needs a reason, and the
\* flags are checked against the mode after it was forced.
ChooseMode ==
    /\ npc = "cluster" /\ platform' = PlatformOf
    /\ podMode' = (podFlag \/ platform' = "hcp")
    /\ npc' = IF \/ platform' = "none"
                 \/ ~podFlag /\ platform' = "hcp" /\ egressKind # "none" /\ credsFlag = "none"
                 \/ podMode' /\ FlagConflicts
              THEN "fatal" ELSE IF podMode' THEN "pods" ELSE "cloud"
    /\ UNCHANGED <<egressWorld, restAs, chosen, foundPrivate, probed, egressBlocked, notice>>

\* The flag first, then backplane, elevated if there is a reason, then the pod's own
\* service account or the default file.
RestConfig ==
    IF credsFlag = "kubeconfig" THEN "kubeconfig"
    ELSE IF egressKind = "none" THEN "local"
    ELSE IF credsFlag = "reason" THEN "elevated" ELSE "unelevated"

SetUpPods ==
    /\ EgressStep("pods", "probe") /\ restAs' = RestConfig
    /\ UNCHANGED <<egressWorld, podMode, platform, chosen, foundPrivate, probed, egressBlocked, notice>>

\* Backplane gives AWS credentials of a classic cluster; without a cluster, everything
\* comes from the flags.
SetUpCloud ==
    /\ npc = "cloud" /\ platform # "gcp" /\ egressKind # "gcp"
    /\ npc' = IF egressKind = "hosted" \/
                 (egressKind = "none" /\ (subnetFlag = {} \/ ~groupFlag \/ platformFlag = "none"))
              THEN "fatal" ELSE "subnets"
    /\ UNCHANGED <<egressWorld, podMode, platform, restAs, chosen, foundPrivate, probed, egressBlocked, notice>>

\* Both subnets that OCM knows, unless told which; whether public is not looked at.
SetUpGcp ==
    /\ EgressStep("cloud", "probe") /\ platform = "gcp" /\ (subnetFlag # {} \/ egressKind = "gcp")
    /\ chosen' = IF subnetFlag # {} THEN subnetFlag ELSE Subnet
    /\ UNCHANGED <<egressWorld, podMode, platform, restAs, foundPrivate, probed, egressBlocked, notice>>

\* Of those that are tagged, or listed in OCM, the first or all.
Offered == IF subnetFlag # {} THEN {subnetFlag}
           ELSE IF egressKind = "byo" THEN {}
           ELSE IF allFlag THEN SUBSET Subnet \ {{}} ELSE {{s} : s \in Subnet}

ListSubnets ==
    /\ \/ EgressStep("subnets", "routes") /\ chosen' \in Offered
       \/ EgressStep("subnets", "fatal") /\ Offered = {} /\ UNCHANGED chosen
    /\ UNCHANGED <<egressWorld, podMode, platform, restAs, foundPrivate, probed, egressBlocked, notice>>

\* The route table of each subnet in turn, or the main one of its VPC.
CheckRoutes ==
    /\ \E s \in chosen \ foundPrivate :
         IF s \in publicSubnet THEN EgressStep("routes", "fatal") /\ UNCHANGED foundPrivate
         ELSE /\ foundPrivate' = foundPrivate \cup {s}
              /\ EgressStep("routes", IF foundPrivate' = chosen THEN "group" ELSE "routes")
    /\ UNCHANGED <<egressWorld, podMode, platform, restAs, chosen, probed, egressBlocked, notice>>

FindGroup ==
    /\ EgressStep("group", "probe")
    /\ UNCHANGED <<egressWorld, podMode, platform, restAs, chosen, foundPrivate, probed, egressBlocked, notice>>

\* An instance per subnet, or one job; "error": the verifier failed, which goes on.
Target == IF podMode THEN {"cluster"} ELSE chosen
Probe ==
    /\ npc = "probe"
    /\ \E s \in Target \ probed :
         /\ probed' = probed \cup {s}
         /\ egressBlocked' \in {"monitoring", "other", "error"} \cup (IF s \in publicSubnet THEN {} ELSE {"no"})
         /\ npc' = IF egressBlocked' \in {"other", "monitoring"} THEN "notify"
                    ELSE IF probed' = Target THEN "clean" ELSE "probe"
    /\ UNCHANGED <<egressWorld, podMode, platform, restAs, chosen, foundPrivate, notice>>

\* Limited support if alerts no longer get out of a ready cluster, else a service log;
\* the SRE may decline, and the post may fail.  Then the process exits, at the first
\* subnet that is blocked.
Notify ==
    /\ EgressStep("notify", "blocked")
    /\ notice' \in (IF quietFlag \/ egressKind = "none" THEN {"none"}
                    ELSE {"none", IF egressBlocked = "monitoring" /\ egressReady THEN "limited support" ELSE "service log"})
    /\ UNCHANGED <<egressWorld, podMode, platform, restAs, chosen, foundPrivate, probed, egressBlocked>>
-----------------------------------------------------------------------------
EgressNext ==
    \/ EgressFails \/ ValidateInput \/ ChooseMode \/ SetUpPods \/ SetUpCloud \/ SetUpGcp
    \/ ListSubnets \/ CheckRoutes \/ FindGroup \/ Probe \/ Notify

EgressSpec == EgressInit /\ [][EgressNext]_egressVars
-----------------------------------------------------------------------------
\* Whatever the flags: a clean exit means that everything chosen was probed; no
\* customer is told of a failure that an instance in a public subnet makes up; pods in
\* a cluster are made with a reason or the SRE's own file, and a hosted control plane is
\* never probed from its owner's AWS account.
EgressVerdictHolds ==
    /\ npc = "clean" => probed = Target /\ probed # {} /\ egressBlocked \in {"no", "error"}
    /\ notice # "none" /\ platform # "gcp" /\ ~podMode => probed \cap publicSubnet = {}
    /\ npc \in {"probe", "notify", "clean", "blocked"} =>
        /\ podMode /\ egressKind # "none" => restAs \in {"kubeconfig", "elevated"}
        /\ egressKind = "hosted" /\ platform # "gcp" => podMode
=============================================================================
