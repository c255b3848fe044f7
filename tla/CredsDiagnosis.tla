---------------------------- MODULE CredsDiagnosis ----------------------------
(***************************************************************************)
(* `osdctl account aws-creds snapshot` and the checks before `aws-creds    *)
(* rotate`: the secrets of Hive, the IAM keys, the root secret of the      *)
(* cluster and the permissions are read one after the other, while others  *)
(* rotate; the summary says whether all agree.                             *)
(***************************************************************************)
EXTENDS Integers, FiniteSets

CONSTANTS
    AdminKey, CcsKey,     \* keys of osdManagedAdmin and of osdCcsAdmin
    MaxKeyChanges         \* bound: changes by others

HiveSecret == {"account", "aws", "byoc"}
Unread == "unread"
NoSecret == "no secret"
NoKeyId == "no key id"
AnyKey == AdminKey \cup CcsKey
KeyId(v) == v \in AnyKey
Category == {"rotation", "credreq", "ccsadmin", "ccs-scp"}

VARIABLES
    liveKeys,     \* keys that exist
    hiveSecret,   \* the key in each secret
    rootKey,      \* the key in kube-system/aws-creds
    clusterUp,    \* the cluster can be reached
    isCCS,        \* it runs in the customer's account
    dpc,          \* the run: step
    managed, secretRead, keysListed, rootRead,   \* what it has read
    inSync, permitted, \* AllSecretsInSync, AllPermissionsOK
    keyChanges, changedSince  \* changes; whether one was made since the run began

world == <<liveKeys, hiveSecret, rootKey, clusterUp, isCCS>>
findings == <<managed, secretRead, keysListed, rootRead, inSync, permitted>>
diagnosisVars == <<world, dpc, findings, keyChanges, changedSince>>

DiagnosisInit ==
    /\ liveKeys \in SUBSET AnyKey /\ clusterUp \in BOOLEAN /\ isCCS \in BOOLEAN
    /\ \E k \in AdminKey, v \in AdminKey \cup {NoSecret, NoKeyId}, w \in CcsKey \cup {NoSecret} :
        hiveSecret = [account |-> k, aws |-> v, byoc |-> w]
    /\ rootKey \in AdminKey \cup {NoSecret}
    /\ dpc = "idle"
    /\ secretRead = [s \in HiveSecret |-> Unread] /\ keysListed = {} /\ rootRead = NoSecret /\ managed = FALSE
    /\ inSync = TRUE /\ permitted = TRUE /\ keyChanges = 0 /\ changedSince = FALSE
-----------------------------------------------------------------------------
DiagnosisStep(from, to) == dpc = from /\ dpc' = to

\* The cluster in OCM; then the SRE is asked whether it is the right one, with a
\* warning if no ticket or incident of the reason belongs to it.
Identify ==
    /\ \/ DiagnosisStep("idle", "resolve")
       \/ DiagnosisStep("idle", "cancelled")
    /\ secretRead' = [s \in HiveSecret |-> Unread] /\ keysListed' = {} /\ rootRead' = NoSecret /\ managed' = FALSE
    /\ inSync' = TRUE /\ permitted' = TRUE /\ changedSince' = FALSE
    /\ UNCHANGED <<world, keyChanges>>

\* Hive, the claim and the account, which must not be of STS; any may be missing.
ResolveAccount ==
    /\ \/ DiagnosisStep("resolve", "client") \/ DiagnosisStep("resolve", "failed")
    /\ UNCHANGED <<world, findings, keyChanges, changedSince>>

\* The backplane's credentials or, failing these, the local ones; a profile or the
\* environment only if the flags say so.  Then the chain of roles.
BuildClient ==
    /\ \E source \in {"backplane", "default chain", "profile", "environment"}, fails \in BOOLEAN :
        DiagnosisStep("client", IF ~fails THEN "connect" ELSE IF source = "backplane" THEN "client" ELSE "failed")
    /\ UNCHANGED <<world, findings, keyChanges, changedSince>>

\* Without the cluster the run goes on.
ConnectCluster ==
    /\ DiagnosisStep("connect", "account") /\ managed' = clusterUp
    /\ UNCHANGED <<world, secretRead, keysListed, rootRead, inSync, permitted, keyChanges, changedSince>>

\* A secret that cannot be read is a finding; one without a key id is none.
CheckSecret(s) ==
    /\ DiagnosisStep(s, CASE s = "account" -> "aws" [] s = "aws" /\ isCCS -> "byoc" [] OTHER -> "keys")
    /\ secretRead' = [secretRead EXCEPT ![s] = hiveSecret[s]]
    /\ inSync' = (inSync /\ hiveSecret[s] # NoSecret)
    /\ UNCHANGED <<world, managed, keysListed, rootRead, permitted, keyChanges, changedSince>>

\* Mutant: the keys of the first user are looked at only.
MatchAdminOnly(keys) ==
    \A s \in HiveSecret \ {"byoc"} : KeyId(secretRead[s]) => secretRead[s] \in keys

\* The account secret has a key of the admin, the byoc secret one of osdCcsAdmin,
\* and every other secret with a key one of either.
Match(keys) ==
    /\ KeyId(secretRead["account"]) => secretRead["account"] \in keys \cap AdminKey
    /\ KeyId(secretRead["byoc"]) => secretRead["byoc"] \in keys \cap CcsKey
    /\ \A s \in HiveSecret : KeyId(secretRead[s]) => secretRead[s] \in keys

DiagnoseIAMKeys ==
    /\ DiagnosisStep("keys", "root")
    /\ keysListed' = IF isCCS THEN liveKeys ELSE liveKeys \cap AdminKey
    /\ inSync' = (inSync /\ Match(keysListed'))
    /\ UNCHANGED <<world, managed, secretRead, rootRead, permitted, keyChanges, changedSince>>

\* Passed over without a cluster, which leaves it unknown.
ReadRoot ==
    /\ DiagnosisStep("root", "permissions")
    /\ rootRead' = IF managed /\ clusterUp THEN rootKey ELSE NoSecret
    /\ UNCHANGED <<world, managed, secretRead, keysListed, inSync, permitted, keyChanges, changedSince>>

RootInSync == KeyId(rootRead) /\ KeyId(secretRead["account"]) /\ rootRead = secretRead["account"]

\* The actions of credential requests are known from the cluster only.
Simulated ==
    {"rotation"} \cup (IF managed /\ clusterUp THEN {"credreq"} ELSE {})
                 \cup (IF isCCS THEN {"ccsadmin", "ccs-scp"} ELSE {})

Simulate ==
    /\ DiagnosisStep("permissions", "report")
    /\ \E denied \in SUBSET Category : permitted' = (denied \cap Simulated = {})
    /\ UNCHANGED <<world, managed, secretRead, keysListed, rootRead, inSync, keyChanges, changedSince>>

NoIssues == permitted /\ inSync /\ RootInSync

\* A snapshot ends here.  With a denied action a rotation needs --force and a YES.
Report ==
    /\ \/ DiagnosisStep("report", IF NoIssues THEN "clean" ELSE "issues")
       \/ permitted /\ DiagnosisStep("report", "rotate")
       \/ ~permitted /\ (DiagnosisStep("report", "sayYES") \/ DiagnosisStep("report", "refused"))
    /\ UNCHANGED <<world, findings, keyChanges, changedSince>>

SayYES ==
    /\ \/ DiagnosisStep("sayYES", "rotate") \/ DiagnosisStep("sayYES", "cancelled")
    /\ UNCHANGED <<world, findings, keyChanges, changedSince>>

Others ==
    /\ keyChanges < MaxKeyChanges /\ keyChanges' = keyChanges + 1 /\ changedSince' = TRUE
    /\ \/ /\ \E k \in AnyKey : liveKeys' = (liveKeys \ {k}) \cup ({k} \ liveKeys)
          /\ UNCHANGED <<hiveSecret, rootKey, clusterUp>>
       \/ \E s \in {"account", "aws"}, k \in AdminKey :
            hiveSecret' = [hiveSecret EXCEPT ![s] = k] /\ UNCHANGED <<liveKeys, rootKey, clusterUp>>
       \/ /\ \E k \in CcsKey : hiveSecret' = [hiveSecret EXCEPT !["byoc"] = k]
          /\ UNCHANGED <<liveKeys, rootKey, clusterUp>>
       \/ rootKey' = hiveSecret["account"] /\ UNCHANGED <<liveKeys, hiveSecret, clusterUp>>
       \/ clusterUp' = ~clusterUp /\ UNCHANGED <<liveKeys, hiveSecret, rootKey>>
    /\ UNCHANGED <<isCCS, dpc, findings>>

DiagnosisNext ==
    \/ Identify \/ ResolveAccount \/ BuildClient \/ ConnectCluster
    \/ (\E s \in HiveSecret : CheckSecret(s)) \/ DiagnoseIAMKeys \/ ReadRoot
    \/ Simulate \/ Report \/ SayYES \/ Others

DiagnosisSpec == DiagnosisInit /\ [][DiagnosisNext]_diagnosisVars
-----------------------------------------------------------------------------
\* "No issues found": unless somebody changed something meanwhile, the cluster's
\* root credential is the account secret's, its key exists, and so does the key of every other secret of Hive that has one.
CleanBillIsTrue ==
    dpc = "clean" /\ ~changedSince =>
        /\ rootKey = hiveSecret["account"] /\ rootKey \in liveKeys
        /\ \A s \in HiveSecret : (s = "byoc" /\ ~isCCS) \/ hiveSecret[s] \in liveKeys \cup {NoKeyId}
=============================================================================
