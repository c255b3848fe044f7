---------------------------- MODULE SecretRotation ----------------------------
(***************************************************************************)
(* `osdctl account aws-creds rotate`: RotateSecret                         *)
(* (pkg/controller/rotatesecret.go), run once or again after a failure.    *)
(*                                                                         *)
(* An access key of an IAM user is created, written to the secrets on Hive *)
(* and, for the managed admin, pushed to the cluster by a SyncSet; then    *)
(* the operators' own credentials are deleted so that the cloud credential *)
(* operator makes them again (module CredentialRefresh).  A deferred       *)
(* function deletes the new key again unless the first secret was written. *)
(* IAM allows two keys per user: with both in use the SRE is shown a table *)
(* of the keys, as they were before the run was confirmed, and picks one   *)
(* to delete.  A dry run, or an STS account, changes nothing.              *)
(***************************************************************************)
EXTENDS Integers, FiniteSets

CONSTANTS
    MaxKeys,    \* bound: access keys ever created
    MaxFaults   \* bound: failed calls, expired polls and crashes

ASSUME RotationAssumption == MaxKeys \in Nat \ {0, 1} /\ MaxFaults \in Nat

User == {"osdManagedAdmin", "osdCcsAdmin"}
Admin == "osdManagedAdmin"
Ccs == "osdCcsAdmin"
Key == 1..MaxKeys      \* in order of creation
Empty == 0             \* a secret without a key in it
Missing == -1          \* no such secret

VARIABLES
    \* AWS
    keys,      \* the live access keys of each user
    issued,    \* number of keys ever created
    plainOnly, \* the suffixed managed-admin user does not exist
    \* Hive
    secret,    \* the key in each secret: "account" (<claim>-secret), "aws", "byoc"
    syncSet,   \* the SyncSet aws-sync exists
    synced,    \* ClusterSync has a FirstSuccessTime for a SyncSet of that name
    \* the managed cluster
    root,      \* the key in kube-system/aws-creds
    \* the process
    pc, user,
    want,      \* the users still to rotate
    newKey,    \* createAccessKeyOutput
    committed, \* rotationCommitted
    report,    \* keys and secrets as DiagnoseCredentials found them
    \* history
    used,      \* keys that were ever in a secret
    dirty,     \* a rollback failed, a process crashed, or an answer was lost
    faults

remote == <<keys, issued, secret, syncSet, synced, root>>
process == <<user, want, newKey, committed, report>>
vars == <<remote, plainOnly, pc, process, used, dirty, faults>>

SecretsOf(u) == IF u = Admin THEN {"account", "aws"} ELSE {"byoc"}
Pcs == {"idle", "preflight", "create", "choose", "createAgain", "list",
        "account", "aws", "byoc", "syncSet", "poll", "unsync", "refresh",
        "rollback", "done"}

\* The types, and that only a key that was created is ever committed
\* (RotateSecret and rotateCcsAdminCredentials each have a flag of their own).
TypeOK ==
    /\ keys \in [User -> SUBSET Key] /\ issued \in 0..MaxKeys /\ plainOnly \in BOOLEAN
    /\ secret \in [{"account", "aws", "byoc"} -> Key \cup {Empty, Missing}]
    /\ syncSet \in BOOLEAN /\ synced \in BOOLEAN /\ root \in Key
    /\ pc \in Pcs /\ user \in User /\ want \subseteq User
    /\ newKey \in Key \cup {Empty} /\ committed \in BOOLEAN
    /\ committed => newKey \in Key
    /\ report \in [keys : [User -> SUBSET Key],
                   secret : [{"account", "aws", "byoc"} -> Key \cup {Empty, Missing}]]
    /\ used \subseteq Key /\ dirty \in BOOLEAN /\ faults \in 0..MaxFaults

\* A CCS account in use; any of its secrets may have been lost.
Init ==
    /\ keys = [u \in User |-> IF u = Admin THEN {1} ELSE {2}] /\ issued = 2
    /\ plainOnly \in BOOLEAN
    /\ \E lost \in SUBSET {"account", "aws", "byoc"} :
          secret = [s \in {"account", "aws", "byoc"} |->
                        IF s \in lost THEN Missing ELSE IF s = "byoc" THEN 2 ELSE 1]
    /\ syncSet = FALSE /\ synced = FALSE /\ root = 1
    /\ pc = "idle" /\ user = Admin /\ want = {} /\ newKey = Empty /\ committed = FALSE
    /\ report = [keys |-> keys, secret |-> secret]
    /\ used = {1, 2} /\ dirty = FALSE /\ faults = 0
-----------------------------------------------------------------------------
GoTo(next) == pc' = next /\ UNCHANGED <<plainOnly, dirty, faults>>

\* The deferred functions: the key of an uncommitted rotation is deleted.
FailurePc == IF newKey # Empty /\ ~committed THEN "rollback" ELSE "idle"

\* runRotate: the diagnostic snapshot, then the confirmation.
Begin ==
    /\ pc \in {"idle", "done"}
    /\ \E w \in SUBSET User \ {{}} :
        /\ want' = w
        /\ user' = IF Admin \in w THEN Admin ELSE Ccs
    /\ report' = [keys |-> keys, secret |-> secret]
    /\ newKey' = Empty /\ committed' = FALSE
    /\ GoTo("preflight") /\ UNCHANGED <<remote, used>>

\* preflightCheckArtifacts: a missing secret is created empty, or the run ends.
Required == UNION {SecretsOf(u) : u \in want}

Preflight ==
    /\ pc = "preflight"
    /\ \/ /\ \E s \in Required : /\ secret[s] = Missing
                                 /\ secret' = [secret EXCEPT ![s] = Empty]
          /\ GoTo("preflight")
       \/ /\ \E s \in Required : secret[s] = Missing
          /\ GoTo("idle") /\ UNCHANGED secret
       \/ /\ \A s \in Required : secret[s] # Missing
          /\ GoTo("create") /\ UNCHANGED secret
    /\ UNCHANGED <<keys, issued, syncSet, synced, root, process, used>>

NewKey(next) ==
    /\ Cardinality(keys[user]) < 2 /\ issued < MaxKeys
    /\ issued' = issued + 1 /\ newKey' = issued'
    /\ keys' = [keys EXCEPT ![user] = @ \cup {issued'}]
    /\ GoTo(next)
    /\ UNCHANGED <<secret, syncSet, synced, root, user, want, committed, report, used>>

\* createAccessKeyWithRetry.
CreateKey == pc \in {"create", "createAgain"} /\ NewKey("list")

\* LimitExceeded asks the SRE, except for the plain user the first call fell
\* back to: there the error is returned.
LimitExceeded ==
    /\ pc = "create" /\ Cardinality(keys[user]) = 2
    /\ GoTo(IF (user = Admin /\ plainOnly) \/ report.keys[user] = {}
            THEN FailurePc ELSE "choose")
    /\ UNCHANGED <<remote, process, used>>

InUse(k) == root = k \/ \E s \in DOMAIN secret : secret[s] = k

\* The table offers every key; this SRE takes none that is in use.  (The one it
\* recommends may be: no Hive secret names it, but the cluster does.)
PickedKeys == {k \in report.keys[user] : ~InUse(k)}

DeleteOldKey ==
    /\ pc = "choose"
    /\ \E k \in PickedKeys : /\ k \in keys[user]
                             /\ keys' = [keys EXCEPT ![user] = @ \ {k}]
    /\ GoTo("createAgain")
    /\ UNCHANGED <<issued, secret, syncSet, synced, root, process, used>>

\* 'q'.
QuitChoice == pc = "choose" /\ GoTo(FailurePc) /\ UNCHANGED <<remote, process, used>>

ListKeys ==
    /\ pc = "list" /\ GoTo(IF user = Admin THEN "account" ELSE "byoc")
    /\ UNCHANGED <<remote, process, used>>

UpdateSecret(s) == /\ secret[s] # Missing
                   /\ secret' = [secret EXCEPT ![s] = newKey]
                   /\ used' = used \cup {newKey}
                   /\ UNCHANGED <<keys, issued, syncSet, synced, root>>

UpdateAccountSecret ==
    /\ pc = "account" /\ UpdateSecret("account") /\ GoTo("aws")
    /\ committed' = TRUE /\ UNCHANGED <<user, want, newKey, report>>

UpdateAwsSecret ==
    /\ pc = "aws" /\ UpdateSecret("aws") /\ GoTo("syncSet") /\ UNCHANGED process

\* rotateCcsAdminCredentials ends the command.
UpdateByocSecret ==
    /\ pc = "byoc" /\ UpdateSecret("byoc") /\ GoTo("done")
    /\ committed' = TRUE /\ want' = {} /\ UNCHANGED <<user, newKey, report>>

\* syncCredentialsToCluster: an existing SyncSet is updated, which changes
\* nothing of what ClusterSync says of it.
CreateSyncSet ==
    /\ pc = "syncSet" /\ syncSet' = TRUE /\ GoTo("poll")
    /\ UNCHANGED <<keys, issued, secret, synced, root, process, used>>

PollClusterSync ==
    /\ pc = "poll" /\ synced /\ GoTo("unsync")
    /\ UNCHANGED <<remote, process, used>>

DeleteSyncSet ==
    /\ pc = "unsync" /\ syncSet' = FALSE /\ GoTo("refresh")
    /\ UNCHANGED <<keys, issued, secret, synced, root, process, used>>

\* DeleteCredentialSecrets, or its omission without a cluster client; then the
\* second user, if asked for.
RefreshCredentials ==
    /\ pc = "refresh"
    /\ GoTo(IF Ccs \in want THEN "create" ELSE "done")
    /\ user' = (IF Ccs \in want THEN Ccs ELSE user)
    /\ want' = want \ {Admin}
    /\ newKey' = (IF Ccs \in want THEN Empty ELSE newKey)
    /\ committed' = (committed /\ Ccs \notin want)
    /\ UNCHANGED <<remote, report, used>>

\* Mutant: the rotation counts as committed once both secrets are written.
FailRollsBackLater ==
    /\ pc \notin {"idle", "rollback", "done"}
    /\ faults < MaxFaults /\ faults' = faults + 1
    /\ pc' = IF pc = "aws" THEN "rollback" ELSE FailurePc
    /\ UNCHANGED <<remote, plainOnly, process, used, dirty>>

\* A call fails, or SyncMaxRetries polls were in vain.
Fail ==
    /\ pc \notin {"idle", "rollback", "done"}
    /\ faults < MaxFaults /\ faults' = faults + 1
    /\ pc' = FailurePc
    /\ UNCHANGED <<remote, plainOnly, process, used, dirty>>

\* An Update that reports an error has nevertheless been made.
UpdateAnswerLost ==
    /\ pc \in {"account", "aws", "byoc"}
    /\ faults < MaxFaults /\ faults' = faults + 1
    /\ UpdateSecret(pc)
    /\ pc' = FailurePc /\ dirty' = TRUE
    /\ UNCHANGED <<plainOnly, process>>

\* CreateAccessKey reports an error, yet AWS has made the key.
CreateAnswerLost ==
    /\ pc \in {"create", "createAgain"}
    /\ Cardinality(keys[user]) < 2 /\ issued < MaxKeys
    /\ faults < MaxFaults /\ faults' = faults + 1
    /\ issued' = issued + 1 /\ keys' = [keys EXCEPT ![user] = @ \cup {issued'}]
    /\ pc' = FailurePc /\ dirty' = TRUE
    /\ UNCHANGED <<secret, syncSet, synced, root, plainOnly, process, used>>

Rollback ==
    /\ pc = "rollback"
    /\ keys' = [keys EXCEPT ![user] = @ \ {newKey}]
    /\ GoTo("idle")
    /\ UNCHANGED <<issued, secret, syncSet, synced, root, process, used>>

\* The process is killed, or the deletion of the rollback fails.
Crash ==
    /\ pc \notin {"idle", "done"}
    /\ faults < MaxFaults /\ faults' = faults + 1
    /\ pc' = "idle" /\ dirty' = (dirty \/ FailurePc = "rollback")
    /\ UNCHANGED <<remote, plainOnly, process, used>>

Run == \/ Begin \/ Preflight \/ CreateKey \/ LimitExceeded \/ DeleteOldKey
       \/ QuitChoice \/ ListKeys \/ UpdateAccountSecret \/ UpdateAwsSecret
       \/ UpdateByocSecret \/ CreateSyncSet \/ PollClusterSync \/ DeleteSyncSet
       \/ RefreshCredentials \/ Rollback
-----------------------------------------------------------------------------
(***************************************************************************)
(* Hive's ClusterSync controller: FirstSuccessTime is set the first time   *)
(* the SyncSet was applied, and the entry dropped some time after the      *)
(* SyncSet was deleted.                                                    *)
(***************************************************************************)
Hive == UNCHANGED <<keys, issued, secret, syncSet, plainOnly, pc, process, used, dirty, faults>>

ApplySyncSet ==
    /\ syncSet /\ secret["aws"] \in Key /\ (~synced \/ root # secret["aws"])
    /\ root' = secret["aws"] /\ synced' = TRUE /\ Hive

DropStatus == ~syncSet /\ synced /\ synced' = FALSE /\ UNCHANGED root /\ Hive

Next == \/ Run \/ Fail \/ UpdateAnswerLost \/ CreateAnswerLost \/ Crash
        \/ ApplySyncSet \/ DropStatus

Spec == Init /\ [][Next]_vars
-----------------------------------------------------------------------------
\* Every key a Hive secret names is a key AWS knows: no failure, rerun or
\* cleanup deletes a key after a secret was given it.  (A lost answer to the
\* update of a secret is the exception: the rollback then deletes its key.)
SecretsHoldLiveKeys ==
    ~dirty => \A s \in DOMAIN secret : secret[s] \in Key =>
                  \E u \in User : secret[s] \in keys[u]

\* The root credential of the cluster stays a live key as long as the SRE picks
\* no key in use, however far the last push of a new key has come.
RootStaysLive == root \in keys[Admin]

\* A run that ended leaves no key behind that was never in a secret; such keys
\* would fill the limit of two.
NoOrphanKey ==
    pc \in {"idle", "done"} /\ ~dirty => \A u \in User : keys[u] \subseteq used
=============================================================================
