--------------------------- MODULE PullSecretUpdate ---------------------------
(***************************************************************************)
(* The pull secret of a classic cluster: `osdctl cluster pull-secret       *)
(* update` (pkg/controller/pullsecret.go, cmd/cluster/                     *)
(* replacepullsecret.go) and the part of `cluster transfer-owner` that     *)
(* replaces the secret (updatePullSecret, cmd/cluster/transferowner.go),   *)
(* run by several SREs at a time.                                          *)
(*                                                                         *)
(* Both write the secret "pull" on Hive and create a SyncSet that makes    *)
(* Hive copy it to the cluster, wait until ClusterSync reports success and *)
(* delete the SyncSet.  An update merges the owner's registries into the   *)
(* secret that is there; a transfer deletes it and creates another.  A     *)
(* process here is one run; what it writes for a registry is its own name. *)
(***************************************************************************)
EXTENDS Integers, FiniteSets

CONSTANTS
    Updates, Transfers,  \* the runs that may be
    Together,            \* bound: how many of them there are
    Covers,              \* the registries each run's OCM token has an auth for
    Coarse,              \* timestamps have seconds: two events may share one
    MaxTime, MaxFaults   \* bounds: seconds that pass; failed calls and crashes

Run == Updates \cup Transfers
Registry == {"cloud", "quay", "customer"}

ASSUME PullSecretAssumption ==
    /\ Updates \cap Transfers = {} /\ {"old", "absent", "no secret"} \cap Run = {}
    /\ Covers \in [Run -> SUBSET Registry] /\ Coarse \in BOOLEAN
    /\ MaxTime \in Nat /\ Together \in Nat /\ MaxFaults \in Nat

Auths == [Registry -> Run \cup {"old", "absent"}]
Missing == [r \in Registry |-> "no secret"]
Never == -1
Name == {"update", "replacement"}    \* the two SyncSets: SyncSetName, "pull-secret-replacement"

VARIABLES
    \* Hive
    pull,      \* the secret: whose auth it has for each registry
    syncSet,   \* creation time of each SyncSet
    success,   \* FirstSuccessTime of each in ClusterSync
    now,
    \* the cluster
    target,    \* openshift-config/pull-secret
    \* the runs
    pc,
    payload,   \* what the run will write
    base,      \* the secret as last read
    fresh,     \* runs whose read is still the latest version
    found,     \* the SyncSet a run has come across
    diffs,     \* AuthDiffCount
    result,    \* the closing line
    \* history
    wrote,     \* runs that have written the secret
    arrived,   \* runs after whose write Hive has copied the secret
    seen,      \* the cluster's secret when the result was printed
    faults

hive == <<pull, syncSet, success, now, target>>
local == <<payload, base, found, diffs, result, seen>>
vars == <<hive, pc, local, fresh, wrote, arrived, faults>>

Ended == {"done", "failed"}
Pc == Ended \cup
    {"begin", "check", "found", "check2", "found2", "read", "reread", "write", "create", "delete",
     "sync", "poll", "cleanup", "giveUp", "note", "verify", "retry"}
Time == {Never} \cup 0..MaxTime

TypeOK ==
    /\ pull \in Auths \cup {Missing} /\ target \in Auths
    /\ syncSet \in [Name -> Time] /\ success \in [Name -> Time] /\ now \in 0..MaxTime
    /\ pc \in [Run -> Pc]
    /\ payload \in [Run -> Auths] /\ base \in [Run -> Auths \cup {Missing}]
    /\ found \in [Run -> Time] /\ diffs \in [Run -> Nat]
    /\ result \in [Run -> {"none", "match", "differ", "failed", "note"}]
    /\ fresh \subseteq Run /\ wrote \subseteq Run /\ arrived \subseteq Run
    /\ arrived \subseteq wrote /\ seen \in [Run -> Auths] /\ faults \in 0..MaxFaults

Token(p) == [r \in Registry |-> IF r \in Covers[p] THEN p ELSE "absent"]

\* The secret on Hive may be missing; the cluster has auths of its customer.
Init ==
    /\ target = [r \in Registry |-> IF r = "quay" THEN "absent" ELSE "old"]
    /\ pull \in {Missing, [r \in Registry |-> IF r = "cloud" THEN "old" ELSE "absent"]}
    /\ syncSet = [n \in Name |-> Never] /\ success = syncSet /\ now = 0
    /\ \E taken \in SUBSET Run :
          /\ Cardinality(taken) <= Together
          /\ pc = [p \in Run |-> IF p \notin taken THEN "failed"
                               ELSE IF p \in Updates THEN "begin" ELSE "delete"]
    /\ payload = [p \in Run |-> Token(p)] /\ base = [p \in Run |-> Missing]
    /\ found = [p \in Run |-> Never] /\ diffs = [p \in Run |-> 0]
    /\ result = [p \in Run |-> "none"] /\ seen = [p \in Run |-> target]
    /\ fresh = {} /\ wrote = {} /\ arrived = {} /\ faults = 0
-----------------------------------------------------------------------------
GoTo(p, l) == pc' = [pc EXCEPT ![p] = l] /\ UNCHANGED faults

\* MergePullSecretAuths: an existing auth is replaced, never removed.
Merge(old, new) == [r \in Registry |-> IF new[r] = "absent" THEN old[r] ELSE new[r]]

\* A write of the secret makes every read of it stale.
Write(p, secret) == /\ pull' = secret /\ fresh' = {} /\ wrote' = wrote \cup {p}
                    /\ UNCHANGED <<syncSet, success, now, target, arrived>>

\* run, step 3: without a secret on Hive the cluster's may be taken as the base.
BeginUpdate(p) ==
    /\ pc[p] = "begin" /\ GoTo(p, "check")
    /\ \/ pull = Missing /\ payload' = [payload EXCEPT ![p] = Merge(target, @)]
       \/ UNCHANGED payload
    /\ UNCHANGED <<hive, base, found, diffs, result, seen, fresh, wrote, arrived>>

\* CheckExistingSyncSets looks for one name, then for the other.
Looking(p) == IF pc[p] \in {"check", "found"} THEN "update" ELSE "replacement"
AfterLook(p) == IF Looking(p) = "update" THEN "check2" ELSE "read"

LookForSyncSet(p) ==
    /\ pc[p] \in {"check", "check2"}
    /\ found' = [found EXCEPT ![p] = syncSet[Looking(p)]]
    /\ GoTo(p, IF syncSet[Looking(p)] = Never THEN AfterLook(p)
               ELSE IF pc[p] = "check" THEN "found" ELSE "found2")
    /\ UNCHANGED <<hive, payload, base, diffs, result, seen, fresh, wrote, arrived>>

\* The SRE declines, or has it deleted, by name.
DeclineDeletion(p) ==
    /\ pc[p] \in {"found", "found2"} /\ GoTo(p, "note")
    /\ UNCHANGED <<hive, local, fresh, wrote, arrived>>

DeleteFoundSyncSet(p) ==
    /\ pc[p] \in {"found", "found2"}
    /\ GoTo(p, IF syncSet[Looking(p)] = Never THEN "note" ELSE AfterLook(p))
    /\ syncSet' = [syncSet EXCEPT ![Looking(p)] = Never]
    /\ UNCHANGED <<pull, success, now, target, local, fresh, wrote, arrived>>

\* UpdateHivePullSecretSSS.
ReadSecret(p) ==
    /\ pc[p] = "read" /\ GoTo(p, IF pull = Missing THEN "create" ELSE "reread")
    /\ UNCHANGED <<hive, local, fresh, wrote, arrived>>

RereadSecret(p) ==
    /\ pc[p] = "reread" /\ GoTo(p, IF pull = Missing THEN "note" ELSE "write")
    /\ base' = [base EXCEPT ![p] = pull] /\ fresh' = fresh \cup {p}
    /\ UNCHANGED <<hive, payload, found, diffs, result, seen, wrote, arrived>>

CreateSecret(p) ==
    /\ pc[p] = "create"
    /\ IF pull = Missing
         THEN Write(p, payload[p]) /\ GoTo(p, "sync")
         ELSE /\ GoTo(p, IF p \in Updates THEN "note" ELSE "failed")
              /\ UNCHANGED <<hive, fresh, wrote, arrived>>
    /\ UNCHANGED local

\* Mutant: an update that ignores the version it read.
BlindWrite(p) ==
    /\ pc[p] = "write" /\ Write(p, Merge(base[p], payload[p])) /\ GoTo(p, "sync")
    /\ UNCHANGED local

\* RetryOnConflict reads again.
WriteSecret(p) ==
    /\ pc[p] = "write"
    /\ IF p \in fresh
         THEN Write(p, Merge(base[p], payload[p])) /\ GoTo(p, "sync")
         ELSE GoTo(p, "reread") /\ UNCHANGED <<hive, fresh, wrote, arrived>>
    /\ UNCHANGED local

Mine(p) == IF p \in Updates THEN "update" ELSE "replacement"
Tick == IF Coarse THEN {now, now + 1} ELSE {now + 1}
Failing(p) == IF p \in Updates THEN "note" ELSE "failed"

\* syncPullSecretViaHive and awaitPullSecretSyncSet; a SyncSet of the name that
\* is there fails the run.
CreateSyncSet(p) ==
    /\ pc[p] = "sync"
    /\ IF syncSet[Mine(p)] = Never
         THEN /\ now' \in Tick \cap Time
              /\ syncSet' = [syncSet EXCEPT ![Mine(p)] = now']
              /\ found' = [found EXCEPT ![p] = now'] /\ GoTo(p, "poll")
         ELSE GoTo(p, Failing(p)) /\ UNCHANGED <<now, syncSet, found>>
    /\ UNCHANGED <<pull, success, target, payload, base, diffs, result, seen, fresh, wrote, arrived>>

\* Mutant: any success of the name will do.
AnySuccess(p) == success[Mine(p)] # Never

\* An update wants a success not before its SyncSet; a transfer any.
Confirmed(p) == /\ success[Mine(p)] # Never
                /\ p \in Updates => success[Mine(p)] >= found[p]

PollConfirmed(p) ==
    /\ pc[p] = "poll" /\ Confirmed(p) /\ GoTo(p, "cleanup")
    /\ UNCHANGED <<hive, local, fresh, wrote, arrived>>

\* The SRE stops waiting; a transfer's attempts end.
PollGivenUp(p) ==
    /\ pc[p] = "poll" /\ GoTo(p, IF p \in Updates THEN "giveUp" ELSE "failed")
    /\ UNCHANGED <<hive, local, fresh, wrote, arrived>>

\* By name; that it is gone only matters to a transfer.
CleanUp(p) ==
    /\ pc[p] \in {"cleanup", "giveUp"} /\ syncSet' = [syncSet EXCEPT ![Mine(p)] = Never]
    /\ GoTo(p, IF pc[p] = "giveUp" THEN "note" ELSE IF p \in Updates THEN "verify"
               ELSE IF syncSet[Mine(p)] = Never THEN "failed" ELSE "done")
    /\ UNCHANGED <<pull, success, now, target, local, fresh, wrote, arrived>>

\* The note printed when UpdateHivePullSecretSSS returns an error.
ReportError(p) ==
    /\ pc[p] = "note" /\ GoTo(p, "failed") /\ result' = [result EXCEPT ![p] = "note"]
    /\ UNCHANGED <<hive, payload, base, found, diffs, seen, fresh, wrote, arrived>>

Differing(p) == Cardinality({r \in Covers[p] : target[r] # p})
Report(p) ==
    result' = [result EXCEPT ![p] = IF diffs'[p] = 0 THEN "match" ELSE "differ"]

\* Verification: the auths that differ are counted; a cluster that cannot be
\* read has none.  Unless all match the SRE may have it tried again.
Verify(p) ==
    /\ pc[p] = "verify" /\ seen' = [seen EXCEPT ![p] = target]
    /\ \E readable \in BOOLEAN :
         /\ diffs' = IF readable THEN [diffs EXCEPT ![p] = Differing(p)] ELSE diffs
         /\ \/ GoTo(p, "done") /\ Report(p)
            \/ (readable => Differing(p) > 0) /\ GoTo(p, "retry") /\ UNCHANGED result
    /\ UNCHANGED <<hive, payload, base, found, fresh, wrote, arrived>>

\* Each of the six attempts starts at 0 and counts nothing.
RetryVerification(p) ==
    /\ pc[p] = "retry" /\ seen' = [seen EXCEPT ![p] = target]
    /\ diffs' = [diffs EXCEPT ![p] = 0]
    /\ GoTo(p, "done") /\ Report(p)
    /\ UNCHANGED <<hive, payload, base, found, fresh, wrote, arrived>>

\* updatePullSecret of transfer-owner.
DeleteSecret(p) ==
    /\ pc[p] = "delete" /\ pull' = Missing /\ fresh' = {}
    /\ GoTo(p, IF pull = Missing THEN "failed" ELSE "create")
    /\ UNCHANGED <<syncSet, success, now, target, local, wrote, arrived>>

\* The process is killed, or a call fails before it took effect: that ends the
\* run, but an update prints its note and goes on if its SyncSet cannot be
\* deleted.
AfterError(p) ==
    IF p \in Transfers \/ pc[p] \in {"begin", "note", "verify", "retry"} THEN "failed"
    ELSE IF pc[p] = "cleanup" THEN "verify" ELSE "note"

Fail(p) ==
    /\ pc[p] \notin Ended /\ faults < MaxFaults /\ faults' = faults + 1
    /\ pc' \in {[pc EXCEPT ![p] = "failed"], [pc EXCEPT ![p] = AfterError(p)]}
    /\ UNCHANGED <<hive, local, fresh, wrote, arrived>>

Step(p) == \/ BeginUpdate(p) \/ LookForSyncSet(p) \/ DeclineDeletion(p)
           \/ DeleteFoundSyncSet(p) \/ ReadSecret(p) \/ RereadSecret(p)
           \/ CreateSecret(p) \/ WriteSecret(p) \/ CreateSyncSet(p)
           \/ PollConfirmed(p) \/ PollGivenUp(p) \/ CleanUp(p) \/ ReportError(p)
           \/ Verify(p) \/ RetryVerification(p) \/ DeleteSecret(p)
-----------------------------------------------------------------------------
(***************************************************************************)
(* Hive.  FirstSuccessTime is set the first time a SyncSet of the name was *)
(* applied, and kept until ClusterSync drops the name.                     *)
(***************************************************************************)
ApplySyncSet(n) ==
    /\ syncSet[n] # Never /\ pull # Missing /\ (success[n] = Never \/ target # pull)
    /\ now' \in Tick \cap Time /\ target' = pull /\ arrived' = wrote
    /\ success' = [success EXCEPT ![n] = IF @ = Never THEN now' ELSE @]
    /\ UNCHANGED <<pull, syncSet, pc, local, fresh, wrote, faults>>

DropStatus(n) ==
    /\ syncSet[n] = Never /\ success[n] # Never
    /\ success' = [success EXCEPT ![n] = Never]
    /\ UNCHANGED <<pull, syncSet, now, target, pc, local, fresh, wrote, arrived, faults>>

Next == \/ \E p \in Run : Step(p) \/ Fail(p)
        \/ \E n \in Name : ApplySyncSet(n) \/ DropStatus(n)

Spec == Init /\ [][Next]_vars
-----------------------------------------------------------------------------
\* MergePullSecretAuths, "This never removes auths": however many updates are at
\* work, no registry disappears from the secret on Hive unless a transfer deletes it.
AuthsStay(r) == pull[r] # "absent" => pull' # Missing /\ pull'[r] # "absent"
Deleting(p) == pc[p] = "delete" /\ pc'[p] = "create"
HiveKeepsAuths ==
    [][pull = Missing \/ (\A r \in Registry : AuthsStay(r)) \/ \E p \in Transfers : Deleting(p)]_pull

\* An update whose sync was confirmed has reached the cluster: Hive has copied
\* the secret after the update wrote it.
ConfirmedReachedCluster ==
    \A p \in Updates : pc[p] \in {"cleanup", "verify", "retry", "done"} => p \in arrived

\* When all updates have ended, and nothing failed or was killed, no SyncSet of
\* theirs is left to push the secret at a later time.
NoSyncSetLeft ==
    (\A p \in Updates : pc[p] \in Ended) /\ faults = 0 => syncSet["update"] = Never
=============================================================================
