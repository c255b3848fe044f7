--------------------------- MODULE CredentialRefresh ---------------------------
(***************************************************************************)
(* DeleteCredentialSecrets (pkg/controller/rotatesecret.go): the last step *)
(* of a rotation of the managed admin, or `aws-creds rotate                *)
(* --refresh-secrets` on its own.                                          *)
(*                                                                         *)
(* The secrets of the CredentialsRequests are deleted one after the other, *)
(* each only when the cloud credential operator (CCO) has made the last    *)
(* one again; when that takes more than a minute the SRE is asked.  The    *)
(* secret of request c is the number of the object now carrying its name.  *)
(***************************************************************************)
EXTENDS Integers, FiniteSets

CONSTANTS
    N,         \* number of CredentialsRequests, taken in the order listed
    MaxRuns    \* bound: runs of the command

CR == 1..N
Absent == 0

VARIABLES
    \* the managed cluster
    secret,      \* UID of the secret of each request
    doomed,      \* secrets that are deleted but still visible
    made,        \* UID of the last object of each name
    provisioned, \* status.provisioned; keeps its last value
    failing,     \* condition CredentialsProvisionFailure
    cco,         \* CCO is running
    \* the process
    pc, idx, oldUID,
    \* history of the run
    runs,
    first,       \* the secrets when the run began
    deleted,     \* requests whose secret the run deleted
    expired,     \* waits that ended without the secret
    agreed,      \* requests after whose timeout the SRE said to continue
    swapped      \* a secret was replaced between its reading and its deletion

cluster == <<secret, doomed, made, provisioned, failing>>
process == <<pc, idx, oldUID, runs, first, deleted, expired, agreed, swapped>>
vars == <<cluster, cco, process>>

Ended == {"idle", "done", "paused", "failed"}
UID == 0..(1 + 2 * MaxRuns)

\* The types; idx never leaves the list.
TypeOK ==
    /\ secret \in [CR -> UID] /\ doomed \subseteq CR /\ made \in [CR -> UID]
    /\ provisioned \in [CR -> BOOLEAN] /\ failing \in [CR -> BOOLEAN] /\ cco \in BOOLEAN
    /\ pc \in Ended \cup {"read", "delete", "wait", "waitAbsent", "ask"}
    /\ idx \in CR /\ oldUID \in UID /\ runs \in 0..MaxRuns /\ first \in [CR -> UID]
    /\ deleted \subseteq CR /\ expired \subseteq CR /\ agreed \subseteq CR
    /\ swapped \in BOOLEAN

Init ==
    /\ secret \in [CR -> {Absent, 1}] /\ doomed = {} /\ made = [c \in CR |-> 1]
    /\ provisioned \in [CR -> BOOLEAN] /\ failing = [c \in CR |-> FALSE]
    /\ \A c \in CR : secret[c] # Absent => provisioned[c]
    /\ cco \in BOOLEAN
    /\ pc = "idle" /\ idx = 1 /\ oldUID = Absent /\ runs = 0 /\ first = secret
    /\ deleted = {} /\ expired = {} /\ agreed = {} /\ swapped = FALSE
-----------------------------------------------------------------------------
Begin ==
    /\ pc \in Ended /\ runs < MaxRuns
    /\ runs' = runs + 1 /\ pc' = "read" /\ idx' = 1 /\ first' = secret
    /\ deleted' = {} /\ expired' = {} /\ agreed' = {} /\ swapped' = FALSE
    /\ UNCHANGED <<cluster, cco, oldUID>>

NextSecret == IF idx = N THEN pc' = "done" /\ UNCHANGED idx
              ELSE pc' = "read" /\ idx' = idx + 1

ReadSecret ==
    /\ pc = "read" /\ oldUID' = secret[idx]
    /\ pc' = IF secret[idx] = Absent THEN "waitAbsent" ELSE "delete"
    /\ UNCHANGED <<cluster, cco, idx, runs, first, deleted, expired, agreed, swapped>>

\* By name, without the UID; a secret that is gone counts as deleted.
DeleteSecret ==
    /\ pc = "delete" /\ pc' = "wait" /\ deleted' = deleted \cup {idx}
    /\ swapped' = (swapped \/ secret[idx] \notin {Absent, oldUID})
    /\ \/ secret' = [secret EXCEPT ![idx] = Absent] /\ doomed' = doomed \ {idx}
       \/ secret[idx] # Absent /\ doomed' = doomed \cup {idx} /\ UNCHANGED secret
    /\ UNCHANGED <<made, provisioned, failing, cco, idx, oldUID, runs, first, expired, agreed>>

\* Mutant: any secret of the name will do.
SeenByName == secret[idx] # Absent /\ provisioned[idx] /\ ~failing[idx]

\* What waitForCRSecret polls for; CCO never deletes a secret, so it does not
\* matter that the secret and the request are read one after the other.
Seen == /\ secret[idx] # Absent /\ (oldUID # Absent => secret[idx] # oldUID)
        /\ provisioned[idx] /\ ~failing[idx]

SecretRecreated ==
    /\ pc \in {"wait", "waitAbsent"} /\ Seen /\ NextSecret
    /\ UNCHANGED <<cluster, cco, oldUID, runs, first, deleted, expired, agreed, swapped>>

\* Mutant: the first secret, which validates CCO, is waited for without limit.
ExpireUnlessFirst ==
    /\ pc \in {"wait", "waitAbsent"} /\ expired' = expired \cup {idx} /\ idx # 1
    /\ IF pc = "wait" /\ idx < N THEN pc' = "ask" /\ UNCHANGED idx ELSE NextSecret
    /\ UNCHANGED <<cluster, cco, oldUID, runs, first, deleted, agreed, swapped>>

\* CRSecretPollTimeout; the SRE is asked if secrets remain, but not about one
\* that was absent from the start.
Expire ==
    /\ pc \in {"wait", "waitAbsent"} /\ expired' = expired \cup {idx}
    /\ IF pc = "wait" /\ idx < N THEN pc' = "ask" /\ UNCHANGED idx ELSE NextSecret
    /\ UNCHANGED <<cluster, cco, oldUID, runs, first, deleted, agreed, swapped>>

Answer ==
    /\ pc = "ask"
    /\ \/ NextSecret /\ agreed' = agreed \cup {idx}
       \/ pc' = "paused" /\ UNCHANGED <<idx, agreed>>
    /\ UNCHANGED <<cluster, cco, oldUID, runs, first, deleted, expired, swapped>>

\* The secret cannot be read or deleted, or the process is killed.
Fail ==
    /\ pc \notin Ended /\ pc' = "failed"
    /\ UNCHANGED <<cluster, cco, idx, oldUID, runs, first, deleted, expired, agreed, swapped>>

Run == Begin \/ ReadSecret \/ DeleteSecret \/ SecretRecreated \/ Expire \/ Answer
-----------------------------------------------------------------------------
(***************************************************************************)
(* The cluster.                                                            *)
(***************************************************************************)
RecreateSecret(c) ==
    /\ cco /\ secret[c] = Absent
    /\ made' = [made EXCEPT ![c] = @ + 1] /\ secret' = [secret EXCEPT ![c] = made'[c]]
    /\ provisioned' = [provisioned EXCEPT ![c] = TRUE]
    /\ failing' = [failing EXCEPT ![c] = FALSE]
    /\ UNCHANGED <<doomed, cco, process>>

ProvisionFails(c) ==
    /\ cco /\ secret[c] = Absent /\ ~failing[c]
    /\ failing' = [failing EXCEPT ![c] = TRUE]
    /\ UNCHANGED <<secret, doomed, made, provisioned, cco, process>>

Vanish(c) ==
    /\ c \in doomed /\ doomed' = doomed \ {c}
    /\ secret' = [secret EXCEPT ![c] = Absent]
    /\ UNCHANGED <<made, provisioned, failing, cco, process>>

CcoStopsOrStarts == cco' = ~cco /\ UNCHANGED <<cluster, process>>

Next == \/ Run \/ Fail \/ CcoStopsOrStarts
        \/ \E c \in CR : RecreateSecret(c) \/ ProvisionFails(c) \/ Vanish(c)

Spec == Init /\ [][Next]_vars

\* The command's own loop goes on: a wait ends at the latest when its deadline
\* has passed, and the SRE answers.  Nothing is assumed of CCO.
FairSpec == Spec /\ WF_vars(Run)
-----------------------------------------------------------------------------
\* The run deleted the secret and CCO has not made it again.
Gone(c) == c \in deleted /\ (secret[c] = Absent \/ c \in doomed)

\* "one at a time": of the secrets the run deleted only the last can be missing,
\* apart from those after whose timeout the SRE chose to go on.  (Exception: a
\* deletion that met another object than the one read.)
OneAtATime == pc \notin Ended /\ ~swapped => \A c \in CR : Gone(c) => c = idx \/ c \in agreed

\* A run in which no wait timed out has replaced every secret by a new object
\* (with the same exception).
AllRenewed ==
    pc = "done" /\ expired = {} /\ ~swapped => \A c \in CR : secret[c] \notin {Absent, first[c]}

\* A run ends, whatever CCO does.
RunEnds == []<>(pc \in Ended)
=============================================================================
