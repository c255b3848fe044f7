---------------------------- MODULE PullSecretCheck ----------------------------
(***************************************************************************)
(* The commands that compare a cluster's pull secret with what OCM has for *)
(* its owner: `cluster validate-pull-secret`, `cluster pull-secret         *)
(* validate`, `cluster pull-secret audit` of all clusters of an owner, and *)
(* the comparison before `cluster pull-secret update`.  OCM and the        *)
(* secrets are read one after the other and may change in between; a read  *)
(* that fails may leave the SRE the choice to go on without it.            *)
(***************************************************************************)
EXTENDS Integers, FiniteSets

CONSTANTS
    AuthRegistry, Cloud,  \* registries; the one that has the owner's email
    OwnedCluster,         \* clusters of the owner
    MaxSecretEdits        \* bound: changes by others

ASSUME CheckAssumption == Cloud \in AuthRegistry

NoAuth == [token |-> 0, email |-> 0]
Auth == [token : 1..2, email : {1}] \cup {[token |-> 1, email |-> 2], NoAuth}
PSCommand == {"validate", "validate-ext", "audit", "compare"}

VARIABLES
    ocmAuth,              \* what OCM has now: the owner's token and email
    tokenAuths, credAuths,\* registries of the access token, and of registry credentials
    targetSecret, hivePull, \* each cluster's secret; the one on Hive
    owned,                \* active clusters
    chpc, psCommand, skipLogs,
    atHand, unchecked, checkedWell, \* audit: cluster at hand, those left, those that match
    ocmRead, targetRead, hiveRead, \* what was read
    tokenRows, credRows,  \* the result of either comparison: not run, pass, fail
    wrongAuths, offered,  \* sections recorded; what the customer was to be told
    uncompared,           \* credentials that could not be used
    edits, editedSince

ocmSide == <<ocmAuth, tokenAuths, credAuths, owned>>
secrets == <<targetSecret, hivePull>>
reads == <<atHand, ocmRead, targetRead, hiveRead>>
rows == <<tokenRows, credRows, wrongAuths, uncompared>>
audited == <<unchecked, checkedWell>>
checkVars == <<ocmSide, secrets, chpc, psCommand, skipLogs, reads, rows, audited, offered, edits, editedSince>>

CheckInit ==
    /\ ocmAuth = [token |-> 1, email |-> 1]
    /\ tokenAuths \in {AuthRegistry, {Cloud}} /\ credAuths \in {{}, AuthRegistry}
    /\ \E c \in OwnedCluster, s \in [AuthRegistry -> Auth] :
        /\ targetSecret = [d \in OwnedCluster |-> IF d = c THEN s ELSE [r \in AuthRegistry |-> ocmAuth]]
        /\ psCommand \in PSCommand /\ skipLogs \in (IF psCommand = "validate-ext" THEN BOOLEAN ELSE {FALSE})
        /\ hivePull \in (IF psCommand = "compare" THEN {s, [r \in AuthRegistry |-> ocmAuth]} ELSE {s}) /\ atHand = c
    /\ owned = OwnedCluster
    /\ chpc = "ocm" /\ unchecked = {} /\ checkedWell = {}
    /\ ocmRead = NoAuth /\ targetRead = [r \in AuthRegistry |-> NoAuth] /\ hiveRead = [r \in AuthRegistry |-> NoAuth]
    /\ tokenRows = "not run"
    /\ credRows = "not run"
    /\ wrongAuths = {}
    /\ uncompared = {}
    /\ offered = {}
    /\ edits = 0
    /\ editedSince = FALSE
-----------------------------------------------------------------------------
CheckStep(from, to) == chpc = from /\ chpc' = to

\* Mutant: the email is not compared.
DifferingTokens(auths, secret) == {r \in auths : secret[r].token # ocmRead.token}

DifferingAuths(auths, secret) == {r \in auths : secret[r] # ocmRead}

\* The owner's account; failing that the run ends.  Without registry credentials,
\* validate tells the customer and is done.
ReadOwner ==
    /\ ocmRead' = ocmAuth
    /\ \/ CheckStep("ocm", "failed") /\ UNCHANGED offered
       \/ /\ psCommand = "validate" /\ credAuths = {} /\ CheckStep("ocm", "told")
          /\ offered' = offered \cup {"update pull secret"}
       \/ /\ ~(psCommand = "validate" /\ credAuths = {}) /\ UNCHANGED offered
          /\ CheckStep("ocm", IF psCommand = "audit" THEN "list" ELSE "secret")
    /\ UNCHANGED <<ocmSide, secrets, psCommand, skipLogs, atHand, targetRead, hiveRead, rows,
                   audited, edits, editedSince>>

\* The owner's active clusters.
ListClusters ==
    /\ \/ CheckStep("list", "next") /\ unchecked' = owned
       \/ CheckStep("list", "failed") /\ UNCHANGED unchecked
    /\ UNCHANGED <<ocmSide, secrets, psCommand, skipLogs, reads, rows, checkedWell, offered, edits, editedSince>>

NextOwned ==
    /\ \/ /\ \E c \in unchecked : atHand' = c /\ unchecked' = unchecked \ {c}
          /\ CheckStep("next", "secret") /\ tokenRows' = "not run" /\ credRows' = "not run"
       \/ unchecked = {} /\ CheckStep("next", "audited") /\ UNCHANGED <<atHand, unchecked, tokenRows, credRows>>
    /\ UNCHANGED <<ocmSide, secrets, psCommand, skipLogs, ocmRead, targetRead, hiveRead,
                   wrongAuths, uncompared, checkedWell, offered, edits, editedSince>>

\* In the cluster, by a managed job or with elevation.  For a comparison the secret on
\* Hive too, and one that cannot be read counts as empty.
ReadSecrets ==
    /\ \/ CheckStep("secret", "email") /\ targetRead' = targetSecret[atHand] /\ hiveRead' = hivePull
       \/ /\ psCommand = "compare" /\ CheckStep("secret", "email")
          /\ targetRead' = [r \in AuthRegistry |-> NoAuth] /\ hiveRead' = hivePull
       \/ CheckStep("secret", IF psCommand = "audit" THEN "next" ELSE "failed") /\ UNCHANGED <<targetRead, hiveRead>>
    /\ UNCHANGED <<ocmSide, secrets, psCommand, skipLogs, atHand, ocmRead, rows, audited, offered,
                   edits, editedSince>>

\* The email of the section of cloud.openshift.com.  validate ends with this, telling
\* the customer of a missing section or another email; the next asks whether to go on.
CheckEmail ==
    LET found == targetRead[Cloud] IN
    /\ IF psCommand \in {"audit", "compare"} \/ found.email = ocmRead.email
       THEN CheckStep("email", IF psCommand = "validate" THEN "matched" ELSE "creds") /\ UNCHANGED <<wrongAuths, offered>>
       ELSE IF psCommand = "validate"
       THEN /\ CheckStep("email", "told") /\ UNCHANGED wrongAuths
            /\ offered' = offered \cup {IF found = NoAuth THEN "breaks upgrades" ELSE "user mismatch"}
       ELSE /\ wrongAuths' = wrongAuths \cup {Cloud} /\ UNCHANGED offered
            /\ CheckStep("email", "creds") \/ CheckStep("email", "aggregate")
    /\ UNCHANGED <<ocmSide, secrets, psCommand, skipLogs, reads, tokenRows, credRows, uncompared,
                   audited, edits, editedSince>>

\* None at all is told of by validate-ext at once.  A credential without token, name
\* or registry fails too, but is not of the secret; before an update it is skipped.
CompareCreds ==
    LET wrong == DifferingAuths(credAuths, targetRead)
                 \cup (IF psCommand = "compare" THEN DifferingAuths(credAuths, hiveRead) ELSE {})
        goOn == IF psCommand = "validate-ext" THEN {"token", "aggregate"} ELSE {"token"} IN
    /\ \/ /\ credAuths = {} /\ \E to \in goOn : CheckStep("creds", to)
          /\ offered' = IF psCommand = "validate-ext" THEN offered \cup {"update pull secret"} ELSE offered
          /\ UNCHANGED <<credRows, wrongAuths, uncompared>>
       \/ \E to \in goOn : CheckStep("creds", to) /\ UNCHANGED <<credRows, wrongAuths, uncompared, offered>>
       \/ /\ credAuths # {} /\ UNCHANGED offered
          /\ \E unusable \in SUBSET credAuths :
                /\ wrongAuths' = wrongAuths \cup (wrong \ unusable) /\ uncompared' = unusable
                /\ credRows' = IF wrong \ unusable = {} /\ (psCommand = "compare" \/ unusable = {}) THEN "pass" ELSE "fail"
                /\ \E to \in goOn : (credRows' = "pass" => to = "token") /\ CheckStep("creds", to)
    /\ UNCHANGED <<ocmSide, secrets, psCommand, skipLogs, reads, tokenRows, audited, edits, editedSince>>

\* The access token is fetched as the owner, which may be refused.
CompareToken ==
    LET wrong == DifferingAuths(tokenAuths, targetRead)
                 \cup (IF psCommand = "compare" THEN DifferingAuths(tokenAuths, hiveRead) ELSE {})
        to == IF psCommand = "audit" THEN "count" ELSE "aggregate" IN
    /\ CheckStep("token", to)
    /\ \/ UNCHANGED <<tokenRows, wrongAuths>>
       \/ wrongAuths' = wrongAuths \cup wrong /\ tokenRows' = IF wrong = {} THEN "pass" ELSE "fail"
    /\ UNCHANGED <<ocmSide, secrets, psCommand, skipLogs, reads, credRows, uncompared, audited,
                   offered, edits, editedSince>>

CountCluster ==
    /\ CheckStep("count", "next")
    /\ checkedWell' = IF tokenRows = "pass" /\ credRows = "pass" THEN checkedWell \cup {atHand} ELSE checkedWell
    /\ UNCHANGED <<ocmSide, secrets, psCommand, skipLogs, reads, rows, unchecked, offered, edits, editedSince>>

\* However the run ends, what was recorded is told in one service log, unless the SRE
\* said not to; an update goes on unless both comparisons found all in sync.
Aggregate ==
    /\ CheckStep("aggregate", IF tokenRows = "pass" /\ credRows = "pass"
                                /\ (psCommand = "validate-ext" => Cloud \notin wrongAuths)
                              THEN "matched" ELSE "told")
    /\ offered' = IF psCommand = "validate-ext" /\ ~skipLogs THEN offered \cup wrongAuths ELSE offered
    /\ UNCHANGED <<ocmSide, secrets, psCommand, skipLogs, reads, rows, audited, edits, editedSince>>

\* The credential is renewed, the cluster changes hands, a secret is updated, a cluster
\* leaves or comes.
OthersEdit ==
    /\ edits < MaxSecretEdits /\ edits' = edits + 1 /\ editedSince' = TRUE
    /\ \/ ocmAuth' \in Auth \ {NoAuth} /\ UNCHANGED <<secrets, owned>>
       \/ /\ \E c \in OwnedCluster : targetSecret' = [targetSecret EXCEPT ![c] = [r \in AuthRegistry |-> ocmAuth]]
          /\ UNCHANGED <<ocmAuth, hivePull, owned>>
       \/ hivePull' = [r \in AuthRegistry |-> ocmAuth] /\ UNCHANGED <<ocmAuth, targetSecret, owned>>
       \/ \E c \in owned : owned' = owned \ {c} /\ UNCHANGED <<ocmAuth, secrets>>
    /\ UNCHANGED <<tokenAuths, credAuths, chpc, psCommand, skipLogs, reads, rows, audited, offered>>

CheckRun ==
    \/ ReadOwner \/ ListClusters \/ NextOwned \/ ReadSecrets \/ CheckEmail \/ CompareCreds
    \/ CompareToken \/ CountCluster \/ Aggregate

CheckNext == CheckRun \/ OthersEdit

CheckSpec == CheckInit /\ [][CheckNext]_checkVars
-----------------------------------------------------------------------------
Agrees(c, auths) == \A r \in auths : targetSecret[c][r] = ocmAuth

\* Unless something changed meanwhile, what a command calls a match is one: of the
\* email, or of every section of the token and the usable credentials, in each cluster audited,
\* and on Hive before an update.  And what validate-ext found wrong in the secret the
\* customer is told of, even if the SRE breaks it off.
VerdictsAreTrue ==
    LET Compared == tokenAuths \cup (credAuths \ uncompared) IN
    /\ chpc = "matched" /\ ~editedSince =>
        CASE psCommand = "validate" -> targetSecret[atHand][Cloud].email = ocmAuth.email
          [] OTHER -> Agrees(atHand, Compared)
    /\ chpc = "matched" /\ ~editedSince /\ psCommand = "compare" => \A r \in Compared : hivePull[r] = ocmAuth
    /\ chpc = "audited" /\ ~editedSince => \A c \in checkedWell : Agrees(c, tokenAuths \cup credAuths)
    /\ chpc \in {"matched", "told"} /\ psCommand = "validate-ext" /\ ~skipLogs => wrongAuths \subseteq offered
=============================================================================
