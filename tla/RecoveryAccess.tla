---------------------------- MODULE RecoveryAccess ----------------------------
(***************************************************************************)
(* What a recovery of a hosted control plane needs from outside its two    *)
(* management clusters: its names, taken from the central DNS zone so that *)
(* the replacement can publish them (`osdctl hcp restore release-dns`),    *)
(* the trust of the role that reads its backups (`restore                  *)
(* update-trust-policy`) and a Velero backup (`hcp backup create` and      *)
(* `hcp backup discover`).  SREs run each side by side and again; a plan   *)
(* is made before its prompt.                                              *)
(***************************************************************************)
EXTENDS Integers, FiniteSets

CONSTANTS
    Helper,           \* SREs
    MaxChangeBatch,   \* route53MaxChangeBatch
    MaxSecond         \* bound: seconds in which backups are asked for

ASSUME AccessAssumption == MaxChangeBatch \in Nat \ {0} /\ MaxSecond \in Nat \ {0}

VARIABLES
    hpc,            \* of each SRE
    \* release-dns
    zone,           \* whose each record set is, by the management cluster that made it
    foreign,        \* TXT records of others that were there from the start
    published,      \* endpoints the replacement has published
    dnsPlan,        \* record sets an SRE is shown, <<record, content>>; as deleted, they leave it
    page,           \* next page of the listing
    shownSets,          \* all that any SRE was shown
    \* update-trust-policy
    trust, trustBefore,   \* statements of the role's policy; those of the start
    sameAccount,    \* replacements whose backups are in the account of the source's
    trustPlan,      \* the policy an SRE is about to write
    \* backup create and discover
    backups,        \* seconds in the names of the schedule's backups
    backupId,       \* the one an SRE was told, 0 if it could not be parsed
    second,
    listing,        \* backups an SRE's listing has found, all of them or the newest when it ends
    atStart         \* the backups when the listing began

dnsAccessVars == <<zone, foreign, published, dnsPlan, page, shownSets>>
trustVars == <<trust, trustBefore, sameAccount, trustPlan>>
backupVars == <<backups, backupId, second, listing, atStart>>
recoveryVars == <<hpc, dnsAccessVars, trustVars, backupVars>>

HelperEnds(h, how) == hpc' = [hpc EXCEPT ![h] = how]
AtRest == {"idle", "failed", "nothing", "released", "trusted", "backed up", "discovered"}
-----------------------------------------------------------------------------
\* The zone has, for each of two endpoints (api and oauth), the address records and
\* then the TXT records with which external-dns marks what it owns.
Endpoint == 1 .. 2
Record == 1 .. 4
EndpointOf(r) == (r + 1) \div 2
IsText(r) == r % 2 = 0

\* dnsRecordTargets and isClusterRecord: addresses by their name, TXT records only if
\* they have the ID of the cluster.
IsClusterRecord(r) == zone[r] # "absent" /\ (IsText(r) => zone[r] # "other")

\* PrepareDNSRelease as far as the hosted zone.
StartRelease(h) ==
    /\ hpc[h] \in AtRest /\ HelperEnds(h, "list")
    /\ dnsPlan' = [dnsPlan EXCEPT ![h] = {}] /\ page' = [page EXCEPT ![h] = 1]
    /\ UNCHANGED <<zone, foreign, published, shownSets>>

\* One page of findClusterRecords; after the last, what the SRE is shown.
FindClusterRecords(h) ==
    LET found == dnsPlan[h] \cup
            {<<r, zone[r]>> : r \in {q \in Record : EndpointOf(q) = page[h] /\ IsClusterRecord(q)}}
        more == page[h] + 1 \in Endpoint
    IN /\ hpc[h] = "list"
       /\ dnsPlan' = [dnsPlan EXCEPT ![h] = found]
       /\ page' = [page EXCEPT ![h] = IF more THEN @ + 1 ELSE 0]
       /\ HelperEnds(h, IF more THEN "list" ELSE IF found = {} THEN "nothing" ELSE "prompt")
       /\ shownSets' = IF more THEN shownSets ELSE shownSets \cup found
       /\ UNCHANGED <<zone, foreign, published>>

\* External: Route53 makes all changes of a batch or none, and deletes only what is as
\* the request says.
Deletable(batch) == \A p \in batch : zone[p[1]] = p[2]
Without(batch) == [r \in Record |-> IF \E p \in batch : p[1] = r THEN "absent" ELSE zone[r]]

\* One batch of deleteRecords, in the order of the sorted records.
ReleaseDNS(h) ==
    LET batch == {p \in dnsPlan[h] : Cardinality({q \in dnsPlan[h] : q[1] < p[1]}) < MaxChangeBatch}
        left == dnsPlan[h] \ batch
    IN /\ hpc[h] = "prompt"
       /\ \/ /\ Deletable(batch) /\ zone' = Without(batch)
             /\ \/ HelperEnds(h, IF left = {} THEN "released" ELSE "prompt")
                   /\ dnsPlan' = [dnsPlan EXCEPT ![h] = left]
                \/ HelperEnds(h, "failed") /\ dnsPlan' = [dnsPlan EXCEPT ![h] = {}]  \* the answer is lost
          \/ /\ ~Deletable(batch) /\ HelperEnds(h, "failed")
             /\ dnsPlan' = [dnsPlan EXCEPT ![h] = {}] /\ UNCHANGED zone
       /\ UNCHANGED <<foreign, published, page, shownSets>>

\* The SRE says no, a call fails or the process ends.
ReleaseEnds(h) ==
    /\ hpc[h] \in {"list", "prompt"} /\ HelperEnds(h, "failed")
    /\ dnsPlan' = [dnsPlan EXCEPT ![h] = {}] /\ page' = [page EXCEPT ![h] = 0]
    /\ UNCHANGED <<zone, foreign, published, shownSets>>

\* External: external-dns of the replacement publishes an endpoint whose names are
\* free.  That of the source is paused with the control plane.
Publish(e) ==
    LET own == {r \in Record : EndpointOf(r) = e}
    IN /\ \A r \in own : zone[r] = "absent"
       /\ zone' = [r \in Record |-> IF r \in own THEN "new" ELSE zone[r]]
       /\ published' = published \cup {e}
       /\ UNCHANGED <<hpc, foreign, dnsPlan, page, shownSets>>

DnsReleaseNext ==
    /\ \/ \E h \in Helper : StartRelease(h) \/ FindClusterRecords(h) \/ ReleaseDNS(h) \/ ReleaseEnds(h)
       \/ \E e \in Endpoint : Publish(e)
    /\ UNCHANGED <<trustVars, backupVars>>
-----------------------------------------------------------------------------
\* The providers that a statement trusts and the subjects it asks for, by the management
\* cluster in their names.  A statement for another action has neither.
TrustedMC == {"old", "new", "third"}
Statement == [federated : SUBSET TrustedMC, subject : SUBSET TrustedMC]
Admitted(s) == s.federated \cap s.subject

MoveSet(ms, to) == IF "old" \in ms THEN (ms \ {"old"}) \cup {to} ELSE ms

\* replaceTrustPolicyManagementCluster for one statement that trusts the source.
Moved(s, to) == [federated |-> MoveSet(s.federated, to), subject |-> MoveSet(s.subject, to)]

\* Its errors: no subject condition for the source, or one for the replacement already.
Movable(s, to) == "old" \in s.subject /\ to \notin s.subject

\* BackupConfig: each of the two has one complete backup configuration, of one account.
SharesAccount(to) == to \in sameAccount

\* PrepareTrustPolicyUpdate, with the source that the cluster is assigned to or
\* --source-mc gives: all statements are moved, or it is an error.  (With a replacement
\* that is the source there is nothing to update.)
PrepareTrustPolicyUpdate(h) ==
    /\ hpc[h] \in AtRest
    /\ \E to \in {"new", "third"} :
        LET ofSource == {i \in DOMAIN trust : "old" \in trust[i].federated}
        IN IF SharesAccount(to) /\ ofSource # {} /\ \A i \in ofSource : Movable(trust[i], to)
           THEN /\ HelperEnds(h, "write")
                /\ trustPlan' = [trustPlan EXCEPT ![h] =
                       [i \in DOMAIN trust |-> IF i \in ofSource THEN Moved(trust[i], to) ELSE trust[i]]]
           ELSE HelperEnds(h, "failed") /\ UNCHANGED trustPlan
    /\ UNCHANGED <<trust, trustBefore, sameAccount>>

\* UpdateAssumeRolePolicy has no precondition.  The answer may be lost.
UpdateTrustPolicy(h) ==
    /\ hpc[h] = "write" /\ trust' = trustPlan[h]
    /\ \E how \in {"trusted", "failed"} : HelperEnds(h, how)
    /\ trustPlan' = [trustPlan EXCEPT ![h] = <<>>]
    /\ UNCHANGED <<trustBefore, sameAccount>>

\* The SRE says no, the call fails or the process ends.
TrustEnds(h) ==
    /\ hpc[h] = "write" /\ HelperEnds(h, "failed")
    /\ trustPlan' = [trustPlan EXCEPT ![h] = <<>>]
    /\ UNCHANGED <<trust, trustBefore, sameAccount>>

TrustNext ==
    /\ \E h \in Helper : PrepareTrustPolicyUpdate(h) \/ UpdateTrustPolicy(h) \/ TrustEnds(h)
    /\ UNCHANGED <<dnsAccessVars, backupVars>>
-----------------------------------------------------------------------------
\* CreateBackup as far as the elevated login: without the Schedule there is none.
CheckSchedule(h) ==
    /\ hpc[h] \in AtRest
    /\ \E how \in {"exec", "failed"} : HelperEnds(h, how)
    /\ UNCHANGED backupVars

\* CreateVeleroBackup: `velero backup create --from-schedule` in a running pod names
\* the backup after the second, and fails if there is one.  The ID may not be parsed.
CreateVeleroBackup(h) ==
    /\ hpc[h] = "exec"
    /\ \/ /\ second \notin backups /\ backups' = backups \cup {second}
          /\ \/ HelperEnds(h, "backed up") /\ \E id \in {0, second} : backupId' = [backupId EXCEPT ![h] = id]
             \/ HelperEnds(h, "failed") /\ UNCHANGED backupId     \* the stream breaks
       \/ second \in backups /\ HelperEnds(h, "failed") /\ UNCHANGED <<backups, backupId>>
    /\ UNCHANGED <<second, listing, atStart>>

\* No pod runs, or the call fails.
BackupEnds(h) == hpc[h] \in {"exec", "list"} /\ HelperEnds(h, "failed") /\ UNCHANGED backupVars

Second == second < MaxSecond /\ second' = second + 1 /\ UNCHANGED <<hpc, backups, backupId, listing, atStart>>

\* DiscoverBackups: a listing of the bucket begins, goes on with the next page, here of
\* one backup, and what it found is sorted; the SRE is told all, or the newest.
DiscoverBackups(h) ==
    /\ hpc[h] \in AtRest /\ HelperEnds(h, "list")
    /\ listing' = [listing EXCEPT ![h] = {}] /\ atStart' = [atStart EXCEPT ![h] = backups]
    /\ UNCHANGED <<backups, backupId, second>>

Newest(bs) == {b \in bs : \A c \in bs : c <= b}

ListBackups(h) ==
    LET more == {b \in backups : \A c \in listing[h] : c < b}
    IN /\ hpc[h] = "list"
       /\ IF more # {}
          THEN /\ listing' = [listing EXCEPT ![h] = @ \cup {CHOOSE b \in more : \A c \in more : b <= c}]
               /\ UNCHANGED hpc
          ELSE /\ HelperEnds(h, IF listing[h] = {} THEN "failed" ELSE "discovered")
               /\ \E told \in {listing[h], Newest(listing[h])} : listing' = [listing EXCEPT ![h] = told]
       /\ UNCHANGED <<backups, backupId, second, atStart>>

BackupNext ==
    /\ \/ Second
       \/ \E h \in Helper :
            \/ CheckSchedule(h) \/ CreateVeleroBackup(h) \/ BackupEnds(h)
            \/ DiscoverBackups(h) \/ ListBackups(h)
    /\ UNCHANGED <<dnsAccessVars, trustVars>>
-----------------------------------------------------------------------------
RecoveryInit ==
    /\ hpc = [h \in Helper |-> "idle"]
    /\ zone \in [Record -> {"absent", "old", "other"}] /\ \A r \in Record : zone[r] = "other" => IsText(r)
    /\ foreign = {r \in Record : zone[r] = "other"}
    /\ published = {} /\ shownSets = {}
    /\ dnsPlan = [h \in Helper |-> {}] /\ page = [h \in Helper |-> 0]
    /\ trust \in [1 .. 2 -> [federated : SUBSET {"old", "new"}, subject : SUBSET {"old", "new"}]]
    /\ trustBefore = trust /\ sameAccount \in SUBSET {"new", "third"}
    /\ trustPlan = [h \in Helper |-> <<>>]
    /\ backups = {} /\ backupId = [h \in Helper |-> 0] /\ second = 1
    /\ listing = [h \in Helper |-> {}] /\ atStart = [h \in Helper |-> {}]

\* A release that reports success, or nothing to delete, has left no record set of the
\* source; what the replacement has published meanwhile is deleted by nobody who was
\* not shown it, however old the plan; TXT records of others stay.
ReleaseIsSound ==
    /\ \A h \in Helper : hpc[h] \in {"released", "nothing"} => \A r \in Record : zone[r] # "old"
    /\ \A r \in Record :
        EndpointOf(r) \in published /\ <<r, "new">> \notin shownSets => zone[r] = "new"
    /\ \A r \in foreign : zone[r] = "other"

\* Whatever two SREs write over one another, each statement admits whom it admitted, but
\* for the source: one replacement of the same account has its place, never two and
\* never none.  After an update that reports success the source is admitted no more.
TrustIsMoved ==
    /\ \A i \in DOMAIN trust :
        LET before == Admitted(trustBefore[i])
        IN IF "old" \notin before THEN Admitted(trust[i]) = before
           ELSE \E m \in {"old"} \cup sameAccount : Admitted(trust[i]) = (before \ {"old"}) \cup {m}
    /\ (\E h \in Helper : hpc[h] = "trusted") => \A i \in DOMAIN trust : "old" \notin Admitted(trust[i])

\* No two SREs are told that the same backup is theirs, and each that is told exists; a
\* discovery tells of one at least as new as every backup there was when it began.
BackupsAreOwn ==
    /\ \A h \in Helper : backupId[h] \in backups \cup {0}
    /\ \A g, h \in Helper : backupId[g] = backupId[h] /\ backupId[g] # 0 => g = h
    /\ \A h \in Helper : hpc[h] = "discovered" =>
        listing[h] \subseteq backups /\ \A b \in atStart[h] : \E d \in listing[h] : b <= d
=============================================================================
