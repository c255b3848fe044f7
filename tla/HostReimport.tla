---------------------------- MODULE HostReimport ----------------------------
(***************************************************************************)
(* `osdctl hcp restore reimport` (cmd/hcp/internal/cmd/reimport.go and     *)
(* cmd/hcp/internal/client/service_cluster.go).                            *)
(*                                                                         *)
(* The ManagedCluster of a recovered hosted control plane and its add-ons  *)
(* name the management cluster that hosts them, and a ManifestWork there   *)
(* applies each add-on.  The command moves the annotations to the          *)
(* replacement, then deletes the works left behind with the Orphan policy, *)
(* so that what they applied survives.  The add-on manager meanwhile       *)
(* creates and rewrites the work of each add-on where it is hosted, and    *)
(* the work agent finalizes deletions.                                     *)
(***************************************************************************)
EXTENDS Integers, FiniteSets

CONSTANTS
    Importer,
    Addon,
    Replacement,     \* management clusters the command is given
    MaxUid,          \* bound: works made for an add-on on one host
    MaxImportFaults  \* bound: calls that fail, with or without their effect

Host == {"old"} \cup Replacement
Slot == Host \X Addon

NoWork == [uid |-> 0, orphan |-> FALSE, deleting |-> FALSE]
NoPlan == [target |-> "none", host |-> "none", addons |-> {},
           works |-> [s \in Slot |-> 0], now |-> {}]

VARIABLES
    managed,    \* import hosting annotation of the ManagedCluster
    hosting,    \* add-on hosting annotation
    addonWork,  \* addonWork[<<host, add-on>>]: its ManifestWork
    made,       \* works made so far, which is the last uid
    torn,       \* add-ons whose applied resources a deletion has removed
    ipc, plan,  \* of each SRE: its step and ReimportPlan, which ends with the run
    importFaults

reimportVars == <<managed, hosting, addonWork, made, torn, ipc, plan, importFaults>>

ReimportInit ==
    /\ managed = "old" /\ hosting = [a \in Addon |-> "old"]
    /\ addonWork = [s \in Slot |-> IF s[1] = "old" THEN [NoWork EXCEPT !.uid = 1] ELSE NoWork]
    /\ made = [s \in Slot |-> IF s[1] = "old" THEN 1 ELSE 0] /\ torn = {}
    /\ ipc = [i \in Importer |-> "idle"] /\ plan = [i \in Importer |-> NoPlan]
    /\ importFaults = 0
-----------------------------------------------------------------------------
Exists(s) == addonWork[s] # NoWork
Pending(i) == {s \in Slot : plan[i].works[s] # 0}
ImportGoTo(i, next) == ipc' = [ipc EXCEPT ![i] = next]
ImportEnds(i, how) == ImportGoTo(i, how) /\ plan' = [plan EXCEPT ![i] = NoPlan]

\* PrepareReimport, and the prompt.  A work that is already deleting without the
\* Orphan policy stops it.
PrepareReimport(i) ==
    /\ ipc[i] \in {"idle", "done"}
    /\ \E target \in Replacement :
        LET left == {s \in Slot : s[1] # target /\ Exists(s)} IN
        /\ \A s \in left : addonWork[s].deleting => addonWork[s].orphan
        /\ plan' = [plan EXCEPT ![i] =
            [target |-> target, host |-> managed,
              addons |-> {<<a, hosting[a]>> : a \in {b \in Addon : hosting[b] # target}},
              works |-> [s \in Slot |-> IF s \in left THEN addonWork[s].uid ELSE 0],
              now |-> {}]]
    /\ ImportGoTo(i, "read")
    /\ UNCHANGED <<managed, hosting, addonWork, made, torn, importFaults>>

\* The ManagedCluster is read again, and must be where the plan saw it.
ReadManaged(i) ==
    /\ ipc[i] = "read"
    /\ IF managed \in {plan[i].host, plan[i].target}
       THEN /\ plan' = [plan EXCEPT ![i].host = managed]
            /\ ImportGoTo(i, IF managed = plan[i].target THEN "addons" ELSE "host")
       ELSE ImportEnds(i, "idle")
    /\ UNCHANGED <<managed, hosting, addonWork, made, torn, importFaults>>

\* UpdateManagedClusterHosting tests the resource version it read.
MoveHost(i) ==
    /\ ipc[i] = "host"
    /\ IF managed = plan[i].host
       THEN managed' = plan[i].target /\ ImportGoTo(i, "addons") /\ UNCHANGED plan
       ELSE ImportEnds(i, "idle") /\ UNCHANGED managed
    /\ UNCHANGED <<hosting, addonWork, made, torn, importFaults>>

\* UpdateManagedClusterAddonHosting tests that the add-on is where the plan saw
\* it.  They are updated in the order of their names.
MoveAddon(i) ==
    /\ ipc[i] = "addons"
    /\ \E entry \in plan[i].addons :
        IF hosting[entry[1]] = entry[2]
        THEN /\ hosting' = [hosting EXCEPT ![entry[1]] = plan[i].target]
             /\ plan' = [plan EXCEPT ![i].addons = @ \ {entry}]
             /\ UNCHANGED ipc
        ELSE ImportEnds(i, "idle") /\ UNCHANGED hosting
    /\ UNCHANGED <<managed, addonWork, made, torn, importFaults>>

\* Mutant: the works are deleted while the add-ons still name the old host.
AddonsLeft(i) ==
    /\ ipc[i] = "addons"
    /\ ImportGoTo(i, "orphan")
    /\ UNCHANGED <<managed, hosting, addonWork, made, torn, plan, importFaults>>

AddonsMoved(i) ==
    /\ ipc[i] = "addons" /\ plan[i].addons = {}
    /\ ImportGoTo(i, "orphan")
    /\ UNCHANGED <<managed, hosting, addonWork, made, torn, plan, importFaults>>

\* OrphanDeleteManifestWork: what is gone or is deleting with the policy is left,
\* what was recreated or deletes without it ends the run, and the policy is set
\* before the deletion, in a call of its own.  A work that has been dealt with
\* keeps its uid in the plan, negated, for the wait.
Handled(i, s) == plan' = [plan EXCEPT ![i].works[s] = -@, ![i].now = {}]
Ours(i, s) == addonWork[s].uid = plan[i].works[s]

OrphanWork(i) ==
    /\ ipc[i] = "orphan"
    /\ \E s \in Pending(i) :
        /\ plan[i].works[s] > 0
        /\ \/ /\ ~Exists(s) \/ (Ours(i, s) /\ addonWork[s].deleting /\ addonWork[s].orphan)
              /\ Handled(i, s) /\ UNCHANGED <<addonWork, ipc>>
           \/ /\ Exists(s) /\ Ours(i, s) /\ ~addonWork[s].deleting
              /\ addonWork' = [addonWork EXCEPT ![s].orphan = TRUE]
              /\ plan' = [plan EXCEPT ![i].now = {s}] /\ ImportGoTo(i, "delete")
           \/ /\ Exists(s) /\ (~Ours(i, s) \/ (addonWork[s].deleting /\ ~addonWork[s].orphan))
              /\ ImportEnds(i, "idle") /\ UNCHANGED addonWork
    /\ UNCHANGED <<managed, hosting, made, torn, importFaults>>

\* The deletion has the uid as its only precondition.
DeleteWork(i) ==
    /\ ipc[i] = "delete"
    /\ \E s \in plan[i].now :
        IF Exists(s) /\ ~Ours(i, s) THEN ImportEnds(i, "idle") /\ UNCHANGED addonWork
        ELSE /\ addonWork' = [addonWork EXCEPT ![s].deleting = Exists(s)]
             /\ Handled(i, s) /\ ImportGoTo(i, "orphan")
    /\ UNCHANGED <<managed, hosting, made, torn, importFaults>>

\* waitForOldAddonWorksDeletion.
WaitForWorks(i) ==
    /\ ipc[i] = "orphan" /\ \A s \in Slot : plan[i].works[s] <= 0
    /\ \/ /\ \A s \in Pending(i) : ~Exists(s)
          /\ ImportGoTo(i, "done") /\ UNCHANGED plan
       \/ /\ \E s \in Pending(i) : Exists(s) /\ addonWork[s].uid # -plan[i].works[s]
          /\ ImportEnds(i, "idle")
    /\ UNCHANGED <<managed, hosting, addonWork, made, torn, importFaults>>

\* A call fails, with its effect or not, the deadline passes, or the process ends.
ReimportFails(i) ==
    /\ ipc[i] \notin {"idle", "done"} /\ ImportEnds(i, "idle")
    /\ importFaults < MaxImportFaults /\ importFaults' = importFaults + 1
    /\ \/ UNCHANGED <<managed, hosting, addonWork>>
       \/ /\ ipc[i] = "host" /\ managed = plan[i].host
          /\ managed' = plan[i].target /\ UNCHANGED <<hosting, addonWork>>
       \/ /\ ipc[i] = "addons" /\ UNCHANGED <<managed, addonWork>>
          /\ \E entry \in plan[i].addons :
                /\ hosting[entry[1]] = entry[2]
                /\ hosting' = [hosting EXCEPT ![entry[1]] = plan[i].target]
       \/ /\ \E s \in plan[i].now :
                /\ Exists(s) /\ Ours(i, s)
                /\ addonWork' = [addonWork EXCEPT ![s].deleting = TRUE]
          /\ UNCHANGED <<managed, hosting>>
    /\ UNCHANGED <<made, torn>>
-----------------------------------------------------------------------------
\* The add-on manager applies the work of an add-on where the add-on is hosted:
\* it creates one, or writes back its own specification, which names no policy.
ApplyAddon(a) ==
    LET s == <<hosting[a], a>> IN
    /\ \/ /\ ~Exists(s) /\ made[s] < MaxUid
          /\ made' = [made EXCEPT ![s] = @ + 1]
          /\ addonWork' = [addonWork EXCEPT ![s] = [NoWork EXCEPT !.uid = made[s] + 1]]
       \/ /\ addonWork[s].orphan /\ ~addonWork[s].deleting /\ UNCHANGED made
          /\ addonWork' = [addonWork EXCEPT ![s].orphan = FALSE]
    /\ UNCHANGED <<managed, hosting, torn, ipc, plan, importFaults>>

\* The work agent removes what the work applied, unless told to orphan it.
Finalize(s) ==
    /\ addonWork[s].deleting
    /\ addonWork' = [addonWork EXCEPT ![s] = NoWork]
    /\ torn' = IF addonWork[s].orphan THEN torn ELSE torn \cup {s[2]}
    /\ UNCHANGED <<managed, hosting, made, ipc, plan, importFaults>>

ReimportNext ==
    \/ \E i \in Importer :
        \/ PrepareReimport(i) \/ ReadManaged(i) \/ MoveHost(i) \/ MoveAddon(i)
        \/ AddonsMoved(i) \/ OrphanWork(i) \/ DeleteWork(i) \/ WaitForWorks(i)
        \/ ReimportFails(i)
    \/ \E a \in Addon : ApplyAddon(a)
    \/ \E s \in Slot : Finalize(s)

ReimportSpec == ReimportInit /\ [][ReimportNext]_reimportVars
-----------------------------------------------------------------------------
\* "It deletes old-host add-on ManifestWorks with the Orphan policy, preserving
\* their applied resources": no run, whatever it races with, removes what an
\* add-on applied.
AddonsSurvive == torn = {}

\* A run that reports success has left none of the works it announced.
WorksGone ==
    \A i \in Importer : ipc[i] = "done" =>
        \A s \in Pending(i) : addonWork[s].uid # -plan[i].works[s]
=============================================================================
