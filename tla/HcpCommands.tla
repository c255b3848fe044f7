------------------------------ MODULE HcpCommands ------------------------------
(***************************************************************************)
(* The commands for hosted control planes: their recovery on another       *)
(* management cluster and their upgrades (UpgradePolicies).                *)
(*                                                                         *)
(* `osdctl hcp restore` (cmd/hcp/restore) has the commands that bring a    *)
(* hosted control plane up on a replacement management cluster.  They work *)
(* on separate objects: the ManifestWorks and the assignment               *)
(* (ManifestWorkMove), the Velero Restores (VeleroRestore), the            *)
(* ManagedCluster and its add-ons (HostReimport), and what the recovery    *)
(* needs from outside (RecoveryAccess).  A behaviour is one part of it.    *)
(***************************************************************************)
EXTENDS ManifestWorkMove, VeleroRestore, HostReimport, RecoveryAccess, UpgradePolicies, TLC

VARIABLE phase     \* the part of the work that is done

restoreHcpVars == <<phase, moveVars, restoreVars, reimportVars>>
hcpVars == <<restoreHcpVars, upgradeVars, recoveryVars>>

\* What the commands given do not look at has one value.
HcpInit ==
    /\ phase \in {"manifestwork", "create", "reimport",
                  "upgrade", "release-dns", "update-trust-policy", "backup"}
    /\ MoveInit /\ RestoreInit /\ ReimportInit
    /\ \/ phase = "upgrade"
       \/ /\ scheduled = [c \in Hosted |-> FALSE] /\ recurring = [c \in Hosted |-> [p \in Recurring |-> NoPolicy]]
          /\ forced = [u \in Upgrader |-> FALSE]
    /\ UpgradeInit
    /\ phase = "release-dns" \/ zone = [r \in Record |-> "absent"]
    /\ \/ phase = "update-trust-policy"
       \/ trust = [i \in 1 .. 2 |-> [federated |-> {}, subject |-> {}]] /\ sameAccount = {}
    /\ RecoveryInit

Recovery ==
    /\ \/ phase = "manifestwork" /\ MoveNext /\ UNCHANGED <<restoreVars, reimportVars>>
       \/ phase = "create" /\ RestoreNext /\ UNCHANGED <<moveVars, reimportVars>>
       \/ phase = "reimport" /\ ReimportNext /\ UNCHANGED <<moveVars, restoreVars>>
    /\ UNCHANGED <<phase, upgradeVars, recoveryVars>>
Access ==
    /\ \/ phase = "release-dns" /\ DnsReleaseNext
       \/ phase = "update-trust-policy" /\ TrustNext
       \/ phase = "backup" /\ BackupNext
    /\ UNCHANGED <<restoreHcpVars, upgradeVars>>
Upgrade == phase = "upgrade" /\ UpgradeNext /\ UNCHANGED <<restoreHcpVars, recoveryVars>>

\* The clusters have been gone through.
Rest == phase = "upgrade" /\ UNCHANGED hcpVars

HcpNext == Recovery \/ Access \/ Upgrade \/ Rest

HcpSpec == HcpInit /\ [][HcpNext]_hcpVars

\* Neither the SREs, nor the add-ons, nor the upgraded clusters are told apart.
Interchangeable == Permutations(SRE) \cup Permutations(Addon)
-----------------------------------------------------------------------------
\* A move that says it is complete has left every work of its plan in the replacement,
\* below the Velero resources, and paused what it copied; a re-import, whatever it races
\* with, removes nothing that an add-on applied, and one that reports success has left
\* none of the works it announced; and the names, the trust and the backup that the
\* replacement needs are its own (ReleaseIsSound, TrustIsMoved, BackupsAreOwn).
RecoveredWhole ==
    /\ MoveComplete /\ AddonsSurvive /\ WorksGone
    /\ ReleaseIsSound /\ TrustIsMoved /\ BackupsAreOwn
=============================================================================
