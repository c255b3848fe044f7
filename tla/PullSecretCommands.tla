--------------------------- MODULE PullSecretCommands ---------------------------
(***************************************************************************)
(* The commands about a cluster's pull secret: those that write it         *)
(* (PullSecretUpdate: `cluster update-pull-secret` and an ownership        *)
(* transfer) and those that compare it (PullSecretCheck: `hive             *)
(* pull-secret compare` and `cluster validate-pull-secret[-ext]`).  A      *)
(* comparison meets the changes of others, whoever makes them.             *)
(***************************************************************************)
EXTENDS PullSecretUpdate, PullSecretCheck

VARIABLE command     \* the commands given

writeVars == vars

\* What the commands given do not look at has one value.
CommandsInit ==
    \/ /\ command = "write" /\ Init
       /\ tokenAuths = {Cloud} /\ credAuths = {} /\ psCommand = "audit" /\ hivePull = [r \in AuthRegistry |-> NoAuth]
       /\ atHand = (CHOOSE c \in OwnedCluster : TRUE) /\ CheckInit
    \/ /\ command = "compare" /\ CheckInit
       /\ pull = Missing /\ pc = [p \in Run |-> "failed"] /\ Init

Writing == command = "write" /\ Next /\ UNCHANGED <<command, checkVars>>
Comparing == command = "compare" /\ CheckNext /\ UNCHANGED <<command, writeVars>>

CommandsSpec == CommandsInit /\ [][Writing \/ Comparing]_<<command, writeVars, checkVars>>
-----------------------------------------------------------------------------
\* What an update reports as confirmed reached the cluster, and updates that nothing
\* disturbed leave no SyncSet that would later push an old secret (PullSecretUpdate).
UpdatesReachCluster == TypeOK /\ ConfirmedReachedCluster /\ NoSyncSetLeft
=============================================================================
