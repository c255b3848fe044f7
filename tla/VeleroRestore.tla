---------------------------- MODULE VeleroRestore ----------------------------
(***************************************************************************)
(* `osdctl hcp restore create` (cmd/hcp/internal/cmd/restore.go and the    *)
(* Velero part of cmd/hcp/internal/client/management_cluster.go).          *)
(*                                                                         *)
(* The command adopts a Restore of the same cluster and backup that is     *)
(* running or completed, or creates the next attempt, and polls it to its  *)
(* end.  Several SREs may run it, give up and run it again.  Nothing locks *)
(* the list against the creation that follows: the attempt is part of the  *)
(* name, and the API refuses a name that exists.                           *)
(***************************************************************************)
EXTENDS Integers

CONSTANTS
    Restorer,
    MaxAttempt   \* bound: Restores of the backup

ASSUME MaxAttemptAssumption == MaxAttempt \in Nat

Attempt == 1 .. MaxAttempt
Terminal == {"Failed", "PartiallyFailed"}     \* terminalRestorePhase
Phase == {"absent", "InProgress", "Completed"} \cup Terminal

VARIABLES
    restores,   \* phase of each attempt's Restore
    rpc,        \* of each SRE
    attempt     \* the Restore the SRE creates or watches

restoreVars == <<restores, rpc, attempt>>

RestoreInit ==
    /\ restores = [a \in Attempt |-> "absent"]
    /\ rpc = [r \in Restorer |-> "idle"] /\ attempt = [r \in Restorer |-> 0]
-----------------------------------------------------------------------------
Existing == {a \in Attempt : restores[a] # "absent"}
Live(a) == restores[a] \in {"InProgress", "Completed"}

RunEnds(r, how) ==
    /\ rpc' = [rpc EXCEPT ![r] = how]
    /\ attempt' = [attempt EXCEPT ![r] = IF how = "done" THEN @ ELSE 0]

\* RestoreVeleroBackup up to the end of getOrCreateRestore's list; the checks of
\* the backup and its storage before it only end a run that has done nothing.
GetRestore(r) ==
    /\ rpc[r] \in {"idle", "done"}
    /\ \/ \E a \in Existing :
            /\ Live(a)
            /\ rpc' = [rpc EXCEPT ![r] = "wait"] /\ attempt' = [attempt EXCEPT ![r] = a]
       \/ /\ \A a \in Existing : ~Live(a)
          /\ \E last \in 0 .. MaxAttempt - 1 :
                /\ last \in {0} \cup Existing /\ \A a \in Existing : a <= last
                /\ attempt' = [attempt EXCEPT ![r] = last + 1]
          /\ rpc' = [rpc EXCEPT ![r] = "create"]
    /\ UNCHANGED restores

\* Mutant: the API makes up the name.
CreateGenerated(r) ==
    /\ rpc[r] = "create"
    /\ \E a \in Attempt \ Existing :
        /\ restores' = [restores EXCEPT ![a] = "InProgress"]
        /\ rpc' = [rpc EXCEPT ![r] = "wait"] /\ attempt' = [attempt EXCEPT ![r] = a]

\* newVeleroRestore names the Restore after the attempt.
CreateRestore(r) ==
    /\ rpc[r] = "create"
    /\ IF restores[attempt[r]] = "absent"
       THEN /\ restores' = [restores EXCEPT ![attempt[r]] = "InProgress"]
            /\ rpc' = [rpc EXCEPT ![r] = "wait"] /\ UNCHANGED attempt
       ELSE RunEnds(r, "idle") /\ UNCHANGED restores

\* One poll of waitForRestore.
WaitForRestore(r) ==
    /\ rpc[r] = "wait" /\ restores[attempt[r]] # "InProgress"
    /\ RunEnds(r, IF restores[attempt[r]] = "Completed" THEN "done" ELSE "idle")
    /\ UNCHANGED restores

\* A call fails, the creation perhaps after it took effect; the deadline passes;
\* or the process ends.
RestoreFails(r) ==
    /\ rpc[r] \in {"create", "wait"} /\ RunEnds(r, "idle")
    /\ \/ UNCHANGED restores
       \/ /\ rpc[r] = "create" /\ restores[attempt[r]] = "absent"
          /\ restores' = [restores EXCEPT ![attempt[r]] = "InProgress"]

\* Velero.
VeleroEnds(a) ==
    /\ restores[a] = "InProgress"
    /\ \E end \in {"Completed"} \cup Terminal : restores' = [restores EXCEPT ![a] = end]
    /\ UNCHANGED <<rpc, attempt>>

\* Nothing is left of the bound.
Exhausted == (\A a \in Attempt : restores[a] \in Terminal) /\ UNCHANGED restoreVars

RestoreNext ==
    \/ \E r \in Restorer :
        GetRestore(r) \/ CreateRestore(r) \/ WaitForRestore(r) \/ RestoreFails(r)
    \/ \E a \in Attempt : VeleroEnds(a)
    \/ Exhausted

RestoreSpec == RestoreInit /\ [][RestoreNext]_restoreVars
-----------------------------------------------------------------------------
RestoreTypeOK ==
    /\ restores \in [Attempt -> Phase]
    /\ rpc \in [Restorer -> {"idle", "create", "wait", "done"}]
    /\ attempt \in [Restorer -> 0 .. MaxAttempt]

\* "Repeated invocations safely resume an active restore or report an already
\* completed restore": a backup is never restored over a restore of it that is
\* running or has completed, whoever runs the command and however often.
OneRestore == \A a, b \in Attempt : Live(a) /\ Live(b) => a = b
=============================================================================
