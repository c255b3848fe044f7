----------------------------- MODULE SnapshotCopy -----------------------------
(***************************************************************************)
(* The journaled snapshot copy of `osdctl hcp restore migrate-storage`     *)
(* (cmd/hcp/internal/cmd/copy_snapshots.go).                               *)
(*                                                                         *)
(* One operation copies the EBS snapshot behind every                      *)
(* VolumeSnapshotContent of a hosted control plane into the AWS account of *)
(* the replacement management cluster.  Each entry is copied twice: first  *)
(* inside the source account, re-encrypted under a temporary KMS key (the  *)
(* intermediary), then from the intermediary into the replacement account  *)
(* (the destination).  Up to Concurrency entries are copied at a time, each*)
(* by its own goroutine.  Progress is kept in a journal file so that an    *)
(* interrupted run can be started again; the intermediaries and the key    *)
(* are removed once every destination exists.                              *)
(*                                                                         *)
(* A process is one run of the command.  A Crash is the process being      *)
(* killed, any error of the main goroutine (which returns and forgets its  *)
(* memory) or a remote call whose answer was lost after it took effect.    *)
(***************************************************************************)
EXTENDS Naturals, FiniteSets

CONSTANTS
    N,            \* number of VolumeSnapshotContents of the hosted control plane
    Concurrency,  \* --concurrency: goroutines started by runBounded
    MaxCopies,    \* bound: snapshots ever created per entry and stage
    MaxKeys,      \* bound: KMS keys, and grants, ever created
    MaxFaults,    \* bound: crashes, failed calls and failed saves in a behaviour
    CopiesMayFail \* whether EBS may end a copy in the "error" state

ASSUME ConstantsAssumption ==
    /\ N \in Nat \ {0}
    /\ Concurrency \in Nat \ {0}
    /\ MaxCopies \in Nat \ {0}
    /\ MaxKeys \in Nat \ {0}
    /\ MaxFaults \in Nat
    /\ CopiesMayFail \in BOOLEAN

VARIABLES
    disk,    \* the journal file: snapshotCopyJournal as last saved
    mem,     \* the journal of the running process
    pc,      \* the main goroutine of CopySnapshots
    wpc,     \* the goroutine working on each entry
    id,      \* local variable `id` of copySnapshotEntry, before it is saved
    isnap,   \* source account: state of the k-th intermediary of an entry
    dsnap,   \* replacement account: state of the k-th destination of an entry
    shared,  \* <<i, k>>: the replacement account may use intermediary k of i
    keys,    \* state of each KMS key of the source account
    aliases, \* keys that have an alias
    grants,  \* live grants of the replacement account on the journaled key
    issued,  \* number of grants ever created
    faults   \* faults so far (bounded by MaxFaults)

processVars == <<mem, pc, wpc, id>>
snapVars == <<isnap, dsnap, shared>>
kmsVars == <<keys, aliases, grants, issued>>
vars == <<disk, processVars, snapVars, kmsVars, faults>>

Entries == 1..N
Copies == 1..MaxCopies
Keys == 1..MaxKeys

(***************************************************************************)
(* The journal.  0 stands for the empty string of an ID not yet known.  A  *)
(* missing file and a file just created hold the same values, so the empty *)
(* journal stands for both.                                                *)
(***************************************************************************)
Journal == [key : 0..MaxKeys, aliasCreated : BOOLEAN, grant : 0..MaxKeys,
            grantRevoked : BOOLEAN, aliasDeleted : BOOLEAN,
            keyScheduled : BOOLEAN, inter : [Entries -> 0..MaxCopies],
            dest : [Entries -> 0..MaxCopies], deleted : [Entries -> BOOLEAN]]

EmptyJournal == [key |-> 0, aliasCreated |-> FALSE, grant |-> 0,
                 grantRevoked |-> FALSE, aliasDeleted |-> FALSE,
                 keyScheduled |-> FALSE, inter |-> [i \in Entries |-> 0],
                 dest |-> [i \in Entries |-> 0],
                 deleted |-> [i \in Entries |-> FALSE]]

\* A snapshot is "created" from the CopySnapshot call until DescribeSnapshots
\* returns it: the eventual consistency waitForSnapshot retries for.
SnapState == {"absent", "created", "pending", "completed", "error", "deleted"}
KeyState == {"absent", "enabled", "pendingDeletion"}

SetupPcs == {"createKey", "createAlias", "createGrant", "saveSetup"}
CleanupPcs == {"deleteIntermediary", "revokeGrant", "deleteAlias",
               "scheduleKey", "saveCleanup"}
MainPcs == {"idle", "copy", "remap", "done"} \cup SetupPcs \cup CleanupPcs

ActivePcs == {"findI", "copyI", "saveI", "waitI", "share",
              "findD", "copyD", "saveD", "waitD", "validate"}
WorkerPcs == {"queued", "finished", "failed"} \cup ActivePcs

TypeOK ==
    /\ disk \in Journal /\ mem \in Journal
    /\ pc \in MainPcs
    /\ wpc \in [Entries -> WorkerPcs]
    /\ id \in [Entries -> 0..MaxCopies]
    /\ isnap \in [Entries -> [Copies -> SnapState]]
    /\ dsnap \in [Entries -> [Copies -> SnapState]]
    /\ shared \subseteq Entries \X Copies
    /\ keys \in [Keys -> KeyState]
    /\ aliases \subseteq Keys
    /\ grants \subseteq Keys
    /\ issued \in 0..MaxKeys
    /\ faults \in 0..MaxFaults

NoProcess == /\ mem' = EmptyJournal
             /\ wpc' = [i \in Entries |-> "queued"]
             /\ id' = [i \in Entries |-> 0]

Init ==
    /\ disk = EmptyJournal /\ mem = EmptyJournal
    /\ pc = "idle"
    /\ wpc = [i \in Entries |-> "queued"]
    /\ id = [i \in Entries |-> 0]
    /\ isnap = [i \in Entries |-> [k \in Copies |-> "absent"]]
    /\ dsnap = [i \in Entries |-> [k \in Copies |-> "absent"]]
    /\ shared = {}
    /\ keys = [k \in Keys |-> "absent"]
    /\ aliases = {} /\ grants = {} /\ issued = 0
    /\ faults = 0

-----------------------------------------------------------------------------
(***************************************************************************)
(* Where the main goroutine goes next: the chain of `if journal.X == ""`   *)
(* of CopySnapshots, and the one of cleanupSnapshotCopies.                 *)
(***************************************************************************)
SetupPc(j) ==
    CASE j.key = 0 -> "createKey"
      [] j.key # 0 /\ ~j.aliasCreated -> "createAlias"
      [] j.key # 0 /\ j.aliasCreated /\ j.grant = 0 -> "createGrant"
      [] OTHER -> "copy"

CleanupPcKeyFirst(j) ==   \* mutant: the key is scheduled before the rest
    CASE ~j.keyScheduled -> "scheduleKey"
      [] j.keyScheduled /\ \E i \in Entries : ~j.deleted[i] -> "deleteIntermediary"
      [] OTHER -> "remap"

CleanupPc(j) ==
    CASE \E i \in Entries : ~j.deleted[i] -> "deleteIntermediary"
      [] (\A i \in Entries : j.deleted[i]) /\ ~j.grantRevoked -> "revokeGrant"
      [] (\A i \in Entries : j.deleted[i]) /\ j.grantRevoked /\ ~j.aliasDeleted
            -> "deleteAlias"
      [] (\A i \in Entries : j.deleted[i]) /\ j.grantRevoked /\ j.aliasDeleted
            /\ ~j.keyScheduled -> "scheduleKey"
      [] OTHER -> "remap"

\* loadOrCreateSnapshotJournal: the operator starts the command (again).
Start ==
    /\ \/ pc = "idle" /\ faults' = faults
       \/ pc = "done" /\ faults < MaxFaults /\ faults' = faults + 1
    /\ mem' = disk
    /\ pc' = SetupPc(disk)
    /\ UNCHANGED <<disk, wpc, id, snapVars, kmsVars>>

\* The next identity AWS hands out.
Fresh(f, k) == f[k] = "absent" /\ \A h \in 1..(k - 1) : f[h] # "absent"

Save == disk' = mem /\ UNCHANGED <<mem, wpc, id, snapVars, kmsVars, faults>>

CreateKey ==
    /\ pc = "createKey"
    /\ \E k \in Keys :
        /\ Fresh(keys, k)
        /\ keys' = [keys EXCEPT ![k] = "enabled"]
        /\ mem' = [mem EXCEPT !.key = k]
    /\ pc' = "saveSetup"
    /\ UNCHANGED <<disk, wpc, id, snapVars, aliases, grants, issued, faults>>

CreateAliasOnce ==   \* mutant: AlreadyExistsException is an error
    /\ pc = "createAlias"
    /\ mem.key \notin aliases
    /\ aliases' = aliases \cup {mem.key}
    /\ mem' = [mem EXCEPT !.aliasCreated = TRUE]
    /\ pc' = "saveSetup"
    /\ UNCHANGED <<disk, wpc, id, snapVars, keys, grants, issued, faults>>

\* AlreadyExistsException is tolerated, so an existing alias is not an error.
CreateAlias ==
    /\ pc = "createAlias"
    /\ aliases' = aliases \cup {mem.key}
    /\ mem' = [mem EXCEPT !.aliasCreated = TRUE]
    /\ pc' = "saveSetup"
    /\ UNCHANGED <<disk, wpc, id, snapVars, keys, grants, issued, faults>>

CreateGrant ==
    /\ pc = "createGrant"
    /\ keys[mem.key] = "enabled"
    /\ issued < MaxKeys
    /\ issued' = issued + 1
    /\ grants' = grants \cup {issued + 1}
    /\ mem' = [mem EXCEPT !.grant = issued + 1]
    /\ pc' = "saveSetup"
    /\ UNCHANGED <<disk, wpc, id, snapVars, keys, aliases, faults>>

SaveSetup == pc = "saveSetup" /\ pc' = SetupPc(mem) /\ Save

-----------------------------------------------------------------------------
(***************************************************************************)
(* runBounded and copySnapshotEntry.  A worker that fails cancels the      *)
(* shared context; the other workers may then fail at their next call or   *)
(* finish what they have in flight.                                        *)
(***************************************************************************)
Active == {i \in Entries : wpc[i] \in ActivePcs}
Failed == {i \in Entries : wpc[i] = "failed"}

Step(i, from, to) == /\ pc = "copy" /\ wpc[i] = from
                     /\ wpc' = [wpc EXCEPT ![i] = to]
                     /\ UNCHANGED pc

StartPc(j, i) ==
    CASE j.deleted[i] -> IF j.dest[i] = 0 THEN "failed" ELSE "validate"
      [] ~j.deleted[i] /\ j.inter[i] = 0 -> "findI"
      [] OTHER -> "waitI"

\* Entries are handed out in order, to goroutines that have not returned.
Dispatch(i) ==
    /\ \A h \in 1..(i - 1) : wpc[h] # "queued"
    /\ Cardinality(Active) + Cardinality(Failed) < Concurrency
    /\ Step(i, "queued", StartPc(mem, i))
    /\ UNCHANGED <<disk, mem, id, snapVars, kmsVars, faults>>

\* findOperationSnapshot: the snapshots its tag filter returns.
Tagged(snap, i) == {k \in Copies : snap[i][k] \in {"pending", "completed", "error"}}

\* One tagged snapshot is adopted, none lets the worker copy, two are an error.
FindOutcome(snap, i, copyPc, savePc) ==
    IF Tagged(snap, i) = {} THEN copyPc
    ELSE IF \E k \in Copies : Tagged(snap, i) = {k} THEN savePc
    ELSE "failed"

Find(snap, i, findPc, copyPc, savePc) ==
    /\ Step(i, findPc, FindOutcome(snap, i, copyPc, savePc))
    /\ \E k \in 0..MaxCopies :
        /\ IF wpc'[i] = savePc THEN Tagged(snap, i) = {k} ELSE k = 0
        /\ id' = [id EXCEPT ![i] = k]
    /\ UNCHANGED <<disk, mem, snapVars, kmsVars, faults>>

FindIntermediary(i) == Find(isnap, i, "findI", "copyI", "saveI")
FindDestination(i) == Find(dsnap, i, "findD", "copyD", "saveD")

CopyIntermediary(i) ==
    /\ Step(i, "copyI", "saveI")
    /\ keys[mem.key] = "enabled"
    /\ \E k \in Copies :
        /\ Fresh(isnap[i], k)
        /\ isnap' = [isnap EXCEPT ![i][k] = "created"]
        /\ id' = [id EXCEPT ![i] = k]
    /\ UNCHANGED <<disk, mem, dsnap, shared, kmsVars, faults>>

\* EBS and KMS accept the cross-account copy of a shared, completed snapshot
\* whose key is enabled and granted to the caller.
CanCopyDestination(i) ==
    /\ mem.inter[i] # 0 /\ isnap[i][mem.inter[i]] = "completed"
    /\ <<i, mem.inter[i]>> \in shared
    /\ mem.key # 0 /\ keys[mem.key] = "enabled"
    /\ mem.grant \in grants

CopyDestination(i) ==
    /\ Step(i, "copyD", "saveD")
    /\ CanCopyDestination(i)
    /\ \E k \in Copies :
        /\ Fresh(dsnap[i], k)
        /\ dsnap' = [dsnap EXCEPT ![i][k] = "created"]
        /\ id' = [id EXCEPT ![i] = k]
    /\ UNCHANGED <<disk, mem, isnap, shared, kmsVars, faults>>

\* updateEntry: the in-memory entry is changed and the whole journal saved
\* under one lock.
SaveIntermediary(i) ==
    /\ Step(i, "saveI", "waitI")
    /\ mem' = [mem EXCEPT !.inter[i] = id[i]]
    /\ disk' = mem'
    /\ UNCHANGED <<id, snapVars, kmsVars, faults>>

SaveDestination(i) ==
    /\ Step(i, "saveD", "waitD")
    /\ mem' = [mem EXCEPT !.dest[i] = id[i]]
    /\ disk' = mem'
    /\ UNCHANGED <<id, snapVars, kmsVars, faults>>

\* A failed save leaves the change in memory: a later save by another worker
\* writes it.
SaveFails(i) ==
    /\ faults < MaxFaults /\ faults' = faults + 1
    /\ \/ Step(i, "saveI", "failed") /\ mem' = [mem EXCEPT !.inter[i] = id[i]]
       \/ Step(i, "saveD", "failed") /\ mem' = [mem EXCEPT !.dest[i] = id[i]]
    /\ UNCHANGED <<disk, id, snapVars, kmsVars>>

\* waitForSnapshot: completed ends the wait, error fails it, anything else
\* (a snapshot that is not found included) is polled again.
WaitIntermediary(i) ==
    /\ \/ /\ Step(i, "waitI", "share")
          /\ isnap[i][mem.inter[i]] = "completed"
       \/ /\ Step(i, "waitI", "failed")
          /\ isnap[i][mem.inter[i]] = "error"
    /\ UNCHANGED <<disk, mem, id, snapVars, kmsVars, faults>>

ShareIntermediary(i) ==
    /\ Step(i, "share", IF mem.dest[i] = 0 THEN "findD" ELSE "waitD")
    /\ shared' = shared \cup {<<i, mem.inter[i]>>}
    /\ UNCHANGED <<disk, mem, id, isnap, dsnap, kmsVars, faults>>

WaitDestination(i) ==
    /\ \/ /\ Step(i, "waitD", "validate")
          /\ dsnap[i][mem.dest[i]] = "completed"
       \/ /\ Step(i, "waitD", "failed")
          /\ dsnap[i][mem.dest[i]] = "error"
    /\ UNCHANGED <<disk, mem, id, snapVars, kmsVars, faults>>

ValidateDestination(i) ==
    /\ wpc[i] = "validate"
    /\ Step(i, "validate",
            IF dsnap[i][mem.dest[i]] \in {"pending", "completed", "error"}
            THEN "finished" ELSE "failed")
    /\ UNCHANGED <<disk, mem, id, snapVars, kmsVars, faults>>

\* A call of the worker fails.
WorkerFault(i) ==
    /\ faults < MaxFaults /\ faults' = faults + 1
    /\ wpc[i] \in ActivePcs /\ Step(i, wpc[i], "failed")
    /\ UNCHANGED <<disk, mem, id, snapVars, kmsVars>>

\* The context is done: another worker failed, or the command's --timeout
\* expired while this one polled a snapshot that no longer exists.
WorkerCancelled(i) ==
    /\ \/ Failed # {} /\ wpc[i] \in ActivePcs
       \/ wpc[i] = "waitI" /\ isnap[i][mem.inter[i]] = "deleted"
    /\ Step(i, wpc[i], "failed")
    /\ UNCHANGED <<disk, mem, id, snapVars, kmsVars, faults>>

CopiesFinishAnyway ==   \* mutant: errors of the workers are dropped
    /\ pc = "copy"
    /\ Active = {} /\ \A i \in Entries : wpc[i] # "queued" /\ mem.inter[i] # 0
    /\ pc' = CleanupPc(mem)
    /\ UNCHANGED <<disk, mem, wpc, id, snapVars, kmsVars, faults>>

CopiesFinish ==
    /\ pc = "copy"
    /\ \A i \in Entries : wpc[i] = "finished"
    /\ pc' = CleanupPc(mem)
    /\ UNCHANGED <<disk, mem, wpc, id, snapVars, kmsVars, faults>>

\* runBounded returns the first error once every goroutine has returned.
CopiesFail ==
    /\ pc = "copy"
    /\ Failed # {} /\ Active = {}
    /\ pc' = "idle" /\ NoProcess
    /\ UNCHANGED <<disk, snapVars, kmsVars, faults>>

Worker(i) ==
    \/ Dispatch(i) \/ FindIntermediary(i) \/ CopyIntermediary(i)
    \/ SaveIntermediary(i) \/ WaitIntermediary(i) \/ ShareIntermediary(i)
    \/ FindDestination(i) \/ CopyDestination(i) \/ SaveDestination(i)
    \/ WaitDestination(i) \/ ValidateDestination(i) \/ WorkerCancelled(i)

-----------------------------------------------------------------------------
(***************************************************************************)
(* cleanupSnapshotCopies: one remote deletion, then one save.              *)
(***************************************************************************)
DeleteIntermediary ==
    /\ pc = "deleteIntermediary"
    /\ \E i \in Entries :
        /\ ~mem.deleted[i] /\ \A h \in 1..(i - 1) : mem.deleted[h]
        /\ mem.inter[i] # 0
        /\ isnap' = [isnap EXCEPT ![i][mem.inter[i]] = "deleted"]
        /\ mem' = [mem EXCEPT !.deleted[i] = TRUE]
    /\ pc' = "saveCleanup"
    /\ UNCHANGED <<disk, wpc, id, dsnap, shared, kmsVars, faults>>

RevokeGrant ==
    /\ pc = "revokeGrant"
    /\ grants' = grants \ {mem.grant}
    /\ mem' = [mem EXCEPT !.grantRevoked = TRUE]
    /\ pc' = "saveCleanup"
    /\ UNCHANGED <<disk, wpc, id, snapVars, keys, aliases, issued, faults>>

DeleteAlias ==
    /\ pc = "deleteAlias"
    /\ aliases' = aliases \ {mem.key}
    /\ mem' = [mem EXCEPT !.aliasDeleted = TRUE]
    /\ pc' = "saveCleanup"
    /\ UNCHANGED <<disk, wpc, id, snapVars, keys, grants, issued, faults>>

\* ScheduleKeyDeletion, tolerating KMSInvalidState, and the DescribeKey after.
ScheduleKeyDeletion ==
    /\ pc = "scheduleKey"
    /\ keys' = [keys EXCEPT ![mem.key] = "pendingDeletion"]
    /\ mem' = [mem EXCEPT !.keyScheduled = TRUE]
    /\ pc' = "saveCleanup"
    /\ UNCHANGED <<disk, wpc, id, snapVars, aliases, grants, issued, faults>>

SaveCleanup == pc = "saveCleanup" /\ pc' = CleanupPc(mem) /\ Save

\* RemapVolumeSnapshotContents returns without error (module VscRemap).
Remap ==
    /\ pc = "remap"
    /\ \A i \in Entries : mem.dest[i] # 0
    /\ pc' = "done" /\ NoProcess
    /\ UNCHANGED <<disk, snapVars, kmsVars, faults>>

Crash ==
    /\ pc \notin {"idle", "done"}
    /\ faults < MaxFaults /\ faults' = faults + 1
    /\ pc' = "idle" /\ NoProcess
    /\ UNCHANGED <<disk, snapVars, kmsVars>>

Main == \/ Start \/ CreateKey \/ CreateAlias \/ CreateGrant \/ SaveSetup
        \/ CopiesFinish \/ CopiesFail \/ DeleteIntermediary \/ RevokeGrant
        \/ DeleteAlias \/ ScheduleKeyDeletion \/ SaveCleanup \/ Remap

-----------------------------------------------------------------------------
(***************************************************************************)
(* AWS: a copy becomes visible, then completes or fails.                   *)
(***************************************************************************)
Progress(before, after) ==
    /\ \/ /\ \E i \in Entries, k \in Copies :
              /\ isnap[i][k] = before
              /\ isnap' = [isnap EXCEPT ![i][k] = after]
          /\ UNCHANGED dsnap
       \/ /\ \E i \in Entries, k \in Copies :
              /\ dsnap[i][k] = before
              /\ dsnap' = [dsnap EXCEPT ![i][k] = after]
          /\ UNCHANGED isnap
    /\ UNCHANGED <<disk, processVars, shared, kmsVars>>

SnapshotVisible == Progress("created", "pending") /\ UNCHANGED faults
SnapshotCompletes == Progress("pending", "completed") /\ UNCHANGED faults
SnapshotErrors == /\ CopiesMayFail
                  /\ faults < MaxFaults /\ faults' = faults + 1
                  /\ Progress("pending", "error")

Next == \/ Main
        \/ \E i \in Entries : Worker(i) \/ SaveFails(i) \/ WorkerFault(i)
        \/ SnapshotVisible \/ SnapshotCompletes \/ SnapshotErrors
        \/ Crash

\* The command keeps running, AWS makes progress, and an operator whose run
\* failed starts it again.  Nothing makes a fault happen.
Fairness == /\ WF_vars(Main)
            /\ \A i \in Entries : WF_vars(Worker(i))
            /\ WF_vars(SnapshotVisible) /\ WF_vars(SnapshotCompletes)

Spec == Init /\ [][Next]_vars
FairSpec == Spec /\ Fairness

\* A finished migration that no one starts again may stop.
Terminated == pc = "done" /\ faults = MaxFaults /\ UNCHANGED vars

MigrationSpec == Init /\ [][Next \/ Terminated]_vars /\ Fairness
-----------------------------------------------------------------------------
Completed(snap, i, k) == k # 0 /\ snap[i][k] = "completed"

\* An intermediary is only ever deleted once the journal on disk names a
\* completed destination copy of the same entry, whatever crashes follow: the
\* order of the wait, the journal save and cleanupSnapshotCopies.
NeverDeleteOnlyCopy ==
    \A i \in Entries, k \in Copies :
        isnap[i][k] = "deleted" => Completed(dsnap, i, disk.dest[i])

\* The temporary key is not scheduled for deletion while a run, this one or a
\* restarted one, still has an entry to copy with it.
KeyOutlivesCopies ==
    \A k \in Keys : keys[k] = "pendingDeletion" =>
        \A i \in Entries : disk.deleted[i] /\ Completed(dsnap, i, disk.dest[i])

JournalGrows ==
    /\ \A i \in Entries :
        /\ disk.inter[i] # 0 => disk'.inter[i] = disk.inter[i]
        /\ disk.dest[i] # 0 => disk'.dest[i] = disk.dest[i]
        /\ disk.deleted[i] => disk'.deleted[i]
    /\ disk.key # 0 => disk'.key = disk.key
    /\ disk.grant # 0 => disk'.grant = disk.grant

\* An ID the journal has recorded is never replaced by another one, and a
\* deletion once recorded is never forgotten: what a restart relies on.
JournalOnlyGrows == [][JournalGrows]_disk

\* A stage no rerun can get past: it waits for a snapshot that was deleted or
\* failed, or the tag search keeps returning two snapshots.
StageStuck(snap, i, recorded) ==
    IF recorded = 0 THEN \/ Cardinality(Tagged(snap, i)) > 1
                         \/ \E k \in Tagged(snap, i) : snap[i][k] = "error"
                    ELSE snap[i][recorded] \in {"error", "deleted"}

EntryStuck(i) == /\ ~disk.deleted[i]
                 /\ \/ StageStuck(isnap, i, disk.inter[i])
                    \/ StageStuck(dsnap, i, disk.dest[i])

\* An operator who keeps rerunning the command finishes the migration, unless
\* an entry is in one of the states above.
RerunsFinishOrStick ==
    <>(pc = "done") \/ <>[](\E i \in Entries : EntryStuck(i))

\* The command's help: the mappings are kept "in a restartable journal".
RestartableJournal == <>(pc = "done")
-----------------------------------------------------------------------------
(***************************************************************************)
(* The journal on disk, read as the state of SnapshotMigration.            *)
(***************************************************************************)
StageOf(j, i) == CASE j.deleted[i] -> "cleaned"
                   [] ~j.deleted[i] /\ j.dest[i] # 0 -> "destination"
                   [] ~j.deleted[i] /\ j.dest[i] = 0 /\ j.inter[i] # 0 -> "intermediate"
                   [] OTHER -> "source"

KeyOf(j) == CASE j.keyScheduled -> "retired"
              [] ~j.keyScheduled /\ j.key # 0 -> "live"
              [] OTHER -> "none"

Migration == INSTANCE SnapshotMigration WITH
    Entry <- Entries,
    stage <- [i \in Entries |-> StageOf(disk, i)],
    key <- KeyOf(disk)

\* Every save of the journal, in any run, is a step the migration allows.
ImplementsMigration == Migration!Spec
=============================================================================
