-------------------------- MODULE SnapshotCopyProofs --------------------------
(***************************************************************************)
(* Proofs about SnapshotCopy, for any number of entries, goroutines, runs  *)
(* and faults.                                                             *)
(***************************************************************************)
EXTENDS SnapshotCopy, TLAPS

-----------------------------------------------------------------------------
(***************************************************************************)
(* The inductive invariant.  Its heart: what a worker has validated, and   *)
(* what cleanup relies on, is a destination that is complete and recorded  *)
(* on disk, because the memory of the process only differs from the disk   *)
(* in the entry of a failed worker.                                        *)
(***************************************************************************)
Gone == {"idle", "done"}
AfterCopy == CleanupPcs \cup {"remap"}

\* The journal in memory extends the one on disk, and equals it where no save
\* is outstanding.
MemoryInv(i) ==
    /\ pc \notin Gone =>
        /\ disk.inter[i] # 0 => mem.inter[i] = disk.inter[i]
        /\ disk.dest[i] # 0 => mem.dest[i] = disk.dest[i]
        /\ disk.deleted[i] => mem.deleted[i]
    /\ pc \in SetupPcs \cup AfterCopy =>
        mem.inter[i] = disk.inter[i] /\ mem.dest[i] = disk.dest[i]
    /\ pc \in SetupPcs \cup {"copy"} => mem.deleted[i] = disk.deleted[i]
    /\ pc \in SetupPcs \cup Gone => wpc[i] = "queued"

\* Where a worker is tells what it has recorded.
WorkerInv(i) ==
    pc = "copy" =>
        /\ wpc[i] # "failed" =>
            mem.inter[i] = disk.inter[i] /\ mem.dest[i] = disk.dest[i]
        /\ wpc[i] \in {"findI", "copyI", "saveI"} => mem.inter[i] = 0
        /\ wpc[i] \in {"waitI", "share", "findD", "copyD", "saveD", "waitD"}
            => mem.inter[i] # 0
        /\ wpc[i] \in {"findD", "copyD", "saveD"} => mem.dest[i] = 0
        /\ wpc[i] = "waitD" => mem.dest[i] # 0
        /\ wpc[i] \in {"saveI", "saveD"} => id[i] # 0
        /\ wpc[i] \in {"validate", "finished"} => Completed(dsnap, i, disk.dest[i])

\* Deletion, whether recorded, made or about to be made, comes after the copy.
SafetyInv(i) ==
    /\ pc \in AfterCopy => Completed(dsnap, i, disk.dest[i])
    /\ disk.deleted[i] => Completed(dsnap, i, disk.dest[i])
    /\ \A k \in Copies : isnap[i][k] = "deleted" => Completed(dsnap, i, disk.dest[i])

EntryInv(i) == MemoryInv(i) /\ WorkerInv(i) /\ SafetyInv(i)

\* The key is chosen before it is used, and retired after the last deletion
\* is recorded.
KeyInv ==
    /\ pc \notin Gone \cup {"createKey"} => mem.key # 0
    /\ pc \in {"revokeGrant", "deleteAlias", "scheduleKey"} =>
        \A i \in Entries : disk.deleted[i]
    /\ \A k \in Keys : keys[k] = "pendingDeletion" =>
        \A i \in Entries : disk.deleted[i]

IInv == TypeOK /\ KeyInv /\ \A i \in Entries : EntryInv(i)

-----------------------------------------------------------------------------
(* Facts about the operators of SnapshotCopy. *)

\* The journal of a process that has not started is a journal.
LEMMA EmptyJournalType == EmptyJournal \in Journal
BY ConstantsAssumption DEF EmptyJournal, Journal, Copies, Keys

\* Recording a known ID or a deletion keeps a journal a journal.
LEMMA RecordType ==
    ASSUME NEW j \in Journal, NEW i \in Entries, NEW k \in 0..MaxCopies
    PROVE  /\ [j EXCEPT !.inter[i] = k] \in Journal
           /\ [j EXCEPT !.dest[i] = k] \in Journal
BY DEF Journal

\* Recording the deletion of an intermediary (cleanupSnapshotCopies) keeps a
\* journal a journal.
LEMMA RecordDeletionType ==
    ASSUME NEW j \in Journal, NEW i \in Entries
    PROVE  [j EXCEPT !.deleted[i] = TRUE] \in Journal
BY DEF Journal

\* So does recording anything about the key, its alias or its grant.
LEMMA SetScalarType ==
    ASSUME NEW j \in Journal, NEW k \in 0..MaxKeys
    PROVE  /\ [j EXCEPT !.key = k] \in Journal
           /\ [j EXCEPT !.grant = k] \in Journal
           /\ [j EXCEPT !.aliasCreated = TRUE] \in Journal
           /\ [j EXCEPT !.grantRevoked = TRUE] \in Journal
           /\ [j EXCEPT !.aliasDeleted = TRUE] \in Journal
           /\ [j EXCEPT !.keyScheduled = TRUE] \in Journal
BY DEF Journal

\* Creating, advancing or deleting a snapshot.
LEMMA SnapType ==
    ASSUME NEW snap \in [Entries -> [Copies -> SnapState]],
           NEW i \in Entries, NEW k, NEW v \in SnapState
    PROVE  [snap EXCEPT ![i][k] = v] \in [Entries -> [Copies -> SnapState]]
OBVIOUS

\* The chains of conditions of CopySnapshots and cleanupSnapshotCopies only
\* lead to program points.
LEMMA NextPcType ==
    ASSUME NEW j
    PROVE  /\ SetupPc(j) \in {"createKey", "createAlias", "createGrant", "copy"}
           /\ CleanupPc(j) \in (CleanupPcs \ {"saveCleanup"}) \cup {"remap"}
BY DEF SetupPc, CleanupPc, CleanupPcs

\* A worker's step.
LEMMA StepEffect ==
    ASSUME TypeOK, NEW i \in Entries, NEW from, NEW to \in WorkerPcs,
           Step(i, from, to)
    PROVE  /\ pc = "copy" /\ pc' = "copy" /\ wpc[i] = from
           /\ wpc' \in [Entries -> WorkerPcs]
           /\ wpc'[i] = to
           /\ \A h \in Entries : h # i => wpc'[h] = wpc[h]
BY DEF TypeOK, Step

-----------------------------------------------------------------------------
(* Type correctness. *)

\* Every variable has its type initially.
LEMMA TypeInit == Init => TypeOK
BY EmptyJournalType, ConstantsAssumption
   DEF Init, TypeOK, MainPcs, WorkerPcs, SnapState, KeyState, Copies, Keys

\* A step of the main goroutine, or a crash, keeps the types.
LEMMA TypeMain == IInv /\ (Main \/ Crash) => TypeOK'
<1> SUFFICES ASSUME TypeOK, KeyInv, Main \/ Crash PROVE TypeOK'
  BY DEF IInv
<1> USE ConstantsAssumption
<1>a. mem.key \in 0..MaxKeys /\ disk \in Journal /\ mem \in Journal
  BY DEF TypeOK, Journal
<1>b. ASSUME NoProcess
      PROVE  /\ mem' \in Journal
             /\ wpc' \in [Entries -> WorkerPcs]
             /\ id' \in [Entries -> 0..MaxCopies]
  BY <1>b, EmptyJournalType DEF NoProcess, WorkerPcs
<1>c. /\ {"createKey", "createAlias", "createGrant", "copy"} \subseteq MainPcs
      /\ CleanupPcs \cup {"remap", "idle", "done", "saveSetup"} \subseteq MainPcs
      /\ "saveCleanup" \in MainPcs
  BY DEF MainPcs, SetupPcs, CleanupPcs
<1>1. CASE Start
  BY <1>1, <1>c, NextPcType DEF Start, TypeOK, snapVars, kmsVars
<1>2. CASE CreateKey
  <2>1. PICK k \in Keys : /\ keys' = [keys EXCEPT ![k] = "enabled"]
                          /\ mem' = [mem EXCEPT !.key = k]
    BY <1>2 DEF CreateKey
  <2>2. k \in 0..MaxKeys
    BY DEF Keys
  <2>3. mem' \in Journal
    BY <2>1, <2>2, <1>a, SetScalarType
  <2>4. keys' \in [Keys -> KeyState]
    BY <2>1 DEF TypeOK, KeyState
  <2>. QED
    BY <1>2, <2>3, <2>4, <1>c DEF CreateKey, TypeOK, snapVars
<1>3. CASE CreateAlias
  <2>1. mem.key \in Keys
    BY <1>3, <1>a DEF CreateAlias, KeyInv, Gone, Keys
  <2>2. mem' \in Journal
    BY <1>3, <1>a, SetScalarType DEF CreateAlias
  <2>. QED
    BY <1>3, <2>1, <2>2, <1>c DEF CreateAlias, TypeOK, snapVars
<1>4. CASE CreateGrant
  <2>1. issued + 1 \in Keys /\ issued + 1 \in 0..MaxKeys
    BY <1>4 DEF CreateGrant, TypeOK, Keys
  <2>2. mem' \in Journal
    BY <1>4, <2>1, <1>a, SetScalarType DEF CreateGrant
  <2>. QED
    BY <1>4, <2>1, <2>2, <1>c DEF CreateGrant, TypeOK, snapVars
<1>5. CASE SaveSetup
  BY <1>5, <1>c, NextPcType DEF SaveSetup, Save, TypeOK, snapVars, kmsVars
<1>6. CASE CopiesFinish
  BY <1>6, <1>c, NextPcType DEF CopiesFinish, TypeOK, snapVars, kmsVars
<1>7. CASE CopiesFail
  BY <1>7, <1>b, <1>c DEF CopiesFail, TypeOK, snapVars, kmsVars
<1>8. CASE DeleteIntermediary
  <2>1. PICK i \in Entries :
            /\ isnap' = [isnap EXCEPT ![i][mem.inter[i]] = "deleted"]
            /\ mem' = [mem EXCEPT !.deleted[i] = TRUE]
    BY <1>8 DEF DeleteIntermediary
  <2>2. mem' \in Journal
    BY <2>1, <1>a, RecordDeletionType
  <2>3. isnap' \in [Entries -> [Copies -> SnapState]]
    BY <2>1, SnapType DEF TypeOK, SnapState
  <2>. QED
    BY <1>8, <2>2, <2>3, <1>c DEF DeleteIntermediary, TypeOK, kmsVars
<1>9. CASE RevokeGrant
  BY <1>9, <1>a, <1>c, SetScalarType DEF RevokeGrant, TypeOK, snapVars
<1>10. CASE DeleteAlias
  BY <1>10, <1>a, <1>c, SetScalarType DEF DeleteAlias, TypeOK, snapVars
<1>11. CASE ScheduleKeyDeletion
  BY <1>11, <1>a, <1>c, SetScalarType
     DEF ScheduleKeyDeletion, TypeOK, snapVars, KeyState
<1>12. CASE SaveCleanup
  BY <1>12, <1>c, NextPcType DEF SaveCleanup, Save, TypeOK, snapVars, kmsVars
<1>13. CASE Remap
  BY <1>13, <1>b, <1>c DEF Remap, TypeOK, snapVars, kmsVars
<1>14. CASE Crash
  BY <1>14, <1>b, <1>c DEF Crash, TypeOK, snapVars, kmsVars
<1>. QED
  BY <1>1, <1>2, <1>3, <1>4, <1>5, <1>6, <1>7, <1>8, <1>9, <1>10, <1>11,
     <1>12, <1>13, <1>14 DEF Main

\* A step of the goroutine of an entry keeps the types.
LEMMA TypeWorker ==
    IInv /\ (\E i \in Entries : Worker(i) \/ SaveFails(i) \/ WorkerFault(i)) => TypeOK'
<1> SUFFICES ASSUME TypeOK, NEW i \in Entries, EntryInv(i),
                    Worker(i) \/ SaveFails(i) \/ WorkerFault(i)
             PROVE  TypeOK'
  BY DEF IInv
<1> USE ConstantsAssumption
<1>a. /\ mem \in Journal /\ id[i] \in 0..MaxCopies
      /\ mem.inter[i] \in 0..MaxCopies /\ mem.dest[i] \in 0..MaxCopies
  BY DEF TypeOK, Journal
<1>b. ASSUME NEW from, NEW to \in WorkerPcs, Step(i, from, to)
      PROVE  pc' \in MainPcs /\ wpc' \in [Entries -> WorkerPcs]
  BY <1>b, StepEffect DEF MainPcs
<1>c. {"queued", "finished", "failed"} \cup ActivePcs \subseteq WorkerPcs
  BY DEF WorkerPcs
<1>1. CASE Dispatch(i)
  <2>1. StartPc(mem, i) \in WorkerPcs
    BY DEF StartPc, WorkerPcs, ActivePcs
  <2>. QED
    BY <1>1, <2>1, <1>b DEF Dispatch, TypeOK, snapVars, kmsVars
<1>2. ASSUME NEW snap, NEW findPc, NEW copyPc \in ActivePcs,
             NEW savePc \in ActivePcs, Find(snap, i, findPc, copyPc, savePc)
      PROVE  TypeOK'
  <2>1. FindOutcome(snap, i, copyPc, savePc) \in WorkerPcs
    BY <1>c DEF FindOutcome
  <2>2. PICK k \in 0..MaxCopies : id' = [id EXCEPT ![i] = k]
    BY <1>2 DEF Find
  <2>3. pc' \in MainPcs /\ wpc' \in [Entries -> WorkerPcs]
    BY <1>2, <2>1, <1>b DEF Find
  <2>. QED
    BY <1>2, <2>2, <2>3 DEF Find, TypeOK, snapVars, kmsVars
<1>3. CASE FindIntermediary(i)
  BY <1>2, <1>3 DEF FindIntermediary, ActivePcs
<1>4. CASE FindDestination(i)
  BY <1>2, <1>4 DEF FindDestination, ActivePcs
<1>5. CASE CopyIntermediary(i)
  <2>1. PICK k \in Copies : /\ isnap' = [isnap EXCEPT ![i][k] = "created"]
                            /\ id' = [id EXCEPT ![i] = k]
    BY <1>5 DEF CopyIntermediary
  <2>2. /\ isnap' \in [Entries -> [Copies -> SnapState]]
        /\ id' \in [Entries -> 0..MaxCopies]
    BY <2>1, SnapType DEF TypeOK, SnapState, Copies
  <2>3. pc' \in MainPcs /\ wpc' \in [Entries -> WorkerPcs]
    BY <1>5, <1>b, <1>c DEF CopyIntermediary, ActivePcs
  <2>. QED
    BY <1>5, <2>2, <2>3 DEF CopyIntermediary, TypeOK, kmsVars
<1>6. CASE CopyDestination(i)
  <2>1. PICK k \in Copies : /\ dsnap' = [dsnap EXCEPT ![i][k] = "created"]
                            /\ id' = [id EXCEPT ![i] = k]
    BY <1>6 DEF CopyDestination
  <2>2. /\ dsnap' \in [Entries -> [Copies -> SnapState]]
        /\ id' \in [Entries -> 0..MaxCopies]
    BY <2>1, SnapType DEF TypeOK, SnapState, Copies
  <2>3. pc' \in MainPcs /\ wpc' \in [Entries -> WorkerPcs]
    BY <1>6, <1>b, <1>c DEF CopyDestination, ActivePcs
  <2>. QED
    BY <1>6, <2>2, <2>3 DEF CopyDestination, TypeOK, kmsVars
<1>7. CASE SaveIntermediary(i)
  <2>1. mem' \in Journal
    BY <1>7, <1>a, RecordType DEF SaveIntermediary
  <2>2. pc' \in MainPcs /\ wpc' \in [Entries -> WorkerPcs]
    BY <1>7, <1>b, <1>c DEF SaveIntermediary, ActivePcs
  <2>. QED
    BY <1>7, <2>1, <2>2 DEF SaveIntermediary, TypeOK, snapVars, kmsVars
<1>8. CASE SaveDestination(i)
  <2>1. mem' \in Journal
    BY <1>8, <1>a, RecordType DEF SaveDestination
  <2>2. pc' \in MainPcs /\ wpc' \in [Entries -> WorkerPcs]
    BY <1>8, <1>b, <1>c DEF SaveDestination, ActivePcs
  <2>. QED
    BY <1>8, <2>1, <2>2 DEF SaveDestination, TypeOK, snapVars, kmsVars
<1>9. CASE SaveFails(i)
  <2>1. \/ mem' = [mem EXCEPT !.inter[i] = id[i]]
        \/ mem' = [mem EXCEPT !.dest[i] = id[i]]
    BY <1>9 DEF SaveFails
  <2>3. mem' \in Journal
    <3>1. CASE mem' = [mem EXCEPT !.inter[i] = id[i]]
      BY <3>1, <1>a, RecordType
    <3>2. CASE mem' = [mem EXCEPT !.dest[i] = id[i]]
      BY <3>2, <1>a, RecordType
    <3>. QED
      BY <2>1, <3>1, <3>2
  <2>2. pc' \in MainPcs /\ wpc' \in [Entries -> WorkerPcs]
    BY <1>9, <1>b, <1>c DEF SaveFails
  <2>. QED
    BY <1>9, <2>3, <2>2 DEF SaveFails, TypeOK, snapVars, kmsVars
<1>10. CASE WaitIntermediary(i) \/ WaitDestination(i)
  <2>1. pc' \in MainPcs /\ wpc' \in [Entries -> WorkerPcs]
    BY <1>10, <1>b, <1>c DEF WaitIntermediary, WaitDestination, ActivePcs
  <2>. QED
    BY <1>10, <2>1 DEF WaitIntermediary, WaitDestination, TypeOK, snapVars, kmsVars
<1>11. CASE ShareIntermediary(i)
  <2>1. pc' \in MainPcs /\ wpc' \in [Entries -> WorkerPcs]
    BY <1>11, <1>b, <1>c DEF ShareIntermediary, ActivePcs
  <2>2. mem.inter[i] \in Copies
    BY <1>11, <1>a DEF ShareIntermediary, Step, EntryInv, WorkerInv, Copies
  <2>. QED
    BY <1>11, <2>1, <2>2 DEF ShareIntermediary, TypeOK, kmsVars
<1>12. CASE ValidateDestination(i)
  <2>1. pc' \in MainPcs /\ wpc' \in [Entries -> WorkerPcs]
    BY <1>12, <1>b, <1>c DEF ValidateDestination, ActivePcs
  <2>. QED
    BY <1>12, <2>1 DEF ValidateDestination, TypeOK, snapVars, kmsVars
<1>13. CASE WorkerCancelled(i) \/ WorkerFault(i)
  <2>1. pc' \in MainPcs /\ wpc' \in [Entries -> WorkerPcs]
    BY <1>13, <1>b, <1>c DEF WorkerCancelled, WorkerFault
  <2>. QED
    BY <1>13, <2>1 DEF WorkerCancelled, WorkerFault, TypeOK, snapVars, kmsVars
<1>. QED
  BY <1>1, <1>3, <1>4, <1>5, <1>6, <1>7, <1>8, <1>9, <1>10, <1>11, <1>12,
     <1>13 DEF Worker

\* Progress of a copy in AWS keeps the types.
LEMMA TypeAws ==
    IInv /\ (SnapshotVisible \/ SnapshotCompletes \/ SnapshotErrors) => TypeOK'
<1> SUFFICES ASSUME TypeOK, SnapshotVisible \/ SnapshotCompletes \/ SnapshotErrors
             PROVE  TypeOK'
  BY DEF IInv
<1>1. ASSUME NEW before, NEW after \in SnapState, Progress(before, after)
      PROVE  /\ isnap' \in [Entries -> [Copies -> SnapState]]
             /\ dsnap' \in [Entries -> [Copies -> SnapState]]
  <2>1. isnap \in [Entries -> [Copies -> SnapState]]
        /\ dsnap \in [Entries -> [Copies -> SnapState]]
    BY DEF TypeOK
  <2>2. CASE /\ \E i \in Entries, k \in Copies : isnap' = [isnap EXCEPT ![i][k] = after]
             /\ UNCHANGED dsnap
    <3>1. PICK i \in Entries, k \in Copies : isnap' = [isnap EXCEPT ![i][k] = after]
      BY <2>2
    <3>. QED
      BY <2>1, <2>2, <3>1, SnapType
  <2>3. CASE /\ \E i \in Entries, k \in Copies : dsnap' = [dsnap EXCEPT ![i][k] = after]
             /\ UNCHANGED isnap
    <3>1. PICK i \in Entries, k \in Copies : dsnap' = [dsnap EXCEPT ![i][k] = after]
      BY <2>3
    <3>. QED
      BY <2>1, <2>3, <3>1, SnapType
  <2>. QED
    BY <1>1, <2>2, <2>3 DEF Progress
<1>2. /\ isnap' \in [Entries -> [Copies -> SnapState]]
      /\ dsnap' \in [Entries -> [Copies -> SnapState]]
  BY <1>1 DEF SnapshotVisible, SnapshotCompletes, SnapshotErrors, SnapState
<1>. QED
  BY <1>2, ConstantsAssumption
     DEF SnapshotVisible, SnapshotCompletes, SnapshotErrors, Progress, TypeOK,
         processVars, kmsVars

-----------------------------------------------------------------------------
(***************************************************************************)
(* The entries.  A complete copy stays complete, and the ID under which an *)
(* entry's destination is recorded stays recorded, so what is known of one *)
(* entry survives the steps of the others.                                 *)
(***************************************************************************)

\* What a step must respect for another entry's safety to survive it.
Keeps(i) ==
    /\ disk.dest[i] # 0 => disk'.dest[i] = disk.dest[i]
    /\ \A k \in Copies : dsnap[i][k] = "completed" => dsnap'[i][k] = "completed"

\* A completed destination copy stays completed, whatever step is taken.
LEMMA CompletedStays ==
    ASSUME TypeOK, NEW i \in Entries, Keeps(i), Completed(dsnap, i, disk.dest[i])
    PROVE  Completed(dsnap', i, disk'.dest[i])
<1>1. disk.dest[i] \in Copies
  BY DEF TypeOK, Journal, Completed, Copies
<1>. QED
  BY <1>1 DEF Keeps, Completed

\* A save writes, for every entry whose destination is on disk, the same ID.
LEMMA SaveKeeps ==
    ASSUME TypeOK, NEW i \in Entries, MemoryInv(i), pc \notin Gone,
           disk' = mem, UNCHANGED dsnap
    PROVE  Keeps(i)
BY DEF Keeps, MemoryInv

\* What the invariant says of an entry holds initially.
LEMMA EntryInit == Init => \A i \in Entries : EntryInv(i)
BY DEF Init, EntryInv, MemoryInv, WorkerInv, SafetyInv, Gone, AfterCopy,
       SetupPcs, CleanupPcs, EmptyJournal

\* A step of the main goroutine, or a crash, preserves what the invariant
\* says of an entry.
LEMMA EntryMain ==
    ASSUME TypeOK, NEW i \in Entries, \A h \in Entries : EntryInv(h), Main \/ Crash
    PROVE  EntryInv(i)'
<1> USE DEF EntryInv
<1>a. SetupPcs \cap AfterCopy = {} /\ SetupPcs \cap Gone = {} /\ AfterCopy \cap Gone = {}
      /\ "copy" \notin SetupPcs \cup AfterCopy \cup Gone
  BY DEF SetupPcs, AfterCopy, CleanupPcs, Gone
<1>1. CASE Start
  <2>1. pc \in Gone /\ mem' = disk /\ pc' = SetupPc(disk)
        /\ UNCHANGED <<disk, wpc, id, isnap, dsnap>>
    BY <1>1 DEF Start, Gone, snapVars
  <2>2. pc' \in {"createKey", "createAlias", "createGrant", "copy"}
    BY <2>1, NextPcType
  <2>. QED
    BY <2>1, <2>2 DEF MemoryInv, WorkerInv, SafetyInv, Gone, AfterCopy,
       SetupPcs, CleanupPcs, Completed
<1>2. CASE CreateKey \/ CreateAlias \/ CreateGrant
  <2>1. /\ pc \in SetupPcs /\ pc' = "saveSetup"
        /\ mem'.inter = mem.inter /\ mem'.dest = mem.dest /\ mem'.deleted = mem.deleted
        /\ UNCHANGED <<disk, wpc, id, isnap, dsnap>>
    BY <1>2 DEF CreateKey, CreateAlias, CreateGrant, SetupPcs, snapVars, TypeOK, Journal
  <2>. QED
    BY <2>1 DEF MemoryInv, WorkerInv, SafetyInv, Gone, AfterCopy,
       SetupPcs, CleanupPcs, Completed
<1>3. CASE SaveSetup
  <2>1. /\ pc = "saveSetup" /\ pc' = SetupPc(mem) /\ disk' = mem
        /\ UNCHANGED <<mem, wpc, id, isnap, dsnap>>
    BY <1>3 DEF SaveSetup, Save, snapVars
  <2>2. pc' \in {"createKey", "createAlias", "createGrant", "copy"}
    BY <2>1, NextPcType
  <2>. QED
    BY <2>1, <2>2 DEF MemoryInv, WorkerInv, SafetyInv, Gone, AfterCopy,
       SetupPcs, CleanupPcs, Completed
<1>4. CASE CopiesFinish
  <2>1. /\ pc = "copy" /\ wpc[i] = "finished" /\ pc' = CleanupPc(mem)
        /\ UNCHANGED <<disk, mem, wpc, id, isnap, dsnap>>
    BY <1>4 DEF CopiesFinish, snapVars
  <2>2. pc' \in AfterCopy \ {"saveCleanup"}
    BY <2>1, NextPcType DEF AfterCopy, CleanupPcs
  <2>. QED
    BY <2>1, <2>2, <1>a DEF MemoryInv, WorkerInv, SafetyInv, Completed
<1>5. CASE CopiesFail \/ Remap \/ Crash
  <2>1. /\ pc' \in Gone /\ wpc'[i] = "queued"
        /\ UNCHANGED <<disk, isnap, dsnap>>
    BY <1>5 DEF CopiesFail, Remap, Crash, NoProcess, snapVars, Gone
  <2>. QED
    BY <2>1, <1>a DEF MemoryInv, WorkerInv, SafetyInv, Completed, Gone
<1>6. CASE DeleteIntermediary
  <2>1. PICK h \in Entries :
            /\ isnap' = [isnap EXCEPT ![h][mem.inter[h]] = "deleted"]
            /\ mem' = [mem EXCEPT !.deleted[h] = TRUE]
    BY <1>6 DEF DeleteIntermediary
  <2>2. /\ pc \in AfterCopy /\ pc' = "saveCleanup"
        /\ UNCHANGED <<disk, wpc, id, dsnap>>
    BY <1>6 DEF DeleteIntermediary, AfterCopy, CleanupPcs
  <2>3. /\ mem'.inter = mem.inter /\ mem'.dest = mem.dest
        /\ mem.deleted[i] => mem'.deleted[i]
    BY <2>1 DEF TypeOK, Journal
  <2>. QED
    BY <2>2, <2>3, <1>a DEF MemoryInv, WorkerInv, SafetyInv, Completed,
       AfterCopy, CleanupPcs, SetupPcs
<1>7. CASE RevokeGrant \/ DeleteAlias \/ ScheduleKeyDeletion
  <2>1. /\ pc \in AfterCopy /\ pc' = "saveCleanup"
        /\ mem'.inter = mem.inter /\ mem'.dest = mem.dest /\ mem'.deleted = mem.deleted
        /\ UNCHANGED <<disk, wpc, id, isnap, dsnap>>
    BY <1>7 DEF RevokeGrant, DeleteAlias, ScheduleKeyDeletion, AfterCopy,
       CleanupPcs, snapVars, TypeOK, Journal
  <2>. QED
    BY <2>1, <1>a DEF MemoryInv, WorkerInv, SafetyInv, Completed, AfterCopy,
       CleanupPcs, SetupPcs
<1>8. CASE SaveCleanup
  <2>1. /\ pc = "saveCleanup" /\ pc' = CleanupPc(mem) /\ disk' = mem
        /\ UNCHANGED <<mem, wpc, id, isnap, dsnap>>
    BY <1>8 DEF SaveCleanup, Save, snapVars
  <2>2. pc' \in AfterCopy \ {"saveCleanup"}
    BY <2>1, NextPcType DEF AfterCopy, CleanupPcs
  <2>3. pc \in AfterCopy
    BY <2>1 DEF AfterCopy, CleanupPcs
  <2>. QED
    BY <2>1, <2>2, <2>3, <1>a DEF MemoryInv, WorkerInv, SafetyInv, Completed
<1>. QED
  BY <1>1, <1>2, <1>3, <1>4, <1>5, <1>6, <1>7, <1>8 DEF Main

\* The steps of a worker that leave the journal and the snapshots alone.
LEMMA EntryQuietStep ==
    ASSUME TypeOK, NEW i \in Entries, EntryInv(i), NEW j \in Entries,
           NEW from \in ActivePcs \cup {"queued"}, NEW to \in WorkerPcs,
           Step(j, from, to),
           UNCHANGED <<disk, mem, isnap, dsnap>>,
           \A h \in Entries : h # j => id'[h] = id[h],
           to \in {"findI", "copyI", "saveI"} => mem.inter[j] = 0,
           to \in {"waitI", "share", "findD", "copyD", "saveD", "waitD"}
               => mem.inter[j] # 0,
           to \in {"findD", "copyD", "saveD"} => mem.dest[j] = 0,
           to = "waitD" => mem.dest[j] # 0,
           to \in {"saveI", "saveD"} => id'[j] # 0,
           to \in {"validate", "finished"} => Completed(dsnap, j, disk.dest[j])
    PROVE  EntryInv(i)'
<1>1. /\ pc = "copy" /\ pc' = "copy" /\ wpc[j] = from /\ wpc'[j] = to
      /\ \A h \in Entries : h # j => wpc'[h] = wpc[h]
  BY StepEffect
<1>2. from # "failed"
  BY DEF ActivePcs
<1>3. MemoryInv(i)' /\ SafetyInv(i)'
  BY <1>1 DEF EntryInv, MemoryInv, SafetyInv, Completed, Gone, AfterCopy,
     CleanupPcs, SetupPcs
<1>4. CASE i = j
  BY <1>1, <1>2, <1>3, <1>4 DEF EntryInv, WorkerInv, Completed
<1>5. CASE i # j
  BY <1>1, <1>3, <1>5 DEF EntryInv, WorkerInv, Completed
<1>. QED
  BY <1>4, <1>5

\* A step of a goroutine preserves what the invariant says of its own entry
\* and of the others.
LEMMA EntryWorker ==
    ASSUME TypeOK, NEW i \in Entries, \A h \in Entries : EntryInv(h),
           NEW j \in Entries, Worker(j) \/ SaveFails(j) \/ WorkerFault(j)
    PROVE  EntryInv(i)'
<1>a. EntryInv(i) /\ EntryInv(j)
  OBVIOUS
<1>b. /\ mem.inter[j] \in 0..MaxCopies /\ mem.dest[j] \in 0..MaxCopies
      /\ id \in [Entries -> 0..MaxCopies]
  BY DEF TypeOK, Journal
<1>c. {"queued", "finished", "failed"} \cup ActivePcs \subseteq WorkerPcs
  BY DEF WorkerPcs
<1>1. CASE Dispatch(j)
  <2>1. /\ pc = "copy" /\ Step(j, "queued", StartPc(mem, j))
        /\ UNCHANGED <<disk, mem, id, isnap, dsnap>> /\ wpc[j] = "queued"
    BY <1>1 DEF Dispatch, snapVars, Step
  <2>2. StartPc(mem, j) \in {"failed", "validate", "findI", "waitI"}
    BY DEF StartPc
  <2>3. StartPc(mem, j) = "findI" => mem.inter[j] = 0
    BY DEF StartPc
  <2>4. StartPc(mem, j) = "waitI" => mem.inter[j] # 0
    BY DEF StartPc
  <2>5. StartPc(mem, j) = "validate" => mem.deleted[j]
    BY DEF StartPc
  <2>6. StartPc(mem, j) = "validate" => Completed(dsnap, j, disk.dest[j])
    BY <2>1, <2>5, <1>a DEF EntryInv, MemoryInv, SafetyInv
  <2>7. StartPc(mem, j) \in WorkerPcs
    BY <2>2 DEF WorkerPcs, ActivePcs
  <2>. QED
    BY <2>1, <2>2, <2>3, <2>4, <2>6, <2>7, <1>a, EntryQuietStep
<1>2. CASE FindIntermediary(j)
  <2>1. /\ Step(j, "findI", FindOutcome(isnap, j, "copyI", "saveI"))
        /\ UNCHANGED <<disk, mem, isnap, dsnap>>
    BY <1>2 DEF FindIntermediary, Find, snapVars
  <2>2. FindOutcome(isnap, j, "copyI", "saveI") \in {"copyI", "saveI", "failed"}
    BY DEF FindOutcome
  <2>3. mem.inter[j] = 0
    BY <2>1, <1>a DEF EntryInv, WorkerInv, Step
  <2>4. PICK k \in 0..MaxCopies :
            /\ wpc'[j] = "saveI" => Tagged(isnap, j) = {k}
            /\ id' = [id EXCEPT ![j] = k]
    BY <1>2 DEF FindIntermediary, Find
  <2>5. wpc'[j] = FindOutcome(isnap, j, "copyI", "saveI")
    BY <2>1, <2>2, StepEffect DEF WorkerPcs, ActivePcs
  <2>6. FindOutcome(isnap, j, "copyI", "saveI") = "saveI" => id'[j] # 0
    BY <2>4, <2>5, <1>b DEF Tagged, Copies
  <2>7. \A h \in Entries : h # j => id'[h] = id[h]
    BY <2>4, <1>b
  <2>8. "findI" \in ActivePcs /\ {"copyI", "saveI", "failed"} \subseteq WorkerPcs
    BY DEF WorkerPcs, ActivePcs
  <2>. QED
    BY <2>1, <2>2, <2>3, <2>6, <2>7, <2>8, <1>a, EntryQuietStep
<1>3. CASE FindDestination(j)
  <2>1. /\ Step(j, "findD", FindOutcome(dsnap, j, "copyD", "saveD"))
        /\ UNCHANGED <<disk, mem, isnap, dsnap>>
    BY <1>3 DEF FindDestination, Find, snapVars
  <2>2. FindOutcome(dsnap, j, "copyD", "saveD") \in {"copyD", "saveD", "failed"}
    BY DEF FindOutcome
  <2>3. mem.dest[j] = 0 /\ mem.inter[j] # 0
    BY <2>1, <1>a DEF EntryInv, WorkerInv, Step
  <2>4. PICK k \in 0..MaxCopies :
            /\ wpc'[j] = "saveD" => Tagged(dsnap, j) = {k}
            /\ id' = [id EXCEPT ![j] = k]
    BY <1>3 DEF FindDestination, Find
  <2>5. wpc'[j] = FindOutcome(dsnap, j, "copyD", "saveD")
    BY <2>1, <2>2, StepEffect DEF WorkerPcs, ActivePcs
  <2>6. FindOutcome(dsnap, j, "copyD", "saveD") = "saveD" => id'[j] # 0
    BY <2>4, <2>5, <1>b DEF Tagged, Copies
  <2>7. \A h \in Entries : h # j => id'[h] = id[h]
    BY <2>4, <1>b
  <2>8. "findD" \in ActivePcs /\ {"copyD", "saveD", "failed"} \subseteq WorkerPcs
    BY DEF WorkerPcs, ActivePcs
  <2>. QED
    BY <2>1, <2>2, <2>3, <2>6, <2>7, <2>8, <1>a, EntryQuietStep
<1>4. CASE CopyIntermediary(j) \/ CopyDestination(j)
  <2>1. PICK k \in Copies, from \in {"copyI", "copyD"}, to \in {"saveI", "saveD"} :
            /\ Step(j, from, to)
            /\ from = "copyI" => /\ to = "saveI" /\ Fresh(isnap[j], k)
                                 /\ isnap' = [isnap EXCEPT ![j][k] = "created"]
                                 /\ UNCHANGED dsnap
            /\ from = "copyD" => /\ to = "saveD" /\ Fresh(dsnap[j], k)
                                 /\ dsnap' = [dsnap EXCEPT ![j][k] = "created"]
                                 /\ UNCHANGED isnap
            /\ id' = [id EXCEPT ![j] = k]
    BY <1>4 DEF CopyIntermediary, CopyDestination
  <2>2. /\ pc = "copy" /\ pc' = "copy" /\ wpc[j] = from /\ wpc'[j] = to
        /\ \A h \in Entries : h # j => wpc'[h] = wpc[h]
    BY <2>1, StepEffect DEF WorkerPcs, ActivePcs
  <2>3. UNCHANGED <<disk, mem>>
    BY <1>4 DEF CopyIntermediary, CopyDestination
  <2>4. /\ \A h \in Entries, n \in Copies :
            isnap'[h][n] = "deleted" => isnap[h][n] = "deleted"
        /\ \A h \in Entries, n \in Copies :
            dsnap[h][n] = "completed" => dsnap'[h][n] = "completed"
    <3>1. CASE from = "copyI"
      BY <2>1, <3>1 DEF TypeOK
    <3>2. CASE from = "copyD"
      BY <2>1, <3>2 DEF TypeOK, Fresh
    <3>. QED
      BY <3>1, <3>2
  <2>5. Keeps(i)
    BY <2>3, <2>4 DEF Keeps
  <2>6. Completed(dsnap, i, disk.dest[i]) => Completed(dsnap, i, disk.dest[i])'
    BY <2>5, CompletedStays DEF Completed
  <2>7. id'[j] # 0 /\ \A h \in Entries : h # j => id'[h] = id[h]
    BY <2>1, <1>b DEF Copies
  <2>8. MemoryInv(i)' /\ SafetyInv(i)'
    BY <1>a, <2>2, <2>3, <2>4, <2>6 DEF EntryInv, MemoryInv, SafetyInv, Gone,
       AfterCopy, CleanupPcs, SetupPcs
  <2>9. WorkerInv(i)'
    BY <1>a, <2>1, <2>2, <2>3, <2>6, <2>7 DEF EntryInv, WorkerInv
  <2>. QED
    BY <2>8, <2>9 DEF EntryInv
<1>5. CASE SaveIntermediary(j) \/ SaveDestination(j)
  <2>1. PICK from \in {"saveI", "saveD"}, to \in {"waitI", "waitD"} :
            /\ Step(j, from, to)
            /\ from = "saveI" => /\ to = "waitI"
                                 /\ mem' = [mem EXCEPT !.inter[j] = id[j]]
            /\ from = "saveD" => /\ to = "waitD"
                                 /\ mem' = [mem EXCEPT !.dest[j] = id[j]]
    BY <1>5 DEF SaveIntermediary, SaveDestination
  <2>2. /\ pc = "copy" /\ pc' = "copy" /\ wpc[j] = from /\ wpc'[j] = to
        /\ \A h \in Entries : h # j => wpc'[h] = wpc[h]
    BY <2>1, StepEffect DEF WorkerPcs, ActivePcs
  <2>3. disk' = mem' /\ UNCHANGED <<id, isnap, dsnap>>
    BY <1>5 DEF SaveIntermediary, SaveDestination, snapVars
  <2>4. /\ mem'.deleted = mem.deleted
        /\ from = "saveI" => mem'.inter[j] = id[j] /\ mem'.dest[j] = mem.dest[j]
        /\ from = "saveD" => mem'.dest[j] = id[j] /\ mem'.inter[j] = mem.inter[j]
        /\ \A h \in Entries : h # j => /\ mem'.inter[h] = mem.inter[h]
                                       /\ mem'.dest[h] = mem.dest[h]
    BY <2>1 DEF TypeOK, Journal
  <2>5. /\ mem.inter[j] = disk.inter[j] /\ mem.dest[j] = disk.dest[j] /\ id[j] # 0
        /\ from = "saveI" => mem.inter[j] = 0
        /\ from = "saveD" => mem.dest[j] = 0 /\ mem.inter[j] # 0
    BY <1>a, <2>2 DEF EntryInv, WorkerInv
  <2>6. Keeps(i)
    BY <1>a, <2>2, <2>3, <2>4, <2>5 DEF Keeps, EntryInv, MemoryInv, Gone
  <2>7. Completed(dsnap, i, disk.dest[i]) => Completed(dsnap, i, disk.dest[i])'
    BY <2>6, CompletedStays DEF Completed
  <2>8. MemoryInv(i)'
    BY <2>2, <2>3 DEF MemoryInv, Gone, AfterCopy, CleanupPcs, SetupPcs
  <2>9. SafetyInv(i)'
    BY <1>a, <2>2, <2>3, <2>4, <2>7 DEF EntryInv, MemoryInv, SafetyInv, Gone,
       AfterCopy, CleanupPcs, SetupPcs
  <2>10. WorkerInv(i)'
    BY <1>a, <2>1, <2>2, <2>3, <2>4, <2>5, <2>7 DEF EntryInv, WorkerInv
  <2>. QED
    BY <2>8, <2>9, <2>10 DEF EntryInv
<1>6. CASE SaveFails(j)
  <2>1. PICK from \in {"saveI", "saveD"} :
            /\ Step(j, from, "failed")
            /\ from = "saveI" => mem' = [mem EXCEPT !.inter[j] = id[j]]
            /\ from = "saveD" => mem' = [mem EXCEPT !.dest[j] = id[j]]
    BY <1>6 DEF SaveFails
  <2>2. /\ pc = "copy" /\ pc' = "copy" /\ wpc[j] = from /\ wpc'[j] = "failed"
        /\ \A h \in Entries : h # j => wpc'[h] = wpc[h]
    BY <2>1, StepEffect DEF WorkerPcs, ActivePcs
  <2>3. UNCHANGED <<disk, id, isnap, dsnap>>
    BY <1>6 DEF SaveFails, snapVars
  <2>4. /\ mem'.deleted = mem.deleted
        /\ from = "saveI" => mem'.dest[j] = mem.dest[j]
        /\ from = "saveD" => mem'.inter[j] = mem.inter[j]
        /\ \A h \in Entries : h # j => /\ mem'.inter[h] = mem.inter[h]
                                       /\ mem'.dest[h] = mem.dest[h]
    BY <2>1 DEF TypeOK, Journal
  <2>5. /\ mem.inter[j] = disk.inter[j] /\ mem.dest[j] = disk.dest[j]
        /\ from = "saveI" => mem.inter[j] = 0
        /\ from = "saveD" => mem.dest[j] = 0
    BY <1>a, <2>2 DEF EntryInv, WorkerInv
  <2>6. MemoryInv(i)' /\ SafetyInv(i)'
    BY <1>a, <2>2, <2>3, <2>4, <2>5 DEF EntryInv, MemoryInv, SafetyInv, Gone,
       AfterCopy, CleanupPcs, SetupPcs, Completed
  <2>7. WorkerInv(i)'
    BY <1>a, <2>2, <2>3, <2>4 DEF EntryInv, WorkerInv, Completed
  <2>. QED
    BY <2>6, <2>7 DEF EntryInv
<1>7. CASE WaitIntermediary(j) \/ ShareIntermediary(j) \/ WaitDestination(j)
           \/ ValidateDestination(j) \/ WorkerCancelled(j) \/ WorkerFault(j)
  <2>1. UNCHANGED <<disk, mem, id, isnap, dsnap>> /\ pc = "copy"
    BY <1>7 DEF WaitIntermediary, ShareIntermediary, WaitDestination,
       ValidateDestination, WorkerCancelled, WorkerFault, snapVars, Step
  <2>2. PICK from \in ActivePcs, to \in WorkerPcs :
            /\ Step(j, from, to)
            /\ \/ to = "failed"
               \/ from = "waitI" /\ to = "share"
               \/ from = "share" /\ to = "findD" /\ mem.dest[j] = 0
               \/ from = "share" /\ to = "waitD" /\ mem.dest[j] # 0
               \/ from = "waitD" /\ to = "validate" /\ dsnap[j][mem.dest[j]] = "completed"
               \/ from = "validate" /\ to = "finished"
    BY <1>7 DEF WaitIntermediary, ShareIntermediary, WaitDestination,
       ValidateDestination, WorkerCancelled, WorkerFault, ActivePcs, WorkerPcs
  <2>3. wpc[j] = from
    BY <2>2 DEF Step
  <2>4. WorkerInv(j)
    BY <1>a DEF EntryInv
  <2>5. to \in {"validate", "finished"} => Completed(dsnap, j, disk.dest[j])
    BY <2>1, <2>2, <2>3, <2>4 DEF WorkerInv, Completed
  <2>6. to \in {"share", "findD", "waitD"} => mem.inter[j] # 0
    BY <2>1, <2>2, <2>3, <2>4 DEF WorkerInv
  <2>7. \A h \in Entries : h # j => id'[h] = id[h]
    BY <2>1
  <2>. QED
    BY <2>1, <2>2, <2>5, <2>6, <2>7, <1>a, EntryQuietStep
<1>. QED
  BY <1>1, <1>2, <1>3, <1>4, <1>5, <1>6, <1>7 DEF Worker

\* Progress of a copy in AWS preserves what the invariant says of an entry.
LEMMA EntryAws ==
    ASSUME TypeOK, NEW i \in Entries, EntryInv(i),
           SnapshotVisible \/ SnapshotCompletes \/ SnapshotErrors
    PROVE  EntryInv(i)'
<1>1. PICK before \in {"created", "pending"}, after \in {"pending", "completed", "error"} :
        Progress(before, after)
  BY DEF SnapshotVisible, SnapshotCompletes, SnapshotErrors
<1>2. UNCHANGED <<disk, mem, pc, wpc, id>>
  BY <1>1 DEF Progress, processVars
<1>3. /\ \A h \in Entries, n \in Copies :
          isnap'[h][n] = "deleted" => isnap[h][n] = "deleted"
      /\ \A h \in Entries, n \in Copies :
          dsnap[h][n] = "completed" => dsnap'[h][n] = "completed"
  <2>1. CASE /\ \E h \in Entries, k \in Copies : isnap' = [isnap EXCEPT ![h][k] = after]
             /\ UNCHANGED dsnap
    BY <2>1 DEF TypeOK
  <2>2. CASE /\ \E h \in Entries, k \in Copies :
                 dsnap[h][k] = before /\ dsnap' = [dsnap EXCEPT ![h][k] = after]
             /\ UNCHANGED isnap
    BY <2>2 DEF TypeOK
  <2>. QED
    BY <1>1, <2>1, <2>2 DEF Progress
<1>4. Keeps(i)
  BY <1>2, <1>3 DEF Keeps
<1>5. Completed(dsnap, i, disk.dest[i]) => Completed(dsnap, i, disk.dest[i])'
  BY <1>4, CompletedStays DEF Completed
<1>. QED
  BY <1>2, <1>3, <1>5 DEF EntryInv, MemoryInv, WorkerInv, SafetyInv

-----------------------------------------------------------------------------
(* The key. *)

\* Where cleanup stands tells that every deletion is recorded.
LEMMA CleanupPcMeaning ==
    ASSUME NEW j, CleanupPc(j) \in {"revokeGrant", "deleteAlias", "scheduleKey"}
    PROVE  \A i \in Entries : j.deleted[i]
BY DEF CleanupPc

\* Past the creation of the key the journal names it.
LEMMA SetupPcMeaning ==
    ASSUME NEW j, SetupPc(j) # "createKey"
    PROVE  j.key # 0
BY DEF SetupPc

\* A deletion on disk is in memory too, so no save forgets one.
LEMMA DeletionsStay ==
    ASSUME TypeOK, \A i \in Entries : EntryInv(i), pc \notin Gone, disk' = mem
    PROVE  \A i \in Entries : disk.deleted[i] => disk'.deleted[i]
BY DEF EntryInv, MemoryInv

\* The key is retired only after the last deletion is recorded, in every
\* step.
LEMMA KeyStep ==
    ASSUME IInv, Next
    PROVE  KeyInv'
<1>a. TypeOK /\ KeyInv /\ \A i \in Entries : EntryInv(i)
  BY DEF IInv
<1>1. CASE Start
  <2>1. pc' = SetupPc(disk) /\ mem' = disk /\ UNCHANGED <<disk, keys>>
    BY <1>1 DEF Start, kmsVars
  <2>. QED
    BY <1>a, <2>1, NextPcType, SetupPcMeaning DEF KeyInv, Gone
<1>2. CASE CreateKey
  <2>1. PICK k \in Keys : /\ keys' = [keys EXCEPT ![k] = "enabled"]
                          /\ mem' = [mem EXCEPT !.key = k]
    BY <1>2 DEF CreateKey
  <2>2. mem'.key # 0 /\ pc' = "saveSetup" /\ UNCHANGED disk
    BY <1>2, <1>a, <2>1, ConstantsAssumption DEF CreateKey, Keys, TypeOK, Journal
  <2>3. \A n \in Keys : keys'[n] = "pendingDeletion" => keys[n] = "pendingDeletion"
    BY <1>a, <2>1 DEF TypeOK
  <2>. QED
    BY <1>a, <2>2, <2>3 DEF KeyInv
<1>3. CASE CreateAlias \/ CreateGrant
  <2>1. /\ pc \notin Gone \cup {"createKey"} /\ pc' = "saveSetup"
        /\ mem'.key = mem.key /\ UNCHANGED <<disk, keys>>
    BY <1>3, <1>a DEF CreateAlias, CreateGrant, Gone, TypeOK, Journal
  <2>. QED
    BY <1>a, <2>1 DEF KeyInv
<1>4. CASE SaveSetup
  <2>1. pc = "saveSetup" /\ pc' = SetupPc(mem) /\ disk' = mem /\ UNCHANGED <<mem, keys>>
    BY <1>4 DEF SaveSetup, Save, kmsVars
  <2>2. \A i \in Entries : disk.deleted[i] => disk'.deleted[i]
    BY <1>a, <2>1, DeletionsStay DEF Gone
  <2>3. mem.key # 0
    BY <1>a, <2>1 DEF KeyInv, Gone
  <2>4. pc' \notin {"revokeGrant", "deleteAlias", "scheduleKey"}
    BY <2>1, NextPcType
  <2>. QED
    BY <1>a, <2>1, <2>2, <2>3, <2>4 DEF KeyInv
<1>5. CASE CopiesFinish
  <2>1. pc = "copy" /\ pc' = CleanupPc(mem) /\ UNCHANGED <<disk, mem, keys>>
    BY <1>5 DEF CopiesFinish, kmsVars
  <2>2. \A i \in Entries : mem.deleted[i] = disk.deleted[i]
    BY <1>a, <2>1 DEF EntryInv, MemoryInv
  <2>. QED
    BY <1>a, <2>1, <2>2, CleanupPcMeaning DEF KeyInv, Gone
<1>6. CASE CopiesFail \/ Remap \/ Crash
  <2>1. pc' \in Gone /\ UNCHANGED <<disk, keys>>
    BY <1>6 DEF CopiesFail, Remap, Crash, Gone, kmsVars
  <2>. QED
    BY <1>a, <2>1 DEF KeyInv, Gone
<1>7. CASE DeleteIntermediary \/ RevokeGrant \/ DeleteAlias
  <2>1. /\ pc \notin Gone \cup {"createKey"} /\ pc' = "saveCleanup"
        /\ UNCHANGED <<disk, keys>>
    BY <1>7 DEF DeleteIntermediary, RevokeGrant, DeleteAlias, Gone, kmsVars
  <2>2. mem'.key = mem.key
    BY <1>7, <1>a DEF DeleteIntermediary, RevokeGrant, DeleteAlias, TypeOK, Journal
  <2>. QED
    BY <1>a, <2>1, <2>2 DEF KeyInv
<1>8. CASE ScheduleKeyDeletion
  <2>1. /\ pc = "scheduleKey" /\ pc' = "saveCleanup" /\ UNCHANGED disk
        /\ mem'.key = mem.key
    BY <1>8, <1>a DEF ScheduleKeyDeletion, TypeOK, Journal
  <2>. QED
    BY <1>a, <2>1 DEF KeyInv, Gone
<1>9. CASE SaveCleanup
  <2>1. pc = "saveCleanup" /\ pc' = CleanupPc(mem) /\ disk' = mem /\ UNCHANGED <<mem, keys>>
    BY <1>9 DEF SaveCleanup, Save, kmsVars
  <2>2. \A i \in Entries : disk.deleted[i] => disk'.deleted[i]
    BY <1>a, <2>1, DeletionsStay DEF Gone
  <2>3. mem.key # 0
    BY <1>a, <2>1 DEF KeyInv, Gone
  <2>4. pc' \in {"revokeGrant", "deleteAlias", "scheduleKey"}
            => \A i \in Entries : disk'.deleted[i]
    BY <2>1, CleanupPcMeaning
  <2>. QED
    BY <1>a, <2>1, <2>2, <2>3, <2>4 DEF KeyInv
<1>10. ASSUME NEW j \in Entries, Worker(j) \/ SaveFails(j) \/ WorkerFault(j)
       PROVE  KeyInv'
  <2>1. pc = "copy" /\ pc' = "copy" /\ UNCHANGED keys
    BY <1>10 DEF Worker, Dispatch, FindIntermediary, FindDestination, Find,
       CopyIntermediary, CopyDestination, SaveIntermediary, SaveDestination,
       WaitIntermediary, ShareIntermediary, WaitDestination, ValidateDestination,
       WorkerCancelled, SaveFails, WorkerFault, Step, kmsVars
  <2>2. mem'.key = mem.key /\ mem'.deleted = mem.deleted /\ (UNCHANGED disk \/ disk' = mem')
    BY <1>10, <1>a DEF Worker, Dispatch, FindIntermediary, FindDestination, Find,
       CopyIntermediary, CopyDestination, SaveIntermediary, SaveDestination,
       WaitIntermediary, ShareIntermediary, WaitDestination, ValidateDestination,
       WorkerCancelled, SaveFails, WorkerFault, TypeOK, Journal
  <2>3. \A i \in Entries : disk.deleted[i] => disk'.deleted[i]
    BY <1>a, <2>1, <2>2 DEF EntryInv, MemoryInv
  <2>. QED
    BY <1>a, <2>1, <2>2, <2>3 DEF KeyInv, Gone
<1>11. CASE SnapshotVisible \/ SnapshotCompletes \/ SnapshotErrors
  <2>1. UNCHANGED <<pc, mem, disk, keys>>
    BY <1>11 DEF SnapshotVisible, SnapshotCompletes, SnapshotErrors, Progress,
       processVars, kmsVars
  <2>. QED
    BY <1>a, <2>1 DEF KeyInv
<1>. QED
  BY <1>1, <1>2, <1>3, <1>4, <1>5, <1>6, <1>7, <1>8, <1>9, <1>10, <1>11
     DEF Next, Main

-----------------------------------------------------------------------------
(* The theorems. *)

\* The inductive invariant holds initially.
LEMMA InvariantInit == Init => IInv
<1>1. Init => KeyInv
  BY ConstantsAssumption DEF Init, KeyInv, Gone, Keys
<1>. QED
  BY <1>1, TypeInit, EntryInit DEF IInv

\* Every step preserves the inductive invariant.
LEMMA InvariantStep == IInv /\ [Next]_vars => IInv'
<1> SUFFICES ASSUME IInv, [Next]_vars PROVE IInv'
  OBVIOUS
<1>a. TypeOK /\ \A i \in Entries : EntryInv(i)
  BY DEF IInv
<1>1. CASE Next
  <2>1. TypeOK'
    BY <1>1, TypeMain, TypeWorker, TypeAws DEF Next
  <2>2. ASSUME NEW i \in Entries PROVE EntryInv(i)'
    BY <1>1, <1>a, EntryMain, EntryWorker, EntryAws DEF Next
  <2>3. \A i \in Entries' : EntryInv(i)'
    BY <2>2 DEF Entries
  <2>. QED
    BY <1>1, <2>1, <2>3, KeyStep DEF IInv
<1>2. CASE UNCHANGED vars
  BY <1>2 DEF IInv, TypeOK, KeyInv, EntryInv, MemoryInv, WorkerInv, SafetyInv,
     Completed, vars, processVars, snapVars, kmsVars
<1>. QED
  BY <1>1, <1>2

\* The inductive invariant holds in every reachable state.
THEOREM Invariant == Spec => []IInv
BY InvariantInit, InvariantStep, PTL DEF Spec

\* Every variable keeps its type, for any number of entries and runs.
THEOREM TypeCorrect == Spec => []TypeOK
<1>1. IInv => TypeOK
  BY DEF IInv
<1>. QED
  BY <1>1, Invariant, PTL

\* However many runs crash or fail, and wherever, an intermediary snapshot is
\* only ever deleted after the journal on disk names a completed destination.
THEOREM NothingLost == Spec => []NeverDeleteOnlyCopy
<1>1. IInv => NeverDeleteOnlyCopy
  BY DEF IInv, EntryInv, SafetyInv, NeverDeleteOnlyCopy
<1>. QED
  BY <1>1, Invariant, PTL

\* The temporary key is scheduled for deletion only when every entry has a
\* completed destination and its intermediary is recorded as deleted.
THEOREM KeyRetiredLast == Spec => []KeyOutlivesCopies
<1>1. IInv => KeyOutlivesCopies
  BY DEF IInv, KeyInv, EntryInv, SafetyInv, KeyOutlivesCopies
<1>. QED
  BY <1>1, Invariant, PTL

-----------------------------------------------------------------------------
(***************************************************************************)
(* The journal only grows.  The invariant tells so of the entries; of the  *)
(* key and the grant it takes one more: memory holds what the disk names,  *)
(* and neither is created while one is named.                              *)
(***************************************************************************)
KeptInv ==
    pc \notin Gone =>
        /\ disk.key # 0 => mem.key = disk.key
        /\ disk.grant # 0 => mem.grant = disk.grant
        /\ pc = "createKey" => mem.key = 0
        /\ pc = "createGrant" => mem.grant = 0

\* The only steps that write the journal are saves of what is in memory.
LEMMA DiskIsMemory ==
    ASSUME Next, disk' # disk
    PROVE  disk' = mem' /\ pc \notin Gone
<1>1. CASE Main
  BY <1>1 DEF Main, Start, CreateKey, CreateAlias, CreateGrant, SaveSetup, Save,
     CopiesFinish, CopiesFail, DeleteIntermediary, RevokeGrant, DeleteAlias,
     ScheduleKeyDeletion, SaveCleanup, Remap, Gone
<1>2. ASSUME NEW i \in Entries, Worker(i) \/ SaveFails(i) \/ WorkerFault(i)
      PROVE  disk' = mem' /\ pc \notin Gone
  BY <1>2 DEF Worker, Dispatch, FindIntermediary, FindDestination, Find,
     CopyIntermediary, CopyDestination, SaveIntermediary, SaveDestination,
     WaitIntermediary, ShareIntermediary, WaitDestination, ValidateDestination,
     WorkerCancelled, SaveFails, WorkerFault, Step, Gone
<1>3. CASE SnapshotVisible \/ SnapshotCompletes \/ SnapshotErrors \/ Crash
  BY <1>3 DEF SnapshotVisible, SnapshotCompletes, SnapshotErrors, Progress, Crash
<1>. QED
  BY <1>1, <1>2, <1>3 DEF Next

\* What a step does to the key and the grant in memory while the command runs.
LEMMA KeptStep ==
    ASSUME TypeOK, KeptInv, Next
    PROVE  KeptInv'
<1>1. CASE Start
  <2>1. mem' = disk /\ disk' = disk /\ pc' = SetupPc(disk)
    BY <1>1 DEF Start
  <2>. QED
    BY <2>1 DEF KeptInv, SetupPc
<1>2. CASE CreateKey \/ CreateAlias \/ CreateGrant
  <2>1. pc \notin Gone /\ pc' = "saveSetup" /\ disk' = disk
    BY <1>2 DEF CreateKey, CreateAlias, CreateGrant, Gone
  <2>2. disk.key # 0 => mem'.key = disk.key
    BY <1>2, <2>1 DEF CreateKey, CreateAlias, CreateGrant, KeptInv, TypeOK, Journal, Gone
  <2>3. disk.grant # 0 => mem'.grant = disk.grant
    BY <1>2, <2>1 DEF CreateKey, CreateAlias, CreateGrant, KeptInv, TypeOK, Journal, Gone
  <2>. QED
    BY <2>1, <2>2, <2>3 DEF KeptInv
<1>3. CASE SaveSetup \/ SaveCleanup
  <2>1. disk' = mem /\ mem' = mem /\ (pc' = SetupPc(mem) \/ pc' = CleanupPc(mem))
    BY <1>3 DEF SaveSetup, SaveCleanup, Save
  <2>2. pc' = "createKey" => mem.key = 0
    BY <2>1 DEF SetupPc, CleanupPc
  <2>3. pc' = "createGrant" => mem.grant = 0
    BY <2>1 DEF SetupPc, CleanupPc
  <2>. QED
    BY <2>1, <2>2, <2>3 DEF KeptInv
<1>4. CASE CopiesFinish
  <2>1. pc = "copy" /\ mem' = mem /\ disk' = disk /\ pc' = CleanupPc(mem)
    BY <1>4 DEF CopiesFinish
  <2>2. pc' \notin {"createKey", "createGrant"}
    BY <2>1, NextPcType DEF CleanupPcs
  <2>. QED
    BY <2>1, <2>2 DEF KeptInv, Gone
<1>5. CASE CopiesFail \/ Remap \/ Crash
  BY <1>5 DEF CopiesFail, Remap, Crash, KeptInv, Gone
<1>6. CASE DeleteIntermediary \/ RevokeGrant \/ DeleteAlias \/ ScheduleKeyDeletion
  <2>1. pc \notin Gone /\ pc' = "saveCleanup" /\ disk' = disk
    BY <1>6 DEF DeleteIntermediary, RevokeGrant, DeleteAlias, ScheduleKeyDeletion, Gone
  <2>2. mem'.key = mem.key /\ mem'.grant = mem.grant
    BY <1>6 DEF DeleteIntermediary, RevokeGrant, DeleteAlias, ScheduleKeyDeletion,
       TypeOK, Journal
  <2>. QED
    BY <2>1, <2>2 DEF KeptInv
<1>7. ASSUME NEW i \in Entries, Worker(i) \/ SaveFails(i) \/ WorkerFault(i)
      PROVE  KeptInv'
  <2>1. pc = "copy" /\ pc' = "copy"
    BY <1>7 DEF Worker, Dispatch, FindIntermediary, FindDestination, Find,
       CopyIntermediary, CopyDestination, SaveIntermediary, SaveDestination,
       WaitIntermediary, ShareIntermediary, WaitDestination, ValidateDestination,
       WorkerCancelled, SaveFails, WorkerFault, Step
  <2>2. mem'.key = mem.key /\ mem'.grant = mem.grant /\ (UNCHANGED disk \/ disk' = mem')
    BY <1>7 DEF Worker, Dispatch, FindIntermediary, FindDestination, Find,
       CopyIntermediary, CopyDestination, SaveIntermediary, SaveDestination,
       WaitIntermediary, ShareIntermediary, WaitDestination, ValidateDestination,
       WorkerCancelled, SaveFails, WorkerFault, TypeOK, Journal
  <2>. QED
    BY <2>1, <2>2 DEF KeptInv, Gone
<1>8. CASE SnapshotVisible \/ SnapshotCompletes \/ SnapshotErrors
  <2>1. UNCHANGED <<pc, mem, disk>>
    BY <1>8 DEF SnapshotVisible, SnapshotCompletes, SnapshotErrors, Progress, processVars
  <2>. QED
    BY <2>1 DEF KeptInv
<1>. QED
  BY <1>1, <1>2, <1>3, <1>4, <1>5, <1>6, <1>7, <1>8 DEF Next, Main

\* An entry's IDs in memory when it is saved are those of the disk, or new.
LEMMA EntryGrows ==
    ASSUME IInv, Next, disk' = mem', pc \notin Gone, disk' # disk, NEW i \in Entries
    PROVE  /\ disk.inter[i] # 0 => disk'.inter[i] = disk.inter[i]
           /\ disk.dest[i] # 0 => disk'.dest[i] = disk.dest[i]
           /\ disk.deleted[i] => disk'.deleted[i]
<1>a. TypeOK /\ MemoryInv(i) /\ \A j \in Entries : WorkerInv(j)
  BY DEF IInv, EntryInv
<1>1. CASE UNCHANGED mem
  BY <1>1, <1>a DEF MemoryInv
<1>2. ASSUME NEW j \in Entries, SaveIntermediary(j) \/ SaveDestination(j)
      PROVE  /\ disk.inter[i] # 0 => disk'.inter[i] = disk.inter[i]
             /\ disk.dest[i] # 0 => disk'.dest[i] = disk.dest[i]
             /\ disk.deleted[i] => disk'.deleted[i]
  <2>1. CASE SaveIntermediary(j)
    <3>1. pc = "copy" /\ wpc[j] = "saveI" /\ mem' = [mem EXCEPT !.inter[j] = id[j]]
      BY <2>1 DEF SaveIntermediary, Step
    <3>2. disk.inter[j] = 0
      BY <3>1, <1>a DEF WorkerInv
    <3>. QED
      BY <3>1, <3>2, <1>a DEF MemoryInv, TypeOK, Journal
  <2>2. CASE SaveDestination(j)
    <3>1. pc = "copy" /\ wpc[j] = "saveD" /\ mem' = [mem EXCEPT !.dest[j] = id[j]]
      BY <2>2 DEF SaveDestination, Step
    <3>2. disk.dest[j] = 0
      BY <3>1, <1>a DEF WorkerInv
    <3>. QED
      BY <3>1, <3>2, <1>a DEF MemoryInv, TypeOK, Journal
  <2>. QED
    BY <1>2, <2>1, <2>2
<1>3. CASE Main
  <2>1. SaveSetup \/ SaveCleanup
    BY <1>3 DEF Main, Start, CreateKey, CreateAlias, CreateGrant, CopiesFinish,
       CopiesFail, DeleteIntermediary, RevokeGrant, DeleteAlias,
       ScheduleKeyDeletion, Remap
  <2>. QED
    BY <1>1, <2>1 DEF SaveSetup, SaveCleanup, Save
<1>4. ASSUME NEW j \in Entries, Worker(j) \/ SaveFails(j) \/ WorkerFault(j)
      PROVE  SaveIntermediary(j) \/ SaveDestination(j)
  BY <1>4 DEF Worker, Dispatch, FindIntermediary, FindDestination, Find,
     CopyIntermediary, CopyDestination, WaitIntermediary, ShareIntermediary,
     WaitDestination, ValidateDestination, WorkerCancelled, SaveFails, WorkerFault
<1>5. CASE SnapshotVisible \/ SnapshotCompletes \/ SnapshotErrors \/ Crash
  BY <1>5 DEF SnapshotVisible, SnapshotCompletes, SnapshotErrors, Progress, Crash
<1>. QED
  BY <1>2, <1>3, <1>4, <1>5 DEF Next

\* A save keeps what the file held: from the invariant and what is kept.
LEMMA JournalGrowsStep == IInv /\ KeptInv /\ KeptInv' /\ [Next]_vars => [JournalGrows]_disk
<1> SUFFICES ASSUME IInv, KeptInv, KeptInv', [Next]_vars, disk' # disk
             PROVE  JournalGrows
  OBVIOUS
<1>1. Next
  BY DEF vars
<1>2. disk' = mem' /\ pc \notin Gone
  BY <1>1, DiskIsMemory
<1>3. mem'.key = mem.key /\ mem'.grant = mem.grant
  <2>1. TypeOK
    BY DEF IInv
  <2>2. CASE Main
    BY <2>2, <1>1 DEF Main, Start, CreateKey, CreateAlias, CreateGrant, SaveSetup,
       Save, CopiesFinish, CopiesFail, DeleteIntermediary, RevokeGrant,
       DeleteAlias, ScheduleKeyDeletion, SaveCleanup, Remap
  <2>3. ASSUME NEW i \in Entries, Worker(i) \/ SaveFails(i) \/ WorkerFault(i)
        PROVE  mem'.key = mem.key /\ mem'.grant = mem.grant
    BY <2>1, <2>3 DEF Worker, Dispatch, FindIntermediary, FindDestination, Find,
       CopyIntermediary, CopyDestination, SaveIntermediary, SaveDestination,
       WaitIntermediary, ShareIntermediary, WaitDestination, ValidateDestination,
       WorkerCancelled, SaveFails, WorkerFault, TypeOK, Journal
  <2>4. CASE SnapshotVisible \/ SnapshotCompletes \/ SnapshotErrors \/ Crash
    BY <2>4 DEF SnapshotVisible, SnapshotCompletes, SnapshotErrors, Progress, Crash
  <2>. QED
    BY <1>1, <2>2, <2>3, <2>4 DEF Next
<1>4. /\ disk.key # 0 => disk'.key = disk.key
      /\ disk.grant # 0 => disk'.grant = disk.grant
  BY <1>2, <1>3 DEF KeptInv
<1>5. ASSUME NEW i \in Entries
      PROVE  /\ disk.inter[i] # 0 => disk'.inter[i] = disk.inter[i]
             /\ disk.dest[i] # 0 => disk'.dest[i] = disk.dest[i]
             /\ disk.deleted[i] => disk'.deleted[i]
  BY <1>1, <1>2, EntryGrows
<1>. QED
  BY <1>4, <1>5 DEF JournalGrows

\* What memory holds of the key and the grant is kept in every run.
LEMMA Kept == Spec => []KeptInv
<1>1. Init => KeptInv
  BY DEF Init, KeptInv, Gone
<1>2. IInv /\ KeptInv /\ [Next]_vars => KeptInv'
  <2>1. CASE UNCHANGED vars
    BY <2>1 DEF vars, processVars, KeptInv
  <2>. QED
    BY <2>1, KeptStep DEF IInv
<1>. QED
  BY <1>1, <1>2, Invariant, PTL DEF Spec

\* No run, however it interleaves with crashes and failed saves, ever replaces
\* an ID the journal file holds or forgets a deletion it records.
THEOREM JournalKept == Spec => JournalOnlyGrows
BY Kept, Invariant, JournalGrowsStep, PTL DEF Spec, JournalOnlyGrows

-----------------------------------------------------------------------------
(***************************************************************************)
(* The refinement.  A save is one step of SnapshotMigration because of how *)
(* little it can bring to the disk: while copying, each entry is at most   *)
(* one stage ahead in memory, and none that is deleted is; at a save of    *)
(* the cleanup, either one deletion or one fact about the key is new, and  *)
(* the last is only that the key is scheduled once all deletions are       *)
(* recorded.                                                               *)
(***************************************************************************)
Ahead(i) == mem.inter[i] # disk.inter[i] \/ mem.dest[i] # disk.dest[i]
DeletesNow(i) == mem.deleted[i] # disk.deleted[i]
SavedPcs == (CleanupPcs \ {"saveCleanup"}) \cup {"remap"}

StageInv(i) ==
    /\ disk.dest[i] # 0 => disk.inter[i] # 0
    /\ pc = "copy" =>
        /\ mem.inter[i] # disk.inter[i] => mem.dest[i] = disk.dest[i]
        /\ mem.dest[i] # disk.dest[i] => mem.inter[i] # 0
        /\ Ahead(i) => ~disk.deleted[i]
        /\ wpc[i] \in ActivePcs \ {"validate"} => ~disk.deleted[i]
    /\ pc \in SavedPcs => ~DeletesNow(i)

RetireInv ==
    /\ pc \in {"copy"} \cup AfterCopy => mem.key = disk.key
    /\ pc \notin Gone \cup {"saveCleanup"} => mem.keyScheduled = disk.keyScheduled
    /\ disk.keyScheduled => \A i \in Entries : disk.deleted[i]
    /\ pc = "saveCleanup" =>
        /\ disk.keyScheduled => mem.keyScheduled
        /\ mem.keyScheduled # disk.keyScheduled => \A i \in Entries : disk.deleted[i]
        /\ \A i, j \in Entries : DeletesNow(i) /\ DeletesNow(j) => i = j

SaveInv == RetireInv /\ \A i \in Entries : StageInv(i)

\* It holds initially.
LEMMA SaveInvInit == Init => SaveInv
BY DEF Init, SaveInv, RetireInv, StageInv, EmptyJournal, Gone, AfterCopy, SavedPcs, CleanupPcs

\* A step of a goroutine that saves nothing moves it on, and to its work only from its
\* work or, if the entry is not deleted, from the queue.
LEMMA QuietWorker ==
    ASSUME TypeOK, NEW j \in Entries, Worker(j) \/ WorkerFault(j),
           ~SaveIntermediary(j), ~SaveDestination(j)
    PROVE  /\ pc = "copy" /\ pc' = "copy" /\ UNCHANGED <<disk, mem>>
           /\ \A i \in Entries : i # j => wpc'[i] = wpc[i]
           /\ wpc'[j] \in ActivePcs \ {"validate"} =>
                ~mem.deleted[j] \/ wpc[j] \in ActivePcs \ {"validate"}
<1> DEFINE Result(to) == /\ pc = "copy" /\ pc' = "copy" /\ wpc' = [wpc EXCEPT ![j] = to]
                         /\ to \in ActivePcs \ {"validate"} =>
                              ~mem.deleted[j] \/ wpc[j] \in ActivePcs \ {"validate"}
<1>1. UNCHANGED <<disk, mem>>
  BY DEF Worker, Dispatch, FindIntermediary, FindDestination, Find, CopyIntermediary, CopyDestination,
     WaitIntermediary, ShareIntermediary, WaitDestination, ValidateDestination, WorkerCancelled, WorkerFault
<1>2. \E to : Result(to)
  <2> USE DEF Step, ActivePcs
  <2>1. CASE Dispatch(j)
    <3>1. Result(StartPc(mem, j))
      BY <2>1 DEF Dispatch, StartPc
    <3>. QED
      BY <3>1
  <2>2. CASE FindIntermediary(j) \/ FindDestination(j)
    BY <2>2 DEF FindIntermediary, FindDestination, Find
  <2>3. CASE CopyIntermediary(j) \/ CopyDestination(j) \/ ShareIntermediary(j)
    BY <2>3 DEF CopyIntermediary, CopyDestination, ShareIntermediary
  <2>4. CASE WaitIntermediary(j) \/ WaitDestination(j)
    BY <2>4 DEF WaitIntermediary, WaitDestination
  <2>5. CASE ValidateDestination(j)
    <3>1. PICK to \in {"finished", "failed"} : Step(j, "validate", to)
      BY <2>5 DEF ValidateDestination
    <3>. QED
      BY <3>1
  <2>6. CASE WorkerCancelled(j) \/ WorkerFault(j)
    BY <2>6 DEF WorkerCancelled, WorkerFault
  <2>. QED
    BY <2>1, <2>2, <2>3, <2>4, <2>5, <2>6 DEF Worker
<1>. QED
  BY <1>1, <1>2 DEF TypeOK

\* What a goroutine brings to memory when it saves, whether or not the save succeeds.
LEMMA Recorded ==
    ASSUME IInv, SaveInv, NEW j \in Entries,
           SaveIntermediary(j) \/ SaveDestination(j) \/ SaveFails(j)
    PROVE  /\ pc = "copy" /\ pc' = "copy" /\ ~disk.deleted[j]
           /\ UNCHANGED <<mem.key, mem.grant, mem.keyScheduled, mem.deleted>>
           /\ \A i \in Entries : i # j =>
                wpc'[i] = wpc[i] /\ mem'.inter[i] = mem.inter[i] /\ mem'.dest[i] = mem.dest[i]
           /\ wpc'[j] \in {"waitI", "waitD", "failed"}
           /\ mem.inter[j] = disk.inter[j] /\ mem.dest[j] = disk.dest[j] /\ disk.dest[j] = 0
           /\ \/ disk.inter[j] = 0 /\ mem'.inter[j] # 0 /\ mem'.dest[j] = 0
              \/ disk.inter[j] # 0 /\ mem'.inter[j] = disk.inter[j] /\ mem'.dest[j] # 0
<1>a. TypeOK /\ WorkerInv(j) /\ StageInv(j)
  BY DEF IInv, EntryInv, SaveInv
<1>b. mem \in Journal /\ wpc \in [Entries -> WorkerPcs]
  BY <1>a DEF TypeOK
<1>1. PICK to \in {"waitI", "waitD", "failed"} :
          \/ Step(j, "saveI", to) /\ mem' = [mem EXCEPT !.inter[j] = id[j]]
          \/ Step(j, "saveD", to) /\ mem' = [mem EXCEPT !.dest[j] = id[j]]
  BY DEF SaveIntermediary, SaveDestination, SaveFails
<1>2. CASE Step(j, "saveI", to) /\ mem' = [mem EXCEPT !.inter[j] = id[j]]
  <2>1. pc = "copy" /\ pc' = "copy" /\ wpc[j] = "saveI" /\ wpc' = [wpc EXCEPT ![j] = to]
    BY <1>2 DEF Step
  <2>2. /\ mem.inter[j] = disk.inter[j] /\ mem.dest[j] = disk.dest[j] /\ mem.inter[j] = 0 /\ id[j] # 0
        /\ ~disk.deleted[j] /\ disk.dest[j] = 0
    BY <1>a, <2>1 DEF WorkerInv, StageInv, ActivePcs
  <2>. QED
    BY <1>b, <1>2, <2>1, <2>2 DEF Journal
<1>3. CASE Step(j, "saveD", to) /\ mem' = [mem EXCEPT !.dest[j] = id[j]]
  <2>1. pc = "copy" /\ pc' = "copy" /\ wpc[j] = "saveD" /\ wpc' = [wpc EXCEPT ![j] = to]
    BY <1>3 DEF Step
  <2>2. /\ mem.inter[j] = disk.inter[j] /\ mem.dest[j] = disk.dest[j] /\ mem.inter[j] # 0 /\ id[j] # 0
        /\ ~disk.deleted[j] /\ mem.dest[j] = 0
    BY <1>a, <2>1 DEF WorkerInv, StageInv, ActivePcs
  <2>. QED
    BY <1>b, <1>3, <2>1, <2>2 DEF Journal
<1>. QED
  BY <1>1, <1>2, <1>3

\* A goroutine's step keeps what the invariant says of each entry.
LEMMA StageWorker ==
    ASSUME IInv, SaveInv, NEW i \in Entries, NEW j \in Entries, Worker(j) \/ SaveFails(j) \/ WorkerFault(j)
    PROVE  StageInv(i)'
<1>a. TypeOK /\ MemoryInv(i) /\ WorkerInv(i) /\ StageInv(i)
  BY DEF IInv, EntryInv, SaveInv
<1>b. SavedPcs \cap {"copy"} = {} /\ {"waitI", "waitD"} \subseteq ActivePcs /\ "failed" \notin ActivePcs
  BY DEF SavedPcs, CleanupPcs, ActivePcs
<1>1. CASE SaveIntermediary(j) \/ SaveDestination(j)
  <2>1. disk' = mem'
    BY <1>1 DEF SaveIntermediary, SaveDestination
  <2>2. pc = "copy" /\ pc' = "copy" /\ mem'.deleted = mem.deleted /\ mem.deleted[i] = disk.deleted[i]
    BY <1>1, <1>a, Recorded DEF MemoryInv
  <2>3. CASE i = j
    <3>1. mem'.dest[i] # 0 => mem'.inter[i] # 0
      BY <1>1, <2>3, Recorded
    <3>2. ~mem'.deleted[i]
      BY <1>1, <2>2, <2>3, Recorded
    <3>. QED
      BY <1>b, <2>1, <2>2, <3>1, <3>2 DEF StageInv, Ahead
  <2>4. CASE i # j
    <3>1. wpc'[i] = wpc[i] /\ mem'.inter[i] = mem.inter[i] /\ mem'.dest[i] = mem.dest[i]
      BY <1>1, <2>4, Recorded
    <3>2. mem.dest[i] # 0 => mem.inter[i] # 0
      BY <1>a, <2>2 DEF StageInv, MemoryInv, Gone
    <3>. QED
      BY <1>a, <1>b, <2>1, <2>2, <3>1, <3>2 DEF StageInv, Ahead
  <2>. QED
    BY <2>3, <2>4
<1>2. CASE SaveFails(j)
  <2>1. disk' = disk
    BY <1>2 DEF SaveFails
  <2>2. pc = "copy" /\ pc' = "copy" /\ mem'.deleted = mem.deleted
    BY <1>2, Recorded
  <2>3. CASE i = j
    <3>1. wpc'[i] = "failed"
      BY <1>2, <2>3 DEF SaveFails, Step, IInv, TypeOK
    <3>2. /\ ~disk.deleted[i]
          /\ mem'.inter[i] # disk.inter[i] => mem'.dest[i] = disk.dest[i]
          /\ mem'.dest[i] # disk.dest[i] => mem'.inter[i] # 0
      BY <1>2, <2>3, Recorded
    <3>. QED
      BY <1>a, <1>b, <2>1, <2>2, <3>1, <3>2 DEF StageInv, Ahead
  <2>4. CASE i # j
    <3>1. wpc'[i] = wpc[i] /\ mem'.inter[i] = mem.inter[i] /\ mem'.dest[i] = mem.dest[i]
      BY <1>2, <2>4, Recorded
    <3>. QED
      BY <1>a, <1>b, <2>1, <2>2, <3>1 DEF StageInv, Ahead
  <2>. QED
    BY <2>3, <2>4
<1>3. CASE ~SaveIntermediary(j) /\ ~SaveDestination(j) /\ ~SaveFails(j)
  <2>1. /\ pc = "copy" /\ pc' = "copy" /\ UNCHANGED <<disk, mem>>
        /\ i # j => wpc'[i] = wpc[i]
        /\ i = j /\ wpc'[i] \in ActivePcs \ {"validate"} =>
             ~mem.deleted[i] \/ wpc[i] \in ActivePcs \ {"validate"}
    BY <1>a, <1>3, QuietWorker
  <2>2. mem.deleted[i] = disk.deleted[i]
    BY <1>a, <2>1 DEF MemoryInv
  <2>. QED
    BY <1>a, <1>b, <2>1, <2>2 DEF StageInv, Ahead
<1>. QED
  BY <1>1, <1>2, <1>3

\* So does a step of the main goroutine and a crash.
LEMMA StageMain ==
    ASSUME IInv, SaveInv, NEW i \in Entries, Main \/ Crash
    PROVE  StageInv(i)'
<1>a. TypeOK /\ MemoryInv(i) /\ StageInv(i)
  BY DEF IInv, EntryInv, SaveInv
<1>b. /\ "copy" \notin Gone \cup SavedPcs \cup {"saveSetup", "saveCleanup"}
      /\ SavedPcs \cap (Gone \cup SetupPcs \cup {"copy", "saveCleanup"}) = {}
      /\ SavedPcs \cup {"saveCleanup"} = AfterCopy
      /\ "queued" \notin ActivePcs /\ "saveSetup" \in SetupPcs
  BY DEF Gone, SavedPcs, CleanupPcs, SetupPcs, AfterCopy, ActivePcs
<1>c. \A j : /\ SetupPc(j) \in SetupPcs \cup {"copy"} /\ CleanupPc(j) \in SavedPcs
  BY NextPcType DEF SetupPcs, SavedPcs
<1>1. CASE Start
  <2>1. pc \in Gone /\ pc' = SetupPc(disk) /\ mem' = disk /\ UNCHANGED <<disk, wpc>>
    BY <1>1 DEF Start, Gone
  <2>2. wpc[i] = "queued"
    BY <1>a, <2>1 DEF MemoryInv
  <2>. QED
    BY <1>a, <1>b, <1>c, <2>1, <2>2 DEF StageInv, Ahead
<1>2. CASE CreateKey \/ CreateAlias \/ CreateGrant
  <2>1. pc' = "saveSetup" /\ UNCHANGED disk
    BY <1>2 DEF CreateKey, CreateAlias, CreateGrant
  <2>. QED
    BY <1>a, <1>b, <2>1 DEF StageInv
<1>3. CASE SaveSetup
  <2>1. pc = "saveSetup" /\ pc' = SetupPc(mem) /\ disk' = mem /\ UNCHANGED <<mem, wpc>>
    BY <1>3 DEF SaveSetup, Save
  <2>2. /\ wpc[i] = "queued" /\ mem.inter[i] = disk.inter[i] /\ mem.dest[i] = disk.dest[i]
    BY <1>a, <1>b, <2>1 DEF MemoryInv
  <2>. QED
    BY <1>a, <1>b, <1>c, <2>1, <2>2 DEF StageInv, Ahead
<1>4. CASE CopiesFinish
  <2>1. pc = "copy" /\ pc' \in SavedPcs /\ UNCHANGED <<disk, mem>>
    BY <1>4, <1>c DEF CopiesFinish
  <2>2. mem.deleted[i] = disk.deleted[i]
    BY <1>a, <2>1 DEF MemoryInv
  <2>. QED
    BY <1>a, <1>b, <2>1, <2>2 DEF StageInv, DeletesNow
<1>5. CASE CopiesFail \/ Remap \/ Crash
  <2>1. pc' \in Gone /\ UNCHANGED disk
    BY <1>5 DEF CopiesFail, Remap, Crash, Gone
  <2>. QED
    BY <1>a, <1>b, <2>1 DEF StageInv
<1>6. CASE DeleteIntermediary \/ RevokeGrant \/ DeleteAlias \/ ScheduleKeyDeletion
  <2>1. pc' = "saveCleanup" /\ UNCHANGED disk
    BY <1>6 DEF DeleteIntermediary, RevokeGrant, DeleteAlias, ScheduleKeyDeletion
  <2>. QED
    BY <1>a, <1>b, <2>1 DEF StageInv
<1>7. CASE SaveCleanup
  <2>1. pc = "saveCleanup" /\ pc' \in SavedPcs /\ disk' = mem /\ UNCHANGED mem
    BY <1>7, <1>c DEF SaveCleanup, Save
  <2>2. mem.inter[i] = disk.inter[i] /\ mem.dest[i] = disk.dest[i]
    BY <1>a, <1>b, <2>1 DEF MemoryInv
  <2>. QED
    BY <1>a, <1>b, <2>1, <2>2 DEF StageInv, DeletesNow
<1>. QED
  BY <1>1, <1>2, <1>3, <1>4, <1>5, <1>6, <1>7 DEF Main

\* What the invariant says of the key is kept by every step.
LEMMA RetireStep ==
    ASSUME IInv, SaveInv, Next
    PROVE  RetireInv'
<1>a. /\ TypeOK /\ KeyInv /\ RetireInv
      /\ \A i \in Entries : MemoryInv(i) /\ StageInv(i)
  BY DEF IInv, EntryInv, SaveInv
<1>b. /\ "saveCleanup" \notin Gone \cup SavedPcs \cup {"saveSetup", "copy"}
      /\ SavedPcs \cup {"saveCleanup"} = AfterCopy
      /\ (AfterCopy \cup {"copy"}) \cap (Gone \cup SetupPcs) = {} /\ "saveSetup" \in SetupPcs
      /\ SetupPcs \cap Gone = {}
  BY DEF Gone, SavedPcs, CleanupPcs, SetupPcs, AfterCopy
<1>c. \A j : /\ SetupPc(j) \in (SetupPcs \cup {"copy"}) \ {"saveSetup"} /\ CleanupPc(j) \in SavedPcs
  BY NextPcType DEF SetupPcs, SavedPcs
<1>1. CASE Start
  <2>1. pc' = SetupPc(disk) /\ mem' = disk /\ UNCHANGED disk
    BY <1>1 DEF Start
  <2>. QED
    BY <1>a, <1>b, <1>c, <2>1 DEF RetireInv
<1>2. CASE CreateKey \/ CreateAlias \/ CreateGrant
  <2>1. pc \in SetupPcs /\ pc' = "saveSetup" /\ UNCHANGED disk /\ mem'.keyScheduled = mem.keyScheduled
    BY <1>2, <1>a DEF CreateKey, CreateAlias, CreateGrant, SetupPcs, TypeOK, Journal
  <2>. QED
    BY <1>a, <1>b, <2>1 DEF RetireInv
<1>3. CASE SaveSetup
  <2>1. pc = "saveSetup" /\ pc' = SetupPc(mem) /\ disk' = mem /\ UNCHANGED mem
    BY <1>3 DEF SaveSetup, Save
  <2>2. \A i \in Entries : mem.deleted[i] = disk.deleted[i]
    BY <1>a, <1>b, <2>1 DEF MemoryInv
  <2>. QED
    BY <1>a, <1>b, <1>c, <2>1, <2>2 DEF RetireInv
<1>4. CASE CopiesFinish
  <2>1. pc = "copy" /\ pc' \in SavedPcs /\ UNCHANGED <<disk, mem>>
    BY <1>4, <1>c DEF CopiesFinish
  <2>. QED
    BY <1>a, <1>b, <2>1 DEF RetireInv
<1>5. CASE CopiesFail \/ Remap \/ Crash
  <2>1. pc' \in Gone /\ UNCHANGED disk
    BY <1>5 DEF CopiesFail, Remap, Crash, Gone
  <2>. QED
    BY <1>a, <1>b, <2>1 DEF RetireInv
<1>6. CASE DeleteIntermediary
  <2>1. PICK e \in Entries : mem' = [mem EXCEPT !.deleted[e] = TRUE]
    BY <1>6 DEF DeleteIntermediary
  <2>2. pc \in SavedPcs /\ pc' = "saveCleanup" /\ UNCHANGED disk
    BY <1>6 DEF DeleteIntermediary, SavedPcs, CleanupPcs
  <2>3. /\ mem'.key = mem.key /\ mem'.keyScheduled = mem.keyScheduled
        /\ \A i \in Entries : i # e => mem'.deleted[i] = mem.deleted[i]
    BY <1>a, <2>1 DEF TypeOK, Journal
  <2>4. \A i \in Entries : DeletesNow(i)' => i = e
    BY <1>a, <2>2, <2>3 DEF StageInv, DeletesNow
  <2>. QED
    BY <1>a, <1>b, <2>2, <2>3, <2>4 DEF RetireInv
<1>7. CASE RevokeGrant \/ DeleteAlias \/ ScheduleKeyDeletion
  <2>1. /\ pc \in SavedPcs /\ pc \in {"revokeGrant", "deleteAlias", "scheduleKey"}
        /\ pc' = "saveCleanup" /\ UNCHANGED disk
    BY <1>7 DEF RevokeGrant, DeleteAlias, ScheduleKeyDeletion, SavedPcs, CleanupPcs
  <2>2. /\ mem'.key = mem.key /\ mem'.deleted = mem.deleted
        /\ mem'.keyScheduled = mem.keyScheduled \/ mem'.keyScheduled
    BY <1>7, <1>a DEF RevokeGrant, DeleteAlias, ScheduleKeyDeletion, TypeOK, Journal
  <2>3. \A i \in Entries : disk.deleted[i] /\ ~DeletesNow(i)'
    BY <1>a, <2>1, <2>2 DEF KeyInv, StageInv, DeletesNow
  <2>. QED
    BY <1>a, <1>b, <2>1, <2>2, <2>3 DEF RetireInv
<1>8. CASE SaveCleanup
  <2>1. pc = "saveCleanup" /\ pc' \in SavedPcs /\ disk' = mem /\ UNCHANGED mem
    BY <1>8, <1>c DEF SaveCleanup, Save
  <2>2. \A i \in Entries : disk.deleted[i] => mem.deleted[i]
    BY <1>a, <1>b, <2>1 DEF MemoryInv
  <2>. QED
    BY <1>a, <1>b, <2>1, <2>2 DEF RetireInv
<1>9. ASSUME NEW j \in Entries, Worker(j) \/ SaveFails(j) \/ WorkerFault(j)
      PROVE  RetireInv'
  <2>1. /\ pc = "copy" /\ pc' = "copy"
        /\ UNCHANGED <<mem.key, mem.keyScheduled, mem.deleted>> /\ (UNCHANGED disk \/ disk' = mem')
    <3>1. CASE SaveIntermediary(j) \/ SaveDestination(j) \/ SaveFails(j)
      BY <3>1, Recorded DEF SaveIntermediary, SaveDestination, SaveFails
    <3>2. CASE ~SaveIntermediary(j) /\ ~SaveDestination(j) /\ ~SaveFails(j)
      BY <1>9, <1>a, <3>2, QuietWorker
    <3>. QED
      BY <3>1, <3>2
  <2>2. \A i \in Entries : mem.deleted[i] = disk.deleted[i]
    BY <1>a, <2>1 DEF MemoryInv
  <2>. QED
    BY <1>a, <1>b, <2>1, <2>2 DEF RetireInv
<1>10. CASE SnapshotVisible \/ SnapshotCompletes \/ SnapshotErrors
  <2>1. UNCHANGED <<pc, mem, disk>>
    BY <1>10 DEF SnapshotVisible, SnapshotCompletes, SnapshotErrors, Progress, processVars
  <2>. QED
    BY <1>a, <2>1 DEF RetireInv, DeletesNow
<1>. QED
  BY <1>1, <1>2, <1>3, <1>4, <1>5, <1>6, <1>7, <1>8, <1>9, <1>10 DEF Next, Main

\* Every step keeps it.
LEMMA SaveInvStep == IInv /\ SaveInv /\ [Next]_vars => SaveInv'
<1> SUFFICES ASSUME IInv, SaveInv, [Next]_vars PROVE SaveInv'
  OBVIOUS
<1>1. CASE UNCHANGED vars
  BY <1>1 DEF vars, processVars, SaveInv, RetireInv, StageInv, Ahead, DeletesNow
<1>2. CASE Next
  <2>1. ASSUME NEW i \in Entries PROVE StageInv(i)'
    <3>1. CASE SnapshotVisible \/ SnapshotCompletes \/ SnapshotErrors
      <4>1. UNCHANGED <<pc, wpc, mem, disk>>
        BY <3>1 DEF SnapshotVisible, SnapshotCompletes, SnapshotErrors, Progress, processVars
      <4>. QED
        BY <4>1 DEF SaveInv, StageInv, Ahead, DeletesNow
    <3>. QED
      BY <1>2, <3>1, StageMain, StageWorker DEF Next
  <2>2. \A i \in Entries' : StageInv(i)'
    BY <2>1 DEF Entries
  <2>. QED
    BY <1>2, <2>2, RetireStep DEF SaveInv
<1>. QED
  BY <1>1, <1>2

\* A successful save of a goroutine copies the entries that are ahead by a stage each.
LEMMA WorkerSaves ==
    ASSUME IInv, SaveInv, NEW j \in Entries, SaveIntermediary(j) \/ SaveDestination(j)
    PROVE  Migration!Copy({i \in Entries : StageOf(disk', i) # StageOf(disk, i)})
<1> DEFINE S == {i \in Entries : StageOf(disk', i) # StageOf(disk, i)}
<1>a. /\ TypeOK /\ KeyInv /\ RetireInv
      /\ \A i \in Entries : MemoryInv(i) /\ StageInv(i)
  BY DEF IInv, EntryInv, SaveInv
<1>1. disk' = mem' /\ pc = "copy" /\ ~disk.deleted[j]
  BY Recorded DEF SaveIntermediary, SaveDestination
<1>2. /\ disk'.key = disk.key /\ disk'.keyScheduled = disk.keyScheduled
      /\ disk.key # 0 /\ ~disk.keyScheduled
  BY <1>a, <1>1, Recorded DEF KeyInv, RetireInv, Gone
<1>3. KeyOf(disk) = "live" /\ KeyOf(disk') = "live"
  BY <1>a, <1>2 DEF KeyOf, TypeOK, Journal
<1>4. ASSUME NEW i \in Entries
      PROVE  /\ disk'.deleted[i] = disk.deleted[i]
             /\ disk.inter[i] # 0 => disk'.inter[i] = disk.inter[i]
             /\ disk.dest[i] # 0 => disk'.dest[i] = disk.dest[i] /\ disk.inter[i] # 0
             /\ disk.inter[i] = 0 => disk'.dest[i] = 0
  <2>1. disk'.deleted[i] = disk.deleted[i]
    BY <1>a, <1>1, Recorded DEF MemoryInv
  <2>2. CASE i = j
    BY <1>a, <1>1, <2>1, <2>2, Recorded DEF StageInv
  <2>3. CASE i # j
    <3>1. disk'.inter[i] = mem.inter[i] /\ disk'.dest[i] = mem.dest[i]
      BY <1>1, <2>3, Recorded
    <3>2. /\ disk.inter[i] # 0 => mem.inter[i] = disk.inter[i]
          /\ disk.dest[i] # 0 => mem.dest[i] = disk.dest[i]
          /\ disk.dest[i] # 0 => disk.inter[i] # 0
          /\ mem.inter[i] # disk.inter[i] => mem.dest[i] = disk.dest[i]
          /\ mem.dest[i] # disk.dest[i] => mem.inter[i] # 0
      BY <1>a, <1>1 DEF MemoryInv, StageInv, Gone
    <3>. QED
      BY <2>1, <3>1, <3>2
  <2>. QED
    BY <2>2, <2>3
<1>5. ASSUME NEW i \in S
      PROVE  /\ StageOf(disk, i) \in {"source", "intermediate"}
             /\ StageOf(disk', i) = IF StageOf(disk, i) = "source" THEN "intermediate" ELSE "destination"
  <2>1. disk.deleted[i] \in BOOLEAN
    BY <1>a DEF TypeOK, Journal
  <2>. QED
    BY <1>4, <2>1 DEF StageOf
<1>. QED
  BY <1>3, <1>5 DEF Migration!Copy

\* A save of the setup makes the key, at most.
LEMMA SetupSaves ==
    ASSUME IInv, KeptInv, SaveInv, SaveSetup
    PROVE  Migration!MakeKey \/ UNCHANGED <<[i \in Entries |-> StageOf(disk, i)], KeyOf(disk)>>
<1>a. TypeOK /\ RetireInv /\ \A i \in Entries : MemoryInv(i)
  BY DEF IInv, EntryInv, SaveInv
<1>1. pc = "saveSetup" /\ disk' = mem
  BY DEF SaveSetup, Save
<1>2. \A i \in Entries : StageOf(disk', i) = StageOf(disk, i)
  BY <1>a, <1>1 DEF MemoryInv, SetupPcs, StageOf
<1>3. mem.keyScheduled = disk.keyScheduled /\ (disk.key # 0 => mem.key = disk.key)
  BY <1>a, <1>1 DEF RetireInv, KeptInv, Gone
<1>4. disk.keyScheduled \in BOOLEAN
  BY <1>a DEF TypeOK, Journal
<1>5. KeyOf(disk') = KeyOf(disk) \/ (KeyOf(disk) = "none" /\ KeyOf(disk') = "live")
  BY <1>1, <1>3, <1>4 DEF KeyOf
<1>. QED
  BY <1>2, <1>5 DEF Migration!MakeKey

\* A save of the cleanup gives up one intermediary, retires the key, or neither.
LEMMA CleanupSaves ==
    ASSUME IInv, SaveInv, SaveCleanup
    PROVE  \/ \E e \in Entries : Migration!Clean(e)
           \/ Migration!Retire
           \/ UNCHANGED <<[i \in Entries |-> StageOf(disk, i)], KeyOf(disk)>>
<1>a. TypeOK /\ KeyInv /\ RetireInv /\ \A i \in Entries : MemoryInv(i) /\ SafetyInv(i)
  BY DEF IInv, EntryInv, SaveInv
<1>b. \A i \in Entries : disk.deleted[i] \in BOOLEAN /\ mem.deleted[i] \in BOOLEAN
  BY <1>a DEF TypeOK, Journal
<1>c. disk.keyScheduled \in BOOLEAN /\ mem.keyScheduled \in BOOLEAN
  BY <1>a DEF TypeOK, Journal
<1>1. pc = "saveCleanup" /\ disk' = mem
  BY DEF SaveCleanup, Save
<1>2. \A i \in Entries :
        /\ mem.inter[i] = disk.inter[i] /\ mem.dest[i] = disk.dest[i]
        /\ disk.deleted[i] => mem.deleted[i]
        /\ disk.dest[i] # 0
  BY <1>a, <1>1 DEF MemoryInv, SafetyInv, AfterCopy, CleanupPcs, Completed, Gone
<1>3. mem.key = disk.key /\ disk.key # 0
  BY <1>a, <1>1 DEF KeyInv, RetireInv, AfterCopy, CleanupPcs, Gone
<1>4. ASSUME NEW i \in Entries
      PROVE  StageOf(disk, i) = IF disk.deleted[i] THEN "cleaned" ELSE "destination"
  <2>1. CASE disk.deleted[i]
    BY <2>1 DEF StageOf
  <2>2. CASE ~disk.deleted[i]
    <3>1. disk.dest[i] # 0
      BY <1>2
    <3>. QED
      BY <2>2, <3>1 DEF StageOf
  <2>. QED
    BY <2>1, <2>2
<1>5. ASSUME NEW i \in Entries
      PROVE  StageOf(disk', i) = IF mem.deleted[i] THEN "cleaned" ELSE "destination"
  <2>1. CASE mem.deleted[i]
    BY <1>1, <2>1 DEF StageOf
  <2>2. CASE ~mem.deleted[i]
    <3>1. mem.dest[i] # 0
      BY <1>2
    <3>. QED
      BY <1>1, <2>2, <3>1 DEF StageOf
  <2>. QED
    BY <2>1, <2>2
<1>6. /\ KeyOf(disk) = IF disk.keyScheduled THEN "retired" ELSE "live"
      /\ KeyOf(disk') = IF mem.keyScheduled THEN "retired" ELSE "live"
  BY <1>1, <1>3, <1>c DEF KeyOf
<1>7. CASE \E e \in Entries : DeletesNow(e)
  <2>1. PICK e \in Entries : DeletesNow(e)
    BY <1>7
  <2>2. ~disk.deleted[e] /\ mem.deleted[e]
    <3>1. mem.deleted[e] \in BOOLEAN /\ disk.deleted[e] \in BOOLEAN /\ (disk.deleted[e] => mem.deleted[e])
      BY <1>2, <1>b
    <3>2. mem.deleted[e] # disk.deleted[e]
      BY <2>1 DEF DeletesNow
    <3>. QED
      BY <3>1, <3>2
  <2>3. ~disk.keyScheduled /\ ~mem.keyScheduled
    BY <1>a, <1>1, <1>c, <2>2 DEF RetireInv
  <2>4. \A i \in Entries : i # e => mem.deleted[i] = disk.deleted[i]
    BY <1>a, <1>1, <2>1 DEF RetireInv, DeletesNow
  <2>. QED
    BY <1>4, <1>5, <1>6, <2>2, <2>3, <2>4 DEF Migration!Clean
<1>8. CASE ~\E e \in Entries : DeletesNow(e)
  <2>1. \A i \in Entries : StageOf(disk', i) = StageOf(disk, i)
    BY <1>4, <1>5, <1>8 DEF DeletesNow
  <2>2. CASE mem.keyScheduled = disk.keyScheduled
    BY <1>6, <2>1, <2>2
  <2>3. CASE mem.keyScheduled # disk.keyScheduled
    <3>1. ~disk.keyScheduled /\ mem.keyScheduled /\ \A i \in Entries : disk.deleted[i]
      BY <1>a, <1>1, <1>c, <2>3 DEF RetireInv
    <3>. QED
      BY <1>4, <1>6, <2>1, <3>1 DEF Migration!Retire
  <2>. QED
    BY <2>2, <2>3
<1>. QED
  BY <1>7, <1>8

\* Every step of every run, and of AWS, is a step of the migration or none.
LEMMA MigrationStep ==
    ASSUME IInv, KeptInv, SaveInv, [Next]_vars
    PROVE  [Migration!Next]_<<[i \in Entries |-> StageOf(disk, i)], KeyOf(disk)>>
<1>1. CASE disk' = disk
  BY <1>1
<1>2. CASE disk' # disk
  <2>1. Next
    BY <1>2 DEF vars
  <2>2. CASE Main \/ Crash
    <3>1. SaveSetup \/ SaveCleanup
      BY <1>2, <2>2 DEF Main, Crash, Start, CreateKey, CreateAlias, CreateGrant, CopiesFinish,
         CopiesFail, DeleteIntermediary, RevokeGrant, DeleteAlias, ScheduleKeyDeletion, Remap
    <3>. QED
      BY <3>1, SetupSaves, CleanupSaves DEF Migration!Next
  <2>3. ASSUME NEW j \in Entries, Worker(j) \/ SaveFails(j) \/ WorkerFault(j)
        PROVE  \E S \in SUBSET Entries : Migration!Copy(S)
    <3>1. SaveIntermediary(j) \/ SaveDestination(j)
      BY <1>2, <2>3, QuietWorker DEF SaveFails, IInv
    <3>. QED
      BY <3>1, WorkerSaves
  <2>4. CASE SnapshotVisible \/ SnapshotCompletes \/ SnapshotErrors
    BY <1>2, <2>4 DEF SnapshotVisible, SnapshotCompletes, SnapshotErrors, Progress
  <2>. QED
    BY <2>1, <2>2, <2>3, <2>4 DEF Next, Migration!Next
<1>. QED
  BY <1>1, <1>2

\* The journal, through any number of concurrent copies, failed saves, crashes and
\* reruns, takes the steps of SnapshotMigration and no others.
THEOREM MigrationImplemented == Spec => ImplementsMigration
<1>1. Init => Migration!Init
  <2> SUFFICES ASSUME Init PROVE Migration!Init
    OBVIOUS
  <2>1. \A i \in Entries : StageOf(disk, i) = "source"
    BY DEF Init, EmptyJournal, StageOf
  <2>2. KeyOf(disk) = "none"
    BY DEF Init, EmptyJournal, KeyOf
  <2>. QED
    BY <2>1, <2>2 DEF Migration!Init
<1>2. Spec => []SaveInv
  BY SaveInvInit, SaveInvStep, Invariant, PTL DEF Spec
<1>. QED
  BY <1>1, <1>2, Kept, Invariant, MigrationStep, PTL DEF Spec, ImplementsMigration, Migration!Spec
=============================================================================
