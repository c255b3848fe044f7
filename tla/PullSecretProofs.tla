--------------------------- MODULE PullSecretProofs ---------------------------
(***************************************************************************)
(* Theorems about the commands on a cluster's pull secret, for any number  *)
(* of runs, faults and edits, any registries and any clusters.             *)
(***************************************************************************)
EXTENDS PullSecretCommands, FiniteSetTheorems, TLAPS

commandVars == <<command, writeVars, checkVars>>
-----------------------------------------------------------------------------
(***************************************************************************)
(* The runs that write.  What a run writes it has merged into the secret   *)
(* that is there; an update in "poll" has written, so that whatever Hive   *)
(* applies from then on has it.                                            *)
(***************************************************************************)
TransferPcs == Ended \cup {"delete", "create", "sync", "poll", "cleanup"}

ShapeInv ==
    /\ \A p \in Updates : pc[p] # "delete"
    /\ \A p \in Transfers : pc[p] \in TransferPcs

ReadInv ==
    /\ \A p \in fresh : base[p] = pull
    /\ \A p \in Run : pc[p] = "write" => base[p] # Missing

ClockInv == \A n \in Name : success[n] <= now

WroteInv == \A p \in Updates : pc[p] \in {"sync", "poll"} => p \in wrote

\* With whole seconds a success may be as old as the SyncSet it is not of.
PollInv == \A p \in Updates : pc[p] = "poll" /\ Confirmed(p) => p \in arrived

\* The SyncSet of the updates is one of a run that is going to delete it.
SyncInv ==
    faults = 0 /\ syncSet["update"] # Never
        => \E p \in Updates : pc[p] \in {"poll", "cleanup", "giveUp"}

WriteInv == TypeOK /\ ShapeInv /\ ReadInv /\ ClockInv /\ WroteInv /\ SyncInv
ConfirmInv == PollInv /\ ConfirmedReachedCluster
-----------------------------------------------------------------------------
(***************************************************************************)
(* The comparisons.  Unless somebody changed something, what was read is   *)
(* what is there, and a row that passed is a comparison that found nothing *)
(***************************************************************************)
BeforeCreds == {"ocm", "list", "secret", "email", "creds"}
AfterRead == {"email", "creds", "token", "count", "aggregate", "matched"}

StageInv ==
    /\ ocmAuth # NoAuth
    /\ tokenAuths \subseteq AuthRegistry /\ credAuths \subseteq AuthRegistry
    /\ chpc \in BeforeCreds => credRows = "not run"
    /\ chpc \in BeforeCreds \cup {"token"} => tokenRows = "not run"
    /\ chpc \in {"creds", "token", "count", "aggregate"} => psCommand # "validate"
    /\ chpc \in {"list", "next", "count", "audited"} => psCommand = "audit"

\* A cluster's secret that could not be read counts as empty: none of its sections
\* is like the owner's.
FreshReads ==
    /\ chpc # "ocm" => ocmRead = ocmAuth
    /\ chpc \in AfterRead =>
        /\ psCommand = "compare" => hiveRead = hivePull
        /\ \/ targetRead = targetSecret[atHand]
           \/ psCommand = "compare" /\ targetRead = [r \in AuthRegistry |-> NoAuth]

Same(auths) ==
    /\ \A r \in auths : targetRead[r] = ocmRead
    /\ psCommand = "compare" => \A r \in auths : hiveRead[r] = ocmRead

RowsInv ==
    /\ chpc \in {"token", "count", "aggregate", "matched"} /\ credRows = "pass" =>
        /\ Same(credAuths \ uncompared)
        /\ psCommand # "compare" => uncompared = {}
    /\ chpc \in {"count", "aggregate", "matched"} /\ tokenRows = "pass" => Same(tokenAuths)
    /\ chpc = "matched" =>
        IF psCommand = "validate" THEN targetRead[Cloud].email = ocmRead.email
        ELSE tokenRows = "pass" /\ credRows = "pass"

CountedInv == \A c \in checkedWell : Agrees(c, tokenAuths \cup credAuths)

ToldInv ==
    chpc \in {"matched", "told"} /\ psCommand = "validate-ext" /\ ~skipLogs => wrongAuths \subseteq offered

CheckInv ==
    /\ StageInv /\ ToldInv
    /\ ~editedSince => FreshReads /\ RowsInv /\ CountedInv

-----------------------------------------------------------------------------
\* A merge keeps the auths there are, and is a secret.
LEMMA MergeKeeps ==
    ASSUME NEW old \in Auths, NEW new \in Auths
    PROVE  /\ Merge(old, new) \in Auths
           /\ \A r \in Registry : old[r] # "absent" => Merge(old, new)[r] # "absent"
  BY DEF Merge, Auths

LEMMA MissingIsNoSecret == Missing \notin Auths
<1>1. SUFFICES ASSUME Missing \in Auths PROVE FALSE
  OBVIOUS
<1>2. "cloud" \in Registry /\ Missing["cloud"] = "no secret"
  BY DEF Missing, Registry
<1>3. Missing["cloud"] \in Run \cup {"old", "absent"}
  BY <1>1, <1>2 DEF Auths
<1> QED
  BY <1>2, <1>3, PullSecretAssumption

LEMMA DifferingIsNat == \A p \in Run : Differing(p) \in Nat
<1>1. TAKE p \in Run
<1> DEFINE D == {r \in Covers[p] : target[r] # p}
<1>2. D \subseteq Registry
  BY PullSecretAssumption
<1>3. IsFiniteSet(Registry)
  <2>1. IsFiniteSet({"cloud"}) /\ IsFiniteSet({"quay"}) /\ IsFiniteSet({"customer"})
    BY FS_Singleton
  <2>2. IsFiniteSet({"cloud"} \cup {"quay"})
    BY <2>1, FS_Union
  <2>3. IsFiniteSet(({"cloud"} \cup {"quay"}) \cup {"customer"})
    BY <2>1, <2>2, FS_Union
  <2>4. Registry = ({"cloud"} \cup {"quay"}) \cup {"customer"}
    BY DEF Registry
  <2> QED
    BY <2>3, <2>4
<1>4. IsFiniteSet(D)
  BY <1>2, <1>3, FS_Subset
<1>5. Cardinality(D) \in Nat
  BY <1>4, FS_CardinalityType
<1> QED
  BY <1>5 DEF Differing

LEMMA InitTyped == Init => TypeOK
<1>1. SUFFICES ASSUME Init PROVE TypeOK
  OBVIOUS
<1>2. target \in Auths /\ pull \in Auths \cup {Missing}
  BY <1>1 DEF Init, Auths, Registry
<1>3. payload \in [Run -> Auths]
  BY <1>1, PullSecretAssumption DEF Init, Auths, Token
<1>4. /\ syncSet \in [Name -> Time] /\ success \in [Name -> Time]
      /\ found \in [Run -> Time] /\ now \in 0..MaxTime
  <2>1. Never \in Time
    BY DEF Time
  <2>2. syncSet \in [Name -> Time]
    BY <1>1, <2>1 DEF Init
  <2>3. success \in [Name -> Time]
    BY <1>1, <2>2 DEF Init
  <2>4. found \in [Run -> Time]
    BY <1>1, <2>1 DEF Init
  <2>5. now \in 0..MaxTime
    <3>1. now = 0
      BY <1>1 DEF Init
    <3>2. MaxTime \in Nat
      BY PullSecretAssumption
    <3> QED
      BY <3>1, <3>2
  <2> QED
    BY <2>2, <2>3, <2>4, <2>5
<1>5. pc \in [Run -> Ended \cup {"begin", "delete"}]
  BY <1>1 DEF Init, Ended
<1>6. base \in [Run -> Auths \cup {Missing}] /\ seen \in [Run -> Auths]
  BY <1>1, <1>2 DEF Init
<1>7. /\ diffs \in [Run -> Nat] /\ faults \in 0..MaxFaults
      /\ result \in [Run -> {"none", "match", "differ", "failed", "note"}]
  <2>1. diffs \in [Run -> Nat] /\ result \in [Run -> {"none", "match", "differ", "failed", "note"}]
    BY <1>1 DEF Init
  <2>2. faults \in 0..MaxFaults
    <3>1. faults = 0
      BY <1>1 DEF Init
    <3>2. MaxFaults \in Nat
      BY PullSecretAssumption
    <3> QED
      BY <3>1, <3>2
  <2> QED
    BY <2>1, <2>2
<1>8. pc \in [Run -> Pc]
  BY <1>5 DEF Pc
<1>9. /\ fresh \subseteq Run /\ wrote \subseteq Run
      /\ arrived \subseteq Run /\ arrived \subseteq wrote
  BY <1>1 DEF Init
<1> QED
  BY <1>2, <1>3, <1>4, <1>6, <1>7, <1>8, <1>9 DEF TypeOK

LEMMA WriteInit == Init => WriteInv /\ ConfirmInv
<1>1. SUFFICES ASSUME Init PROVE WriteInv /\ ConfirmInv
  OBVIOUS
<1>2. TypeOK
  BY <1>1, InitTyped
<1>3. \A p \in Updates : pc[p] \in {"failed", "begin"}
  BY <1>1 DEF Init, Run
<1>4. \A p \in Transfers : pc[p] \in {"failed", "delete"}
  BY <1>1, PullSecretAssumption DEF Init, Run
<1>5. \A p \in Run : pc[p] # "write"
  BY <1>3, <1>4 DEF Run
<1>6. ClockInv
  BY <1>1 DEF Init, ClockInv, Never
<1>7. syncSet["update"] = Never
  BY <1>1 DEF Init, Name
<1>8. ShapeInv
  BY <1>3, <1>4 DEF ShapeInv, TransferPcs, Ended
<1>9. ReadInv /\ WroteInv /\ SyncInv
  BY <1>1, <1>3, <1>5, <1>7 DEF ReadInv, WroteInv, SyncInv, Init
<1>10. ConfirmInv
  BY <1>3 DEF ConfirmInv, PollInv, ConfirmedReachedCluster
<1> QED
  BY <1>2, <1>6, <1>8, <1>9, <1>10 DEF WriteInv

\* Every step keeps the types.
LEMMA UpdateTyped ==
    ASSUME TypeOK, ReadInv, [Next]_vars
    PROVE  TypeOK'
<1> USE DEF TypeOK, GoTo, hive, local, Pc, Ended
<1>1. ASSUME NEW p \in Run, BeginUpdate(p) PROVE TypeOK'
  BY MergeKeeps, <1>1 DEF BeginUpdate
<1>2. ASSUME NEW p \in Run, LookForSyncSet(p) PROVE TypeOK'
  BY <1>2 DEF LookForSyncSet, Looking, AfterLook, Name, Time
<1>3. ASSUME NEW p \in Run, DeclineDeletion(p) PROVE TypeOK'
  BY <1>3 DEF DeclineDeletion
<1>4. ASSUME NEW p \in Run, DeleteFoundSyncSet(p) PROVE TypeOK'
  BY <1>4 DEF DeleteFoundSyncSet, Looking, AfterLook, Name, Time
<1>5. ASSUME NEW p \in Run, ReadSecret(p) PROVE TypeOK'
  BY <1>5 DEF ReadSecret
<1>6. ASSUME NEW p \in Run, RereadSecret(p) PROVE TypeOK'
  BY <1>6 DEF RereadSecret
<1>7. ASSUME NEW p \in Run, CreateSecret(p) PROVE TypeOK'
  BY <1>7 DEF CreateSecret, Write
<1>8. ASSUME NEW p \in Run, WriteSecret(p) PROVE TypeOK'
  <2>1. base[p] \in Auths
    BY <1>8 DEF WriteSecret, ReadInv
  <2>2. Merge(base[p], payload[p]) \in Auths
    BY <2>1, MergeKeeps
  <2> QED
    BY <1>8, <2>2 DEF WriteSecret, Write
<1>9. ASSUME NEW p \in Run, CreateSyncSet(p) PROVE TypeOK'
  <2>1. now' \in 0..MaxTime
    BY <1>9 DEF CreateSyncSet, Tick, Time, Never
  <2>2. Mine(p) \in Name /\ now' \in Time
    BY <2>1 DEF Mine, Name, Time
  <2>3. syncSet' \in [Name -> Time] /\ found' \in [Run -> Time]
    BY <1>9, <2>2 DEF CreateSyncSet
  <2>4. pc' \in [Run -> Pc]
    BY <1>9 DEF CreateSyncSet, Failing
  <2> QED
    BY <1>9, <2>1, <2>3, <2>4 DEF CreateSyncSet
<1>10. ASSUME NEW p \in Run, PollConfirmed(p) PROVE TypeOK'
  BY <1>10 DEF PollConfirmed
<1>11. ASSUME NEW p \in Run, PollGivenUp(p) PROVE TypeOK'
  BY <1>11 DEF PollGivenUp
<1>12. ASSUME NEW p \in Run, CleanUp(p) PROVE TypeOK'
  BY <1>12 DEF CleanUp, Mine, Name, Time, Failing
<1>13. ASSUME NEW p \in Run, ReportError(p) PROVE TypeOK'
  BY <1>13 DEF ReportError
<1>14. ASSUME NEW p \in Run, Verify(p) PROVE TypeOK'
  BY DifferingIsNat, <1>14 DEF Verify, Report
<1>15. ASSUME NEW p \in Run, RetryVerification(p) PROVE TypeOK'
  BY <1>15 DEF RetryVerification, Report
<1>16. ASSUME NEW p \in Run, DeleteSecret(p) PROVE TypeOK'
  BY <1>16 DEF DeleteSecret
<1>17. ASSUME NEW p \in Run, Fail(p) PROVE TypeOK'
  <2>1. AfterError(p) \in Pc
    BY DEF AfterError
  <2>2. pc' \in [Run -> Pc]
    BY <1>17, <2>1 DEF Fail
  <2>3. faults' \in 0..MaxFaults
    <3>1. MaxFaults \in Nat
      BY PullSecretAssumption
    <3> QED
      BY <1>17, <3>1 DEF Fail
  <2> QED
    BY <1>17, <2>2, <2>3 DEF Fail
<1>18. ASSUME NEW n \in Name, ApplySyncSet(n) PROVE TypeOK'
  <2>1. now' \in 0..MaxTime
    BY <1>18 DEF ApplySyncSet, Tick, Time, Never
  <2>2. success' \in [Name -> Time]
    BY <1>18, <2>1 DEF ApplySyncSet, Time
  <2>3. target' \in Auths
    BY <1>18 DEF ApplySyncSet
  <2> QED
    BY <1>18, <2>1, <2>2, <2>3 DEF ApplySyncSet
<1>19. ASSUME NEW n \in Name, DropStatus(n) PROVE TypeOK'
  BY <1>19 DEF DropStatus, Time
<1>20. CASE UNCHANGED vars
  BY <1>20 DEF vars
<1> QED
  BY <1>1, <1>2, <1>3, <1>4, <1>5, <1>6, <1>7, <1>8, <1>9, <1>10, <1>11, <1>12, <1>13, <1>14, <1>15, <1>16, <1>17, <1>18, <1>19, <1>20 DEF Next, Step

\* Which steps a run of either kind takes.
LEMMA ShapeStep ==
    ASSUME TypeOK, TypeOK', ShapeInv, [Next]_vars
    PROVE  ShapeInv'
<1> USE DEF TypeOK, GoTo, hive, local, ShapeInv, TransferPcs, Ended
<1>0. Updates \cap Transfers = {} /\ Run = Updates \cup Transfers
  BY PullSecretAssumption DEF Run
<1>1. ASSUME NEW p \in Run, BeginUpdate(p) PROVE ShapeInv'
  BY <1>0, <1>1 DEF BeginUpdate
<1>2. ASSUME NEW p \in Run, LookForSyncSet(p) PROVE ShapeInv'
  BY <1>0, <1>2 DEF LookForSyncSet, Looking, AfterLook, Name, Time
<1>3. ASSUME NEW p \in Run, DeclineDeletion(p) PROVE ShapeInv'
  BY <1>0, <1>3 DEF DeclineDeletion
<1>4. ASSUME NEW p \in Run, DeleteFoundSyncSet(p) PROVE ShapeInv'
  BY <1>0, <1>4 DEF DeleteFoundSyncSet, Looking, AfterLook, Name, Time
<1>5. ASSUME NEW p \in Run, ReadSecret(p) PROVE ShapeInv'
  BY <1>0, <1>5 DEF ReadSecret
<1>6. ASSUME NEW p \in Run, RereadSecret(p) PROVE ShapeInv'
  BY <1>0, <1>6 DEF RereadSecret
<1>7. ASSUME NEW p \in Run, CreateSecret(p) PROVE ShapeInv'
  BY <1>0, <1>7 DEF CreateSecret, Write
<1>8. ASSUME NEW p \in Run, WriteSecret(p) PROVE ShapeInv'
  BY <1>0, <1>8 DEF WriteSecret, Write
<1>9. ASSUME NEW p \in Run, CreateSyncSet(p) PROVE ShapeInv'
  BY <1>0, <1>9 DEF CreateSyncSet, Mine, Name, Time, Failing, Tick
<1>10. ASSUME NEW p \in Run, PollConfirmed(p) PROVE ShapeInv'
  BY <1>0, <1>10 DEF PollConfirmed
<1>11. ASSUME NEW p \in Run, PollGivenUp(p) PROVE ShapeInv'
  BY <1>0, <1>11 DEF PollGivenUp
<1>12. ASSUME NEW p \in Run, CleanUp(p) PROVE ShapeInv'
  BY <1>0, <1>12 DEF CleanUp, Mine, Name, Time, Failing, Tick
<1>13. ASSUME NEW p \in Run, ReportError(p) PROVE ShapeInv'
  BY <1>0, <1>13 DEF ReportError
<1>14. ASSUME NEW p \in Run, Verify(p) PROVE ShapeInv'
  BY <1>0, <1>14 DEF Verify, Report
<1>15. ASSUME NEW p \in Run, RetryVerification(p) PROVE ShapeInv'
  BY <1>0, <1>15 DEF RetryVerification, Report
<1>16. ASSUME NEW p \in Run, DeleteSecret(p) PROVE ShapeInv'
  BY <1>0, <1>16 DEF DeleteSecret
<1>17. ASSUME NEW p \in Run, Fail(p) PROVE ShapeInv'
  BY <1>0, <1>17 DEF Fail, AfterError
<1>18. ASSUME NEW n \in Name, ApplySyncSet(n) PROVE ShapeInv'
  BY <1>18 DEF ApplySyncSet, Time, Tick
<1>19. ASSUME NEW n \in Name, DropStatus(n) PROVE ShapeInv'
  BY <1>19 DEF DropStatus, Time
<1>20. CASE UNCHANGED vars
  BY <1>20 DEF vars
<1> QED
  BY <1>1, <1>2, <1>3, <1>4, <1>5, <1>6, <1>7, <1>8, <1>9, <1>10, <1>11, <1>12, <1>13, <1>14, <1>15, <1>16, <1>17, <1>18, <1>19, <1>20 DEF Next, Step

\* A read that is still the latest is what is there.
LEMMA ReadStep ==
    ASSUME TypeOK, TypeOK', ReadInv, [Next]_vars
    PROVE  ReadInv'
<1> USE DEF TypeOK, GoTo, hive, local, ReadInv, Ended
<1>0. Updates \cap Transfers = {} /\ Run = Updates \cup Transfers
  BY PullSecretAssumption DEF Run
<1>1. ASSUME NEW p \in Run, BeginUpdate(p) PROVE ReadInv'
  BY <1>0, <1>1 DEF BeginUpdate
<1>2. ASSUME NEW p \in Run, LookForSyncSet(p) PROVE ReadInv'
  BY <1>0, <1>2 DEF LookForSyncSet, Looking, AfterLook, Name, Time
<1>3. ASSUME NEW p \in Run, DeclineDeletion(p) PROVE ReadInv'
  BY <1>0, <1>3 DEF DeclineDeletion
<1>4. ASSUME NEW p \in Run, DeleteFoundSyncSet(p) PROVE ReadInv'
  BY <1>0, <1>4 DEF DeleteFoundSyncSet, Looking, AfterLook, Name, Time
<1>5. ASSUME NEW p \in Run, ReadSecret(p) PROVE ReadInv'
  BY <1>0, <1>5 DEF ReadSecret
<1>6. ASSUME NEW p \in Run, RereadSecret(p) PROVE ReadInv'
  BY <1>0, <1>6 DEF RereadSecret
<1>7. ASSUME NEW p \in Run, CreateSecret(p) PROVE ReadInv'
  BY <1>0, <1>7 DEF CreateSecret, Write
<1>8. ASSUME NEW p \in Run, WriteSecret(p) PROVE ReadInv'
  BY <1>0, <1>8 DEF WriteSecret, Write
<1>9. ASSUME NEW p \in Run, CreateSyncSet(p) PROVE ReadInv'
  BY <1>0, <1>9 DEF CreateSyncSet, Mine, Name, Time, Failing, Tick
<1>10. ASSUME NEW p \in Run, PollConfirmed(p) PROVE ReadInv'
  BY <1>0, <1>10 DEF PollConfirmed
<1>11. ASSUME NEW p \in Run, PollGivenUp(p) PROVE ReadInv'
  BY <1>0, <1>11 DEF PollGivenUp
<1>12. ASSUME NEW p \in Run, CleanUp(p) PROVE ReadInv'
  BY <1>0, <1>12 DEF CleanUp, Mine, Name, Time, Failing, Tick
<1>13. ASSUME NEW p \in Run, ReportError(p) PROVE ReadInv'
  BY <1>0, <1>13 DEF ReportError
<1>14. ASSUME NEW p \in Run, Verify(p) PROVE ReadInv'
  BY <1>0, <1>14 DEF Verify, Report
<1>15. ASSUME NEW p \in Run, RetryVerification(p) PROVE ReadInv'
  BY <1>0, <1>15 DEF RetryVerification, Report
<1>16. ASSUME NEW p \in Run, DeleteSecret(p) PROVE ReadInv'
  BY <1>0, <1>16 DEF DeleteSecret
<1>17. ASSUME NEW p \in Run, Fail(p) PROVE ReadInv'
  BY <1>0, <1>17 DEF Fail, AfterError
<1>18. ASSUME NEW n \in Name, ApplySyncSet(n) PROVE ReadInv'
  BY <1>18 DEF ApplySyncSet, Time, Tick
<1>19. ASSUME NEW n \in Name, DropStatus(n) PROVE ReadInv'
  BY <1>19 DEF DropStatus, Time
<1>20. CASE UNCHANGED vars
  BY <1>20 DEF vars
<1> QED
  BY <1>1, <1>2, <1>3, <1>4, <1>5, <1>6, <1>7, <1>8, <1>9, <1>10, <1>11, <1>12, <1>13, <1>14, <1>15, <1>16, <1>17, <1>18, <1>19, <1>20 DEF Next, Step

\* No success is of the future.
LEMMA ClockStep ==
    ASSUME TypeOK, TypeOK', ClockInv, [Next]_vars
    PROVE  ClockInv'
<1> USE DEF TypeOK, GoTo, hive, local, ClockInv, Never
<1>0. Updates \cap Transfers = {} /\ Run = Updates \cup Transfers
  BY PullSecretAssumption DEF Run
<1>1. ASSUME NEW p \in Run, BeginUpdate(p) PROVE ClockInv'
  BY <1>0, <1>1 DEF BeginUpdate
<1>2. ASSUME NEW p \in Run, LookForSyncSet(p) PROVE ClockInv'
  BY <1>0, <1>2 DEF LookForSyncSet, Looking, AfterLook, Name, Time
<1>3. ASSUME NEW p \in Run, DeclineDeletion(p) PROVE ClockInv'
  BY <1>0, <1>3 DEF DeclineDeletion
<1>4. ASSUME NEW p \in Run, DeleteFoundSyncSet(p) PROVE ClockInv'
  BY <1>0, <1>4 DEF DeleteFoundSyncSet, Looking, AfterLook, Name, Time
<1>5. ASSUME NEW p \in Run, ReadSecret(p) PROVE ClockInv'
  BY <1>0, <1>5 DEF ReadSecret
<1>6. ASSUME NEW p \in Run, RereadSecret(p) PROVE ClockInv'
  BY <1>0, <1>6 DEF RereadSecret
<1>7. ASSUME NEW p \in Run, CreateSecret(p) PROVE ClockInv'
  BY <1>0, <1>7 DEF CreateSecret, Write
<1>8. ASSUME NEW p \in Run, WriteSecret(p) PROVE ClockInv'
  BY <1>0, <1>8 DEF WriteSecret, Write
<1>9. ASSUME NEW p \in Run, CreateSyncSet(p) PROVE ClockInv'
  BY <1>0, <1>9 DEF CreateSyncSet, Mine, Name, Time, Failing, Tick
<1>10. ASSUME NEW p \in Run, PollConfirmed(p) PROVE ClockInv'
  BY <1>0, <1>10 DEF PollConfirmed
<1>11. ASSUME NEW p \in Run, PollGivenUp(p) PROVE ClockInv'
  BY <1>0, <1>11 DEF PollGivenUp
<1>12. ASSUME NEW p \in Run, CleanUp(p) PROVE ClockInv'
  BY <1>0, <1>12 DEF CleanUp, Mine, Name, Time, Failing, Tick
<1>13. ASSUME NEW p \in Run, ReportError(p) PROVE ClockInv'
  BY <1>0, <1>13 DEF ReportError
<1>14. ASSUME NEW p \in Run, Verify(p) PROVE ClockInv'
  BY <1>0, <1>14 DEF Verify, Report
<1>15. ASSUME NEW p \in Run, RetryVerification(p) PROVE ClockInv'
  BY <1>0, <1>15 DEF RetryVerification, Report
<1>16. ASSUME NEW p \in Run, DeleteSecret(p) PROVE ClockInv'
  BY <1>0, <1>16 DEF DeleteSecret
<1>17. ASSUME NEW p \in Run, Fail(p) PROVE ClockInv'
  BY <1>0, <1>17 DEF Fail, AfterError
<1>18. ASSUME NEW n \in Name, ApplySyncSet(n) PROVE ClockInv'
  BY <1>18 DEF ApplySyncSet, Time, Tick
<1>19. ASSUME NEW n \in Name, DropStatus(n) PROVE ClockInv'
  BY <1>19 DEF DropStatus, Time
<1>20. CASE UNCHANGED vars
  BY <1>20 DEF vars
<1> QED
  BY <1>1, <1>2, <1>3, <1>4, <1>5, <1>6, <1>7, <1>8, <1>9, <1>10, <1>11, <1>12, <1>13, <1>14, <1>15, <1>16, <1>17, <1>18, <1>19, <1>20 DEF Next, Step

\* Before it creates its SyncSet, an update has written the secret.
LEMMA WroteStep ==
    ASSUME TypeOK, TypeOK', WroteInv, [Next]_vars
    PROVE  WroteInv'
<1> USE DEF TypeOK, GoTo, hive, local, WroteInv, Ended
<1>0. Updates \cap Transfers = {} /\ Run = Updates \cup Transfers
  BY PullSecretAssumption DEF Run
<1>1. ASSUME NEW p \in Run, BeginUpdate(p) PROVE WroteInv'
  BY <1>0, <1>1 DEF BeginUpdate
<1>2. ASSUME NEW p \in Run, LookForSyncSet(p) PROVE WroteInv'
  BY <1>0, <1>2 DEF LookForSyncSet, Looking, AfterLook, Name, Time
<1>3. ASSUME NEW p \in Run, DeclineDeletion(p) PROVE WroteInv'
  BY <1>0, <1>3 DEF DeclineDeletion
<1>4. ASSUME NEW p \in Run, DeleteFoundSyncSet(p) PROVE WroteInv'
  BY <1>0, <1>4 DEF DeleteFoundSyncSet, Looking, AfterLook, Name, Time
<1>5. ASSUME NEW p \in Run, ReadSecret(p) PROVE WroteInv'
  BY <1>0, <1>5 DEF ReadSecret
<1>6. ASSUME NEW p \in Run, RereadSecret(p) PROVE WroteInv'
  BY <1>0, <1>6 DEF RereadSecret
<1>7. ASSUME NEW p \in Run, CreateSecret(p) PROVE WroteInv'
  BY <1>0, <1>7 DEF CreateSecret, Write
<1>8. ASSUME NEW p \in Run, WriteSecret(p) PROVE WroteInv'
  BY <1>0, <1>8 DEF WriteSecret, Write
<1>9. ASSUME NEW p \in Run, CreateSyncSet(p) PROVE WroteInv'
  BY <1>0, <1>9 DEF CreateSyncSet, Mine, Name, Time, Failing, Tick
<1>10. ASSUME NEW p \in Run, PollConfirmed(p) PROVE WroteInv'
  BY <1>0, <1>10 DEF PollConfirmed
<1>11. ASSUME NEW p \in Run, PollGivenUp(p) PROVE WroteInv'
  BY <1>0, <1>11 DEF PollGivenUp
<1>12. ASSUME NEW p \in Run, CleanUp(p) PROVE WroteInv'
  BY <1>0, <1>12 DEF CleanUp, Mine, Name, Time, Failing, Tick
<1>13. ASSUME NEW p \in Run, ReportError(p) PROVE WroteInv'
  BY <1>0, <1>13 DEF ReportError
<1>14. ASSUME NEW p \in Run, Verify(p) PROVE WroteInv'
  BY <1>0, <1>14 DEF Verify, Report
<1>15. ASSUME NEW p \in Run, RetryVerification(p) PROVE WroteInv'
  BY <1>0, <1>15 DEF RetryVerification, Report
<1>16. ASSUME NEW p \in Run, DeleteSecret(p) PROVE WroteInv'
  BY <1>0, <1>16 DEF DeleteSecret
<1>17. ASSUME NEW p \in Run, Fail(p) PROVE WroteInv'
  BY <1>0, <1>17 DEF Fail, AfterError
<1>18. ASSUME NEW n \in Name, ApplySyncSet(n) PROVE WroteInv'
  BY <1>18 DEF ApplySyncSet, Time, Tick
<1>19. ASSUME NEW n \in Name, DropStatus(n) PROVE WroteInv'
  BY <1>19 DEF DropStatus, Time
<1>20. CASE UNCHANGED vars
  BY <1>20 DEF vars
<1> QED
  BY <1>1, <1>2, <1>3, <1>4, <1>5, <1>6, <1>7, <1>8, <1>9, <1>10, <1>11, <1>12, <1>13, <1>14, <1>15, <1>16, <1>17, <1>18, <1>19, <1>20 DEF Next, Step

\* The SyncSet of the updates has an owner.
LEMMA SyncStep ==
    ASSUME TypeOK, TypeOK', ShapeInv, SyncInv, [Next]_vars
    PROVE  SyncInv'
<1> USE DEF TypeOK, GoTo, hive, local, SyncInv, ShapeInv, TransferPcs, Ended, Name
<1>0. Updates \cap Transfers = {} /\ Run = Updates \cup Transfers
  BY PullSecretAssumption DEF Run
<1>1. ASSUME NEW p \in Run, BeginUpdate(p) PROVE SyncInv'
  BY <1>0, <1>1 DEF BeginUpdate
<1>2. ASSUME NEW p \in Run, LookForSyncSet(p) PROVE SyncInv'
  BY <1>0, <1>2 DEF LookForSyncSet, Looking, AfterLook, Name, Time
<1>3. ASSUME NEW p \in Run, DeclineDeletion(p) PROVE SyncInv'
  BY <1>0, <1>3 DEF DeclineDeletion
<1>4. ASSUME NEW p \in Run, DeleteFoundSyncSet(p) PROVE SyncInv'
  BY <1>0, <1>4 DEF DeleteFoundSyncSet, Looking, AfterLook, Name, Time
<1>5. ASSUME NEW p \in Run, ReadSecret(p) PROVE SyncInv'
  BY <1>0, <1>5 DEF ReadSecret
<1>6. ASSUME NEW p \in Run, RereadSecret(p) PROVE SyncInv'
  BY <1>0, <1>6 DEF RereadSecret
<1>7. ASSUME NEW p \in Run, CreateSecret(p) PROVE SyncInv'
  BY <1>0, <1>7 DEF CreateSecret, Write
<1>8. ASSUME NEW p \in Run, WriteSecret(p) PROVE SyncInv'
  BY <1>0, <1>8 DEF WriteSecret, Write
<1>9. ASSUME NEW p \in Run, CreateSyncSet(p) PROVE SyncInv'
  BY <1>0, <1>9 DEF CreateSyncSet, Mine, Name, Time, Failing, Tick
<1>10. ASSUME NEW p \in Run, PollConfirmed(p) PROVE SyncInv'
  BY <1>0, <1>10 DEF PollConfirmed
<1>11. ASSUME NEW p \in Run, PollGivenUp(p) PROVE SyncInv'
  BY <1>0, <1>11 DEF PollGivenUp
<1>12. ASSUME NEW p \in Run, CleanUp(p) PROVE SyncInv'
  BY <1>0, <1>12 DEF CleanUp, Mine, Name, Time, Failing, Tick
<1>13. ASSUME NEW p \in Run, ReportError(p) PROVE SyncInv'
  BY <1>0, <1>13 DEF ReportError
<1>14. ASSUME NEW p \in Run, Verify(p) PROVE SyncInv'
  BY <1>0, <1>14 DEF Verify, Report
<1>15. ASSUME NEW p \in Run, RetryVerification(p) PROVE SyncInv'
  BY <1>0, <1>15 DEF RetryVerification, Report
<1>16. ASSUME NEW p \in Run, DeleteSecret(p) PROVE SyncInv'
  BY <1>0, <1>16 DEF DeleteSecret
<1>17. ASSUME NEW p \in Run, Fail(p) PROVE SyncInv'
  BY <1>0, <1>17 DEF Fail, AfterError
<1>18. ASSUME NEW n \in Name, ApplySyncSet(n) PROVE SyncInv'
  BY <1>18 DEF ApplySyncSet, Time, Tick
<1>19. ASSUME NEW n \in Name, DropStatus(n) PROVE SyncInv'
  BY <1>19 DEF DropStatus, Time
<1>20. CASE UNCHANGED vars
  BY <1>20 DEF vars
<1> QED
  BY <1>1, <1>2, <1>3, <1>4, <1>5, <1>6, <1>7, <1>8, <1>9, <1>10, <1>11, <1>12, <1>13, <1>14, <1>15, <1>16, <1>17, <1>18, <1>19, <1>20 DEF Next, Step

\* A success an update may take for its own is of a copy made after it wrote: when
\* it creates its SyncSet every success there is older.
LEMMA ConfirmStep ==
    ASSUME ~Coarse, TypeOK, TypeOK', ClockInv, WroteInv, ConfirmInv, [Next]_vars
    PROVE  ConfirmInv'
<1> USE DEF TypeOK, GoTo, hive, local, ConfirmInv, PollInv, ConfirmedReachedCluster, Confirmed,
            WroteInv, Ended
<1>0. Updates \cap Transfers = {} /\ Run = Updates \cup Transfers
  BY PullSecretAssumption DEF Run
<1>1. ASSUME NEW p \in Run, BeginUpdate(p) PROVE ConfirmInv'
  BY <1>0, <1>1 DEF BeginUpdate, Mine
<1>2. ASSUME NEW p \in Run, LookForSyncSet(p) PROVE ConfirmInv'
  BY <1>0, <1>2 DEF LookForSyncSet, Looking, AfterLook, Mine
<1>3. ASSUME NEW p \in Run, DeclineDeletion(p) PROVE ConfirmInv'
  BY <1>0, <1>3 DEF DeclineDeletion, Mine
<1>4. ASSUME NEW p \in Run, DeleteFoundSyncSet(p) PROVE ConfirmInv'
  BY <1>0, <1>4 DEF DeleteFoundSyncSet, Looking, AfterLook, Mine
<1>5. ASSUME NEW p \in Run, ReadSecret(p) PROVE ConfirmInv'
  BY <1>0, <1>5 DEF ReadSecret, Mine
<1>6. ASSUME NEW p \in Run, RereadSecret(p) PROVE ConfirmInv'
  BY <1>0, <1>6 DEF RereadSecret, Mine
<1>7. ASSUME NEW p \in Run, CreateSecret(p) PROVE ConfirmInv'
  BY <1>0, <1>7 DEF CreateSecret, Write, Mine
<1>8. ASSUME NEW p \in Run, WriteSecret(p) PROVE ConfirmInv'
  BY <1>0, <1>8 DEF WriteSecret, Write, Mine
<1>9. ASSUME NEW p \in Run, CreateSyncSet(p) PROVE ConfirmInv'
  <2>1. CASE syncSet[Mine(p)] # Never
    BY <1>0, <1>9, <2>1 DEF CreateSyncSet, Failing, Mine
  <2>2. CASE syncSet[Mine(p)] = Never
    <3>1. now' = now + 1 /\ success' = success /\ arrived' = arrived
      BY <1>9, <2>2 DEF CreateSyncSet, Tick
    <3>2. \A n \in Name : success[n] < now'
      BY <3>1 DEF ClockInv, Time, Never
    <3>3. p \in Updates => success[Mine(p)] < found'[p]
      BY <1>9, <2>2, <3>2 DEF CreateSyncSet, Mine, Name
    <3>4. \A q \in Run \ {p} : pc'[q] = pc[q] /\ found'[q] = found[q]
      BY <1>9, <2>2 DEF CreateSyncSet
    <3>5. pc'[p] = "poll"
      BY <1>9, <2>2 DEF CreateSyncSet
    <3>6. p \in Updates => ~Confirmed(p)'
      BY <1>9, <3>1, <3>3 DEF Mine, Name, Time, Never
    <3>7. ConfirmedReachedCluster'
      BY <1>0, <3>1, <3>4, <3>5
    <3> QED
      BY <1>0, <3>1, <3>4, <3>6, <3>7 DEF Mine
  <2> QED
    BY <2>1, <2>2
<1>10. ASSUME NEW p \in Run, PollConfirmed(p) PROVE ConfirmInv'
  BY <1>0, <1>10 DEF PollConfirmed, Mine
<1>11. ASSUME NEW p \in Run, PollGivenUp(p) PROVE ConfirmInv'
  BY <1>0, <1>11 DEF PollGivenUp, Mine
<1>12. ASSUME NEW p \in Run, CleanUp(p) PROVE ConfirmInv'
  BY <1>0, <1>12 DEF CleanUp, Failing, Mine
<1>13. ASSUME NEW p \in Run, ReportError(p) PROVE ConfirmInv'
  BY <1>0, <1>13 DEF ReportError, Mine
<1>14. ASSUME NEW p \in Run, Verify(p) PROVE ConfirmInv'
  BY <1>0, <1>14 DEF Verify, Report, Mine
<1>15. ASSUME NEW p \in Run, RetryVerification(p) PROVE ConfirmInv'
  BY <1>0, <1>15 DEF RetryVerification, Report, Mine
<1>16. ASSUME NEW p \in Run, DeleteSecret(p) PROVE ConfirmInv'
  BY <1>0, <1>16 DEF DeleteSecret, Mine
<1>17. ASSUME NEW p \in Run, Fail(p) PROVE ConfirmInv'
  BY <1>0, <1>17 DEF Fail, AfterError, Mine
<1>18. ASSUME NEW n \in Name, ApplySyncSet(n) PROVE ConfirmInv'
  <2>1. wrote \subseteq arrived'
    BY <1>18 DEF ApplySyncSet
  <2>2. arrived \subseteq arrived' /\ pc' = pc
    BY <1>18 DEF ApplySyncSet
  <2> QED
    BY <2>1, <2>2
<1>19. ASSUME NEW n \in Name, DropStatus(n) PROVE ConfirmInv'
  <2>1. \A p \in Updates : Confirmed(p)' => Confirmed(p)
    BY <1>19 DEF DropStatus, Mine, Name
  <2> QED
    BY <1>19, <2>1 DEF DropStatus
<1>20. CASE UNCHANGED vars
  BY <1>20 DEF vars, Mine
<1> QED
  BY <1>1, <1>2, <1>3, <1>4, <1>5, <1>6, <1>7, <1>8, <1>9, <1>10, <1>11, <1>12, <1>13, <1>14, <1>15, <1>16, <1>17, <1>18, <1>19, <1>20 DEF Next, Step

\* Only the deletion of a transfer takes a registry from the secret on Hive.
KeepsAuths == pull = Missing \/ (\A r \in Registry : AuthsStay(r)) \/ \E p \in Transfers : Deleting(p)

LEMMA KeepStep ==
    ASSUME TypeOK, TypeOK', ShapeInv, ReadInv, [Next]_vars
    PROVE  KeepsAuths \/ UNCHANGED pull
<1> USE DEF TypeOK, GoTo, hive, local
<1>0. Updates \cap Transfers = {} /\ Run = Updates \cup Transfers
  BY PullSecretAssumption DEF Run
<1>1. ASSUME NEW p \in Run, CreateSecret(p) PROVE KeepsAuths \/ UNCHANGED pull
  BY <1>1 DEF CreateSecret, Write, KeepsAuths
<1>2. ASSUME NEW p \in Run, WriteSecret(p) PROVE KeepsAuths \/ UNCHANGED pull
  <2>1. CASE p \notin fresh
    BY <1>2, <2>1 DEF WriteSecret
  <2>2. CASE p \in fresh
    <3>1. base[p] = pull /\ base[p] \in Auths
      BY <1>2, <2>2 DEF ReadInv, WriteSecret
    <3>2. pull' = Merge(pull, payload[p]) /\ pull \in Auths /\ payload[p] \in Auths
      BY <1>2, <2>2, <3>1 DEF WriteSecret, Write
    <3>3. pull' \in Auths
      BY <3>2, MergeKeeps
    <3>4. \A r \in Registry : pull[r] # "absent" => pull'[r] # "absent"
      BY <3>2, MergeKeeps
    <3> QED
      BY <3>3, <3>4, MissingIsNoSecret DEF KeepsAuths, AuthsStay
  <2> QED
    BY <2>1, <2>2
<1>3. ASSUME NEW p \in Run, DeleteSecret(p) PROVE KeepsAuths \/ UNCHANGED pull
  <2>1. p \in Transfers
    BY <1>0, <1>3 DEF DeleteSecret, ShapeInv
  <2>2. pull # Missing => Deleting(p)
    BY <1>3 DEF DeleteSecret, Deleting
  <2> QED
    BY <2>1, <2>2 DEF KeepsAuths
<1>4. ASSUME NEW p \in Run, Step(p), ~CreateSecret(p), ~WriteSecret(p), ~DeleteSecret(p)
      PROVE  UNCHANGED pull
  BY <1>4 DEF Step, BeginUpdate, LookForSyncSet, DeclineDeletion, DeleteFoundSyncSet, ReadSecret,
     RereadSecret, CreateSyncSet, PollConfirmed, PollGivenUp, CleanUp, ReportError, Verify,
     RetryVerification
<1>5. ASSUME NEW p \in Run, Fail(p) PROVE UNCHANGED pull
  BY <1>5 DEF Fail
<1>6. ASSUME NEW n \in Name, ApplySyncSet(n) \/ DropStatus(n) PROVE UNCHANGED pull
  BY <1>6 DEF ApplySyncSet, DropStatus
<1>7. CASE UNCHANGED vars
  BY <1>7 DEF vars
<1> QED
  BY <1>1, <1>2, <1>3, <1>4, <1>5, <1>6, <1>7 DEF Next

-----------------------------------------------------------------------------
LEMMA CheckStarts == CheckInit => CheckInv
<1>1. SUFFICES ASSUME CheckInit PROVE CheckInv
  OBVIOUS
<1>2. /\ ocmAuth = [token |-> 1, email |-> 1] /\ chpc = "ocm" /\ checkedWell = {}
      /\ tokenRows = "not run" /\ credRows = "not run"
      /\ tokenAuths \in {AuthRegistry, {Cloud}} /\ credAuths \in {{}, AuthRegistry}
  BY <1>1 DEF CheckInit
<1>3. ocmAuth # NoAuth
  <2>1. ocmAuth.token = 1 /\ NoAuth.token = 0
    BY <1>2 DEF NoAuth
  <2> QED
    BY <2>1
<1>4. StageInv
  BY <1>2, <1>3, CheckAssumption DEF StageInv, BeforeCreds
<1>5. FreshReads /\ RowsInv /\ CountedInv /\ ToldInv
  BY <1>2 DEF FreshReads, AfterRead, RowsInv, CountedInv, ToldInv
<1> QED
  BY <1>4, <1>5 DEF CheckInv

\* Which commands take which steps, and which comparison has been made by then.
LEMMA StageStep ==
    ASSUME StageInv, [CheckNext]_checkVars
    PROVE  StageInv'
<1> USE DEF StageInv, BeforeCreds, CheckStep, ocmSide, rows
<1>1. CASE ReadOwner
  BY <1>1 DEF ReadOwner
<1>2. CASE ListClusters
  BY <1>2 DEF ListClusters
<1>3. CASE NextOwned
  BY <1>3 DEF NextOwned
<1>4. CASE ReadSecrets
  BY <1>4 DEF ReadSecrets
<1>5. CASE CheckEmail
  BY <1>5 DEF CheckEmail
<1>6. CASE CompareCreds
  <2>1. chpc = "creds" /\ chpc' \in {"token", "aggregate"}
    BY <1>6 DEF CompareCreds
  <2>2. UNCHANGED <<ocmAuth, tokenAuths, credAuths, psCommand, tokenRows>>
    BY <1>6 DEF CompareCreds
  <2> QED
    BY <2>1, <2>2
<1>7. CASE CompareToken
  <2>1. chpc = "token" /\ chpc' = (IF psCommand = "audit" THEN "count" ELSE "aggregate")
    BY <1>7 DEF CompareToken
  <2>2. UNCHANGED <<ocmAuth, tokenAuths, credAuths, psCommand, credRows>>
    BY <1>7 DEF CompareToken
  <2> QED
    BY <2>1, <2>2
<1>8. CASE CountCluster
  BY <1>8 DEF CountCluster
<1>9. CASE Aggregate
  BY <1>9 DEF Aggregate
<1>10. CASE OthersEdit
  <2>1. ocmAuth' # NoAuth
    BY <1>10 DEF OthersEdit
  <2>2. UNCHANGED <<tokenAuths, credAuths, psCommand, credRows, tokenRows, chpc>>
    BY <1>10 DEF OthersEdit
  <2> QED
    BY <2>1, <2>2
<1>11. CASE UNCHANGED checkVars
  BY <1>11 DEF checkVars
<1> QED
  BY <1>1, <1>2, <1>3, <1>4, <1>5, <1>6, <1>7, <1>8, <1>9, <1>10, <1>11 DEF CheckNext, CheckRun

\* What was recorded is told before the run ends.
LEMMA ToldStep ==
    ASSUME StageInv, ToldInv, [CheckNext]_checkVars
    PROVE  ToldInv'
<1> USE DEF ToldInv, CheckStep, StageInv, rows
<1>1. CASE ReadOwner
  BY <1>1 DEF ReadOwner
<1>2. CASE ListClusters
  BY <1>2 DEF ListClusters
<1>3. CASE NextOwned
  BY <1>3 DEF NextOwned
<1>4. CASE ReadSecrets
  BY <1>4 DEF ReadSecrets
<1>5. CASE CheckEmail
  BY <1>5 DEF CheckEmail
<1>6. CASE CompareCreds
  <2>1. chpc' \in {"token", "aggregate"}
    BY <1>6 DEF CompareCreds
  <2> QED
    BY <2>1
<1>7. CASE CompareToken
  <2>1. chpc' \in {"count", "aggregate"}
    BY <1>7 DEF CompareToken
  <2> QED
    BY <2>1
<1>8. CASE CountCluster
  BY <1>8 DEF CountCluster
<1>9. CASE Aggregate
  BY <1>9 DEF Aggregate
<1>10. CASE OthersEdit
  BY <1>10 DEF OthersEdit
<1>11. CASE UNCHANGED checkVars
  BY <1>11 DEF checkVars
<1> QED
  BY <1>1, <1>2, <1>3, <1>4, <1>5, <1>6, <1>7, <1>8, <1>9, <1>10, <1>11 DEF CheckNext, CheckRun

\* A step of the run itself finds everything as it was when it was read.
LEMMA ReadsStep ==
    ASSUME FreshReads, CheckRun
    PROVE  FreshReads'
<1> USE DEF FreshReads, AfterRead, CheckStep, ocmSide, secrets, reads
<1>1. CASE ReadOwner
  BY <1>1 DEF ReadOwner
<1>2. CASE ListClusters
  BY <1>2 DEF ListClusters
<1>3. CASE NextOwned
  BY <1>3 DEF NextOwned
<1>4. CASE ReadSecrets
  BY <1>4 DEF ReadSecrets
<1>5. CASE CheckEmail
  BY <1>5 DEF CheckEmail
<1>6. CASE CompareCreds
  <2>1. chpc = "creds"
    BY <1>6 DEF CompareCreds
  <2>2. UNCHANGED <<ocmSide, secrets, reads, psCommand>>
    BY <1>6 DEF CompareCreds
  <2> QED
    BY <2>1, <2>2
<1>7. CASE CompareToken
  <2>1. chpc = "token"
    BY <1>7 DEF CompareToken
  <2>2. UNCHANGED <<ocmSide, secrets, reads, psCommand>>
    BY <1>7 DEF CompareToken
  <2> QED
    BY <2>1, <2>2
<1>8. CASE CountCluster
  BY <1>8 DEF CountCluster
<1>9. CASE Aggregate
  BY <1>9 DEF Aggregate
<1> QED
  BY <1>1, <1>2, <1>3, <1>4, <1>5, <1>6, <1>7, <1>8, <1>9 DEF CheckRun

LEMMA SameKept ==
    ASSUME NEW auths, Same(auths), UNCHANGED <<reads, psCommand>>
    PROVE  Same(auths)'
  BY DEF Same, reads

\* A row that passes is a comparison that found nothing in what was read.
LEMMA RowsStep ==
    ASSUME StageInv, RowsInv, CheckRun
    PROVE  RowsInv'
<1> USE DEF CheckStep, ocmSide
<1>1. CASE ReadOwner
  BY <1>1 DEF ReadOwner, RowsInv
<1>2. CASE ListClusters
  BY <1>2 DEF ListClusters, RowsInv
<1>3. CASE NextOwned
  BY <1>3 DEF NextOwned, RowsInv
<1>4. CASE ReadSecrets
  BY <1>4 DEF ReadSecrets, RowsInv
<1>5. CASE CheckEmail
  <2>1. chpc = "email" /\ credRows' = "not run" /\ tokenRows' = "not run"
    BY <1>5 DEF CheckEmail, StageInv, BeforeCreds
  <2>2. chpc' = "matched" => psCommand' = "validate" /\ targetRead'[Cloud].email = ocmRead'.email
    BY <1>5 DEF CheckEmail, reads
  <2> QED
    BY <2>1, <2>2 DEF RowsInv
<1>6. CASE CompareCreds
  <2>1. chpc = "creds" /\ chpc' \in {"token", "aggregate"}
    BY <1>6 DEF CompareCreds
  <2>2. UNCHANGED <<credAuths, tokenAuths, reads, psCommand, tokenRows>>
    BY <1>6 DEF CompareCreds
  <2>3. credRows = "not run" /\ tokenRows = "not run"
    BY <2>1 DEF StageInv, BeforeCreds
  <2>4. ASSUME credRows' = "pass"
        PROVE  Same(credAuths \ uncompared') /\ (psCommand # "compare" => uncompared' = {})
    <3>1. PICK unusable \in SUBSET credAuths :
             /\ uncompared' = unusable
             /\ (DifferingAuths(credAuths, targetRead)
                   \cup (IF psCommand = "compare" THEN DifferingAuths(credAuths, hiveRead) ELSE {})) \ unusable = {}
             /\ psCommand = "compare" \/ unusable = {}
      BY <1>6, <2>3, <2>4 DEF CompareCreds
    <3> QED
      BY <3>1 DEF DifferingAuths, Same
  <2>5. credRows' = "pass" => Same(credAuths \ uncompared)'
    BY <2>2, <2>4 DEF Same, reads
  <2> QED
    BY <2>1, <2>2, <2>3, <2>4, <2>5 DEF RowsInv
<1>7. CASE CompareToken
  <2>1. chpc = "token" /\ chpc' \in {"count", "aggregate"}
    BY <1>7 DEF CompareToken
  <2>2. UNCHANGED <<credAuths, tokenAuths, reads, psCommand, credRows, uncompared>>
    BY <1>7 DEF CompareToken
  <2>3. tokenRows = "not run"
    BY <2>1 DEF StageInv
  <2>4. ASSUME tokenRows' = "pass" PROVE Same(tokenAuths)
    <3>1. DifferingAuths(tokenAuths, targetRead)
             \cup (IF psCommand = "compare" THEN DifferingAuths(tokenAuths, hiveRead) ELSE {}) = {}
      BY <1>7, <2>3, <2>4 DEF CompareToken
    <3> QED
      BY <3>1 DEF DifferingAuths, Same
  <2>5. tokenRows' = "pass" => Same(tokenAuths)'
    BY <2>2, <2>4 DEF Same, reads
  <2>6. credRows' = "pass" => Same(credAuths \ uncompared)' /\ (psCommand # "compare" => uncompared = {})'
    BY <2>1, <2>2 DEF Same, reads, RowsInv
  <2> QED
    BY <2>1, <2>5, <2>6 DEF RowsInv
<1>8. CASE CountCluster
  BY <1>8 DEF CountCluster, RowsInv
<1>9. CASE Aggregate
  <2>1. chpc = "aggregate"
    BY <1>9 DEF Aggregate
  <2>2. chpc' = "matched" => tokenRows = "pass" /\ credRows = "pass"
    BY <1>9 DEF Aggregate
  <2>3. UNCHANGED <<ocmSide, psCommand, reads, rows>>
    BY <1>9 DEF Aggregate
  <2>4. psCommand # "validate" /\ chpc' \in {"matched", "told"}
    BY <1>9, <2>1 DEF Aggregate, StageInv
  <2>5. tokenRows = "pass" => Same(tokenAuths)
    BY <2>1 DEF RowsInv
  <2>6. credRows = "pass" => Same(credAuths \ uncompared) /\ (psCommand # "compare" => uncompared = {})
    BY <2>1 DEF RowsInv
  <2>7. tokenRows' = "pass" => Same(tokenAuths)'
    BY <2>3, <2>5 DEF Same, reads, rows
  <2>8. credRows' = "pass" => Same(credAuths \ uncompared)' /\ (psCommand # "compare" => uncompared = {})'
    BY <2>3, <2>6 DEF Same, reads, rows
  <2> QED
    BY <2>2, <2>3, <2>4, <2>7, <2>8 DEF RowsInv, rows
<1> QED
  BY <1>1, <1>2, <1>3, <1>4, <1>5, <1>6, <1>7, <1>8, <1>9 DEF CheckRun

\* An audit counts a cluster as matching when both comparisons passed.
LEMMA CountedStep ==
    ASSUME StageInv, FreshReads, RowsInv, CountedInv, CheckRun
    PROVE  CountedInv'
<1>1. UNCHANGED <<ocmSide, secrets>>
  BY DEF CheckRun, ReadOwner, ListClusters, NextOwned, ReadSecrets, CheckEmail, CompareCreds,
         CompareToken, CountCluster, Aggregate
<1>2. CASE CountCluster /\ tokenRows = "pass" /\ credRows = "pass"
  <2>1. chpc = "count" /\ checkedWell' = checkedWell \cup {atHand}
    BY <1>2 DEF CountCluster, CheckStep
  <2>2. psCommand = "audit" /\ ocmRead = ocmAuth /\ targetRead = targetSecret[atHand]
    BY <2>1 DEF StageInv, FreshReads, AfterRead
  <2>3. uncompared = {} /\ Same(tokenAuths) /\ Same(credAuths \ uncompared)
    BY <1>2, <2>1, <2>2 DEF RowsInv
  <2>4. Agrees(atHand, tokenAuths \cup credAuths)
    BY <2>2, <2>3 DEF Same, Agrees
  <2> QED
    BY <1>1, <2>1, <2>4 DEF CountedInv, Agrees, ocmSide, secrets
<1>3. CASE ~(CountCluster /\ tokenRows = "pass" /\ credRows = "pass")
  <2>1. checkedWell' = checkedWell
    BY <1>3 DEF CheckRun, ReadOwner, ListClusters, NextOwned, ReadSecrets, CheckEmail, CompareCreds,
         CompareToken, CountCluster, Aggregate, audited
  <2> QED
    BY <1>1, <2>1 DEF CountedInv, Agrees, ocmSide, secrets
<1> QED
  BY <1>2, <1>3

LEMMA CheckInvStep ==
    ASSUME CheckInv, [CheckNext]_checkVars
    PROVE  CheckInv'
<1>1. StageInv' /\ ToldInv'
  BY StageStep, ToldStep DEF CheckInv
<1>2. CASE OthersEdit
  BY <1>1, <1>2 DEF CheckInv, OthersEdit
<1>3. CASE CheckRun
  <2>1. editedSince' = editedSince
    BY <1>3 DEF CheckRun, ReadOwner, ListClusters, NextOwned, ReadSecrets, CheckEmail, CompareCreds,
         CompareToken, CountCluster, Aggregate
  <2>2. ~editedSince => FreshReads' /\ RowsInv' /\ CountedInv'
    BY <1>3, ReadsStep, RowsStep, CountedStep DEF CheckInv
  <2> QED
    BY <1>1, <2>1, <2>2 DEF CheckInv
<1>4. CASE UNCHANGED checkVars
  <2>1. UNCHANGED <<ocmSide, secrets, chpc, psCommand, reads, rows, checkedWell, editedSince>>
    BY <1>4 DEF checkVars, audited
  <2>2. FreshReads => FreshReads'
    BY <2>1 DEF FreshReads, ocmSide, secrets, reads
  <2>3. RowsInv => RowsInv'
    BY <2>1 DEF RowsInv, Same, ocmSide, reads, rows
  <2>4. CountedInv => CountedInv'
    BY <2>1 DEF CountedInv, Agrees, ocmSide, secrets
  <2> QED
    BY <1>1, <2>1, <2>2, <2>3, <2>4 DEF CheckInv
<1> QED
  BY <1>2, <1>3, <1>4 DEF CheckNext

LEMMA CheckInvVerdicts == CheckInv => VerdictsAreTrue
<1>1. SUFFICES ASSUME CheckInv PROVE VerdictsAreTrue
  OBVIOUS
<1> DEFINE Compared == tokenAuths \cup (credAuths \ uncompared)
<1>2. ASSUME chpc = "matched", ~editedSince, psCommand # "validate"
      PROVE  Agrees(atHand, Compared) /\ (psCommand = "compare" => \A r \in Compared : hivePull[r] = ocmAuth)
  <2>1. FreshReads /\ RowsInv /\ StageInv
    BY <1>1, <1>2 DEF CheckInv
  <2>2. Same(tokenAuths) /\ Same(credAuths \ uncompared)
    BY <1>2, <2>1 DEF RowsInv
  <2>3. \A r \in Compared : targetRead[r] = ocmAuth
    BY <1>2, <2>1, <2>2 DEF Same, FreshReads
  <2>4. \A r \in Compared : targetSecret[atHand][r] = ocmAuth
    <3>1. CASE targetRead = targetSecret[atHand]
      BY <2>3, <3>1
    <3>2. CASE targetRead = [r \in AuthRegistry |-> NoAuth]
      <4>1. \A r \in Compared : r \in AuthRegistry
        BY <2>1 DEF StageInv
      <4>2. \A r \in Compared : FALSE
        BY <2>1, <2>3, <3>2, <4>1 DEF StageInv
      <4> QED
        BY <4>2
    <3> QED
      BY <1>2, <2>1, <3>1, <3>2 DEF FreshReads, AfterRead
  <2>5. psCommand = "compare" => \A r \in Compared : hivePull[r] = ocmAuth
    BY <1>2, <2>1, <2>2 DEF Same, FreshReads, AfterRead
  <2> QED
    BY <2>4, <2>5 DEF Agrees
<1>3. ASSUME chpc = "matched", ~editedSince, psCommand = "validate"
      PROVE  targetSecret[atHand][Cloud].email = ocmAuth.email
  BY <1>1, <1>3 DEF CheckInv, RowsInv, FreshReads, AfterRead
<1>4. chpc = "audited" /\ ~editedSince => \A c \in checkedWell : Agrees(c, tokenAuths \cup credAuths)
  BY <1>1 DEF CheckInv, CountedInv
<1>5. chpc \in {"matched", "told"} /\ psCommand = "validate-ext" /\ ~skipLogs => wrongAuths \subseteq offered
  BY <1>1 DEF CheckInv, ToldInv
<1> QED
  BY <1>2, <1>3, <1>4, <1>5 DEF VerdictsAreTrue

-----------------------------------------------------------------------------
(***************************************************************************)
(* The theorems.                                                           *)
(***************************************************************************)
LEMMA WriteInvStep ==
    ASSUME WriteInv, [Next]_vars
    PROVE  WriteInv'
<1>1. TypeOK'
  BY UpdateTyped DEF WriteInv
<1>2. ShapeInv' /\ ReadInv' /\ ClockInv' /\ WroteInv' /\ SyncInv'
  BY <1>1, ShapeStep, ReadStep, ClockStep, WroteStep, SyncStep DEF WriteInv
<1> QED
  BY <1>1, <1>2 DEF WriteInv

\* A command is one that writes or one that compares: what the other kind looks at stays.
LEMMA CommandStep ==
    ASSUME [Writing \/ Comparing]_commandVars
    PROVE  [Next]_vars /\ [CheckNext]_checkVars
  BY DEF Writing, Comparing, commandVars, writeVars

\* The invariant of the runs that write, of every execution of the commands.
LEMMA WritesOrderly == CommandsSpec => []WriteInv
<1>1. CommandsInit => WriteInv
  BY WriteInit DEF CommandsInit
<1>2. WriteInv /\ [Writing \/ Comparing]_commandVars => WriteInv'
  BY CommandStep, WriteInvStep
<1> QED
  BY <1>1, <1>2, PTL DEF CommandsSpec, commandVars

\* No registry disappears from the secret on Hive, however many updates merge theirs
\* into it at a time, unless a transfer deletes it (UpdatePullSecret's retry on conflict).
THEOREM AuthsKept == CommandsSpec => HiveKeepsAuths
<1>1. WriteInv /\ WriteInv' /\ [Writing \/ Comparing]_commandVars => [KeepsAuths]_pull
  BY CommandStep, KeepStep DEF WriteInv
<1>2. [KeepsAuths]_pull
        => [pull = Missing \/ (\A r \in Registry : AuthsStay(r)) \/ \E p \in Transfers : Deleting(p)]_pull
  BY DEF KeepsAuths
<1> QED
  BY <1>1, <1>2, WritesOrderly, PTL DEF CommandsSpec, commandVars, HiveKeepsAuths

\* Updates that nothing disturbed leave no SyncSet behind, whatever the clock's grain.
THEOREM NoSyncSetStays == CommandsSpec => []NoSyncSetLeft
<1>1. WriteInv => NoSyncSetLeft
  BY DEF WriteInv, SyncInv, NoSyncSetLeft, Ended
<1> QED
  BY <1>1, WritesOrderly, PTL

\* What an update reports as confirmed reached the cluster, if no two events have the
\* same timestamp: awaitPullSecretSyncSet compares FirstSuccessTime with the creation of
\* its SyncSet, and a success of the same second may be of the SyncSet before.
THEOREM UpdatesArrive ==
    ASSUME ~Coarse
    PROVE  CommandsSpec => []UpdatesReachCluster
<1>1. CommandsInit => ConfirmInv
  BY WriteInit DEF CommandsInit
<1>2. WriteInv /\ WriteInv' /\ ConfirmInv /\ [Writing \/ Comparing]_commandVars => ConfirmInv'
  BY CommandStep, ConfirmStep DEF WriteInv
<1>3. WriteInv /\ ConfirmInv => UpdatesReachCluster
  BY DEF WriteInv, ConfirmInv, SyncInv, NoSyncSetLeft, Ended, UpdatesReachCluster
<1> QED
  BY <1>1, <1>2, <1>3, WritesOrderly, PTL DEF CommandsSpec, commandVars

\* Unless somebody changed something meanwhile, what the comparisons call a match is one,
\* and what validate-ext found wrong the customer is told of.
THEOREM VerdictsHold == CommandsSpec => []VerdictsAreTrue
<1>1. CommandsInit => CheckInv
  BY CheckStarts DEF CommandsInit
<1>2. CheckInv /\ [Writing \/ Comparing]_commandVars => CheckInv'
  BY CommandStep, CheckInvStep
<1> QED
  BY <1>1, <1>2, CheckInvVerdicts, PTL DEF CommandsSpec, commandVars
===============================================================================
