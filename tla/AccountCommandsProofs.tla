------------------------- MODULE AccountCommandsProofs -------------------------
(***************************************************************************)
(* Theorems about `osdctl account`: any number of keys, of SREs, of        *)
(* accounts, of failed calls, kills and runs.                              *)
(***************************************************************************)
EXTENDS AccountCommands, FiniteSetTheorems, TLAPS

-----------------------------------------------------------------------------
(***************************************************************************)
(* The rotation (SecretRotation).  A key that a rollback may still delete  *)
(* is in no secret and not in the cluster; a key that nobody has is the    *)
(* one at hand.                                                            *)
(***************************************************************************)
SecretName == {"account", "aws", "byoc"}
UserOf(s) == IF s = "byoc" THEN Ccs ELSE Admin

\* The steps before a key is made, and those with a key at hand by user.
KeylessPcs == {"preflight", "create", "choose", "createAgain"}
AdminPcs == {"account", "aws", "syncSet", "poll", "unsync", "refresh"}
CommittedPcs == {"aws", "syncSet", "poll", "unsync", "refresh", "done"}
HoldingPcs == {"list", "account", "byoc", "rollback"}

RotationTypes ==
    /\ keys \in [User -> SUBSET Key] /\ issued \in Nat /\ issued <= MaxKeys
    /\ secret \in [SecretName -> Int] /\ root \in Int
    /\ pc \in Pcs /\ user \in User /\ want \subseteq User
    /\ newKey \in Nat /\ committed \in BOOLEAN /\ dirty \in BOOLEAN
    /\ used \subseteq Key

\* The next key made is new to everybody, and users share none.
KeysAreNew ==
    /\ \A u \in User : \A k \in keys[u] : k <= issued
    /\ \A s \in SecretName : secret[s] <= issued
    /\ root <= issued /\ newKey <= issued
    /\ keys[Admin] \cap keys[Ccs] = {}

\* Which key the steps have at hand, of whom, and whether it is committed.
StepInv ==
    /\ pc \in KeylessPcs => newKey = Empty /\ ~committed
    /\ pc \in AdminPcs => user = Admin
    /\ pc = "byoc" => user = Ccs
    /\ pc \in CommittedPcs => committed
    /\ pc \in HoldingPcs => newKey # Empty /\ ~committed /\ newKey \in keys[user]
    /\ committed => newKey # Empty /\ newKey \in used
    /\ pc = "aws" => newKey \in keys[Admin]

\* The cluster and the secret it is given its key from have keys that work, also
\* when an answer was lost; what may be rolled back is none of them.
CredentialInv ==
    /\ root \in keys[Admin]
    /\ secret["aws"] \in Key => secret["aws"] \in keys[Admin]
    /\ newKey # Empty /\ ~committed => newKey # root /\ newKey # secret["aws"]
    /\ ~dirty => \A s \in SecretName :
        /\ secret[s] \in Key => secret[s] \in keys[UserOf(s)]
        /\ newKey # Empty /\ ~committed => newKey # secret[s]

\* A key that was never in a secret is the one at hand.
AtHand == IF newKey # Empty /\ ~committed /\ pc # "idle" THEN {newKey} ELSE {}
OrphanInv == ~dirty => \A u \in User : keys[u] \subseteq used \cup AtHand

RotationInv == RotationTypes /\ KeysAreNew /\ StepInv /\ CredentialInv /\ OrphanInv

-----------------------------------------------------------------------------
(***************************************************************************)
(* The refresh (CredentialRefresh).  UIDs only grow, so that a secret the  *)
(* run has passed is newer than what it found.                             *)
(***************************************************************************)
RefreshTypes ==
    /\ crSecret \in [1..N -> Nat] /\ doomed \subseteq 1..N /\ made \in [1..N -> Nat]
    /\ idx \in 1..N /\ oldUID \in Nat /\ first \in [1..N -> Nat]
    /\ deleted \subseteq 1..N /\ expired \subseteq 1..N /\ agreed \subseteq 1..N
    /\ swapped \in BOOLEAN
    /\ crPc \in {"idle", "done", "paused", "failed", "read", "delete", "wait", "waitAbsent", "ask"}

\* The object of a name is the last that was made; only what exists is being deleted.
ObjectInv ==
    \A c \in 1..N :
        /\ crSecret[c] \in {0, made[c]} /\ first[c] <= made[c] /\ made[c] > 0
        /\ c \in doomed => crSecret[c] # 0

\* What the run deleted lies behind it or is at hand.
DeletedInv ==
    /\ crPc \in {"read", "delete", "waitAbsent"} => \A c \in deleted : c < idx
    /\ crPc \in {"wait", "ask"} => \A c \in deleted : c <= idx

\* What the wait compares with: the secret that was read, or that there was none.
WaitInv ==
    /\ crPc \in {"delete", "wait"} =>
        /\ oldUID # 0 /\ first[idx] <= oldUID /\ oldUID <= made[idx]
        /\ ~swapped /\ idx \in doomed => crSecret[idx] = oldUID
    /\ crPc = "waitAbsent" => idx \notin doomed /\ (crSecret[idx] = 0 \/ crSecret[idx] > first[idx])
    /\ crPc = "ask" => idx \in expired

Renewed(c) == crSecret[c] > first[c] /\ c \notin doomed
Running == {"read", "delete", "wait", "waitAbsent", "ask"}

PassedInv ==
    /\ crPc \in Running /\ ~swapped =>
        \A c \in deleted : c < idx => c \in agreed \/ (crSecret[c] # 0 /\ c \notin doomed)
    /\ crPc \in Running /\ ~swapped /\ expired = {} => \A c \in 1..N : c < idx => Renewed(c)
    /\ crPc = "done" /\ ~swapped /\ expired = {} => \A c \in 1..N : Renewed(c)

RefreshInv == RefreshTypes /\ ObjectInv /\ DeletedInv /\ WaitInv /\ PassedInv

-----------------------------------------------------------------------------
(***************************************************************************)
(* The diagnosis (CredsDiagnosis).  As long as nobody changes anything,    *)
(* what was read is what is there, and the verdict so far is about it.     *)
(***************************************************************************)
AfterKeys == {"root", "permissions", "report", "clean"}
AfterSecrets == {"keys"} \cup AfterKeys
AfterSecret(s) ==
    CASE s = "account" -> {"aws", "byoc"} \cup AfterSecrets
      [] s = "aws" -> {"byoc"} \cup AfterSecrets
      [] s = "byoc" -> IF isCCS THEN AfterSecrets ELSE {}

DiagnosisInv ==
    /\ secretRead \in [HiveSecret -> AnyKey \cup {Unread, NoSecret, NoKeyId}]
    /\ hiveSecret \in [HiveSecret -> AnyKey \cup {NoSecret, NoKeyId}]
    /\ isCCS \in BOOLEAN /\ changedSince \in BOOLEAN
    /\ ~changedSince =>
        /\ \A s \in HiveSecret : dpc \in AfterSecret(s) =>
            secretRead[s] = hiveSecret[s] /\ (inSync => hiveSecret[s] # NoSecret)
        /\ dpc \in AfterKeys => keysListed \subseteq liveKeys /\ (inSync => Match(keysListed))
        /\ dpc \in AfterKeys \ {"root"} => rootRead \in {rootKey, NoSecret}
        /\ dpc = "clean" => inSync /\ RootInSync

-----------------------------------------------------------------------------
(***************************************************************************)
(* Keys and resets (AccountKeys).                                          *)
(***************************************************************************)
KeeperPcs ==
    {"idle", "user", "create", "list", "delete", "printed", "exists", "failed", "get", "update", "status", "reset"}
KeysTypes ==
    /\ lastIssued \in Nat /\ userKeys \in [IamUser -> SUBSET Nat]
    /\ iamUser \in [Keeper -> IamUser] /\ kpc \in [Keeper -> KeeperPcs]
    /\ toDelete \in [Keeper -> SUBSET Nat] /\ printed \in [Keeper -> Nat]
    /\ listedBy \in [1..MaxIssued -> SUBSET Keeper]
    /\ claimedSince \in [Keeper -> BOOLEAN]
    /\ object \in [link : BOOLEAN, claimed : BOOLEAN, version : Nat] /\ ownSecret \in BOOLEAN

\* Whoever deletes a key has listed it; a printed key works or was listed by another.
PrintedInv ==
    /\ \A o \in Keeper : \A k \in toDelete[o] \cap 1..MaxIssued : o \in listedBy[k]
    /\ \A o \in Keeper : kpc[o] = "printed" =>
        /\ printed[o] \in 1..MaxIssued
        /\ printed[o] \in userKeys[iamUser[o]] \/ listedBy[printed[o]] \ {o} # {}

\* What a reset has undone stays undone until the account is claimed.
ResetInv ==
    \A o \in Keeper : ~claimedSince[o] =>
        /\ kpc[o] \in {"get", "update", "status", "reset"} => ~ownSecret
        /\ kpc[o] \in {"status", "reset"} => ~object.link
        /\ kpc[o] = "reset" => ~object.claimed

\* An account in the pool is nobody's.
PoolInv ==
    /\ grants \in [Account -> SUBSET PoolAdmin] /\ ou \in [Account -> {"root", "developers"}]
    /\ \A a \in Account : ou[a] = "root" => grants[a] = {}
    /\ \A a \in Account : grants[a] = {} \/ \E e \in PoolAdmin : grants[a] = {e}

IInv == RotationInv /\ RefreshInv /\ DiagnosisInv /\ KeysTypes /\ PrintedInv /\ ResetInv /\ PoolInv

-----------------------------------------------------------------------------
(***************************************************************************)
(* The rotation is safe.                                                   *)
(***************************************************************************)
LEMMA RotationStarts == Init => RotationInv
<1> SUFFICES ASSUME Init PROVE RotationInv
    OBVIOUS
<1> USE DEF Init, User, Admin, Ccs, Key, SecretName, Empty, Missing
<1>1. MaxKeys \in Nat /\ 2 <= MaxKeys
    BY RotationAssumption
<1>2. keys[Admin] = {1} /\ keys[Ccs] = {2} /\ issued = 2
    OBVIOUS
<1>4. secret \in [SecretName -> Int] /\ \A s \in SecretName : secret[s] \in {-1, IF s = "byoc" THEN 2 ELSE 1}
    OBVIOUS
<1>3. \A s \in SecretName : secret[s] \in Key => secret[s] \in keys[UserOf(s)]
    BY <1>1, <1>2, <1>4 DEF UserOf
<1>5. RotationTypes
  <2>1. {1} \subseteq Key /\ {2} \subseteq Key /\ {1, 2} \subseteq Key
      BY <1>1
  <2>2. keys \in [User -> SUBSET Key]
      BY <2>1
  <2>3. pc \in Pcs /\ issued \in Nat /\ issued <= MaxKeys /\ root \in Int /\ newKey \in Nat
      BY <1>1 DEF Pcs
  <2>4. user \in User /\ want \subseteq User /\ committed \in BOOLEAN /\ dirty \in BOOLEAN
      OBVIOUS
  <2>5. used \subseteq Key
      BY <2>1
  <2> QED
      BY <1>4, <2>2, <2>3, <2>4, <2>5 DEF RotationTypes
<1>6. KeysAreNew
    BY <1>1, <1>2, <1>4 DEF KeysAreNew
<1>7. StepInv
    BY DEF StepInv, KeylessPcs, AdminPcs, CommittedPcs, HoldingPcs
<1>8. CredentialInv
    BY <1>2, <1>3, <1>4 DEF CredentialInv, UserOf
<1>9. OrphanInv
    BY <1>2 DEF OrphanInv, AtHand
<1> QED
    BY <1>5, <1>6, <1>7, <1>8, <1>9 DEF RotationInv

\* Where a step that fails leads.
LEMMA FailureLeads ==
    /\ newKey # Empty /\ ~committed => FailurePc = "rollback"
    /\ ~(newKey # Empty /\ ~committed) => FailurePc = "idle"
BY DEF FailurePc

\* A step that changes nothing but the step, the user and what is still wanted.
LEMMA NothingWritten ==
    ASSUME RotationInv, UNCHANGED <<remote, used, newKey, committed>>,
           pc' \in Pcs, user' \in User, want' \subseteq User, dirty' \in BOOLEAN,
           dirty => dirty', StepInv',
           ~dirty' /\ pc' = "idle" => pc = "idle" \/ newKey = Empty \/ committed
    PROVE  RotationInv'
<1> USE DEF RotationInv, remote
<1>1. RotationTypes'
    BY DEF RotationTypes
<1>2. KeysAreNew'
    BY DEF KeysAreNew
<1>3. CredentialInv'
    BY DEF CredentialInv, SecretName, RotationTypes
<1>4. OrphanInv'
    BY DEF OrphanInv, AtHand, RotationTypes
<1> QED
    BY <1>1, <1>2, <1>3, <1>4

LEMMA StepsBeforeAKey ==
    ASSUME RotationInv, Begin \/ Preflight \/ LimitExceeded \/ QuitChoice \/ ListKeys
    PROVE  RotationInv'
<1> USE DEF RotationInv, GoTo
<1>1. CASE Begin
  <2>1. want' \subseteq User /\ user' \in User /\ newKey' = Empty /\ ~committed' /\ pc' = "preflight"
      BY <1>1 DEF Begin, User, Admin, Ccs
  <2>2. UNCHANGED <<remote, used, dirty>>
      BY <1>1 DEF Begin
  <2>3. RotationTypes'
    <3>4. committed' = FALSE
        BY <1>1 DEF Begin
    <3>1. pc' \in Pcs /\ newKey' \in Nat /\ committed' \in BOOLEAN
        BY <2>1, <3>4 DEF Pcs, Empty
    <3>2. UNCHANGED <<keys, issued, secret, root, used, dirty>>
        BY <2>2 DEF remote
    <3>3. user' \in User /\ want' \subseteq User
        BY <2>1
    <3> QED
        BY <3>1, <3>2, <3>3 DEF RotationTypes
  <2>4. KeysAreNew'
      BY <2>1, <2>2 DEF KeysAreNew, remote, Empty, RotationTypes
  <2>5. StepInv'
      BY <2>1 DEF StepInv, KeylessPcs, AdminPcs, CommittedPcs, HoldingPcs
  <2>6. CredentialInv'
      BY <2>1, <2>2 DEF CredentialInv, remote, SecretName, RotationTypes
  <2>7. pc = "done" => committed
      BY DEF StepInv, CommittedPcs
  <2>8. AtHand = {}
      BY <1>1, <2>7 DEF AtHand, Begin
  <2>9. OrphanInv'
      BY <2>1, <2>2, <2>8 DEF OrphanInv, AtHand, remote
  <2> QED
      BY <2>3, <2>4, <2>5, <2>6, <2>9
<1>2. CASE Preflight
  <2>1. pc = "preflight" /\ newKey = Empty /\ ~committed
      BY <1>2 DEF Preflight, StepInv, KeylessPcs
  <2>2. UNCHANGED <<keys, issued, root, process, used, dirty>>
      BY <1>2 DEF Preflight
  <2>3. pc' \in {"preflight", "idle", "create"}
      BY <1>2 DEF Preflight
  <2>4. /\ secret' \in [SecretName -> Int]
        /\ \A s \in SecretName : secret'[s] \in {secret[s], Empty}
      BY <1>2 DEF Preflight, RotationTypes, Empty
  <2>5. RotationTypes'
      BY <2>2, <2>3, <2>4 DEF RotationTypes, process, Pcs
  <2>6. KeysAreNew'
      BY <2>2, <2>4 DEF KeysAreNew, process, Empty, RotationTypes
  <2>7. StepInv'
      BY <2>1, <2>2, <2>3 DEF StepInv, process, KeylessPcs, AdminPcs, CommittedPcs, HoldingPcs
  <2>8. Empty \notin Key
      BY DEF Empty, Key
  <2>9. CredentialInv'
      BY <2>1, <2>2, <2>4, <2>8 DEF CredentialInv, process, SecretName
  <2>10. OrphanInv'
      BY <2>1, <2>2 DEF OrphanInv, AtHand, process
  <2> QED
      BY <2>5, <2>6, <2>7, <2>9, <2>10
<1>3. CASE LimitExceeded
  <2>1. pc = "create" /\ newKey = Empty /\ ~committed /\ UNCHANGED <<remote, process, used, dirty>>
      BY <1>3 DEF LimitExceeded, StepInv, KeylessPcs
  <2>2. pc' \in {"idle", "choose"}
      BY <1>3, <2>1, FailureLeads DEF LimitExceeded
  <2>3. StepInv'
      BY <2>1, <2>2 DEF StepInv, process, KeylessPcs, AdminPcs, CommittedPcs, HoldingPcs
  <2> QED
      BY <2>1, <2>2, <2>3, NothingWritten DEF process, RotationTypes, Pcs
<1>4. CASE QuitChoice
  <2>1. pc = "choose" /\ newKey = Empty /\ ~committed /\ UNCHANGED <<remote, process, used, dirty>>
      BY <1>4 DEF QuitChoice, StepInv, KeylessPcs
  <2>2. pc' = "idle"
      BY <1>4, <2>1, FailureLeads DEF QuitChoice
  <2>3. StepInv'
      BY <2>1, <2>2 DEF StepInv, process, KeylessPcs, AdminPcs, CommittedPcs, HoldingPcs
  <2> QED
      BY <2>1, <2>2, <2>3, NothingWritten DEF process, RotationTypes, Pcs
<1>5. CASE ListKeys
  <2>1. /\ pc = "list" /\ newKey # Empty /\ ~committed /\ newKey \in keys[user]
        /\ UNCHANGED <<remote, process, used, dirty>>
      BY <1>5 DEF ListKeys, StepInv, HoldingPcs
  <2>2. pc' = IF user = Admin THEN "account" ELSE "byoc"
      BY <1>5 DEF ListKeys
  <2>3. user # Admin => user = Ccs
      BY DEF RotationTypes, User, Admin, Ccs
  <2>4. StepInv'
      BY <2>1, <2>2, <2>3 DEF StepInv, process, remote, KeylessPcs, AdminPcs, CommittedPcs, HoldingPcs, RotationTypes
  <2>5. pc' \in Pcs /\ pc' # "idle"
      BY <2>2 DEF Pcs
  <2> QED
      BY <2>1, <2>4, <2>5, NothingWritten DEF process, RotationTypes
<1> QED
    BY <1>1, <1>2, <1>3, <1>4, <1>5

LEMMA KeyMade ==
    ASSUME RotationInv, CreateKey
    PROVE  RotationInv'
<1> USE DEF RotationInv, GoTo
<1>1. pc \in {"create", "createAgain"} /\ newKey = Empty /\ ~committed
    BY DEF CreateKey, StepInv, KeylessPcs
<1>2. /\ issued < MaxKeys /\ issued' = issued + 1 /\ newKey' = issued + 1 /\ pc' = "list"
      /\ keys' = [keys EXCEPT ![user] = @ \cup {issued + 1}]
      /\ UNCHANGED <<secret, root, user, want, committed, used, dirty>>
    BY DEF CreateKey, NewKey
<1>3. issued + 1 \in Key /\ issued + 1 \in Nat /\ issued + 1 # Empty
    BY <1>2, RotationAssumption DEF RotationTypes, Key, Empty
<1>4. /\ keys' \in [User -> SUBSET Key] /\ keys'[user] = keys[user] \cup {issued + 1}
      /\ \A u \in User : u # user => keys'[u] = keys[u]
    BY <1>2, <1>3 DEF RotationTypes
<1>5. RotationTypes'
  <2>1. issued' \in Nat /\ issued' <= MaxKeys /\ newKey' \in Nat
      BY <1>2, <1>3, RotationAssumption DEF RotationTypes
  <2>2. pc' \in Pcs
      BY <1>2 DEF Pcs
  <2> QED
      BY <1>2, <1>4, <2>1, <2>2 DEF RotationTypes
<1>6. \A u \in User : issued + 1 \notin keys[u]
    BY DEF KeysAreNew, RotationTypes
<1>7. KeysAreNew'
  <2>1. \A u \in User : \A k \in keys'[u] : k <= issued'
      BY <1>2, <1>3, <1>4 DEF KeysAreNew, RotationTypes, Key
  <2>2. keys'[Admin] \cap keys'[Ccs] = {}
      BY <1>4, <1>6 DEF KeysAreNew, RotationTypes, User, Admin, Ccs
  <2> QED
      BY <1>2, <2>1, <2>2 DEF KeysAreNew, RotationTypes
<1>8. StepInv'
    BY <1>1, <1>2, <1>3, <1>4 DEF StepInv, KeylessPcs, AdminPcs, CommittedPcs, HoldingPcs
<1>9. issued + 1 # root /\ \A s \in SecretName : issued + 1 # secret[s]
    BY DEF KeysAreNew, RotationTypes
<1>10. \A u \in User : keys[u] \subseteq keys'[u]
    BY <1>4
<1>11. CredentialInv'
    BY <1>2, <1>9, <1>10 DEF CredentialInv, SecretName, User, Admin, Ccs, UserOf
<1>12. OrphanInv'
    BY <1>1, <1>2, <1>3, <1>4 DEF OrphanInv, AtHand
<1> QED
    BY <1>5, <1>7, <1>8, <1>11, <1>12

LEMMA OldKeyDeleted ==
    ASSUME RotationInv, DeleteOldKey
    PROVE  RotationInv'
<1> USE DEF RotationInv, GoTo
<1>1. pc = "choose" /\ pc' = "createAgain" /\ newKey = Empty /\ ~committed
    BY DEF DeleteOldKey, StepInv, KeylessPcs
<1>2. UNCHANGED <<issued, secret, root, process, used, dirty>>
    BY DEF DeleteOldKey
<1>3. PICK k \in PickedKeys : keys' = [keys EXCEPT ![user] = @ \ {k}]
    BY DEF DeleteOldKey
<1>4. k # root /\ \A s \in SecretName : k # secret[s]
    BY <1>3 DEF PickedKeys, InUse, RotationTypes
<1>5. /\ keys' \in [User -> SUBSET Key] /\ \A u \in User : keys'[u] \subseteq keys[u]
      /\ \A u \in User : \A m \in keys[u] : m # k => m \in keys'[u]
    BY <1>3 DEF RotationTypes
<1>6. RotationTypes'
    BY <1>1, <1>2, <1>5 DEF RotationTypes, process, Pcs
<1>7. KeysAreNew'
    BY <1>2, <1>5 DEF KeysAreNew, process, User, Admin, Ccs
<1>8. StepInv'
    BY <1>1, <1>2 DEF StepInv, process, KeylessPcs, AdminPcs, CommittedPcs, HoldingPcs
<1>9. CredentialInv'
    BY <1>1, <1>2, <1>4, <1>5 DEF CredentialInv, process, SecretName, User, UserOf, Admin, Ccs
<1>10. OrphanInv'
    BY <1>1, <1>2, <1>5 DEF OrphanInv, AtHand, process
<1> QED
    BY <1>6, <1>7, <1>8, <1>9, <1>10

\* The key at hand is written to a secret of its user.
LEMMA SecretWritten ==
    ASSUME RotationInv, NEW s \in SecretName, UpdateSecret(s), UserOf(s) = user,
           newKey # Empty, newKey \in keys[user], UNCHANGED <<newKey, user>>,
           pc' \in Pcs, want' \subseteq User, committed' \in BOOLEAN, dirty' \in BOOLEAN, dirty => dirty', StepInv',
           committed' \/ (dirty' /\ s # "aws" /\ ~committed)
    PROVE  RotationInv'
<1> USE DEF RotationInv
<1>1. /\ secret' = [secret EXCEPT ![s] = newKey] /\ used' = used \cup {newKey}
      /\ UNCHANGED <<keys, issued, syncSet, synced, root>>
    BY DEF UpdateSecret
<1>2. newKey \in Key /\ newKey \in Int
    BY DEF RotationTypes, KeysAreNew
<1>3. /\ secret' \in [SecretName -> Int] /\ secret'[s] = newKey
      /\ \A t \in SecretName : t # s => secret'[t] = secret[t]
    BY <1>1, <1>2 DEF RotationTypes
<1>4. RotationTypes'
    BY <1>1, <1>2, <1>3 DEF RotationTypes
<1>5. KeysAreNew'
    BY <1>1, <1>3 DEF KeysAreNew
<1>6. CredentialInv'
  <2>1. secret'["aws"] \in Key => secret'["aws"] \in keys[Admin]
      BY <1>3 DEF CredentialInv, SecretName, UserOf
  <2>2. newKey # Empty /\ ~committed' => newKey # root /\ newKey # secret'["aws"]
      BY <1>3 DEF CredentialInv, SecretName
  <2>3. ASSUME ~dirty', NEW t \in SecretName, secret'[t] \in Key PROVE secret'[t] \in keys[UserOf(t)]
      BY <1>3, <2>3 DEF CredentialInv, RotationTypes
  <2> QED
      BY <1>1, <2>1, <2>2, <2>3 DEF CredentialInv
<1>7. OrphanInv'
  <2>1. CASE dirty'
      BY <2>1 DEF OrphanInv
  <2>2. CASE ~dirty'
    <3>1. AtHand \subseteq {newKey}
        BY DEF AtHand
    <3> QED
        BY <1>1, <2>2, <3>1 DEF OrphanInv, RotationTypes
  <2> QED
      BY <2>1, <2>2
<1> QED
    BY <1>4, <1>5, <1>6, <1>7

LEMMA SecretsUpdated ==
    ASSUME RotationInv, UpdateAccountSecret \/ UpdateAwsSecret \/ UpdateByocSecret
    PROVE  RotationInv'
<1> USE DEF RotationInv, GoTo
<1>1. CASE UpdateAccountSecret
  <2>1. user = Admin /\ newKey # Empty /\ newKey \in keys[user]
      BY <1>1 DEF UpdateAccountSecret, StepInv, AdminPcs, HoldingPcs
  <2>2. /\ UpdateSecret("account") /\ pc' = "aws" /\ committed' = TRUE
        /\ UNCHANGED <<user, want, newKey, keys, dirty>> /\ used' = used \cup {newKey}
      BY <1>1 DEF UpdateAccountSecret, UpdateSecret
  <2>3. StepInv'
      BY <2>1, <2>2 DEF StepInv, KeylessPcs, AdminPcs, CommittedPcs, HoldingPcs
  <2>4. /\ "account" \in SecretName /\ UserOf("account") = Admin /\ "aws" \in Pcs
        /\ dirty \in BOOLEAN /\ want \subseteq User
      BY DEF SecretName, UserOf, Pcs, RotationTypes
  <2> QED
      BY <2>1, <2>2, <2>3, <2>4, SecretWritten
<1>2. CASE UpdateAwsSecret
  <2>1. user = Admin /\ committed /\ newKey # Empty /\ newKey \in keys[user]
      BY <1>2 DEF UpdateAwsSecret, StepInv, AdminPcs, CommittedPcs
  <2>2. /\ UpdateSecret("aws") /\ pc' = "syncSet"
        /\ UNCHANGED <<user, want, newKey, committed, keys, dirty>> /\ used' = used \cup {newKey}
      BY <1>2 DEF UpdateAwsSecret, UpdateSecret, process
  <2>3. StepInv'
      BY <2>1, <2>2 DEF StepInv, KeylessPcs, AdminPcs, CommittedPcs, HoldingPcs
  <2>4. /\ "aws" \in SecretName /\ UserOf("aws") = Admin /\ "syncSet" \in Pcs
        /\ dirty \in BOOLEAN /\ want \subseteq User
      BY DEF SecretName, UserOf, Pcs, RotationTypes
  <2> QED
      BY <2>1, <2>2, <2>3, <2>4, SecretWritten
<1>3. CASE UpdateByocSecret
  <2>1. user = Ccs /\ newKey # Empty /\ newKey \in keys[user]
      BY <1>3 DEF UpdateByocSecret, StepInv, HoldingPcs
  <2>2. /\ UpdateSecret("byoc") /\ pc' = "done" /\ committed' = TRUE /\ want' = {}
        /\ UNCHANGED <<user, newKey, keys, dirty>> /\ used' = used \cup {newKey}
      BY <1>3 DEF UpdateByocSecret, UpdateSecret
  <2>3. StepInv'
      BY <2>1, <2>2 DEF StepInv, KeylessPcs, AdminPcs, CommittedPcs, HoldingPcs
  <2>4. "byoc" \in SecretName /\ UserOf("byoc") = Ccs /\ "done" \in Pcs /\ dirty \in BOOLEAN
      BY DEF SecretName, UserOf, Pcs, RotationTypes
  <2> QED
      BY <2>1, <2>2, <2>3, <2>4, SecretWritten
<1> QED
    BY <1>1, <1>2, <1>3

\* The SyncSet, its status and the second user; Hive's own steps but the application.
LEMMA ClusterSynced ==
    ASSUME RotationInv,
           CreateSyncSet \/ PollClusterSync \/ DeleteSyncSet \/ RefreshCredentials \/ DropStatus
    PROVE  RotationInv'
<1> USE DEF RotationInv, GoTo
<1>1. UNCHANGED <<keys, issued, secret, root, used, dirty>>
    BY DEF CreateSyncSet, PollClusterSync, DeleteSyncSet, RefreshCredentials, DropStatus, remote, Hive
<1>2. CASE RefreshCredentials /\ Ccs \in want
  <2>1. /\ pc' = "create" /\ user' = Ccs /\ want' \subseteq User
        /\ newKey' = Empty /\ committed' = FALSE /\ committed
      BY <1>2 DEF RefreshCredentials, StepInv, CommittedPcs, RotationTypes
  <2>2. RotationTypes'
      BY <1>1, <2>1 DEF RotationTypes, Pcs, Empty, User, Ccs
  <2>3. KeysAreNew'
      BY <1>1, <2>1 DEF KeysAreNew, RotationTypes, Empty
  <2>4. StepInv'
      BY <2>1 DEF StepInv, KeylessPcs, AdminPcs, CommittedPcs, HoldingPcs
  <2>5. CredentialInv'
      BY <1>1, <2>1 DEF CredentialInv
  <2>6. OrphanInv'
      BY <1>1, <2>1 DEF OrphanInv, AtHand
  <2> QED
      BY <2>2, <2>3, <2>4, <2>5, <2>6
<1>3. CASE ~(RefreshCredentials /\ Ccs \in want)
  <2>1. /\ UNCHANGED <<user, newKey>> /\ want' \subseteq User /\ committed' = committed
      BY <1>3 DEF CreateSyncSet, PollClusterSync, DeleteSyncSet, RefreshCredentials, DropStatus, process, Hive, RotationTypes
  <2>2. \/ /\ pc' \in CommittedPcs /\ committed /\ pc' # "aws"
           /\ pc' # "done" => pc' \in AdminPcs /\ pc \in AdminPcs
        \/ pc' = pc
      BY <1>3 DEF CreateSyncSet, PollClusterSync, DeleteSyncSet, RefreshCredentials, DropStatus, Hive, StepInv, AdminPcs, CommittedPcs
  <2>3. StepInv'
      BY <1>1, <2>1, <2>2 DEF StepInv, KeylessPcs, AdminPcs, CommittedPcs, HoldingPcs
  <2>4. RotationTypes'
      BY <1>1, <2>1, <2>2 DEF RotationTypes, CommittedPcs, Pcs
  <2>5. KeysAreNew'
      BY <1>1, <2>1 DEF KeysAreNew
  <2>6. CredentialInv'
      BY <1>1, <2>1 DEF CredentialInv
  <2>7. OrphanInv'
      BY <1>1, <2>1, <2>2 DEF OrphanInv, AtHand
  <2> QED
      BY <2>3, <2>4, <2>5, <2>6, <2>7
<1> QED
    BY <1>2, <1>3

LEMMA SyncSetApplied ==
    ASSUME RotationInv, ApplySyncSet
    PROVE  RotationInv'
<1> USE DEF RotationInv
<1>1. /\ root' = secret["aws"] /\ secret["aws"] \in Key
      /\ UNCHANGED <<keys, issued, secret, pc, process, used, dirty>>
    BY DEF ApplySyncSet, Hive
<1>2. RotationTypes'
    BY <1>1 DEF RotationTypes, process, SecretName
<1>3. KeysAreNew'
    BY <1>1 DEF KeysAreNew, process, SecretName
<1>4. StepInv'
    BY <1>1 DEF StepInv, process
<1>5. CredentialInv'
    BY <1>1 DEF CredentialInv, process
<1>6. OrphanInv'
    BY <1>1 DEF OrphanInv, AtHand, process
<1> QED
    BY <1>2, <1>3, <1>4, <1>5, <1>6

\* A failed call, a lost answer, a kill.
LEMMA RotationFails ==
    ASSUME RotationInv, Fail \/ UpdateAnswerLost \/ CreateAnswerLost \/ Crash
    PROVE  RotationInv'
<1> USE DEF RotationInv
<1>1. FailurePc \in {"idle", "rollback"} /\ "idle" \in Pcs /\ "rollback" \in Pcs
    BY DEF FailurePc, Pcs
<1>2. CASE Fail
  <2>1. pc \notin {"idle", "rollback", "done"} /\ pc' = FailurePc /\ UNCHANGED <<remote, process, used, dirty>>
      BY <1>2 DEF Fail
  <2>2. newKey # Empty /\ ~committed => newKey \in keys[user]
      BY <2>1 DEF StepInv, RotationTypes, Pcs, KeylessPcs, HoldingPcs, CommittedPcs
  <2>3. StepInv'
      BY <2>1, <2>2, <1>1, FailureLeads DEF StepInv, process, remote, KeylessPcs, AdminPcs, CommittedPcs, HoldingPcs
  <2>4. pc' = "idle" => newKey = Empty \/ committed
      BY <2>1, FailureLeads
  <2> QED
      BY <1>1, <2>1, <2>3, <2>4, NothingWritten DEF process, RotationTypes
<1>3. CASE UpdateAnswerLost
  <2>1. /\ pc \in SecretName /\ UpdateSecret(pc) /\ pc' = FailurePc /\ dirty' = TRUE
        /\ UNCHANGED process /\ UNCHANGED keys /\ used' = used \cup {newKey}
      BY <1>3 DEF UpdateAnswerLost, SecretName, UpdateSecret
  <2>2. newKey # Empty /\ newKey \in keys[user] /\ UserOf(pc) = user /\ (pc = "aws" <=> committed)
      BY <2>1 DEF StepInv, SecretName, AdminPcs, CommittedPcs, HoldingPcs, UserOf
  <2>3. StepInv'
      BY <2>1, <2>2, <1>1, FailureLeads DEF StepInv, process, KeylessPcs, AdminPcs, CommittedPcs, HoldingPcs
  <2>4. committed' = committed /\ committed' \in BOOLEAN /\ UNCHANGED <<newKey, user, want>>
      BY <2>1 DEF process, RotationTypes
  <2>5. committed' \/ (dirty' /\ pc # "aws" /\ ~committed)
      BY <2>1, <2>2, <2>4
  <2>6. want' \subseteq User
      BY <2>4 DEF RotationTypes
  <2> QED
      BY <1>1, <2>1, <2>2, <2>3, <2>4, <2>5, <2>6, SecretWritten
<1>4. CASE CreateAnswerLost
  <2>1. pc \in {"create", "createAgain"} /\ newKey = Empty /\ ~committed
      BY <1>4 DEF CreateAnswerLost, StepInv, KeylessPcs
  <2>2. /\ issued < MaxKeys /\ issued' = issued + 1 /\ pc' = "idle" /\ dirty' = TRUE
        /\ keys' = [keys EXCEPT ![user] = @ \cup {issued + 1}]
        /\ UNCHANGED <<secret, root, user, want, newKey, committed, used>>
      BY <1>4, <2>1, FailureLeads DEF CreateAnswerLost, process
  <2>3. issued + 1 \in Key /\ issued + 1 \in Nat
      BY <2>2, RotationAssumption DEF RotationTypes, Key
  <2>4. /\ keys' \in [User -> SUBSET Key] /\ keys'[user] = keys[user] \cup {issued + 1}
        /\ \A u \in User : u # user => keys'[u] = keys[u]
      BY <2>2, <2>3 DEF RotationTypes
  <2>5. RotationTypes'
    <3>1. issued' \in Nat /\ issued' <= MaxKeys
        BY <2>2, <2>3, RotationAssumption DEF RotationTypes
    <3> QED
        BY <1>1, <2>2, <2>4, <3>1 DEF RotationTypes
  <2>6. KeysAreNew'
    <3>1. \A u \in User : issued + 1 \notin keys[u]
        BY DEF KeysAreNew, RotationTypes
    <3>2. \A u \in User : \A k \in keys'[u] : k <= issued'
        BY <2>2, <2>3, <2>4 DEF KeysAreNew, RotationTypes, Key
    <3>3. keys'[Admin] \cap keys'[Ccs] = {}
        BY <2>4, <3>1 DEF KeysAreNew, RotationTypes, User, Admin, Ccs
    <3> QED
        BY <2>2, <3>2, <3>3 DEF KeysAreNew, RotationTypes
  <2>7. StepInv'
      BY <2>1, <2>2 DEF StepInv, KeylessPcs, AdminPcs, CommittedPcs, HoldingPcs
  <2>8. keys[Admin] \subseteq keys'[Admin]
      BY <2>4 DEF User, Admin
  <2>9. CredentialInv'
      BY <2>2, <2>8 DEF CredentialInv
  <2>10. OrphanInv'
      BY <2>2 DEF OrphanInv
  <2> QED
      BY <2>5, <2>6, <2>7, <2>9, <2>10
<1>5. CASE Crash
  <2>1. /\ pc # "idle" /\ pc' = "idle" /\ dirty' = (dirty \/ FailurePc = "rollback")
        /\ UNCHANGED <<remote, process, used>>
      BY <1>5 DEF Crash
  <2>2. StepInv'
      BY <2>1 DEF StepInv, process, KeylessPcs, AdminPcs, CommittedPcs, HoldingPcs
  <2>3. dirty' \in BOOLEAN /\ (dirty => dirty')
      BY <2>1
  <2>4. ~dirty' => newKey = Empty \/ committed
      BY <2>1, FailureLeads
  <2> QED
      BY <1>1, <2>1, <2>2, <2>3, <2>4, NothingWritten DEF process, RotationTypes
<1> QED
    BY <1>2, <1>3, <1>4, <1>5

LEMMA KeyRolledBack ==
    ASSUME RotationInv, Rollback
    PROVE  RotationInv'
<1> USE DEF RotationInv, GoTo
<1>1. pc = "rollback" /\ newKey # Empty /\ ~committed /\ newKey \in keys[user]
    BY DEF Rollback, StepInv, HoldingPcs
<1>2. /\ pc' = "idle" /\ keys' = [keys EXCEPT ![user] = @ \ {newKey}]
      /\ UNCHANGED <<issued, secret, root, process, used, dirty>>
    BY DEF Rollback
<1>3. /\ keys' \in [User -> SUBSET Key] /\ keys'[user] = keys[user] \ {newKey}
      /\ \A u \in User : u # user => keys'[u] = keys[u]
    BY <1>2 DEF RotationTypes
<1>4. \A u \in User : newKey \notin keys'[u]
    BY <1>1, <1>3 DEF KeysAreNew, RotationTypes, User, Admin, Ccs
<1>5. \A u \in User : keys'[u] \subseteq keys[u] /\ keys[u] \ {newKey} \subseteq keys'[u]
    BY <1>3
<1>6. RotationTypes'
    BY <1>2, <1>3 DEF RotationTypes, process, Pcs
<1>7. KeysAreNew'
    BY <1>2, <1>5 DEF KeysAreNew, process, User, Admin, Ccs
<1>8. StepInv'
    BY <1>1, <1>2 DEF StepInv, process, KeylessPcs, AdminPcs, CommittedPcs, HoldingPcs
<1>9. CredentialInv'
  <2>1. newKey # root /\ newKey # secret["aws"] /\ (~dirty => \A s \in SecretName : newKey # secret[s])
      BY <1>1 DEF CredentialInv
  <2>2. Admin \in User /\ \A s \in SecretName : UserOf(s) \in User
      BY DEF User, Admin, Ccs, UserOf
  <2> QED
      BY <1>2, <1>5, <2>1, <2>2 DEF CredentialInv, process
<1>10. OrphanInv'
    BY <1>1, <1>2, <1>4, <1>5 DEF OrphanInv, AtHand, process
<1> QED
    BY <1>6, <1>7, <1>8, <1>9, <1>10

LEMMA RotationInvariant == RotationInv /\ [Next]_vars => RotationInv'
<1> SUFFICES ASSUME RotationInv, [Next]_vars PROVE RotationInv'
    OBVIOUS
<1>1. CASE Next
    BY <1>1, StepsBeforeAKey, KeyMade, OldKeyDeleted, SecretsUpdated, ClusterSynced, SyncSetApplied,
       RotationFails, KeyRolledBack DEF Next, Run
<1>2. CASE UNCHANGED vars
  <2>1. UNCHANGED <<remote, used, newKey, committed, pc, user, want, dirty>>
      BY <1>2 DEF vars, process
  <2> QED
      BY <2>1 DEF RotationInv, RotationTypes, KeysAreNew, StepInv, CredentialInv, OrphanInv, AtHand, remote
<1> QED
    BY <1>1, <1>2

\* RotationIsSafe is one of the conditions of the invariant, but that every other key
\* is in a secret is known only of a run that has ended.
LEMMA RotationInvSafe == RotationInv => RotationIsSafe
<1> SUFFICES ASSUME RotationInv PROVE RotationIsSafe
    OBVIOUS
<1> USE DEF RotationInv
<1>1. RootStaysLive
    BY DEF RootStaysLive, CredentialInv
<1>2. SecretsHoldLiveKeys
  <2>1. DOMAIN secret = SecretName /\ \A s \in SecretName : UserOf(s) \in User
      BY DEF RotationTypes, UserOf, User, Admin, Ccs
  <2> QED
      BY <2>1 DEF SecretsHoldLiveKeys, CredentialInv
<1>3. NoOrphanKey
    BY DEF NoOrphanKey, OrphanInv, AtHand, StepInv, CommittedPcs
<1> QED
    BY <1>1, <1>2, <1>3 DEF RotationIsSafe

-----------------------------------------------------------------------------
(***************************************************************************)
(* A clean bill is true.                                                   *)
(***************************************************************************)
LEMMA DiagnosisStarts == DiagnosisInit => DiagnosisInv
<1> SUFFICES ASSUME DiagnosisInit PROVE DiagnosisInv
    OBVIOUS
<1>1. PICK k \in AdminKey, v \in AdminKey \cup {NoSecret, NoKeyId}, w \in CcsKey \cup {NoSecret} :
        hiveSecret = [account |-> k, aws |-> v, byoc |-> w]
    BY DEF DiagnosisInit
<1>2. hiveSecret \in [HiveSecret -> AnyKey \cup {NoSecret, NoKeyId}]
    BY <1>1 DEF HiveSecret, AnyKey
<1>3. dpc = "idle" /\ changedSince = FALSE /\ isCCS \in BOOLEAN /\ secretRead = [s \in HiveSecret |-> Unread]
    BY DEF DiagnosisInit
<1>4. \A s \in HiveSecret : dpc \notin AfterSecret(s)
    BY <1>3 DEF AfterSecret, AfterSecrets, AfterKeys, HiveSecret
<1> QED
    BY <1>2, <1>3, <1>4 DEF DiagnosisInv, AfterKeys

LEMMA OthersChange ==
    ASSUME DiagnosisInv, Others
    PROVE  DiagnosisInv'
<1>1. changedSince' = TRUE /\ UNCHANGED <<isCCS, secretRead>>
    BY DEF Others, findings
<1>2. hiveSecret' \in [HiveSecret -> AnyKey \cup {NoSecret, NoKeyId}]
    BY DEF Others, DiagnosisInv, AnyKey
<1> QED
    BY <1>1, <1>2 DEF DiagnosisInv

\* The reading of a secret.
LEMMA SecretChecked ==
    ASSUME DiagnosisInv, NEW s \in HiveSecret, CheckSecret(s)
    PROVE  DiagnosisInv'
<1>1. /\ dpc = s /\ secretRead' = [secretRead EXCEPT ![s] = hiveSecret[s]]
      /\ dpc' = CASE s = "account" -> "aws" [] s = "aws" /\ isCCS -> "byoc" [] OTHER -> "keys"
      /\ inSync' = (inSync /\ hiveSecret[s] # NoSecret)
      /\ UNCHANGED <<hiveSecret, liveKeys, rootKey, isCCS, keysListed, rootRead, changedSince>>
    BY DEF CheckSecret, DiagnosisStep, world
<1>2. /\ secretRead' \in [HiveSecret -> AnyKey \cup {Unread, NoSecret, NoKeyId}]
      /\ secretRead'[s] = hiveSecret[s]
      /\ \A t \in HiveSecret : t # s => secretRead'[t] = secretRead[t]
    BY <1>1 DEF DiagnosisInv
<1>3. s \in {"account", "aws", "byoc"}
    BY DEF HiveSecret
<1>4. dpc' \in {"aws", "byoc", "keys"} /\ (s # "account" => dpc' # "aws") /\ (dpc' = "byoc" => isCCS)
      /\ (s = "byoc" => dpc' = "keys") /\ (s = "account" => dpc' = "aws") /\ (s = "aws" /\ isCCS => dpc' = "byoc")
    BY <1>1, <1>3
<1>5. ASSUME ~changedSince, NEW t \in HiveSecret, dpc' \in AfterSecret(t)'
      PROVE  secretRead'[t] = hiveSecret[t] /\ (inSync' => hiveSecret[t] # NoSecret)
  <2>1. CASE t = s
      BY <1>1, <1>2, <2>1
  <2>2. CASE t # s
    <3>1. dpc \in AfterSecret(t)
        BY <1>1, <1>3, <1>4, <1>5, <2>2 DEF AfterSecret, AfterSecrets, AfterKeys, HiveSecret, DiagnosisInv
    <3> QED
        BY <1>1, <1>2, <1>5, <2>2, <3>1 DEF DiagnosisInv
  <2> QED
      BY <2>1, <2>2
<1>6. dpc' \notin AfterKeys
    BY <1>4 DEF AfterKeys
<1> QED
    BY <1>1, <1>2, <1>5, <1>6 DEF DiagnosisInv, AfterKeys

\* Whoever reads on without changing what was read.
LEMMA DiagnosisGoesOn ==
    ASSUME DiagnosisInv, UNCHANGED <<world, secretRead, changedSince>>,
           inSync' => inSync,
           \A s \in HiveSecret : dpc' \in AfterSecret(s) => dpc \in AfterSecret(s),
           ~changedSince /\ dpc' \in AfterKeys => keysListed' \subseteq liveKeys /\ (inSync' => Match(keysListed')),
           ~changedSince /\ dpc' \in AfterKeys \ {"root"} => rootRead' \in {rootKey, NoSecret},
           ~changedSince /\ dpc' = "clean" => inSync' /\ RootInSync'
    PROVE  DiagnosisInv'
<1>1. UNCHANGED <<hiveSecret, liveKeys, rootKey, isCCS, secretRead, changedSince>>
    BY DEF world
<1>2. \A s \in HiveSecret : AfterSecret(s)' = AfterSecret(s)
    BY <1>1 DEF AfterSecret
<1>3. \A k : Match(k)' = Match(k)
    BY <1>1 DEF Match
<1> QED
    BY <1>1, <1>2, <1>3 DEF DiagnosisInv

LEMMA DiagnosisInvariant == DiagnosisInv /\ [DiagnosisNext]_diagnosisVars => DiagnosisInv'
<1> SUFFICES ASSUME DiagnosisInv, [DiagnosisNext]_diagnosisVars PROVE DiagnosisInv'
    OBVIOUS
<1> USE DEF DiagnosisStep, findings
<1>1. CASE Identify
  <2>1. /\ dpc' \in {"resolve", "cancelled"} /\ UNCHANGED <<hiveSecret, isCCS>> /\ changedSince' = FALSE
        /\ secretRead' = [s \in HiveSecret |-> Unread]
      BY <1>1 DEF Identify, world
  <2>2. secretRead' \in [HiveSecret -> AnyKey \cup {Unread, NoSecret, NoKeyId}]
      BY <2>1
  <2>3. \A s \in HiveSecret : dpc' \notin AfterSecret(s)'
      BY <2>1 DEF AfterSecret, AfterSecrets, AfterKeys, HiveSecret
  <2>4. dpc' \notin AfterKeys
      BY <2>1 DEF AfterKeys
  <2> QED
      BY <2>1, <2>2, <2>3, <2>4 DEF DiagnosisInv, AfterKeys
<1>2. CASE ResolveAccount \/ BuildClient \/ ConnectCluster
  <2>1. /\ UNCHANGED <<world, secretRead, changedSince, inSync>>
        /\ dpc' \in {"client", "failed", "connect", "account"}
      BY <1>2 DEF ResolveAccount, BuildClient, ConnectCluster
  <2>2. dpc' \notin AfterKeys /\ \A s \in HiveSecret : dpc' \notin AfterSecret(s)
      BY <2>1 DEF AfterKeys, AfterSecret, AfterSecrets, HiveSecret
  <2>3. dpc' # "clean"
      BY <2>1
  <2> QED
      BY <2>1, <2>2, <2>3, DiagnosisGoesOn
<1>3. CASE \E s \in HiveSecret : CheckSecret(s)
    BY <1>3, SecretChecked
<1>4. CASE DiagnoseIAMKeys
  <2>1. /\ UNCHANGED <<world, secretRead, changedSince>> /\ dpc = "keys" /\ dpc' = "root"
        /\ keysListed' \subseteq liveKeys /\ inSync' = (inSync /\ Match(keysListed'))
      BY <1>4 DEF DiagnoseIAMKeys
  <2>2. \A s \in HiveSecret : dpc' \in AfterSecret(s) => dpc \in AfterSecret(s)
      BY <2>1 DEF AfterKeys, AfterSecret, AfterSecrets, HiveSecret
  <2> QED
      BY <2>1, <2>2, DiagnosisGoesOn
<1>5. CASE ReadRoot
  <2>1. /\ UNCHANGED <<world, secretRead, changedSince, inSync, keysListed>> /\ dpc = "root" /\ dpc' = "permissions"
        /\ rootRead' \in {rootKey, NoSecret}
      BY <1>5 DEF ReadRoot
  <2>2. \A s \in HiveSecret : dpc' \in AfterSecret(s) => dpc \in AfterSecret(s)
      BY <2>1 DEF AfterKeys, AfterSecret, AfterSecrets, HiveSecret
  <2>3. ~changedSince => keysListed' \subseteq liveKeys /\ (inSync' => Match(keysListed'))
      BY <2>1 DEF DiagnosisInv, AfterKeys
  <2> QED
      BY <2>1, <2>2, <2>3, DiagnosisGoesOn
<1>6. CASE Simulate \/ Report \/ SayYES
  <2>1. UNCHANGED <<world, secretRead, changedSince, inSync, keysListed, rootRead>>
      BY <1>6 DEF Simulate, Report, SayYES
  <2>2. \/ dpc = "permissions" /\ dpc' = "report"
        \/ dpc = "report" /\ dpc' \in {"issues", "rotate", "sayYES", "refused"}
        \/ dpc = "report" /\ dpc' = "clean" /\ NoIssues
        \/ dpc' \in {"rotate", "cancelled"}
      BY <1>6 DEF Simulate, Report, SayYES
  <2>3. \A s \in HiveSecret : dpc' \in AfterSecret(s) => dpc \in AfterSecret(s)
      BY <2>2 DEF AfterKeys, AfterSecret, AfterSecrets, HiveSecret
  <2>4. dpc' \in AfterKeys => dpc' # "root" /\ dpc \in AfterKeys \ {"root"}
      BY <2>2 DEF AfterKeys
  <2>5. dpc' \in AfterKeys /\ ~changedSince =>
            /\ keysListed' \subseteq liveKeys /\ (inSync' => Match(keysListed'))
            /\ rootRead' \in {rootKey, NoSecret}
      BY <2>1, <2>4 DEF DiagnosisInv
  <2>6. dpc' = "clean" => (inSync' /\ RootInSync') \/ dpc = "clean"
      BY <2>1, <2>2 DEF NoIssues, RootInSync
  <2>7. dpc' = "clean" => dpc # "clean"
      BY <2>2
  <2> QED
      BY <2>1, <2>3, <2>5, <2>6, <2>7, DiagnosisGoesOn
<1>7. CASE Others
    BY <1>7, OthersChange
<1>8. CASE UNCHANGED diagnosisVars
  <2>1. UNCHANGED <<hiveSecret, liveKeys, rootKey, isCCS, secretRead, changedSince, inSync, keysListed, rootRead, dpc>>
      BY <1>8 DEF diagnosisVars, world
  <2> QED
      BY <2>1 DEF DiagnosisInv, AfterSecret, Match, RootInSync
<1> QED
    BY <1>1, <1>2, <1>3, <1>4, <1>5, <1>6, <1>7, <1>8 DEF DiagnosisNext

\* The root credential is the account secret's, which is one of the keys listed.
LEMMA DiagnosisInvTrue == DiagnosisInv => CleanBillIsTrue
<1> SUFFICES ASSUME DiagnosisInv, dpc = "clean", ~changedSince
             PROVE  /\ rootKey = hiveSecret["account"] /\ rootKey \in liveKeys
                    /\ \A s \in HiveSecret : (s = "byoc" /\ ~isCCS) \/ hiveSecret[s] \in liveKeys \cup {NoKeyId}
    BY DEF CleanBillIsTrue
<1>1. /\ inSync /\ RootInSync /\ keysListed \subseteq liveKeys /\ Match(keysListed)
      /\ rootRead \in {rootKey, NoSecret}
    BY DEF DiagnosisInv, AfterKeys
<1>2. ASSUME NEW s \in HiveSecret, ~(s = "byoc" /\ ~isCCS)
      PROVE  secretRead[s] = hiveSecret[s] /\ hiveSecret[s] # NoSecret
    BY <1>1, <1>2 DEF DiagnosisInv, AfterSecret, AfterSecrets, AfterKeys, HiveSecret
<1>3. "account" \in HiveSecret
    BY DEF HiveSecret
<1>4. rootKey = hiveSecret["account"] /\ rootKey \in liveKeys
    BY <1>1, <1>2, <1>3 DEF RootInSync, Match
<1>5. ASSUME NEW s \in HiveSecret, ~(s = "byoc" /\ ~isCCS)
      PROVE  hiveSecret[s] \in liveKeys \cup {NoKeyId}
    BY <1>1, <1>2, <1>5 DEF Match, KeyId, DiagnosisInv
<1> QED
    BY <1>4, <1>5

-----------------------------------------------------------------------------
(***************************************************************************)
(* Keys that were printed, and resets.                                     *)
(***************************************************************************)
LEMMA KeysStart == KeysInit => KeysTypes /\ PrintedInv /\ ResetInv
<1> SUFFICES ASSUME KeysInit PROVE KeysTypes /\ PrintedInv /\ ResetInv
    OBVIOUS
<1>1. lastIssued \in Nat
  <2>1. userExists \subseteq IamUser /\ lastIssued = Cardinality(userExists)
      BY DEF KeysInit
  <2>2. IsFiniteSet(userExists)
      BY <2>1, KeysAssumption, FS_Subset
  <2> QED
      BY <2>1, <2>2, FS_CardinalityType
<1>2. userKeys \in [IamUser -> SUBSET Nat]
  <2>1. PICK key \in [userExists -> 1..lastIssued] :
            userKeys = [u \in IamUser |-> IF u \in userExists THEN {key[u]} ELSE {}]
      BY DEF KeysInit
  <2>2. \A u \in userExists : key[u] \in Nat
      BY <1>1
  <2> QED
      BY <2>1, <2>2
<1>3. object \in [link : BOOLEAN, claimed : BOOLEAN, version : Nat]
    BY DEF KeysInit
<1>4. \A o \in Keeper : toDelete[o] = {} /\ kpc[o] = "idle"
    BY DEF KeysInit
<1>5. KeysTypes
  <2>1. iamUser \in [Keeper -> IamUser] /\ ownSecret \in BOOLEAN
      BY DEF KeysInit
  <2>2. /\ toDelete \in [Keeper -> SUBSET Nat] /\ printed \in [Keeper -> Nat]
        /\ listedBy \in [1..MaxIssued -> SUBSET Keeper] /\ claimedSince \in [Keeper -> BOOLEAN]
      BY DEF KeysInit
  <2>3. kpc \in [Keeper -> KeeperPcs]
      BY DEF KeysInit, KeeperPcs
  <2> QED
      BY <1>1, <1>2, <1>3, <2>1, <2>2, <2>3 DEF KeysTypes
<1> QED
    BY <1>4, <1>5 DEF PrintedInv, ResetInv

\* An SRE's step is a step of that SRE alone.
LEMMA KeeperStepAlone ==
    ASSUME KeysTypes, NEW o \in Keeper, NEW from, NEW to \in KeeperPcs, KeeperStep(o, from, to)
    PROVE  /\ kpc' \in [Keeper -> KeeperPcs] /\ kpc[o] = from /\ kpc'[o] = to
           /\ \A p \in Keeper : p # o => kpc'[p] = kpc[p]
BY DEF KeysTypes, KeeperStep

\* What PrintedInv and ResetInv need of a step that prints no key and ends no reset.
LEMMA KeysUntouched ==
    ASSUME KeysTypes, PrintedInv, NEW o \in Keeper, KeeperStep(o, kpc[o], kpc'[o]),
           kpc'[o] \in KeeperPcs, kpc'[o] # "printed",
           UNCHANGED <<userKeys, listedBy, printed, iamUser>>,
           \A p \in Keeper : toDelete'[p] \subseteq toDelete[p]
    PROVE  PrintedInv'
<1>1. /\ kpc' \in [Keeper -> KeeperPcs] /\ \A p \in Keeper : p # o => kpc'[p] = kpc[p]
    BY KeeperStepAlone
<1> QED
    BY <1>1 DEF PrintedInv

LEMMA ResetUntouched ==
    ASSUME KeysTypes, ResetInv, NEW o \in Keeper, KeeperStep(o, kpc[o], kpc'[o]),
           kpc'[o] \in KeeperPcs, kpc'[o] \notin {"get", "update", "status", "reset"},
           UNCHANGED <<object, ownSecret, claimedSince>>
    PROVE  ResetInv'
<1>1. \A p \in Keeper : p # o => kpc'[p] = kpc[p]
    BY KeeperStepAlone
<1> QED
    BY <1>1 DEF ResetInv

\* The commands that make keys.
LEMMA KeyCommands ==
    ASSUME KeysTypes, PrintedInv, ResetInv, NEW o \in Keeper,
           AssumeRoles(o) \/ CheckUser(o) \/ ListUserKeys(o) \/ DeleteUserKey(o)
               \/ KeysDeleted(o) \/ CreateUserKey(o)
    PROVE  KeysTypes' /\ PrintedInv' /\ ResetInv'
<1> USE DEF iamState, objectState, keeperVars
<1>1. UNCHANGED <<object, ownSecret, claimedSince, iamUser>>
    BY DEF AssumeRoles, CheckUser, ListUserKeys, DeleteUserKey, KeysDeleted, CreateUserKey
<1>2. /\ KeeperStep(o, kpc[o], kpc'[o])
      /\ kpc'[o] \in {"create", "user", "list", "exists", "delete", "failed", "printed"}
    BY DEF AssumeRoles, CheckUser, ListUserKeys, DeleteUserKey, KeysDeleted, CreateUserKey, KeeperStep, KeysTypes
<1>3. kpc'[o] \in KeeperPcs /\ kpc'[o] \notin {"get", "update", "status", "reset"}
    BY <1>2 DEF KeeperPcs
<1>4. ResetInv'
    BY <1>1, <1>2, <1>3, ResetUntouched
<1>5. /\ kpc' \in [Keeper -> KeeperPcs] /\ \A p \in Keeper : p # o => kpc'[p] = kpc[p]
    BY <1>2, <1>3, KeeperStepAlone
<1>6. CASE AssumeRoles(o) \/ CheckUser(o) \/ KeysDeleted(o)
  <2>1. UNCHANGED <<userKeys, lastIssued, listedBy, printed, toDelete>> /\ kpc'[o] # "printed"
      BY <1>5, <1>6 DEF AssumeRoles, CheckUser, KeysDeleted, KeeperStep, KeysTypes
  <2>2. PrintedInv'
      BY <1>1, <1>2, <1>3, <2>1, KeysUntouched
  <2> QED
      BY <1>1, <1>4, <1>5, <2>1, <2>2 DEF KeysTypes
<1>7. CASE ListUserKeys(o)
  <2>1. /\ UNCHANGED <<userKeys, lastIssued, printed>> /\ kpc'[o] = "delete"
        /\ toDelete' = [toDelete EXCEPT ![o] = userKeys[iamUser[o]]]
        /\ listedBy' = [k \in DOMAIN listedBy |-> IF k \in toDelete'[o] THEN listedBy[k] \cup {o} ELSE listedBy[k]]
      BY <1>7 DEF ListUserKeys, KeeperStep, KeysTypes
  <2>2. toDelete' \in [Keeper -> SUBSET Nat] /\ \A p \in Keeper : p # o => toDelete'[p] = toDelete[p]
      BY <2>1 DEF KeysTypes
  <2>3. DOMAIN listedBy = 1..MaxIssued /\ listedBy' \in [1..MaxIssued -> SUBSET Keeper]
      BY <2>1 DEF KeysTypes
  <2>4. \A k \in 1..MaxIssued :
            listedBy[k] \subseteq listedBy'[k] /\ (k \in toDelete'[o] => o \in listedBy'[k])
      BY <2>1, <2>3
  <2>5. PrintedInv'
    <3>1. \A p \in Keeper : \A k \in toDelete'[p] \cap 1..MaxIssued : p \in listedBy'[k]
        BY <2>2, <2>4 DEF PrintedInv
    <3>2. \A p \in Keeper : kpc'[p] = "printed" => kpc[p] = "printed"
        BY <1>5, <2>1
    <3>3. ASSUME NEW p \in Keeper, kpc'[p] = "printed"
          PROVE  /\ printed[p] \in 1..MaxIssued
                 /\ printed[p] \in userKeys[iamUser[p]] \/ listedBy'[printed[p]] \ {p} # {}
        BY <2>4, <3>2, <3>3 DEF PrintedInv
    <3> QED
        BY <1>1, <2>1, <3>1, <3>3 DEF PrintedInv
  <2> QED
      BY <1>1, <1>4, <1>5, <2>1, <2>2, <2>3, <2>5 DEF KeysTypes
<1>8. CASE DeleteUserKey(o)
  <2>1. PICK k \in toDelete[o] :
            /\ toDelete' = [toDelete EXCEPT ![o] = @ \ {k}]
            /\ userKeys' = [userKeys EXCEPT ![iamUser[o]] = @ \ {k}]
      BY <1>8 DEF DeleteUserKey
  <2>2. UNCHANGED <<lastIssued, listedBy, printed>> /\ kpc'[o] # "printed" /\ kpc[o] = "delete"
      BY <1>8 DEF DeleteUserKey, KeeperStep, KeysTypes
  <2>3. toDelete' \in [Keeper -> SUBSET Nat] /\ \A p \in Keeper : toDelete'[p] \subseteq toDelete[p]
      BY <2>1 DEF KeysTypes
  <2>4. /\ userKeys' \in [IamUser -> SUBSET Nat]
        /\ \A u \in IamUser : \A m \in userKeys[u] : m # k => m \in userKeys'[u]
      BY <2>1 DEF KeysTypes
  <2>5. ASSUME NEW p \in Keeper, kpc'[p] = "printed"
        PROVE  /\ printed[p] \in 1..MaxIssued
               /\ printed[p] \in userKeys'[iamUser[p]] \/ listedBy[printed[p]] \ {p} # {}
    <3>1. p # o /\ kpc[p] = "printed" /\ iamUser[p] \in IamUser
        BY <1>5, <2>2, <2>5 DEF KeysTypes
    <3>2. /\ printed[p] \in 1..MaxIssued
          /\ printed[p] \in userKeys[iamUser[p]] \/ listedBy[printed[p]] \ {p} # {}
        BY <3>1 DEF PrintedInv
    <3>3. CASE printed[p] = k
      <4>1. o \in listedBy[k]
          BY <3>2, <3>3 DEF PrintedInv
      <4> QED
          BY <3>1, <3>2, <3>3, <4>1
    <3> QED
        BY <2>4, <3>1, <3>2, <3>3
  <2>6. PrintedInv'
    <3>1. \A p \in Keeper : \A m \in toDelete'[p] \cap 1..MaxIssued : p \in listedBy[m]
        BY <2>3 DEF PrintedInv
    <3> QED
        BY <1>1, <2>2, <2>5, <3>1 DEF PrintedInv
  <2> QED
      BY <1>1, <1>4, <1>5, <2>2, <2>3, <2>4, <2>6 DEF KeysTypes
<1>9. CASE CreateUserKey(o)
  <2>1. UNCHANGED <<toDelete, listedBy>> /\ lastIssued < MaxIssued
      BY <1>9 DEF CreateUserKey
  <2>2. CASE Cardinality(userKeys[iamUser[o]]) = 2
    <3>1. UNCHANGED <<userKeys, lastIssued, printed>> /\ kpc'[o] # "printed"
        BY <1>9, <2>2 DEF CreateUserKey, KeeperStep, KeysTypes
    <3>2. PrintedInv'
        BY <1>1, <1>2, <1>3, <2>1, <3>1, KeysUntouched
    <3> QED
        BY <1>1, <1>4, <1>5, <2>1, <3>1, <3>2 DEF KeysTypes
  <2>3. CASE Cardinality(userKeys[iamUser[o]]) # 2
    <3>1. /\ lastIssued' = lastIssued + 1 /\ printed' = [printed EXCEPT ![o] = lastIssued + 1]
          /\ userKeys' = [userKeys EXCEPT ![iamUser[o]] = @ \cup {lastIssued + 1}]
        BY <1>9, <2>3 DEF CreateUserKey
    <3>2. lastIssued + 1 \in Nat /\ lastIssued + 1 \in 1..MaxIssued
        BY <2>1, KeysAssumption DEF KeysTypes
    <3>3. /\ userKeys' \in [IamUser -> SUBSET Nat] /\ \A u \in IamUser : userKeys[u] \subseteq userKeys'[u]
          /\ lastIssued + 1 \in userKeys'[iamUser[o]]
        BY <3>1, <3>2 DEF KeysTypes
    <3>4. /\ printed' \in [Keeper -> Nat] /\ printed'[o] = lastIssued + 1
          /\ \A p \in Keeper : p # o => printed'[p] = printed[p]
        BY <3>1, <3>2 DEF KeysTypes
    <3>5. \A p \in Keeper : iamUser[p] \in IamUser
        BY DEF KeysTypes
    <3>6. ASSUME NEW p \in Keeper, kpc'[p] = "printed"
          PROVE  /\ printed'[p] \in 1..MaxIssued
                 /\ printed'[p] \in userKeys'[iamUser[p]] \/ listedBy[printed'[p]] \ {p} # {}
        BY <1>5, <3>2, <3>3, <3>4, <3>5, <3>6 DEF PrintedInv
    <3>7. PrintedInv'
        BY <1>1, <2>1, <3>6 DEF PrintedInv
    <3> QED
        BY <1>1, <1>4, <1>5, <2>1, <3>1, <3>2, <3>3, <3>4, <3>7 DEF KeysTypes
  <2> QED
      BY <2>2, <2>3
<1> QED
    BY <1>6, <1>7, <1>8, <1>9

\* The reset, failures and what an SRE begins again.
LEMMA ResetSteps ==
    ASSUME KeysTypes, PrintedInv, ResetInv, NEW o \in Keeper,
           DeleteSecretsOf(o) \/ GetAccount(o) \/ UpdateSpec(o) \/ PatchStatus(o) \/ KeeperFails(o) \/ KeeperAgain(o)
    PROVE  KeysTypes' /\ PrintedInv' /\ ResetInv'
<1> USE DEF iamState, objectState, keeperVars
<1>1. UNCHANGED <<userKeys, lastIssued, listedBy, printed, iamUser>>
    BY DEF DeleteSecretsOf, GetAccount, UpdateSpec, PatchStatus, KeeperFails, KeeperAgain
<1>2. /\ toDelete' \in [Keeper -> SUBSET Nat] /\ \A p \in Keeper : toDelete'[p] \subseteq toDelete[p]
    BY DEF DeleteSecretsOf, GetAccount, UpdateSpec, PatchStatus, KeeperFails, KeeperAgain, KeysTypes
<1>3. /\ KeeperStep(o, kpc[o], kpc'[o])
      /\ kpc'[o] \in {"get", "update", "status", "reset", "failed", "idle"}
    BY DEF DeleteSecretsOf, GetAccount, UpdateSpec, PatchStatus, KeeperFails, KeeperAgain, KeeperStep, KeysTypes
<1>4. kpc'[o] \in KeeperPcs /\ kpc'[o] # "printed"
    BY <1>3 DEF KeeperPcs
<1>5. /\ kpc' \in [Keeper -> KeeperPcs] /\ \A p \in Keeper : p # o => kpc'[p] = kpc[p]
    BY <1>3, <1>4, KeeperStepAlone
<1>6. PrintedInv'
    BY <1>1, <1>2, <1>3, <1>4, KeysUntouched
<1>7. CASE DeleteSecretsOf(o)
  <2>1. /\ object' = object /\ ownSecret' = FALSE /\ kpc'[o] = "get"
        /\ claimedSince' = [claimedSince EXCEPT ![o] = FALSE]
      BY <1>7 DEF DeleteSecretsOf, KeeperStep, KeysTypes
  <2>2. claimedSince' \in [Keeper -> BOOLEAN] /\ \A p \in Keeper : p # o => claimedSince'[p] = claimedSince[p]
      BY <2>1 DEF KeysTypes
  <2>3. ResetInv'
      BY <1>5, <2>1, <2>2 DEF ResetInv
  <2> QED
      BY <1>1, <1>2, <1>5, <1>6, <2>1, <2>2, <2>3 DEF KeysTypes
<1>8. CASE GetAccount(o)
  <2>1. UNCHANGED <<object, ownSecret, claimedSince>> /\ kpc'[o] = "update" /\ kpc[o] = "get"
      BY <1>8 DEF GetAccount, KeeperStep, KeysTypes
  <2>2. ResetInv'
      BY <1>5, <2>1 DEF ResetInv
  <2> QED
      BY <1>1, <1>2, <1>5, <1>6, <2>1, <2>2 DEF KeysTypes
<1>9. CASE UpdateSpec(o)
  <2>1. UNCHANGED <<ownSecret, claimedSince>> /\ kpc[o] = "update"
      BY <1>9 DEF UpdateSpec
  <2>2. \/ kpc'[o] = "failed" /\ object' = object
        \/ kpc'[o] = "status" /\ object' = [object EXCEPT !.link = FALSE, !.version = @ + 1]
      BY <1>9 DEF UpdateSpec, KeeperStep, KeysTypes
  <2>3. /\ object' \in [link : BOOLEAN, claimed : BOOLEAN, version : Nat]
        /\ object'.claimed = object.claimed
        /\ object'.link = object.link \/ ~object'.link
        /\ kpc'[o] = "status" => ~object'.link
    <3>1. object \in [link : BOOLEAN, claimed : BOOLEAN, version : Nat]
        BY DEF KeysTypes
    <3>2. CASE kpc'[o] = "failed" /\ object' = object
        BY <3>1, <3>2
    <3>3. CASE kpc'[o] = "status" /\ object' = [object EXCEPT !.link = FALSE, !.version = @ + 1]
      <4>1. object' = [link |-> FALSE, claimed |-> object.claimed, version |-> object.version + 1]
          BY <3>1, <3>3
      <4>2. object.claimed \in BOOLEAN /\ object.version + 1 \in Nat
          BY <3>1
      <4> QED
          BY <4>1, <4>2
    <3> QED
        BY <2>2, <3>2, <3>3
  <2>4. ResetInv'
      BY <1>5, <2>1, <2>2, <2>3 DEF ResetInv
  <2> QED
      BY <1>1, <1>2, <1>5, <1>6, <2>1, <2>3, <2>4 DEF KeysTypes
<1>10. CASE PatchStatus(o)
  <2>1. /\ UNCHANGED <<ownSecret, claimedSince>> /\ kpc[o] = "status" /\ kpc'[o] = "reset"
        /\ object' = [object EXCEPT !.claimed = FALSE, !.version = @ + 1]
      BY <1>10 DEF PatchStatus, KeeperStep, KeysTypes
  <2>2. /\ object' \in [link : BOOLEAN, claimed : BOOLEAN, version : Nat]
        /\ object'.link = object.link /\ ~object'.claimed
    <3>1. object \in [link : BOOLEAN, claimed : BOOLEAN, version : Nat]
        BY DEF KeysTypes
    <3>2. object' = [link |-> object.link, claimed |-> FALSE, version |-> object.version + 1]
        BY <2>1, <3>1
    <3>3. object.link \in BOOLEAN /\ object.version + 1 \in Nat
        BY <3>1
    <3> QED
        BY <3>2, <3>3
  <2>3. ResetInv'
      BY <1>5, <2>1, <2>2 DEF ResetInv
  <2> QED
      BY <1>1, <1>2, <1>5, <1>6, <2>1, <2>2, <2>3 DEF KeysTypes
<1>11. CASE KeeperFails(o) \/ KeeperAgain(o)
  <2>1. UNCHANGED <<object, ownSecret, claimedSince>> /\ kpc'[o] \notin {"get", "update", "status", "reset"}
      BY <1>11 DEF KeeperFails, KeeperAgain, KeeperStep, KeysTypes
  <2>2. ResetInv'
      BY <1>3, <1>4, <2>1, ResetUntouched
  <2> QED
      BY <1>1, <1>2, <1>5, <1>6, <2>1, <2>2 DEF KeysTypes
<1> QED
    BY <1>7, <1>8, <1>9, <1>10, <1>11

LEMMA KeysInvariant ==
    KeysTypes /\ PrintedInv /\ ResetInv /\ [KeysNext]_accountKeysVars => KeysTypes' /\ PrintedInv' /\ ResetInv'
<1> SUFFICES ASSUME KeysTypes, PrintedInv, ResetInv, [KeysNext]_accountKeysVars
             PROVE  KeysTypes' /\ PrintedInv' /\ ResetInv'
    OBVIOUS
<1> USE DEF iamState, objectState, keeperVars
<1>1. CASE ClaimAccount
  <2>1. UNCHANGED <<userKeys, lastIssued, kpc, iamUser, toDelete, printed, listedBy>>
      BY <1>1 DEF ClaimAccount
  <2>2. /\ ownSecret' = TRUE /\ claimedSince' = [o \in Keeper |-> TRUE]
        /\ object' \in [link : BOOLEAN, claimed : BOOLEAN, version : Nat]
      BY <1>1 DEF ClaimAccount, KeysTypes
  <2>3. KeysTypes'
      BY <2>1, <2>2 DEF KeysTypes
  <2>4. PrintedInv'
      BY <2>1 DEF PrintedInv
  <2>5. ResetInv'
      BY <2>2 DEF ResetInv
  <2> QED
      BY <2>3, <2>4, <2>5
<1>2. CASE UNCHANGED accountKeysVars
  <2>1. UNCHANGED <<userKeys, lastIssued, kpc, iamUser, toDelete, printed, listedBy, claimedSince, object, ownSecret>>
      BY <1>2 DEF accountKeysVars
  <2> QED
      BY <2>1 DEF KeysTypes, PrintedInv, ResetInv
<1> QED
    BY <1>1, <1>2, KeyCommands, ResetSteps DEF KeysNext

LEMMA KeysInvKept == PrintedInv /\ ResetInv => CommandsKeepTheirWord
BY DEF PrintedInv, ResetInv, CommandsKeepTheirWord

-----------------------------------------------------------------------------
(***************************************************************************)
(* Accounts are assigned once.                                             *)
(***************************************************************************)
LEMMA PoolStarts == PoolInit => PoolInv
BY DEF PoolInit, PoolInv

LEMMA PoolInvariant == PoolInv /\ [PoolNext]_poolVars => PoolInv'
<1> SUFFICES ASSUME PoolInv, [PoolNext]_poolVars PROVE PoolInv'
    OBVIOUS
<1>1. CASE UNCHANGED <<grants, ou>>
    BY <1>1 DEF PoolInv
<1>2. ASSUME NEW e \in PoolAdmin, MoveAccount(e) PROVE PoolInv'
  <2>1. CASE ou[At(e)] = "root" /\ At(e) \in Account
    <3>1. /\ ou' = [ou EXCEPT ![At(e)] = "developers"] /\ grants' = [grants EXCEPT ![At(e)] = @ \cup {e}]
          /\ grants[At(e)] = {}
        BY <1>2, <2>1 DEF MoveAccount, PoolInv
    <3>2. /\ ou' \in [Account -> {"root", "developers"}] /\ grants' \in [Account -> SUBSET PoolAdmin]
          /\ ou'[At(e)] = "developers" /\ grants'[At(e)] = {e}
          /\ \A a \in Account : a # At(e) => ou'[a] = ou[a] /\ grants'[a] = grants[a]
        BY <2>1, <3>1 DEF PoolInv
    <3> QED
        BY <2>1, <3>2 DEF PoolInv
  <2>2. CASE ~(ou[At(e)] = "root" /\ At(e) \in Account)
    <3>1. UNCHANGED <<grants, ou>>
        BY <1>2, <2>2 DEF MoveAccount, PoolInv
    <3> QED
        BY <3>1 DEF PoolInv
  <2> QED
      BY <2>1, <2>2
<1>3. ASSUME NEW e \in PoolAdmin, MoveBack(e) PROVE PoolInv'
  <2>1. /\ ou' = [ou EXCEPT ![At(e)] = "root"]
        /\ grants' = [grants EXCEPT ![At(e)] = IF ou[At(e)] = "root" THEN @ ELSE {}]
      BY <1>3 DEF MoveBack
  <2>2. /\ ou' \in [Account -> {"root", "developers"}] /\ grants' \in [Account -> SUBSET PoolAdmin]
        /\ \A a \in Account : grants'[a] \in {grants[a], {}}
        /\ \A a \in Account : a # At(e) => ou'[a] = ou[a] /\ grants'[a] = grants[a]
        /\ At(e) \in Account => grants'[At(e)] = {}
      BY <2>1 DEF PoolInv
  <2> QED
      BY <2>2 DEF PoolInv
<1>4. ASSUME NEW e \in PoolAdmin,
             \/ AssignGiven(e) \/ FindUntagged(e) \/ BuildAccount(e) \/ TagAccount(e) \/ MakeIamUser(e)
             \/ Unassign(e) \/ Untag(e) \/ CleanAccount(e) \/ DeleteUsers(e) \/ PoolFails(e) \/ NextRun(e)
      PROVE  UNCHANGED <<grants, ou>>
    BY <1>4 DEF AssignGiven, FindUntagged, BuildAccount, TagAccount, MakeIamUser, Unassign, Untag,
       CleanAccount, DeleteUsers, PoolFails, NextRun, organisation
<1>5. CASE PoolNext
    BY <1>1, <1>2, <1>3, <1>4, <1>5 DEF PoolNext
<1>6. CASE UNCHANGED poolVars
    BY <1>1, <1>6 DEF poolVars
<1> QED
    BY <1>5, <1>6

LEMMA PoolInvOnce == PoolInv => AssignedOnce
<1> SUFFICES ASSUME PoolInv, NEW a \in Account PROVE Cardinality(grants[a]) <= 1
    BY DEF AssignedOnce
<1>1. CASE grants[a] = {}
    BY <1>1, FS_EmptySet
<1>2. CASE \E e \in PoolAdmin : grants[a] = {e}
  <2>1. PICK e \in PoolAdmin : grants[a] = {e}
      BY <1>2
  <2>2. Cardinality({e}) = 1
      BY FS_Singleton
  <2> QED
      BY <2>1, <2>2
<1> QED
    BY <1>1, <1>2 DEF PoolInv

-----------------------------------------------------------------------------
(***************************************************************************)
(* The refresh is orderly.                                                 *)
(***************************************************************************)
LEMMA RefreshStarts == Refresh!Init => RefreshInv
<1> SUFFICES ASSUME Refresh!Init PROVE RefreshInv
    OBVIOUS
<1> USE DEF Refresh!Init, Refresh!CR, Refresh!Absent
<1>1. N \in Nat /\ 1 \in 1..N
    BY RefreshAssumption
<1>2. crSecret \in [1..N -> {0, 1}] /\ made = [c \in 1..N |-> 1] /\ first = crSecret
    OBVIOUS
<1>3. RefreshTypes
  <2>1. crSecret \in [1..N -> Nat] /\ made \in [1..N -> Nat] /\ first \in [1..N -> Nat]
      BY <1>2
  <2>2. /\ doomed = {} /\ idx = 1 /\ oldUID = 0 /\ deleted = {} /\ expired = {} /\ agreed = {}
        /\ swapped = FALSE /\ crPc = "idle"
      OBVIOUS
  <2>3. /\ 0 \in Nat /\ {} \subseteq 1..N /\ swapped \in BOOLEAN
        /\ crPc \in {"idle", "done", "paused", "failed", "read", "delete", "wait", "waitAbsent", "ask"}
      BY <2>2
  <2> QED
      BY <1>1, <2>1, <2>2, <2>3 DEF RefreshTypes
<1>4. ObjectInv
    BY <1>2 DEF ObjectInv
<1> QED
    BY <1>3, <1>4 DEF RefreshInv, DeletedInv, WaitInv, PassedInv, Running

\* A step of the process leaves the cluster alone, unless it deletes a secret.
LEMMA NextSecretTaken ==
    ASSUME RefreshInv, Refresh!NextSecret
    PROVE  \/ idx = N /\ crPc' = "done" /\ idx' = idx
           \/ idx # N /\ crPc' = "read" /\ idx' = idx + 1 /\ idx' \in 1..N
<1>1. N \in Nat /\ idx \in 1..N
    BY RefreshAssumption DEF RefreshInv, RefreshTypes
<1>2. idx # N => idx + 1 \in 1..N
    BY <1>1
<1>3. CASE idx = N
    BY <1>3 DEF Refresh!NextSecret
<1>4. CASE idx # N
    BY <1>2, <1>4 DEF Refresh!NextSecret
<1> QED
    BY <1>3, <1>4

\* The list goes on to the next secret when the one at hand has been replaced, or when
\* it has not and the run knows.
LEMMA RefreshPasses ==
    ASSUME RefreshInv, Refresh!NextSecret, crPc \in {"wait", "waitAbsent", "ask"},
           UNCHANGED <<crSecret, doomed, made, oldUID, first, deleted, swapped>>,
           expired' \subseteq 1..N, agreed' \subseteq 1..N, expired \subseteq expired', agreed \subseteq agreed',
           ~swapped /\ idx' # idx /\ idx \in deleted => idx \in agreed' \/ (crSecret[idx] # 0 /\ idx \notin doomed),
           ~swapped /\ expired' = {} => Renewed(idx)
    PROVE  RefreshInv'
<1> USE DEF RefreshInv
<1>1. RefreshTypes'
    BY NextSecretTaken DEF RefreshTypes
<1>2. ObjectInv'
    BY DEF ObjectInv
<1>3. \A c \in 1..N : c \in Int /\ idx \in Int /\ N \in Int /\ c <= N
    BY RefreshAssumption DEF RefreshTypes
<1>4. DeletedInv'
  <2>1. \A c \in deleted : c \in 1..N /\ c <= idx
      BY <1>3 DEF DeletedInv, RefreshTypes
  <2> QED
      BY <1>3, <2>1, NextSecretTaken DEF DeletedInv
<1>5. WaitInv'
    BY NextSecretTaken DEF WaitInv
<1>6. PassedInv'
  <2>1. \A c \in 1..N : Renewed(c)' = Renewed(c)
      BY DEF Renewed
  <2>2. crPc \in Running
      BY DEF Running
  <2>3. expired' = {} => expired = {}
      OBVIOUS
  <2>4. CASE idx = N /\ crPc' = "done" /\ idx' = idx
    <3>1. ~swapped /\ expired' = {} => \A c \in 1..N : Renewed(c)
        BY <1>3, <2>2, <2>3, <2>4 DEF PassedInv
    <3> QED
        BY <2>1, <2>4, <3>1 DEF PassedInv, Running
  <2>5. CASE idx # N /\ crPc' = "read" /\ idx' = idx + 1
    <3>1. \A c \in 1..N : c < idx' => c < idx \/ c = idx
        BY <1>3, <2>5
    <3>2. ASSUME ~swapped, NEW c \in deleted, c < idx'
          PROVE  c \in agreed' \/ (crSecret[c] # 0 /\ c \notin doomed)
      <4>1. c \in 1..N /\ idx' # idx
          BY <1>3, <2>5 DEF RefreshTypes
      <4> QED
          BY <2>2, <3>1, <3>2, <4>1 DEF PassedInv
    <3>3. ~swapped /\ expired' = {} => \A c \in 1..N : c < idx' => Renewed(c)
        BY <2>2, <2>3, <3>1 DEF PassedInv
    <3> QED
        BY <2>1, <2>5, <3>2, <3>3 DEF PassedInv
  <2> QED
      BY <2>4, <2>5, NextSecretTaken
<1> QED
    BY <1>1, <1>2, <1>4, <1>5, <1>6

LEMMA RefreshSteps ==
    ASSUME RefreshInv, Refresh!Run \/ Refresh!Fail
    PROVE  RefreshInv'
<1> USE DEF RefreshInv, Refresh!cluster, Refresh!CR, Refresh!Absent, Refresh!Ended
<1>1. CASE Refresh!Begin
  <2>1. /\ crPc' = "read" /\ idx' = 1 /\ first' = crSecret /\ deleted' = {} /\ expired' = {} /\ agreed' = {}
        /\ swapped' = FALSE /\ UNCHANGED <<crSecret, doomed, made, oldUID>>
      BY <1>1 DEF Refresh!Begin
  <2>2. 1 \in 1..N
      BY RefreshAssumption
  <2>3. RefreshTypes'
      BY <2>1, <2>2 DEF RefreshTypes
  <2>4. ObjectInv'
      BY <2>1 DEF ObjectInv, RefreshTypes
  <2>5. DeletedInv' /\ WaitInv' /\ PassedInv'
      BY <2>1 DEF DeletedInv, WaitInv, PassedInv
  <2> QED
      BY <2>3, <2>4, <2>5
<1>2. CASE Refresh!ReadSecret
  <2>1. /\ crPc = "read" /\ oldUID' = crSecret[idx]
        /\ crPc' = IF crSecret[idx] = 0 THEN "waitAbsent" ELSE "delete"
        /\ UNCHANGED <<crSecret, doomed, made, idx, first, deleted, expired, agreed, swapped>>
      BY <1>2 DEF Refresh!ReadSecret
  <2>2. RefreshTypes'
      BY <2>1 DEF RefreshTypes
  <2>3. ObjectInv'
      BY <2>1 DEF ObjectInv
  <2>4. DeletedInv'
      BY <2>1 DEF DeletedInv
  <2>5. WaitInv'
    <3>1. /\ crSecret[idx] \in {0, made[idx]} /\ first[idx] <= made[idx]
          /\ (idx \in doomed => crSecret[idx] # 0) /\ made[idx] \in Nat
        BY DEF ObjectInv, RefreshTypes
    <3> QED
        BY <2>1, <3>1 DEF WaitInv
  <2>6. PassedInv'
      BY <2>1 DEF PassedInv, Running, Renewed
  <2> QED
      BY <2>2, <2>3, <2>4, <2>5, <2>6
<1>3. CASE Refresh!DeleteSecret
  <2>1. /\ crPc = "delete" /\ crPc' = "wait" /\ deleted' = deleted \cup {idx}
        /\ swapped' = (swapped \/ crSecret[idx] \notin {0, oldUID})
        /\ UNCHANGED <<made, idx, oldUID, first, expired, agreed>>
      BY <1>3 DEF Refresh!DeleteSecret
  <2>2. \/ crSecret' = [crSecret EXCEPT ![idx] = 0] /\ doomed' = doomed \ {idx}
        \/ crSecret[idx] # 0 /\ doomed' = doomed \cup {idx} /\ crSecret' = crSecret
      BY <1>3 DEF Refresh!DeleteSecret
  <2>3. /\ crSecret' \in [1..N -> Nat] /\ doomed' \subseteq 1..N
        /\ \A c \in 1..N : c # idx => crSecret'[c] = crSecret[c] /\ (c \in doomed' <=> c \in doomed)
        /\ idx \in doomed' => crSecret'[idx] = crSecret[idx] /\ crSecret[idx] # 0
        /\ crSecret'[idx] \in {0, crSecret[idx]}
    <3>1. crSecret \in [1..N -> Nat] /\ doomed \subseteq 1..N /\ idx \in 1..N /\ 0 \in Nat
        BY DEF RefreshTypes
    <3>2. CASE crSecret' = [crSecret EXCEPT ![idx] = 0] /\ doomed' = doomed \ {idx}
        BY <3>1, <3>2
    <3>3. CASE crSecret[idx] # 0 /\ doomed' = doomed \cup {idx} /\ crSecret' = crSecret
        BY <3>1, <3>3
    <3> QED
        BY <2>2, <3>2, <3>3
  <2>4. RefreshTypes'
      BY <2>1, <2>3 DEF RefreshTypes
  <2>5. ObjectInv'
      BY <2>1, <2>3 DEF ObjectInv, RefreshTypes
  <2>6. \A c \in deleted : c \in 1..N /\ c < idx
      BY <2>1 DEF DeletedInv, RefreshTypes
  <2>7. DeletedInv'
      BY <2>1, <2>6 DEF DeletedInv, RefreshTypes
  <2>8. WaitInv'
    <3>1. oldUID # 0 /\ first[idx] <= oldUID /\ oldUID <= made[idx]
        BY <2>1 DEF WaitInv
    <3>2. ~swapped' /\ idx \in doomed' => crSecret'[idx] = oldUID
        BY <2>1, <2>3
    <3> QED
        BY <2>1, <3>1, <3>2 DEF WaitInv
  <2>9. \A c \in 1..N : c < idx => Renewed(c)' = Renewed(c) /\ crSecret'[c] = crSecret[c] /\ (c \in doomed' <=> c \in doomed)
      BY <2>1, <2>3 DEF Renewed, RefreshTypes
  <2>10. PassedInv'
    <3>1. ~swapped' => ~swapped
        BY <2>1
    <3>2. crPc \in Running
        BY <2>1 DEF Running
    <3>3. ASSUME ~swapped', NEW c \in deleted', c < idx
          PROVE  c \in agreed \/ (crSecret'[c] # 0 /\ c \notin doomed')
      <4>1. c \in deleted /\ c \in 1..N
          BY <2>1, <2>6, <3>3 DEF RefreshTypes
      <4> QED
          BY <2>9, <3>1, <3>2, <3>3, <4>1 DEF PassedInv
    <3>4. ~swapped' /\ expired = {} => \A c \in 1..N : c < idx => Renewed(c)'
        BY <2>9, <3>1, <3>2 DEF PassedInv
    <3> QED
        BY <2>1, <3>3, <3>4 DEF PassedInv
  <2> QED
      BY <2>4, <2>5, <2>7, <2>8, <2>10
<1>4. CASE Refresh!SecretRecreated
  <2>1. /\ crPc \in {"wait", "waitAbsent"} /\ Refresh!NextSecret
        /\ UNCHANGED <<crSecret, doomed, made, oldUID, first, deleted, expired, agreed, swapped>>
        /\ crSecret[idx] # 0 /\ (oldUID # 0 => crSecret[idx] # oldUID)
      BY <1>4 DEF Refresh!SecretRecreated, Refresh!Seen
  <2>2. ~swapped => Renewed(idx) /\ idx \notin doomed
    <3>1. crSecret[idx] = made[idx] /\ made[idx] \in Nat /\ first[idx] \in Nat /\ oldUID \in Nat
        BY <2>1 DEF ObjectInv, RefreshTypes
    <3>2. CASE crPc = "wait"
        BY <2>1, <3>1, <3>2 DEF WaitInv, Renewed
    <3>3. CASE crPc = "waitAbsent"
        BY <2>1, <3>1, <3>3 DEF WaitInv, Renewed
    <3> QED
        BY <2>1, <3>2, <3>3
  <2>3. expired \subseteq 1..N /\ agreed \subseteq 1..N
      BY DEF RefreshTypes
  <2> QED
      BY <2>1, <2>2, <2>3, RefreshPasses
<1>5. CASE Refresh!Expire
  <2>1. /\ crPc \in {"wait", "waitAbsent"} /\ expired' = expired \cup {idx}
        /\ UNCHANGED <<crSecret, doomed, made, oldUID, first, deleted, agreed, swapped>>
      BY <1>5 DEF Refresh!Expire
  <2>2. expired' \subseteq 1..N /\ agreed \subseteq 1..N /\ expired' # {}
      BY <2>1 DEF RefreshTypes
  <2>3. CASE crPc = "wait" /\ idx < N
    <3>1. crPc' = "ask" /\ idx' = idx
        BY <1>5, <2>3 DEF Refresh!Expire
    <3>2. RefreshTypes' /\ ObjectInv' /\ DeletedInv' /\ WaitInv'
        BY <2>1, <2>2, <2>3, <3>1 DEF RefreshTypes, ObjectInv, DeletedInv, WaitInv
    <3>3. PassedInv'
        BY <2>1, <2>2, <2>3, <3>1 DEF PassedInv, Running
    <3> QED
        BY <3>2, <3>3
  <2>4. CASE ~(crPc = "wait" /\ idx < N)
    <3>1. Refresh!NextSecret
        BY <1>5, <2>4 DEF Refresh!Expire
    <3>2. idx' # idx => idx \notin deleted
      <4>1. idx' # idx => idx # N
          BY <3>1, NextSecretTaken
      <4>2. idx # N => idx < N
          BY RefreshAssumption DEF RefreshTypes
      <4>3. idx' # idx => crPc = "waitAbsent"
          BY <2>1, <2>4, <4>1, <4>2
      <4> QED
          BY <4>3 DEF DeletedInv, RefreshTypes
    <3> QED
        BY <2>1, <2>2, <3>1, <3>2, RefreshPasses
  <2> QED
      BY <2>3, <2>4
<1>6. CASE Refresh!Answer
  <2>1. crPc = "ask" /\ UNCHANGED <<crSecret, doomed, made, oldUID, first, deleted, expired, swapped>>
      BY <1>6 DEF Refresh!Answer
  <2>2. CASE Refresh!NextSecret /\ agreed' = agreed \cup {idx}
    <3>1. expired \subseteq 1..N /\ agreed' \subseteq 1..N /\ idx \in agreed' /\ expired # {}
        BY <2>1, <2>2 DEF RefreshTypes, WaitInv
    <3> QED
        BY <2>1, <2>2, <3>1, RefreshPasses
  <2>3. CASE crPc' = "paused" /\ UNCHANGED <<idx, agreed>>
      BY <2>1, <2>3 DEF RefreshTypes, ObjectInv, DeletedInv, WaitInv, PassedInv, Running
  <2> QED
      BY <1>6, <2>2, <2>3 DEF Refresh!Answer
<1>7. CASE Refresh!Fail
  <2>1. /\ crPc' = "failed"
        /\ UNCHANGED <<crSecret, doomed, made, idx, oldUID, first, deleted, expired, agreed, swapped>>
      BY <1>7 DEF Refresh!Fail
  <2> QED
      BY <2>1 DEF RefreshTypes, ObjectInv, DeletedInv, WaitInv, PassedInv, Running
<1> QED
    BY <1>1, <1>2, <1>3, <1>4, <1>5, <1>6, <1>7 DEF Refresh!Run

\* CCO and the API server, at any time.
LEMMA ClusterSteps ==
    ASSUME RefreshInv, NEW c \in 1..N, Refresh!RecreateSecret(c) \/ Refresh!Vanish(c)
    PROVE  RefreshInv'
<1> USE DEF RefreshInv, Refresh!process, Refresh!CR, Refresh!Absent
<1>1. UNCHANGED <<crPc, idx, oldUID, first, deleted, expired, agreed, swapped>>
    BY DEF Refresh!RecreateSecret, Refresh!Vanish
<1>2. CASE Refresh!RecreateSecret(c)
  <2>1. /\ crSecret[c] = 0 /\ doomed' = doomed /\ made' = [made EXCEPT ![c] = @ + 1]
        /\ crSecret' = [crSecret EXCEPT ![c] = made'[c]]
      BY <1>2 DEF Refresh!RecreateSecret
  <2>2. made \in [1..N -> Nat] /\ crSecret \in [1..N -> Nat] /\ made[c] \in Nat /\ first[c] \in Nat
      BY DEF RefreshTypes
  <2>3. /\ made' \in [1..N -> Nat] /\ made'[c] = made[c] + 1
        /\ \A d \in 1..N : d # c => made'[d] = made[d]
      BY <2>1, <2>2
  <2>4. /\ crSecret' \in [1..N -> Nat] /\ crSecret'[c] = made[c] + 1
        /\ \A d \in 1..N : d # c => crSecret'[d] = crSecret[d]
      BY <2>1, <2>2, <2>3
  <2>5. RefreshTypes'
      BY <1>1, <2>1, <2>3, <2>4 DEF RefreshTypes
  <2>6. first[c] <= made[c] /\ made[c] + 1 > first[c] /\ made[c] + 1 > 0 /\ c \notin doomed
      BY <2>1, <2>2 DEF ObjectInv
  <2>7. ObjectInv'
    <3>1. ASSUME NEW d \in 1..N
          PROVE  /\ crSecret'[d] \in {0, made'[d]} /\ first[d] <= made'[d] /\ made'[d] > 0
                 /\ d \in doomed => crSecret'[d] # 0
      <4>1. CASE d = c
          BY <2>2, <2>3, <2>4, <2>6, <4>1
      <4>2. CASE d # c
          BY <2>3, <2>4, <4>2 DEF ObjectInv
      <4> QED
          BY <4>1, <4>2
    <3> QED
        BY <1>1, <2>1, <3>1 DEF ObjectInv
  <2>8. DeletedInv'
      BY <1>1 DEF DeletedInv
  <2>9. WaitInv'
    <3>1. CASE idx = c
        BY <1>1, <2>1, <2>2, <2>3, <2>4, <2>6, <3>1 DEF WaitInv, RefreshTypes
    <3>2. CASE idx # c
      <4>1. crSecret'[idx] = crSecret[idx] /\ made'[idx] = made[idx]
          BY <2>3, <2>4, <3>2 DEF RefreshTypes
      <4> QED
          BY <1>1, <2>1, <4>1 DEF WaitInv
    <3> QED
        BY <3>1, <3>2
  <2>10. \A d \in 1..N : (Renewed(d) => Renewed(d)') /\ (crSecret[d] # 0 => crSecret'[d] # 0)
      BY <1>1, <2>1, <2>2, <2>4, <2>6 DEF Renewed
  <2>11. PassedInv'
    <3>1. \A d \in deleted : d \in 1..N
        BY DEF RefreshTypes
    <3> QED
        BY <1>1, <2>1, <2>10, <3>1 DEF PassedInv
  <2> QED
      BY <2>5, <2>7, <2>8, <2>9, <2>11
<1>3. CASE Refresh!Vanish(c)
  <2>1. c \in doomed /\ doomed' = doomed \ {c} /\ made' = made /\ crSecret' = [crSecret EXCEPT ![c] = 0]
      BY <1>3 DEF Refresh!Vanish
  <2>2. /\ crSecret' \in [1..N -> Nat] /\ crSecret'[c] = 0
        /\ \A d \in 1..N : d # c => crSecret'[d] = crSecret[d]
      BY <2>1 DEF RefreshTypes
  <2>3. RefreshTypes'
      BY <1>1, <2>1, <2>2 DEF RefreshTypes
  <2>4. ObjectInv'
      BY <1>1, <2>1, <2>2 DEF ObjectInv, RefreshTypes
  <2>5. DeletedInv'
      BY <1>1 DEF DeletedInv
  <2>6. WaitInv'
      BY <1>1, <2>1, <2>2 DEF WaitInv, RefreshTypes
  <2>7. \A d \in 1..N : Renewed(d) => Renewed(d)'
      BY <1>1, <2>1, <2>2 DEF Renewed
  <2>8. \A d \in 1..N : crSecret[d] # 0 /\ d \notin doomed => crSecret'[d] # 0 /\ d \notin doomed'
      BY <2>1, <2>2
  <2>9. PassedInv'
    <3>1. \A d \in deleted : d \in 1..N
        BY DEF RefreshTypes
    <3> QED
        BY <1>1, <2>7, <2>8, <3>1 DEF PassedInv
  <2> QED
      BY <2>3, <2>4, <2>5, <2>6, <2>9
<1> QED
    BY <1>2, <1>3

LEMMA RefreshInvariant == RefreshInv /\ [Refresh!Next]_refreshVars => RefreshInv'
<1> SUFFICES ASSUME RefreshInv, [Refresh!Next]_refreshVars PROVE RefreshInv'
    OBVIOUS
<1>1. CASE UNCHANGED <<crSecret, doomed, made, crPc, idx, oldUID, first, deleted, expired, agreed, swapped>>
    BY <1>1 DEF RefreshInv, RefreshTypes, ObjectInv, DeletedInv, WaitInv, PassedInv, Renewed
<1>2. ASSUME NEW c \in 1..N, Refresh!ProvisionFails(c) PROVE RefreshInv'
    BY <1>1, <1>2 DEF Refresh!ProvisionFails, Refresh!process
<1>3. CASE Refresh!CcoStopsOrStarts
    BY <1>1, <1>3 DEF Refresh!CcoStopsOrStarts, Refresh!process, Refresh!cluster
<1>4. CASE UNCHANGED refreshVars
    BY <1>1, <1>4 DEF refreshVars
<1> QED
    BY <1>2, <1>3, <1>4, RefreshSteps, ClusterSteps DEF Refresh!Next, Refresh!CR

LEMMA RefreshInvOrderly == RefreshInv => RefreshIsOrderly
<1> SUFFICES ASSUME RefreshInv PROVE RefreshIsOrderly
    OBVIOUS
<1> USE DEF RefreshInv, Refresh!CR, Refresh!Absent, Refresh!Ended
<1>1. Refresh!OneAtATime
  <2> SUFFICES ASSUME crPc \notin {"idle", "done", "paused", "failed"}, ~swapped, NEW c \in 1..N, Refresh!Gone(c)
               PROVE  c = idx \/ c \in agreed
      BY DEF Refresh!OneAtATime
  <2>1. c \in deleted /\ (crSecret[c] = 0 \/ c \in doomed)
      BY DEF Refresh!Gone
  <2>2. crPc \in Running
      BY DEF RefreshTypes, Running
  <2>3. c \in Int /\ idx \in Int /\ (c < idx \/ c = idx)
      BY <2>1, <2>2 DEF DeletedInv, Running, RefreshTypes
  <2> QED
      BY <2>1, <2>2, <2>3 DEF PassedInv
<1>2. Refresh!AllRenewed
    BY DEF Refresh!AllRenewed, PassedInv, Renewed, RefreshTypes
<1> QED
    BY <1>1, <1>2 DEF RefreshIsOrderly, OneAtATime, AllRenewed

-----------------------------------------------------------------------------
(***************************************************************************)
(* The commands together: each step is a step of one of them, and what the *)
(* others look at is untouched by it.                                      *)
(***************************************************************************)
LEMMA CommandsStart == AccountInit => IInv
<1> SUFFICES ASSUME AccountInit PROVE IInv
    OBVIOUS
<1>1. Init /\ Refresh!Init
    BY DEF AccountInit, InitCommand, NoRotation
<1>2. DiagnosisInit /\ KeysInit /\ PoolInit
    BY DEF AccountInit
<1> QED
    BY <1>1, <1>2, RotationStarts, RefreshStarts, DiagnosisStarts, KeysStart, PoolStarts DEF IInv

AccountStep == [Creds \/ Diagnose \/ Keys \/ Pool \/ Rest]_<<allVars, accountVars>>

LEMMA StepsOfParts ==
    ASSUME AccountStep
    PROVE  /\ [Next]_vars /\ [Refresh!Next]_refreshVars /\ [DiagnosisNext]_diagnosisVars
           /\ [KeysNext]_accountKeysVars /\ [PoolNext]_poolVars
<1> USE DEF accountVars, allVars
<1>1. UNCHANGED rotateVars => UNCHANGED vars
    BY DEF rotateVars, vars
<1>2. CASE Creds
  <2>1. UNCHANGED <<diagnosisVars, accountKeysVars, poolVars>>
      BY <1>2 DEF Creds
  <2>2. /\ Next \/ UNCHANGED rotateVars
        /\ Refresh!Next \/ UNCHANGED refreshVars
      BY <1>2 DEF Creds, Rotate, RefreshStep, Exhausted
  <2> QED
      BY <1>1, <2>1, <2>2
<1>3. CASE Diagnose
  <2>1. DiagnosisNext /\ UNCHANGED <<rotateVars, refreshVars, accountKeysVars, poolVars>>
      BY <1>3 DEF Diagnose
  <2> QED
      BY <1>1, <2>1
<1>4. CASE Keys
  <2>1. KeysNext /\ UNCHANGED <<rotateVars, refreshVars, diagnosisVars, poolVars>>
      BY <1>4 DEF Keys
  <2> QED
      BY <1>1, <2>1
<1>5. CASE Pool
  <2>1. PoolNext /\ UNCHANGED <<rotateVars, refreshVars, diagnosisVars, accountKeysVars>>
      BY <1>5 DEF Pool
  <2> QED
      BY <1>1, <2>1
<1>6. CASE Rest \/ UNCHANGED <<allVars, accountVars>>
  <2>1. UNCHANGED <<rotateVars, refreshVars, diagnosisVars, accountKeysVars, poolVars>>
      BY <1>6 DEF Rest
  <2> QED
      BY <1>1, <2>1
<1> QED
    BY <1>2, <1>3, <1>4, <1>5, <1>6 DEF AccountStep

LEMMA CommandsInvariant == IInv /\ AccountStep => IInv'
BY StepsOfParts, RotationInvariant, RefreshInvariant, DiagnosisInvariant, KeysInvariant, PoolInvariant DEF IInv

LEMMA AlwaysIInv == AccountSpec => []IInv
<1>1. IInv /\ [Creds \/ Diagnose \/ Keys \/ Pool \/ Rest]_<<allVars, accountVars>> => IInv'
    BY CommandsInvariant DEF AccountStep
<1> QED
    BY <1>1, CommandsStart, PTL DEF AccountSpec

\* A rotation, however it fails and is run again, never leaves the cluster or a secret
\* with a key that does not work, nor a key that nobody has.  (A lost answer to the update
\* of a secret is what `dirty` excepts from the last two.)
THEOREM RotationSafe == AccountSpec => []RotationIsSafe
<1>1. IInv => RotationIsSafe
    BY RotationInvSafe DEF IInv
<1> QED
    BY <1>1, AlwaysIInv, PTL

\* A refresh takes the secrets one at a time, and has replaced them all if none timed
\* out, for any number of credential requests and whatever CCO does.
THEOREM RefreshOrderly == AccountSpec => []RefreshIsOrderly
<1>1. IInv => RefreshIsOrderly
    BY RefreshInvOrderly DEF IInv
<1> QED
    BY <1>1, AlwaysIInv, PTL

\* "No issues found" is true of what nobody has changed since the run began.
THEOREM CleanBillTrue == AccountSpec => []CleanBillIsTrue
<1>1. IInv => CleanBillIsTrue
    BY DiagnosisInvTrue DEF IInv
<1> QED
    BY <1>1, AlwaysIInv, PTL

\* Any number of SREs and administrators at work: a printed key works until another has
\* listed it, a reset frees the account, and an account is assigned to one at a time.
THEOREM AccountsKept == AccountSpec => []AccountsKeepTheirWord
<1>1. IInv => AccountsKeepTheirWord
    BY KeysInvKept, PoolInvOnce DEF IInv, AccountsKeepTheirWord
<1> QED
    BY <1>1, AlwaysIInv, PTL
===============================================================================
