----------------------------- MODULE AccountCommands -----------------------------
(***************************************************************************)
(* `osdctl account`: the rotation of the credentials of a cluster's        *)
(* account (`aws-creds rotate`: its flags choose between the keys, module  *)
(* SecretRotation, and with --refresh-secrets alone the deletions of       *)
(* CredentialRefresh) and their diagnosis (CredsDiagnosis), the commands   *)
(* that make and delete keys of IAM users and free an account              *)
(* (AccountKeys), and the pool from which accounts are assigned to         *)
(* developers (AccountPool).  The commands of a behaviour are of one of    *)
(* the four.                                                               *)
(***************************************************************************)
EXTENDS SecretRotation, CredsDiagnosis, AccountKeys, AccountPool

CONSTANTS N, MaxRuns     \* of CredentialRefresh

ASSUME RefreshAssumption == N \in Nat \ {0} /\ MaxRuns \in Nat \ {0}

VARIABLES
    command,    \* the command given
    crSecret, doomed, made, provisioned, failing, cco, crPc, idx, oldUID, runs,
    first, deleted, expired, agreed, swapped    \* of CredentialRefresh

Refresh == INSTANCE CredentialRefresh WITH secret <- crSecret, pc <- crPc

rotateVars == <<remote, plainOnly, pc, process, used, dirty, faults>>
refreshVars == <<crSecret, doomed, made, provisioned, failing, cco, crPc, idx, oldUID,
                 runs, first, deleted, expired, agreed, swapped>>
allVars == <<command, rotateVars, refreshVars>>

\* What a command does not look at has one value.
InitCommand ==
    /\ Init /\ Refresh!Init
    /\ \/ command = "rotate" /\ cco /\ \A c \in Refresh!CR : crSecret[c] = 1
       \/ command = "refresh" /\ ~plainOnly /\ \A s \in DOMAIN secret : secret[s] # Missing

Rotate == command = "rotate" /\ Next /\ UNCHANGED <<command, refreshVars>>
RefreshStep == command = "refresh" /\ Refresh!Next /\ UNCHANGED <<command, rotateVars>>
RefreshRun == command = "refresh" /\ Refresh!Run /\ UNCHANGED <<command, rotateVars>>

\* All the keys the bound allows have been created.
Exhausted == issued = MaxKeys /\ UNCHANGED allVars
-----------------------------------------------------------------------------
\* What the commands given do not look at has one value.
NoRotation ==
    /\ plainOnly = FALSE /\ secret = [s \in {"account", "aws", "byoc"} |-> IF s = "byoc" THEN 2 ELSE 1]
    /\ cco = TRUE /\ crSecret = [c \in Refresh!CR |-> 1] /\ provisioned = [c \in Refresh!CR |-> TRUE]
    /\ Init /\ Refresh!Init
NoDiagnosis ==
    /\ liveKeys = {} /\ clusterUp = FALSE /\ isCCS = FALSE /\ rootKey = NoSecret
    /\ hiveSecret = [account |-> CHOOSE k \in AdminKey : TRUE, aws |-> NoSecret, byoc |-> NoSecret]
NoKeys ==
    /\ userExists = {} /\ mode = [o \in Keeper |-> "reset"]
    /\ iamUser = [o \in Keeper |-> CHOOSE u \in IamUser : TRUE]
NoPool == suspended = {} /\ who = [e \in PoolAdmin |-> CHOOSE d \in Developer : TRUE]

AccountInit ==
    /\ \/ InitCommand
       \/ command \in {"diagnose", "keys", "pool"} /\ NoRotation
    /\ command = "diagnose" \/ NoDiagnosis
    /\ DiagnosisInit
    /\ command = "keys" \/ NoKeys
    /\ KeysInit
    /\ command = "pool" \/ NoPool
    /\ PoolInit

accountVars == <<diagnosisVars, accountKeysVars, poolVars>>

Creds == (Rotate \/ RefreshStep \/ Exhausted) /\ UNCHANGED accountVars
Diagnose == command = "diagnose" /\ DiagnosisNext /\ UNCHANGED <<allVars, accountKeysVars, poolVars>>
Keys == command = "keys" /\ KeysNext /\ UNCHANGED <<allVars, diagnosisVars, poolVars>>
Pool == command = "pool" /\ PoolNext /\ UNCHANGED <<allVars, diagnosisVars, accountKeysVars>>

\* The administrators give no more commands.
Rest == command \in {"diagnose", "keys", "pool"} /\ UNCHANGED <<allVars, accountVars>>

\* A refresh goes on: a wait ends at the latest when its deadline has passed, and the
\* SRE answers.  Nothing is assumed of CCO, of a rotation or of the other commands.
AccountSpec ==
    /\ AccountInit /\ [][Creds \/ Diagnose \/ Keys \/ Pool \/ Rest]_<<allVars, accountVars>>
    /\ WF_<<allVars, accountVars>>(RefreshRun /\ UNCHANGED accountVars)
-----------------------------------------------------------------------------
\* At no time is more than one credential secret missing that the SRE has not
\* agreed to go on without (CredentialRefresh).
OneAtATime == Refresh!OneAtATime

\* A refresh without a timeout has replaced every secret (CredentialRefresh).
AllRenewed == Refresh!AllRenewed

\* A refresh ends, whatever CCO does (CredentialRefresh).
RunEnds == Refresh!RunEnds

\* A rotation never leaves a secret whose key does not work, the user without the key
\* that is in use, or a key that nobody has (SecretRotation).
RotationIsSafe == RootStaysLive /\ SecretsHoldLiveKeys /\ NoOrphanKey

\* A refresh without a timeout has replaced every secret, and at no time is more than
\* one missing that the SRE has not agreed to go on without (CredentialRefresh).
RefreshIsOrderly == OneAtATime /\ AllRenewed

\* An account is assigned once until it is in the pool again, a key that was printed
\* works, and an account that was reset is free (AccountPool, AccountKeys).
AccountsKeepTheirWord == AssignedOnce /\ CommandsKeepTheirWord
=============================================================================
