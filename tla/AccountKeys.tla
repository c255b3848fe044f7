----------------------------- MODULE AccountKeys -----------------------------
(***************************************************************************)
(* Commands on one AWS account and its Account object on Hive: `osdctl     *)
(* account generate-secret` (with --ccs too) and `account mgmt iam` make   *)
(* access keys, after the older ones of the user have been deleted, and    *)
(* `account reset` gives the account back to the pool.  SREs run them side *)
(* by side with each other and with the account operator.                  *)
(***************************************************************************)
EXTENDS Integers, FiniteSets

CONSTANTS
    Keeper,               \* SREs
    IamUser,
    MaxIssued,            \* bound: keys ever made
    MaxObjectVersion,     \* bound: writes of the Account
    MaxAccountFaults      \* bound: failed calls and kills

ASSUME KeysAssumption == IsFiniteSet(IamUser) /\ MaxIssued \in Nat /\ MaxObjectVersion \in Nat

VARIABLES
    userExists, userKeys, \* IAM users that exist; keys of each
    lastIssued,
    object,               \* the Account: claimed in its spec, in its status, and version
    ownSecret,            \* its secret exists
    kpc, mode, iamUser,   \* of each SRE: step, command, user
    toDelete,             \* keys listed
    printed,              \* the key made, 0 if none
    versionRead,          \* of the Account
    listedBy,             \* SREs who listed a key for deletion, by key
    claimedSince,         \* the account was claimed since the reset began
    accountFaults

iamState == <<userExists, userKeys, lastIssued>>
objectState == <<object, ownSecret>>
keeperVars == <<mode, iamUser, toDelete, printed, versionRead>>
accountKeysVars == <<iamState, objectState, kpc, keeperVars, listedBy, claimedSince, accountFaults>>

KeysInit ==
    /\ userExists \in SUBSET IamUser /\ lastIssued = Cardinality(userExists)
    /\ \E key \in [userExists -> 1..lastIssued] :
        /\ \A u, v \in userExists : u # v => key[u] # key[v]
        /\ userKeys = [u \in IamUser |-> IF u \in userExists THEN {key[u]} ELSE {}]
    /\ object = [link |-> TRUE, claimed |-> TRUE, version |-> 0] /\ ownSecret = TRUE
    /\ kpc = [o \in Keeper |-> "idle"] /\ mode \in [Keeper -> {"generate", "ccs", "iam", "reset"}]
    /\ iamUser \in [Keeper -> IamUser] /\ toDelete = [o \in Keeper |-> {}] /\ printed = [o \in Keeper |-> 0]
    /\ versionRead = [o \in Keeper |-> 0] /\ listedBy = [k \in 1..MaxIssued |-> {}]
    /\ claimedSince = [o \in Keeper |-> FALSE] /\ accountFaults = 0
-----------------------------------------------------------------------------
KeeperStep(o, from, to) == kpc[o] = from /\ kpc' = [kpc EXCEPT ![o] = to]

\* The Account, which must not be of STS, and the chain of roles into the account; the
\* one of a CCS account leads to osdCcsAdmin, whose older keys stay.
AssumeRoles(o) ==
    /\ mode[o] # "reset" /\ KeeperStep(o, "idle", IF mode[o] = "ccs" THEN "create" ELSE "user")
    /\ UNCHANGED <<iamState, objectState, keeperVars, listedBy, claimedSince, accountFaults>>

\* A user that is missing is made; `iam` does nothing for one that exists unless asked to.
CheckUser(o) ==
    /\ kpc[o] = "user"
    /\ IF iamUser[o] \notin userExists
       THEN KeeperStep(o, "user", "create") /\ userExists' = userExists \cup {iamUser[o]}
       ELSE /\ UNCHANGED userExists
            /\ KeeperStep(o, "user", "list") \/ (mode[o] = "iam" /\ KeeperStep(o, "user", "exists"))
    /\ UNCHANGED <<userKeys, lastIssued, objectState, keeperVars, listedBy, claimedSince, accountFaults>>

ListUserKeys(o) ==
    /\ KeeperStep(o, "list", "delete") /\ toDelete' = [toDelete EXCEPT ![o] = userKeys[iamUser[o]]]
    /\ listedBy' = [k \in DOMAIN listedBy |-> IF k \in toDelete'[o] THEN listedBy[k] \cup {o} ELSE listedBy[k]]
    /\ UNCHANGED <<iamState, objectState, mode, iamUser, printed, versionRead, claimedSince, accountFaults>>

\* A key that is gone by now ends the run.
DeleteUserKey(o) ==
    /\ \E k \in toDelete[o] :
        /\ toDelete' = [toDelete EXCEPT ![o] = @ \ {k}]
        /\ userKeys' = [userKeys EXCEPT ![iamUser[o]] = @ \ {k}]
        /\ KeeperStep(o, "delete", IF k \in userKeys[iamUser[o]] THEN "delete" ELSE "failed")
    /\ UNCHANGED <<userExists, lastIssued, objectState, mode, iamUser, printed, versionRead,
                   listedBy, claimedSince, accountFaults>>

KeysDeleted(o) ==
    /\ toDelete[o] = {} /\ KeeperStep(o, "delete", "create")
    /\ UNCHANGED <<iamState, objectState, keeperVars, listedBy, claimedSince, accountFaults>>

\* AWS allows two keys of a user.
CreateUserKey(o) ==
    /\ lastIssued < MaxIssued /\ kpc[o] = "create"
    /\ IF Cardinality(userKeys[iamUser[o]]) = 2
       THEN KeeperStep(o, "create", "failed") /\ UNCHANGED <<userKeys, lastIssued, printed>>
       ELSE /\ KeeperStep(o, "create", "printed") /\ lastIssued' = lastIssued + 1
            /\ userKeys' = [userKeys EXCEPT ![iamUser[o]] = @ \cup {lastIssued'}]
            /\ printed' = [printed EXCEPT ![o] = lastIssued']
    /\ UNCHANGED <<userExists, objectState, mode, iamUser, toDelete, versionRead, listedBy,
                   claimedSince, accountFaults>>
-----------------------------------------------------------------------------
\* After the prompt: the secrets that begin with the name of the account.
DeleteSecretsOf(o) ==
    /\ mode[o] = "reset" /\ KeeperStep(o, "idle", "get") /\ ownSecret' = FALSE
    /\ claimedSince' = [claimedSince EXCEPT ![o] = FALSE]
    /\ UNCHANGED <<iamState, object, keeperVars, listedBy, accountFaults>>

GetAccount(o) ==
    /\ KeeperStep(o, "get", "update") /\ versionRead' = [versionRead EXCEPT ![o] = object.version]
    /\ UNCHANGED <<iamState, objectState, mode, iamUser, toDelete, printed, listedBy, claimedSince, accountFaults>>

\* With the legal entity reset the account is moved to the root OU first.  The API
\* server refuses the update if the Account has been written since it was read.
UpdateSpec(o) ==
    /\ object.version < MaxObjectVersion /\ kpc[o] = "update"
    /\ IF object.version = versionRead[o]
       THEN /\ KeeperStep(o, "update", "status")
            /\ object' = [object EXCEPT !.link = FALSE, !.version = @ + 1]
       ELSE KeeperStep(o, "update", "failed") /\ UNCHANGED object
    /\ UNCHANGED <<iamState, ownSecret, keeperVars, listedBy, claimedSince, accountFaults>>

\* A merge patch, whatever has become of the Account.
PatchStatus(o) ==
    /\ object.version < MaxObjectVersion /\ KeeperStep(o, "status", "reset")
    /\ object' = [object EXCEPT !.claimed = FALSE, !.version = @ + 1]
    /\ UNCHANGED <<iamState, ownSecret, keeperVars, listedBy, claimedSince, accountFaults>>

\* A call fails, or a kill.
KeeperFails(o) ==
    /\ kpc[o] \notin {"idle", "failed", "printed", "exists", "reset"} /\ KeeperStep(o, kpc[o], "failed")
    /\ accountFaults < MaxAccountFaults /\ accountFaults' = accountFaults + 1
    /\ UNCHANGED <<iamState, objectState, keeperVars, listedBy, claimedSince>>

KeeperAgain(o) ==
    /\ \E end \in {"failed", "exists"} : KeeperStep(o, end, "idle")
    /\ toDelete' = [toDelete EXCEPT ![o] = {}]
    /\ UNCHANGED <<iamState, objectState, mode, iamUser, printed, versionRead, listedBy, claimedSince, accountFaults>>

\* The account operator gives an account that is free to a claim.
ClaimAccount ==
    /\ ~object.link /\ ~object.claimed /\ object.version < MaxObjectVersion
    /\ object' = [link |-> TRUE, claimed |-> TRUE, version |-> object.version + 1] /\ ownSecret' = TRUE
    /\ claimedSince' = [o \in Keeper |-> TRUE]
    /\ UNCHANGED <<iamState, kpc, keeperVars, listedBy, accountFaults>>

KeysNext ==
    \/ \E o \in Keeper :
        \/ AssumeRoles(o) \/ CheckUser(o) \/ ListUserKeys(o) \/ DeleteUserKey(o) \/ KeysDeleted(o) \/ CreateUserKey(o)
        \/ DeleteSecretsOf(o) \/ GetAccount(o) \/ UpdateSpec(o) \/ PatchStatus(o)
        \/ KeeperFails(o) \/ KeeperAgain(o)
    \/ ClaimAccount

KeysSpec == KeysInit /\ [][KeysNext]_accountKeysVars
-----------------------------------------------------------------------------
\* A key that was printed works until another SRE's run has listed it, and a reset
\* that ends well has freed the account in spec and status, whatever an earlier one
\* that failed has left, unless the account was claimed meanwhile.
CommandsKeepTheirWord ==
    /\ \A o \in Keeper : kpc[o] = "printed" =>
        printed[o] \in userKeys[iamUser[o]] \/ listedBy[printed[o]] \ {o} # {}
    /\ \A o \in Keeper : kpc[o] = "reset" /\ ~claimedSince[o] => ~object.link /\ ~object.claimed /\ ~ownSecret
=============================================================================
