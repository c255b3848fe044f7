----------------------------- MODULE AccountPool -----------------------------
(***************************************************************************)
(* `osdctl account mgmt`: developer accounts of an AWS organisation.  An   *)
(* account of the pool is in the root OU without an owner tag; `assign`    *)
(* tags it, moves it to the developers' OU and may make an IAM user,       *)
(* `unassign` undoes the three for an account or for all of a user.        *)
(* Administrators work side by side.                                       *)
(***************************************************************************)
EXTENDS Integers, FiniteSets

CONSTANTS
    PoolAdmin, Developer, Account,
    PoolStart,         \* accounts that exist at first, in the pool
    MaxPoolFaults      \* bound: failed calls and kills

Nobody == "nobody"
Payer == "payer"

VARIABLES
    accountsMade, \* accounts that exist
    owner, dev,   \* tags of each: owner and claimed, service-phase = dev
    ou,           \* its parent
    iamUsers,     \* its IAM users
    suspended,
    ppc, acct, who,     \* of each run: step, account at hand, developer
    accountsLeft,       \* of unassign: accounts to go through
    client,             \* whose credentials o.awsClient has
    usersFound,         \* IAM users to delete
    grants,             \* assigns of an account that ended well since it was in the pool
    poolFaults

poolVars == <<accountsMade, owner, dev, ou, iamUsers, suspended, ppc, acct, who, accountsLeft,
              client, usersFound, grants, poolFaults>>
organisation == <<accountsMade, owner, dev, ou, iamUsers, suspended>>
locals == <<acct, who, accountsLeft, client, usersFound>>

PoolInit ==
    /\ accountsMade = PoolStart /\ suspended \in SUBSET PoolStart
    /\ owner = [a \in Account |-> Nobody] /\ dev = [a \in Account |-> a \in PoolStart]
    /\ ou = [a \in Account |-> "root"] /\ iamUsers = [a \in Account |-> {}]
    /\ ppc = [e \in PoolAdmin |-> "idle"] /\ acct = [e \in PoolAdmin |-> {}]
    /\ who \in [PoolAdmin -> Developer]
    /\ accountsLeft = [e \in PoolAdmin |-> {}] /\ client = [e \in PoolAdmin |-> Payer]
    /\ usersFound = [e \in PoolAdmin |-> {}] /\ grants = [a \in Account |-> {}] /\ poolFaults = 0
-----------------------------------------------------------------------------
PoolStep(e, from, to) == ppc[e] = from /\ ppc' = [ppc EXCEPT ![e] = to]
At(e) == CHOOSE a \in Account : a \in acct[e]
TakesUp(e, a) == acct' = [acct EXCEPT ![e] = {a}]

\* An account given by its id must be unowned and not suspended.
AssignGiven(e) ==
    /\ PoolStep(e, "idle", "tag")
    /\ \E a \in accountsMade \ suspended : owner[a] = Nobody /\ TakesUp(e, a)
    /\ UNCHANGED <<organisation, who, accountsLeft, client, usersFound, grants, poolFaults>>

Assignable(a) == a \in accountsMade \ suspended /\ ou[a] = "root" /\ owner[a] = Nobody /\ dev[a]

\* Otherwise the first of the root OU that will do, or a new one.
FindUntagged(e) ==
    /\ IF \E a \in Account : Assignable(a)
       THEN PoolStep(e, "idle", "tag") /\ \E a \in Account : Assignable(a) /\ TakesUp(e, a)
       ELSE PoolStep(e, "idle", "build") /\ UNCHANGED acct
    /\ UNCHANGED <<organisation, who, accountsLeft, client, usersFound, grants, poolFaults>>

\* Another e-mail address is tried while the drawn one exists.
BuildAccount(e) ==
    /\ \/ /\ \E a \in Account \ accountsMade : accountsMade' = accountsMade \cup {a} /\ TakesUp(e, a)
          /\ PoolStep(e, "build", "tag")
       \/ accountsMade = Account /\ PoolStep(e, "build", "failed") /\ UNCHANGED <<accountsMade, acct>>
    /\ UNCHANGED <<owner, dev, ou, iamUsers, suspended, who, accountsLeft, client, usersFound, grants, poolFaults>>

TagAccount(e) ==
    /\ PoolStep(e, "tag", "move")
    /\ owner' = [owner EXCEPT ![At(e)] = who[e]] /\ dev' = [dev EXCEPT ![At(e)] = TRUE]
    /\ UNCHANGED <<accountsMade, ou, iamUsers, suspended, locals, grants, poolFaults>>

\* Mutant: the account is moved from wherever it is, as unassign does.
MoveFromAnywhere(e) ==
    /\ PoolStep(e, "move", "iam") /\ ou' = [ou EXCEPT ![At(e)] = "developers"]
    /\ grants' = [grants EXCEPT ![At(e)] = @ \cup {e}]
    /\ UNCHANGED <<accountsMade, owner, dev, iamUsers, suspended, locals, poolFaults>>

\* From the root OU, of which AWS makes sure.
MoveAccount(e) ==
    /\ ppc[e] = "move"
    /\ IF ou[At(e)] = "root"
       THEN /\ PoolStep(e, "move", "iam") /\ ou' = [ou EXCEPT ![At(e)] = "developers"]
            /\ grants' = [grants EXCEPT ![At(e)] = @ \cup {e}]
       ELSE PoolStep(e, "move", "failed") /\ UNCHANGED <<ou, grants>>
    /\ UNCHANGED <<accountsMade, owner, dev, iamUsers, suspended, locals, poolFaults>>

\* With --iam-user: the user and its key are accountsMade unless the user exists.
MakeIamUser(e) ==
    /\ PoolStep(e, "iam", "done")
    /\ \E wanted \in BOOLEAN :
        iamUsers' = [iamUsers EXCEPT ![At(e)] = IF wanted THEN @ \cup {who[e]} ELSE @]
    /\ UNCHANGED <<accountsMade, owner, dev, ou, suspended, locals, grants, poolFaults>>

\* The accounts with the owner tag of a user, or one account of anybody.
Unassign(e) ==
    /\ \E todo \in {{a \in accountsMade : owner[a] = who[e]}}
                  \cup {{a} : a \in {b \in accountsMade : owner[b] # Nobody}} :
        /\ todo # {} /\ accountsLeft' = [accountsLeft EXCEPT ![e] = todo]
    /\ PoolStep(e, "idle", "untag") /\ UNCHANGED <<organisation, acct, who, client, usersFound, grants, poolFaults>>

\* AWS Organizations serves the payer's credentials only.
Untag(e) ==
    /\ accountsLeft[e] # {}
    /\ IF client[e] # Payer THEN PoolStep(e, "untag", "stopped") /\ UNCHANGED <<owner, acct, accountsLeft>>
       ELSE \E a \in accountsLeft[e] :
            /\ PoolStep(e, "untag", "moveBack") /\ TakesUp(e, a)
            /\ accountsLeft' = [accountsLeft EXCEPT ![e] = @ \ {a}]
            /\ owner' = [owner EXCEPT ![a] = Nobody]
    /\ UNCHANGED <<accountsMade, dev, ou, iamUsers, suspended, who, client, usersFound, grants, poolFaults>>

MoveBack(e) ==
    /\ PoolStep(e, "moveBack", "clean") /\ ou' = [ou EXCEPT ![At(e)] = "root"]
    /\ grants' = [grants EXCEPT ![At(e)] = IF ou[At(e)] = "root" THEN @ ELSE {}]
    /\ UNCHANGED <<accountsMade, owner, dev, iamUsers, suspended, locals, poolFaults>>

\* With the role of the account: roles and policies go, the users are listed, and
\* o.awsClient becomes the client of the account.
CleanAccount(e) ==
    /\ PoolStep(e, "clean", "untag")
    /\ usersFound' = [usersFound EXCEPT ![e] = @ \cup iamUsers[At(e)]]
    /\ client' = [client EXCEPT ![e] = At(e)]
    /\ UNCHANGED <<organisation, acct, who, accountsLeft, grants, poolFaults>>

\* Everything of each user and the user itself; errors are printed.
DeleteUsers(e) ==
    /\ accountsLeft[e] = {} /\ PoolStep(e, "untag", "unassigned")
    /\ iamUsers' = [a \in Account |-> IF a = client[e] THEN iamUsers[a] \ usersFound[e] ELSE iamUsers[a]]
    /\ UNCHANGED <<accountsMade, owner, dev, ou, suspended, locals, grants, poolFaults>>

Ended == {"done", "failed", "stopped", "unassigned"}

PoolFails(e) ==
    /\ ppc[e] \notin Ended \cup {"idle"} /\ ppc' = [ppc EXCEPT ![e] = "failed"]
    /\ poolFaults < MaxPoolFaults /\ poolFaults' = poolFaults + 1
    /\ UNCHANGED <<organisation, locals, grants>>

NextRun(e) ==
    /\ \E end \in Ended : PoolStep(e, end, "idle")
    /\ client' = [client EXCEPT ![e] = Payer] /\ usersFound' = [usersFound EXCEPT ![e] = {}]
    /\ acct' = [acct EXCEPT ![e] = {}] /\ accountsLeft' = [accountsLeft EXCEPT ![e] = {}]
    /\ UNCHANGED <<organisation, who, grants, poolFaults>>

PoolNext ==
    \E e \in PoolAdmin :
        \/ AssignGiven(e) \/ FindUntagged(e) \/ BuildAccount(e) \/ TagAccount(e) \/ MoveAccount(e) \/ MakeIamUser(e)
        \/ Unassign(e) \/ Untag(e) \/ MoveBack(e) \/ CleanAccount(e) \/ DeleteUsers(e)
        \/ PoolFails(e) \/ NextRun(e)

PoolSpec == PoolInit /\ [][PoolNext]_poolVars
-----------------------------------------------------------------------------
\* Administrators who found the same account untagged are not both told that they
\* assigned it: until it is back in the pool, one of them is.
AssignedOnce == \A a \in Account : Cardinality(grants[a]) <= 1
=============================================================================
