------------------------------- MODULE Promotion -------------------------------
(***************************************************************************)
(* `osdctl promote`: in the SRE's clone of app-interface, or of            *)
(* dynatrace-config, a new branch from master on which the production      *)
(* targets of a SaaS file refer to a new hash (saas, managedscripts,       *)
(* rhobs), all RHOBS files do (bulk), a terraform module does (module), or *)
(* the application's file blocks a version (block).  Files are parsed      *)
(* before master is checked out; commits take all that is in the tree.     *)
(***************************************************************************)
EXTENDS Naturals, FiniteSets

CONSTANTS
    Ref,                 \* targets of the SaaS file
    Hash,                \* commits of the repository promoted
    MaxPromotions        \* bound: runs

Trait == {"canary", "publisher", "subscriber", "prod", "stage"}
Edit == {"tracked", "untracked"}

VARIABLES
    gitClone,            \* "app-interface" or "dynatrace-config"
    trait,               \* how the file marks each target; all but "stage" are production
    promoPc, promoRuns,  \* step; runs so far
    promoCmd, newHash,   \* what is promoted
    doc,                 \* the files as parsed
    trees,               \* of each branch there is, its last commit
    onBranch,            \* HEAD
    workTree,            \* the files as they are on disk
    ownEdits,            \* the SRE's uncommitted edits of other files
    promoGroups,         \* resourceTemplatePromotions left to do: targets of one old hash
    fromMaster, editsBefore \* history: what the run began with

promoRun == <<promoCmd, newHash, fromMaster, editsBefore>>
promoVars == <<gitClone, trait, promoPc, promoRuns, promoRun, doc, trees, onBranch, workTree, ownEdits, promoGroups>>

MasterBranch == <<"master">>
PromoCmd == IF gitClone = "app-interface" THEN {"saas", "hotfix", "rhobs", "bulk", "block"} ELSE {"module"}
FilesOf(t) == [refs |-> t.refs, blocked |-> t.blocked, hotfix |-> t.hotfix]
Unstaged == workTree # FilesOf(trees[onBranch]) \/ "tracked" \in ownEdits

PromoInit ==
    /\ gitClone \in {"app-interface", "dynatrace-config"} /\ trait \in [Ref -> Trait]
    /\ promoPc = "idle"
    /\ promoRuns = 0
    /\ promoCmd = "none"
    /\ newHash = {}
    /\ fromMaster = FALSE
    /\ editsBefore = {}
    /\ workTree \in [refs : [Ref -> Hash], blocked : {{}}, hotfix : {{}}] /\ doc = workTree
    /\ trees = [b \in {MasterBranch} |-> [refs |-> workTree.refs, blocked |-> {}, hotfix |-> {}, own |-> {}]]
    /\ onBranch = MasterBranch /\ ownEdits = {} /\ promoGroups = {}
-----------------------------------------------------------------------------
PromoAtRest == promoPc \in {"idle", "done", "failed"}
PromoStep(from, to) == promoPc = from /\ promoPc' = to

ReadFiles ==
    /\ PromoAtRest /\ promoRuns < MaxPromotions /\ promoRuns' = promoRuns + 1
    /\ promoCmd' \in PromoCmd /\ newHash' \in Hash /\ doc' = workTree /\ promoGroups' = {}
    /\ fromMaster' = (workTree = FilesOf(trees[MasterBranch])) /\ editsBefore' = ownEdits
    /\ promoPc' = IF promoCmd' \in {"bulk", "module"} THEN "checkout" ELSE "clean"
    /\ UNCHANGED <<gitClone, trait, trees, onBranch, workTree, ownEdits>>

CheckClean ==
    /\ PromoStep("clean", IF Unstaged \/ ownEdits # {} THEN "failed" ELSE IF promoCmd = "block" THEN "checkout" ELSE "filter")
    /\ UNCHANGED <<gitClone, trait, promoRuns, promoRun, doc, trees, onBranch, workTree, ownEdits, promoGroups>>

\* Canaries by name, else publishers that another target waits for, else all.
ProdTargets == {t \in Ref : trait[t] # "stage"}
Gates == IF \E t \in Ref : trait[t] = "subscriber" THEN {t \in Ref : trait[t] = "publisher"} ELSE {}
Canaries == {t \in Ref : trait[t] = "canary"}
Promoted ==
    CASE promoCmd = "saas" /\ Canaries # {} -> Canaries
      [] promoCmd = "saas" /\ Canaries = {} /\ Gates # {} -> Gates
      [] promoCmd \in {"rhobs", "bulk"} -> {t \in ProdTargets : trait[t] # "subscriber"}
      [] OTHER -> ProdTargets

FilterTargets ==
    /\ promoGroups' = {{t \in Promoted : doc.refs[t] = h} : h \in Hash} \ {{}}
    /\ PromoStep("filter", IF promoGroups' = {} THEN "failed" ELSE "repo")
    /\ UNCHANGED <<gitClone, trait, promoRuns, promoRun, doc, trees, onBranch, workTree, ownEdits>>

\* Takes minutes; the hash may be resolved from a branch's name.
GetRepo ==
    /\ PromoStep("repo", "checkout")
    /\ UNCHANGED <<gitClone, trait, promoRuns, promoRun, doc, trees, onBranch, workTree, ownEdits, promoGroups>>

BranchName == IF promoCmd = "block" THEN <<"block", newHash>> ELSE <<"promote", newHash>>
WithBranch(b, t) == [c \in DOMAIN trees \cup {b} |-> IF c = b THEN t ELSE trees[c]]

\* Mutant: a branch of an earlier run is gone on with.
CheckoutOldBranch ==
    /\ gitClone = "app-interface"
    /\ \/ Unstaged /\ PromoStep("checkout", "failed") /\ UNCHANGED <<trees, onBranch, workTree>>
       \/ /\ ~Unstaged /\ PromoStep("checkout", "edit") /\ onBranch' = BranchName
          /\ trees' = IF BranchName \in DOMAIN trees THEN trees ELSE WithBranch(BranchName, trees[MasterBranch])
          /\ workTree' = FilesOf(trees'[BranchName])
    /\ UNCHANGED <<gitClone, trait, promoRuns, promoRun, doc, ownEdits, promoGroups>>

CheckoutNewBranch ==
    /\ gitClone = "app-interface"
    /\ \/ Unstaged /\ PromoStep("checkout", "failed") /\ UNCHANGED <<trees, onBranch, workTree>>
       \/ /\ ~Unstaged /\ PromoStep("checkout", "edit") /\ onBranch' = BranchName
          /\ trees' = WithBranch(BranchName, trees[MasterBranch]) /\ workTree' = FilesOf(trees[MasterBranch])
    /\ UNCHANGED <<gitClone, trait, promoRuns, promoRun, doc, ownEdits, promoGroups>>

\* By the git command, which takes edits along unless the two commits differ there.
UpdateDynatraceConfig ==
    /\ gitClone = "dynatrace-config"
    /\ \/ /\ workTree # FilesOf(trees[onBranch]) /\ FilesOf(trees[onBranch]) # FilesOf(trees[MasterBranch])
          /\ PromoStep("checkout", "failed") /\ UNCHANGED <<trees, onBranch, workTree>>
       \/ /\ workTree = FilesOf(trees[onBranch]) \/ FilesOf(trees[onBranch]) = FilesOf(trees[MasterBranch])
          /\ PromoStep("checkout", "edit")
          /\ onBranch' = BranchName
          /\ trees' = WithBranch(BranchName, trees[MasterBranch])
          /\ workTree' = IF workTree = FilesOf(trees[onBranch]) THEN FilesOf(trees[MasterBranch]) ELSE workTree
    /\ UNCHANGED <<gitClone, trait, promoRuns, promoRun, doc, ownEdits, promoGroups>>

\* One group: its targets are set in the parsed file, which is saved; a hotfix replaces
\* the application's hotfixVersions.
PromoteGroup ==
    /\ promoCmd \in {"saas", "hotfix", "rhobs"} /\ PromoStep("edit", "commit")
    /\ \E g \in promoGroups :
         /\ promoGroups' = promoGroups \ {g}
         /\ doc' = [doc EXCEPT !.refs = [t \in Ref |-> IF t \in g THEN newHash ELSE @[t]],
                               !.hotfix = IF promoCmd = "hotfix" THEN {newHash} ELSE @]
    /\ workTree' = IF promoCmd = "hotfix" THEN doc' ELSE [workTree EXCEPT !.refs = doc'.refs]
    /\ UNCHANGED <<gitClone, trait, promoRuns, promoRun, trees, onBranch, ownEdits>>

AddBlockedVersion ==
    /\ promoCmd = "block"
    /\ IF newHash \in doc.blocked
       THEN PromoStep("edit", "failed") /\ UNCHANGED <<doc, workTree>>
       ELSE /\ PromoStep("edit", "commit") /\ doc' = [doc EXCEPT !.blocked = @ \cup {newHash}]
            /\ workTree' = [workTree EXCEPT !.blocked = doc'.blocked, !.hotfix = doc.hotfix]
    /\ UNCHANGED <<gitClone, trait, promoRuns, promoRun, trees, onBranch, ownEdits, promoGroups>>

\* The files as they are now; one of RHOBS that cannot be read is skipped.
UpdateFiles ==
    /\ promoCmd = "bulk"
    /\ \E updated \in SUBSET {t \in Promoted : workTree.refs[t] # newHash} :
         /\ PromoStep("edit", IF updated = {} THEN "failed" ELSE "commit")
         /\ workTree' = [workTree EXCEPT !.refs = [t \in Ref |-> IF t \in updated THEN newHash ELSE @[t]]]
    /\ UNCHANGED <<gitClone, trait, promoRuns, promoRun, doc, trees, onBranch, ownEdits, promoGroups>>

\* The module's source in every tenant's file.
UpdateModule ==
    /\ promoCmd = "module" /\ PromoStep("edit", "commit")
    /\ workTree' = [workTree EXCEPT !.refs = [t \in Ref |-> IF t \in Promoted THEN newHash ELSE @[t]]]
    /\ UNCHANGED <<gitClone, trait, promoRuns, promoRun, doc, trees, onBranch, ownEdits, promoGroups>>

\* All that is in the tree is added; a commit of nothing is refused.
CommitAll ==
    /\ \/ /\ workTree = FilesOf(trees[onBranch]) /\ ownEdits = {}
          /\ PromoStep("commit", "failed") /\ UNCHANGED <<trees, ownEdits>>
       \/ /\ workTree # FilesOf(trees[onBranch]) \/ ownEdits # {}
          /\ PromoStep("commit", IF promoGroups = {} THEN "done" ELSE "edit") /\ ownEdits' = {}
          /\ trees' = WithBranch(onBranch, [refs |-> workTree.refs, blocked |-> workTree.blocked, hotfix |-> workTree.hotfix,
                                      own |-> trees[onBranch].own \cup ownEdits])
    /\ UNCHANGED <<gitClone, trait, promoRuns, promoRun, doc, onBranch, workTree, promoGroups>>

\* The commit's message is made after the file was saved.
PromoFails ==
    /\ promoPc \in {"clean", "filter", "repo", "checkout", "edit", "commit"} /\ promoPc' = "failed"
    /\ UNCHANGED <<gitClone, trait, promoRuns, promoRun, doc, trees, onBranch, workTree, ownEdits, promoGroups>>
-----------------------------------------------------------------------------
\* What the last run knew is gone with its process.
Afterwards ==
    /\ PromoAtRest /\ promoRuns < MaxPromotions
    /\ promoPc' = "idle" /\ promoCmd' = "none" /\ newHash' = {} /\ fromMaster' = FALSE /\ editsBefore' = {}
    /\ doc' = workTree' /\ promoGroups' = {} /\ UNCHANGED <<gitClone, trait, promoRuns>>

EditOther ==
    /\ \E e \in Edit : ownEdits' = ownEdits \cup {e}
    /\ UNCHANGED <<trees, onBranch, workTree>>
    /\ Afterwards \/ (promoPc = "repo" /\ UNCHANGED <<gitClone, trait, promoPc, promoRuns, promoRun, doc, promoGroups>>)

Discard ==
    /\ workTree' = FilesOf(trees[onBranch]) /\ ownEdits' = {}
    /\ Afterwards /\ UNCHANGED <<trees, onBranch>>

SwitchBranch ==
    /\ ~Unstaged /\ \E b \in DOMAIN trees : onBranch' = b /\ workTree' = FilesOf(trees[b])
    /\ Afterwards /\ UNCHANGED <<trees, ownEdits>>

PullMaster ==
    /\ onBranch = MasterBranch /\ ~Unstaged
    /\ \E t \in Ref, h \in Hash : workTree' = [workTree EXCEPT !.refs[t] = h]
    /\ trees' = WithBranch(MasterBranch, [trees[MasterBranch] EXCEPT !.refs = workTree'.refs])
    /\ Afterwards /\ UNCHANGED <<onBranch, ownEdits>>
-----------------------------------------------------------------------------
PromoNext ==
    \/ ReadFiles \/ CheckClean \/ FilterTargets \/ GetRepo \/ CheckoutNewBranch \/ UpdateDynatraceConfig
    \/ PromoteGroup \/ AddBlockedVersion \/ UpdateFiles \/ UpdateModule \/ CommitAll \/ PromoFails
    \/ EditOther \/ Discard \/ SwitchBranch \/ PullMaster

PromoSpec == PromoInit /\ [][PromoNext]_promoVars
-----------------------------------------------------------------------------
\* Whatever earlier runs, failed ones included, left behind, a promotion that succeeds
\* and began with master's files has made a branch of master and its own change: no
\* other target, no other field, no edit that was there before it began.
PromotionIsWhole ==
    /\ promoPc = "done" /\ fromMaster /\ promoCmd \in {"saas", "hotfix", "rhobs", "block"} =>
        /\ onBranch = BranchName /\ editsBefore = {}
        /\ FilesOf(trees[onBranch]) =
             [refs |-> [t \in Ref |-> IF promoCmd # "block" /\ t \in Promoted THEN newHash ELSE trees[MasterBranch].refs[t]],
              blocked |-> IF promoCmd = "block" THEN trees[MasterBranch].blocked \cup {newHash} ELSE trees[MasterBranch].blocked,
              hotfix |-> IF promoCmd = "hotfix" THEN {newHash} ELSE trees[MasterBranch].hotfix]
    /\ trees[MasterBranch].own = {} /\ trees[MasterBranch].blocked = {}
=============================================================================
