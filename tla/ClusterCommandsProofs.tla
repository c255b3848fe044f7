------------------------- MODULE ClusterCommandsProofs -------------------------
(***************************************************************************)
(* Theorems about the commands that change something for a cluster, for    *)
(* any number of SREs, nodes, pods, targets, faults and runs.              *)
(***************************************************************************)
EXTENDS ClusterCommands, TransferOwner, TLAPS

ClusterNext == Access \/ Capture \/ Repairs \/ Notice \/ Promote
-----------------------------------------------------------------------------
(***************************************************************************)
(* Jumphosts: the security group goes last, and without it none starts.    *)
(***************************************************************************)
AccessPcs ==
    {"idle", "key", "group", "launch", "waitRunning", "findHost", "waitTerminated", "deleteKey",
     "findGroup", "deleteGroup", "createPod", "waitPod", "listPods", "deletePods", "waitPods",
     "done", "failed", "deleted", "dropped"}

AccessInv ==
    /\ apc \in [Responder -> AccessPcs] /\ inHand \in [Responder -> Nat]
    /\ group \in Nat /\ groups \in Nat /\ hostsMade \in Nat /\ podsMade \in Nat
    /\ DOMAIN hosts \subseteq Nat
    /\ \A r \in Responder : apc[r] = "launch" => inHand[r] # NoGroup
    /\ group = NoGroup => \A h \in DOMAIN hosts : hosts[h] = "terminated"
-----------------------------------------------------------------------------
(***************************************************************************)
(* Captures: a run that goes on has the object of its kind for itself, and *)
(* a pod of a DaemonSet on every node until its file is copied.            *)
(***************************************************************************)
CapturePcs == {"idle", "create", "wait", "list", "copy", "delete", "done", "failed"}

PodOfNode(c, n) == <<kind[c], n>>

CaptureInv ==
    /\ cpc \in [Capturer -> CapturePcs] /\ kind \in [Capturer -> CaptureKind]
    /\ deployed \in [CaptureKind -> SUBSET Capturer]
    /\ toCopy \in [Capturer -> SUBSET (CaptureKind \X CaptureNode)]
    /\ copied \in [Capturer -> SUBSET CaptureNode]
    /\ DOMAIN capturePods \subseteq CaptureKind \X CaptureNode
    /\ \A c \in Capturer :
        /\ cpc[c] \in {"wait", "list", "copy", "delete"} => deployed[kind[c]] = {c}
        /\ kind[c] = "DaemonSet" =>
            /\ cpc[c] = "list" => \A n \in CaptureNode : PodOfNode(c, n) \in DOMAIN capturePods
            /\ cpc[c] = "copy" => \A n \in CaptureNode : PodOfNode(c, n) \in toCopy[c] \/ n \in copied[c]
            /\ cpc[c] = "delete" => copied[c] = CaptureNode
-----------------------------------------------------------------------------
(***************************************************************************)
(* Repairs.                                                                *)
(***************************************************************************)
RepairPcs == {"idle", "claims", "detach", "deleteSync", "awaitSync", "done", "synced", "failed"}

RepairInv ==
    /\ fpc \in [Fixer -> RepairPcs] /\ deletedSync \in [Fixer -> Nat] /\ lastSync \in Nat \ {0}
    /\ volumes \in [Fixer -> SUBSET MonitoringPod] /\ ranSince \in [Fixer -> SUBSET MonitoringPod]
    /\ running \subseteq MonitoringPod
    /\ sync # NoSync => sync.id = lastSync
    /\ \A f \in Fixer :
        /\ deletedSync[f] <= lastSync
        /\ volumes[f] \cap ranSince[f] = {}
        /\ fpc[f] = "awaitSync" /\ sync # NoSync => deletedSync[f] < lastSync
-----------------------------------------------------------------------------
(***************************************************************************)
(* Notices: while the loop runs, each cluster that was found is in one of  *)
(* four sets, and only those that have left the first have been posted to. *)
(***************************************************************************)
NoticePcs ==
    {"idle", "confirm", "loop", "reported", "killed", "declined", "failed", "reason", "evidence", "drop", "done"}

NoticeTyped ==
    /\ noticePc \in [Notifier -> NoticePcs]
    /\ mail \in [Mailbox -> SUBSET Notifier] /\ lastReason \in Nat
    /\ matching \in [Notifier -> SUBSET Mailbox] /\ unsent \in [Notifier -> SUBSET Mailbox]
    /\ inFlight \in [Notifier -> SUBSET Mailbox]
    /\ told \in [Notifier -> SUBSET Mailbox] /\ untold \in [Notifier -> SUBSET Mailbox]
    /\ mine \in [Notifier -> Nat] /\ namedReason \in [Notifier -> Nat]
    /\ reasons \subseteq Nat
    /\ reasonsListed \in [Notifier -> SUBSET Nat] /\ toDrop \in [Notifier -> SUBSET Nat]
    /\ dropped \in [Notifier -> SUBSET Nat]

Posted(n) == inFlight[n] \cup told[n] \cup untold[n]

LogInv(n) ==
    /\ noticePc[n] \notin {"loop", "reported", "killed"} =>
        Posted(n) = {} /\ \A c \in Mailbox : n \notin mail[c]
    /\ noticePc[n] = "confirm" => unsent[n] = matching[n]
    /\ noticePc[n] = "loop" =>
        /\ matching[n] = unsent[n] \cup Posted(n)
        /\ unsent[n] \cap Posted(n) = {} /\ inFlight[n] \cap (told[n] \cup untold[n]) = {}
        /\ told[n] \cap untold[n] = {}
        /\ \A c \in Mailbox : (c \in told[n] => n \in mail[c]) /\ (n \in mail[c] => c \in Posted(n))
    /\ noticePc[n] = "reported" =>
        /\ told[n] \cap untold[n] = {} /\ told[n] \cup untold[n] = matching[n]
        /\ \A c \in Mailbox : (c \in told[n] => n \in mail[c]) /\ (n \in mail[c] => c \in matching[n])

ReasonInv(n) ==
    /\ noticePc[n] \in {"idle", "reason"} => mine[n] = 0
    /\ noticePc[n] = "evidence" => mine[n] # 0
    /\ dropped[n] \cup toDrop[n] \subseteq reasonsListed[n] \cup {namedReason[n]}
    /\ noticePc[n] = "idle" => dropped[n] = {} /\ toDrop[n] = {}

NoticeInv ==
    /\ NoticeTyped
    /\ \A n \in Notifier : LogInv(n) /\ ReasonInv(n)
    /\ evidence \subseteq {mine[m] : m \in Notifier} \ {0}
-----------------------------------------------------------------------------
(***************************************************************************)
(* Promotions.  From the checkout on the run is on its own branch; if the  *)
(* files it parsed were master's, the tree differs from master in what the *)
(* parsed files differ in, and those in the groups done so far.            *)
(***************************************************************************)
Bases == [refs : [Ref -> Hash], blocked : {{}}, hotfix : {{}}, own : {{}}]
BeforeEdit == {"clean", "filter", "repo", "checkout"}
Working == BeforeEdit \cup {"edit", "commit"}
Checking == {"saas", "hotfix", "rhobs", "block"}

MasterInv ==
    /\ MasterBranch \in DOMAIN trees
    /\ promoPc # "none" => trees[MasterBranch] \in Bases
    /\ trees[MasterBranch].own = {} /\ trees[MasterBranch].blocked = {}
    /\ promoPc \in {"edit", "commit"} => onBranch = BranchName
    /\ promoPc \in Working => newHash \in Hash
    /\ promoPc \in Working /\ promoCmd \in Checking => gitClone = "app-interface"

\* Without edits, which the run that goes on has made sure of; a "block" has no groups.
RunInv ==
    promoCmd \in Checking =>
        /\ promoPc = "clean" => ownEdits = editsBefore
        /\ promoPc \in Working \ {"clean"} => editsBefore = {}
        /\ promoCmd = "block" => promoGroups = {} /\ promoPc # "filter"

OldRefs == trees[MasterBranch].refs
DoneTargets == IF promoCmd = "block" THEN {} ELSE Promoted \ UNION promoGroups

DocInv ==
    fromMaster /\ promoCmd \in Checking =>
        /\ promoPc \in BeforeEdit => doc = FilesOf(trees[MasterBranch])
        /\ promoPc \in {"repo", "checkout"} /\ promoCmd # "block" => UNION promoGroups = Promoted
        /\ promoPc \in {"edit", "commit"} =>
            /\ promoCmd # "block" => UNION promoGroups \subseteq Promoted
            /\ workTree = doc
            /\ doc \in [refs : [Ref -> Hash], blocked : SUBSET Hash, hotfix : SUBSET Hash]
            /\ \A t \in DoneTargets : doc.refs[t] = newHash
            /\ \A t \in Ref : (promoCmd # "block" /\ t \in Promoted) \/ doc.refs[t] = OldRefs[t]
            /\ doc.blocked = IF promoCmd = "block" /\ promoPc = "commit" THEN {newHash} ELSE {}
            /\ IF promoCmd = "hotfix"
               THEN doc.hotfix = {newHash} \/ (promoPc = "edit" /\ doc.hotfix = {})
               ELSE doc.hotfix = {}

PromoInv == MasterInv /\ RunInv /\ DocInv /\ PromotionIsWhole

ClusterInv == AccessInv /\ CaptureInv /\ RepairInv /\ NoticeInv /\ PromoInv

-----------------------------------------------------------------------------
\* The lookups of the jumphosts' state machine.
LEMMA AccessInitInv == AccessInit => AccessInv
<1>1. SUFFICES ASSUME AccessInit PROVE AccessInv
  OBVIOUS
<1>2. apc \in [Responder -> AccessPcs] /\ inHand \in [Responder -> Nat]
  BY <1>1 DEF AccessInit, AccessPcs
<1>3. group = 0 /\ groups = 0 /\ hostsMade = 0 /\ podsMade = 0
  BY <1>1 DEF AccessInit, NoGroup
<1>4. DOMAIN hosts = {}
  BY <1>1 DEF AccessInit
<1>5. \A r \in Responder : apc[r] # "launch"
  BY <1>1 DEF AccessInit
<1> QED
  BY <1>2, <1>3, <1>4, <1>5 DEF AccessInv

\* A step of an SRE moves its own program counter and touches what it holds; an instance
\* starts only in the group that its run has made.
LEMMA AccessStep ==
    ASSUME AccessInv, JumphostNext \/ BreakGlassNext \/ UNCHANGED accessVars
    PROVE  AccessInv'
<1> USE DEF AccessInv, Goes, Holds, account, hive, NoGroup
<1>1. ASSUME NEW r \in Responder, BeginJumphost(r) PROVE AccessInv'
  BY <1>1 DEF BeginJumphost, AccessPcs
<1>2. ASSUME NEW r \in Responder, CreateKeyPair(r) PROVE AccessInv'
  BY <1>2 DEF CreateKeyPair, AccessPcs
<1>3. ASSUME NEW r \in Responder, CreateGroup(r) PROVE AccessInv'
  <2>1. CASE group # NoGroup
    BY <1>3, <2>1 DEF CreateGroup, AccessPcs
  <2>2. CASE group = NoGroup
    <3>1. groups' = groups + 1 /\ group' = groups' /\ inHand' = [inHand EXCEPT ![r] = groups']
      BY <1>3, <2>2 DEF CreateGroup
    <3>2. groups' \in Nat \ {0}
      BY <3>1
    <3>3. apc' = [apc EXCEPT ![r] = "launch"]
      BY <1>3, <2>2 DEF CreateGroup
    <3>4. UNCHANGED <<hosts, hostsMade, podsMade>>
      BY <1>3 DEF CreateGroup
    <3> QED
      BY <3>1, <3>2, <3>3, <3>4 DEF AccessPcs
  <2> QED
    BY <2>1, <2>2
<1>4. ASSUME NEW r \in Responder, Launch(r) PROVE AccessInv'
  BY <1>4 DEF Launch, With, AccessPcs
<1>5. ASSUME NEW r \in Responder, AwaitRunning(r) PROVE AccessInv'
  BY <1>5 DEF AwaitRunning, Terminated, AccessPcs
<1>6. ASSUME NEW r \in Responder, FindHost(r) PROVE AccessInv'
  BY <1>6 DEF FindHost, Terminated, AccessPcs
<1>7. ASSUME NEW r \in Responder, AwaitTerminated(r) PROVE AccessInv'
  BY <1>7 DEF AwaitTerminated, AccessPcs
<1>8. ASSUME NEW r \in Responder, DeleteKeyPair(r) PROVE AccessInv'
  BY <1>8 DEF DeleteKeyPair, AccessPcs
<1>9. ASSUME NEW r \in Responder, FindGroup(r) PROVE AccessInv'
  BY <1>9 DEF FindGroup, AccessPcs
<1>10. ASSUME NEW r \in Responder, DeleteGroup(r) PROVE AccessInv'
  BY <1>10 DEF DeleteGroup, AccessPcs
<1>11. ASSUME NEW r \in Responder, AccessFails(r) PROVE AccessInv'
  BY <1>11 DEF AccessFails, AccessPcs
<1>12. ASSUME NEW r \in Responder, EndAccess(r) PROVE AccessInv'
  BY <1>12 DEF EndAccess, AccessPcs
<1>13. CASE HostState
  BY <1>13 DEF HostState, With, Without
<1>14. ASSUME NEW r \in Responder, BreakGlass(r) PROVE AccessInv'
  BY <1>14 DEF BreakGlass, AccessPcs
<1>15. ASSUME NEW r \in Responder, CreatePod(r) PROVE AccessInv'
  BY <1>15 DEF CreatePod, AccessPcs
<1>16. ASSUME NEW r \in Responder, AwaitPod(r) PROVE AccessInv'
  BY <1>16 DEF AwaitPod, AccessPcs
<1>17. ASSUME NEW r \in Responder, ListPods(r) PROVE AccessInv'
  BY <1>17 DEF ListPods, AccessPcs
<1>18. ASSUME NEW r \in Responder, DeletePods(r) PROVE AccessInv'
  BY <1>18 DEF DeletePods, AccessPcs
<1>19. ASSUME NEW r \in Responder, AwaitNoPods(r) PROVE AccessInv'
  BY <1>19 DEF AwaitNoPods, AccessPcs
<1>20. CASE PodStarts
  BY <1>20 DEF PodStarts
<1>21. CASE UNCHANGED accessVars
  BY <1>21 DEF accessVars
<1> QED
  BY <1>1, <1>2, <1>3, <1>4, <1>5, <1>6, <1>7, <1>8, <1>9, <1>10, <1>11, <1>12, <1>13, <1>14,
     <1>15, <1>16, <1>17, <1>18, <1>19, <1>20, <1>21 DEF JumphostNext, BreakGlassNext

\* The two action properties, of a step.
HostsGone ==
    \A r \in Responder : apc[r] # "deleted" /\ apc'[r] = "deleted" =>
        \A h \in DOMAIN hosts' : hosts'[h] = "terminated"

PodsGone ==
    \A r \in Responder :
        /\ apc[r] # "dropped" /\ apc'[r] = "dropped" =>
                \A p \in DOMAIN jumpPods' : jumpPods'[p].cluster # subject[r]
        /\ apc[r] = "deletePods" /\ apc'[r] = "waitPods" =>
                \A p \in DOMAIN jumpPods : jumpPods[p].cluster # subject[r] => p \in DOMAIN jumpPods'

LEMMA HostsGoneStep ==
    ASSUME AccessInv, JumphostNext \/ BreakGlassNext
    PROVE  HostsGone
<1>0. apc \in [Responder -> AccessPcs]
  BY DEF AccessInv
<1>1. ASSUME NEW r \in Responder, FindGroup(r) PROVE HostsGone
  <2>1. apc' = [apc EXCEPT ![r] = IF group = NoGroup THEN "deleted" ELSE "deleteGroup"]
    BY <1>1 DEF FindGroup, Goes
  <2>2. hosts' = hosts
    BY <1>1 DEF FindGroup, account
  <2> QED
    BY <1>0, <2>1, <2>2 DEF AccessInv, HostsGone
<1>2. ASSUME NEW r \in Responder, DeleteGroup(r) PROVE HostsGone
  BY <1>0, <1>2 DEF DeleteGroup, HostsGone, Goes
<1>3. ASSUME NEW r \in Responder,
             \/ BeginJumphost(r) \/ CreateKeyPair(r) \/ CreateGroup(r) \/ Launch(r) \/ AwaitRunning(r)
             \/ FindHost(r) \/ AwaitTerminated(r) \/ DeleteKeyPair(r) \/ AccessFails(r) \/ EndAccess(r)
             \/ BreakGlass(r) \/ CreatePod(r) \/ AwaitPod(r) \/ ListPods(r) \/ DeletePods(r) \/ AwaitNoPods(r)
      PROVE  HostsGone
  <2>1. PICK to \in AccessPcs \ {"deleted"} : apc' = [apc EXCEPT ![r] = to]
    BY <1>3 DEF BeginJumphost, CreateKeyPair, CreateGroup, Launch, AwaitRunning, FindHost, AwaitTerminated,
       DeleteKeyPair, AccessFails, EndAccess, BreakGlass, CreatePod, AwaitPod, ListPods, DeletePods,
       AwaitNoPods, Goes, AccessPcs
  <2> QED
    BY <1>0, <2>1 DEF HostsGone
<1>4. CASE HostState \/ PodStarts
  BY <1>4 DEF HostState, PodStarts, HostsGone
<1> QED
  BY <1>1, <1>2, <1>3, <1>4 DEF JumphostNext, BreakGlassNext

LEMMA PodsGoneStep ==
    ASSUME AccessInv, JumphostNext \/ BreakGlassNext
    PROVE  PodsGone
<1>0. apc \in [Responder -> AccessPcs]
  BY DEF AccessInv
<1>1. ASSUME NEW r \in Responder, ListPods(r) PROVE PodsGone
  <2>1. apc[r] = "listPods" /\ jumpPods' = jumpPods
    BY <1>1 DEF ListPods, Goes, hive
  <2>2. apc' = [apc EXCEPT ![r] = IF PodsOf(subject[r]) = {} THEN "dropped" ELSE "deletePods"]
    BY <1>1 DEF ListPods, Goes
  <2> QED
    BY <1>0, <2>1, <2>2 DEF PodsGone, PodsOf
<1>2. ASSUME NEW r \in Responder, DeletePods(r) PROVE PodsGone
  <2>1. apc' = [apc EXCEPT ![r] = "waitPods"]
    BY <1>2 DEF DeletePods, Goes
  <2>2. DOMAIN jumpPods' = DOMAIN jumpPods \ PodsOf(subject[r])
    BY <1>2 DEF DeletePods, Without
  <2> QED
    BY <1>0, <2>1, <2>2 DEF PodsGone, PodsOf
<1>3. ASSUME NEW r \in Responder, AwaitNoPods(r) PROVE PodsGone
  <2>1. apc[r] = "waitPods" /\ apc' = [apc EXCEPT ![r] = "dropped"] /\ jumpPods' = jumpPods
    BY <1>3 DEF AwaitNoPods, Goes, hive
  <2>2. PodsOf(subject[r]) = {}
    BY <1>3 DEF AwaitNoPods
  <2> QED
    BY <1>0, <2>1, <2>2 DEF PodsGone, PodsOf
<1>4. ASSUME NEW r \in Responder,
             \/ BeginJumphost(r) \/ CreateKeyPair(r) \/ CreateGroup(r) \/ Launch(r) \/ AwaitRunning(r)
             \/ FindHost(r) \/ AwaitTerminated(r) \/ DeleteKeyPair(r) \/ AccessFails(r) \/ EndAccess(r)
             \/ FindGroup(r) \/ DeleteGroup(r) \/ BreakGlass(r) \/ CreatePod(r) \/ AwaitPod(r)
      PROVE  PodsGone
  <2>1. PICK to \in AccessPcs \ {"dropped", "waitPods"} : apc' = [apc EXCEPT ![r] = to]
    BY <1>4 DEF BeginJumphost, CreateKeyPair, CreateGroup, Launch, AwaitRunning, FindHost, AwaitTerminated,
       DeleteKeyPair, AccessFails, EndAccess, FindGroup, DeleteGroup, BreakGlass, CreatePod, AwaitPod,
       Goes, AccessPcs
  <2> QED
    BY <1>0, <2>1 DEF PodsGone
<1>5. CASE HostState \/ PodStarts
  BY <1>5 DEF HostState, PodStarts, PodsGone
<1> QED
  BY <1>1, <1>2, <1>3, <1>4, <1>5 DEF JumphostNext, BreakGlassNext

-----------------------------------------------------------------------------
LEMMA CaptureInitInv == CaptureInit => CaptureInv
<1>1. SUFFICES ASSUME CaptureInit PROVE CaptureInv
  OBVIOUS
<1>2. deployed \in [CaptureKind -> SUBSET Capturer] /\ cpc \in [Capturer -> CapturePcs]
  BY <1>1 DEF CaptureInit, CapturePcs
<1>3. /\ toCopy \in [Capturer -> SUBSET (CaptureKind \X CaptureNode)]
      /\ copied \in [Capturer -> SUBSET CaptureNode] /\ kind \in [Capturer -> CaptureKind]
  BY <1>1 DEF CaptureInit
<1>4. DOMAIN capturePods = {}
  BY <1>1 DEF CaptureInit
<1>5. \A c \in Capturer : cpc[c] = "idle"
  BY <1>1 DEF CaptureInit
<1> QED
  BY <1>2, <1>3, <1>4, <1>5 DEF CaptureInv

\* The part of the invariant about one SRE.
CaptureOf(c) ==
    /\ cpc[c] \in {"wait", "list", "copy", "delete"} => deployed[kind[c]] = {c}
    /\ kind[c] = "DaemonSet" =>
        /\ cpc[c] = "list" => \A n \in CaptureNode : PodOfNode(c, n) \in DOMAIN capturePods
        /\ cpc[c] = "copy" => \A n \in CaptureNode : PodOfNode(c, n) \in toCopy[c] \/ n \in copied[c]
        /\ cpc[c] = "delete" => copied[c] = CaptureNode

\* Only the run that has the object, or whoever cleans up after a failed one that had
\* it, deletes it and its pods.
LEMMA CaptureInvStep ==
    ASSUME CaptureInv, CaptureNext \/ UNCHANGED captureVars
    PROVE  CaptureInv'
<1> DEFINE Types ==
        /\ cpc \in [Capturer -> CapturePcs] /\ kind \in [Capturer -> CaptureKind]
        /\ deployed \in [CaptureKind -> SUBSET Capturer]
        /\ toCopy \in [Capturer -> SUBSET (CaptureKind \X CaptureNode)]
        /\ copied \in [Capturer -> SUBSET CaptureNode]
        /\ DOMAIN capturePods \subseteq CaptureKind \X CaptureNode
<1>0. Types /\ \A c \in Capturer : CaptureOf(c)
  BY DEF CaptureInv, CaptureOf
<1>a. SUFFICES Types' /\ \A c \in Capturer : CaptureOf(c)'
  BY DEF CaptureInv, CaptureOf
<1> USE DEF CaptureStep, CapturePcs
<1>1. ASSUME NEW c \in Capturer, LookForObject(c) PROVE Types' /\ \A d \in Capturer : CaptureOf(d)'
  BY <1>0, <1>1 DEF LookForObject, CaptureOf, PodOfNode
<1>2. ASSUME NEW c \in Capturer, CreateObject(c) PROVE Types' /\ \A d \in Capturer : CaptureOf(d)'
  <2>1. CASE deployed[kind[c]] # {}
    BY <1>0, <1>2, <2>1 DEF CreateObject, CaptureOf, PodOfNode
  <2>2. CASE deployed[kind[c]] = {}
    <3>1. /\ cpc' = [cpc EXCEPT ![c] = "wait"] /\ deployed' = [deployed EXCEPT ![kind[c]] = {c}]
          /\ UNCHANGED <<capturePods, kind, toCopy, copied>>
      BY <1>2, <2>2 DEF CreateObject
    <3>2. Types'
      BY <1>0, <3>1
    <3>3. CaptureOf(c)'
      BY <1>0, <3>1 DEF CaptureOf
    <3>4. \A d \in Capturer \ {c} : CaptureOf(d)'
      BY <1>0, <2>2, <3>1 DEF CaptureOf, PodOfNode
    <3> QED
      BY <3>2, <3>3, <3>4
  <2> QED
    BY <2>1, <2>2
<1>3. ASSUME NEW c \in Capturer, AwaitReady(c) PROVE Types' /\ \A d \in Capturer : CaptureOf(d)'
  <2>1. /\ cpc[c] = "wait" /\ cpc' = [cpc EXCEPT ![c] = "list"]
        /\ UNCHANGED <<deployed, capturePods, kind, toCopy, copied>>
    BY <1>3 DEF AwaitReady
  <2>2. kind[c] = "DaemonSet" => \A n \in CaptureNode : PodOfNode(c, n) \in DOMAIN capturePods
    BY <1>3 DEF AwaitReady, PodsOfKind, PodOfNode
  <2>3. Types'
    BY <1>0, <2>1
  <2>4. CaptureOf(c)'
    BY <1>0, <2>1, <2>2 DEF CaptureOf, PodOfNode
  <2>5. \A d \in Capturer \ {c} : CaptureOf(d)'
    BY <1>0, <2>1 DEF CaptureOf, PodOfNode
  <2> QED
    BY <2>3, <2>4, <2>5
<1>4. ASSUME NEW c \in Capturer, ListPodsToCopy(c) PROVE Types' /\ \A d \in Capturer : CaptureOf(d)'
  <2>1. /\ cpc[c] = "list" /\ cpc' = [cpc EXCEPT ![c] = "copy"]
        /\ toCopy' = [toCopy EXCEPT ![c] = DOMAIN capturePods]
        /\ UNCHANGED <<deployed, capturePods, kind, copied>>
    BY <1>4 DEF ListPodsToCopy
  <2>2. Types'
    BY <1>0, <2>1
  <2>3. CaptureOf(c)'
    BY <1>0, <2>1 DEF CaptureOf, PodOfNode
  <2>4. \A d \in Capturer \ {c} : CaptureOf(d)'
    BY <1>0, <2>1 DEF CaptureOf, PodOfNode
  <2> QED
    BY <2>2, <2>3, <2>4
<1>5. ASSUME NEW c \in Capturer, CopyFile(c) PROVE Types' /\ \A d \in Capturer : CaptureOf(d)'
  <2>1. PICK p \in toCopy[c] :
          /\ toCopy' = [toCopy EXCEPT ![c] = @ \ {p}]
          /\ IF p \notin DOMAIN capturePods THEN CaptureStep(c, "copy", "failed") /\ UNCHANGED copied
             ELSE /\ CaptureStep(c, "copy", "copy") /\ capturePods[p] = "ready"
                  /\ copied' = [copied EXCEPT ![c] = @ \cup {p[2]}]
    BY <1>5 DEF CopyFile
  <2>2. UNCHANGED <<deployed, capturePods, kind>> /\ cpc[c] = "copy"
    BY <1>5, <2>1 DEF CopyFile
  <2>3. p \in CaptureKind \X CaptureNode /\ p[2] \in CaptureNode
    BY <1>0, <2>1
  <2>4. Types'
    BY <1>0, <2>1, <2>2, <2>3
  <2>5. CaptureOf(c)'
    <3>1. CASE p \notin DOMAIN capturePods
      BY <1>0, <2>1, <2>2, <3>1 DEF CaptureOf
    <3>2. CASE p \in DOMAIN capturePods
      <4>1. cpc'[c] = "copy" /\ copied'[c] = copied[c] \cup {p[2]} /\ toCopy'[c] = toCopy[c] \ {p}
        BY <1>0, <2>1, <3>2
      <4>2. \A n \in CaptureNode : PodOfNode(c, n) = p => n = p[2]
        BY DEF PodOfNode
      <4>3. \A n \in CaptureNode : PodOfNode(c, n)' = PodOfNode(c, n)
        BY <2>2 DEF PodOfNode
      <4>4. kind[c] = "DaemonSet" =>
              \A n \in CaptureNode : PodOfNode(c, n) \in toCopy[c] \/ n \in copied[c]
        BY <1>0, <2>2 DEF CaptureOf
      <4>5. kind[c] = "DaemonSet" =>
              \A n \in CaptureNode : PodOfNode(c, n)' \in toCopy'[c] \/ n \in copied'[c]
        BY <4>1, <4>2, <4>3, <4>4
      <4> QED
        BY <1>0, <2>2, <4>1, <4>5 DEF CaptureOf
    <3> QED
      BY <3>1, <3>2
  <2>6. \A d \in Capturer \ {c} : cpc'[d] = cpc[d] /\ toCopy'[d] = toCopy[d] /\ copied'[d] = copied[d]
    BY <1>0, <2>1
  <2>7. \A d \in Capturer \ {c} : CaptureOf(d)'
    BY <1>0, <2>2, <2>6 DEF CaptureOf, PodOfNode
  <2> QED
    BY <2>4, <2>5, <2>7
<1>6. ASSUME NEW c \in Capturer, CopiesMade(c) PROVE Types' /\ \A d \in Capturer : CaptureOf(d)'
  <2>1. /\ toCopy[c] = {} /\ cpc[c] = "copy" /\ cpc' = [cpc EXCEPT ![c] = "delete"]
        /\ UNCHANGED <<deployed, capturePods, kind, toCopy, copied>>
    BY <1>6 DEF CopiesMade
  <2>2. Types'
    BY <1>0, <2>1
  <2>3. kind[c] = "DaemonSet" => copied[c] = CaptureNode
    BY <1>0, <2>1 DEF CaptureOf
  <2>4. CaptureOf(c)'
    BY <1>0, <2>1, <2>3 DEF CaptureOf
  <2>5. \A d \in Capturer \ {c} : CaptureOf(d)'
    BY <1>0, <2>1 DEF CaptureOf, PodOfNode
  <2> QED
    BY <2>2, <2>4, <2>5
<1>7. ASSUME NEW c \in Capturer, DeleteObject(c) PROVE Types' /\ \A d \in Capturer : CaptureOf(d)'
  <2>1. /\ cpc[c] = "delete" /\ \E to \in {"failed", "done"} : cpc' = [cpc EXCEPT ![c] = to]
        /\ deployed' = [deployed EXCEPT ![kind[c]] = {}]
        /\ DOMAIN capturePods' = DOMAIN capturePods \ PodsOfKind(kind[c])
        /\ UNCHANGED <<kind, toCopy, copied>>
    BY <1>7 DEF DeleteObject
  <2>2. Types'
    BY <1>0, <2>1
  <2>3. CaptureOf(c)'
    BY <1>0, <2>1 DEF CaptureOf
  <2>4. ASSUME NEW d \in Capturer \ {c} PROVE CaptureOf(d)'
    <3>1. cpc'[d] = cpc[d] /\ toCopy'[d] = toCopy[d] /\ copied'[d] = copied[d] /\ kind'[d] = kind[d]
      BY <1>0, <2>1
    <3>2. cpc[d] \in {"wait", "list", "copy", "delete"} => kind[d] # kind[c]
      BY <1>0, <2>1 DEF CaptureOf
    <3>3. cpc[d] \in {"wait", "list", "copy", "delete"} => deployed'[kind[d]] = {d}
      BY <1>0, <2>1, <3>2 DEF CaptureOf
    <3>4. cpc[d] = "list" =>
            \A n \in CaptureNode : PodOfNode(d, n) \in DOMAIN capturePods => PodOfNode(d, n) \in DOMAIN capturePods'
      BY <2>1, <3>2 DEF PodOfNode, PodsOfKind
    <3> QED
      BY <1>0, <3>1, <3>3, <3>4 DEF CaptureOf, PodOfNode
  <2> QED
    BY <2>2, <2>3, <2>4
<1>8. ASSUME NEW c \in Capturer, CaptureFails(c) PROVE Types' /\ \A d \in Capturer : CaptureOf(d)'
  BY <1>0, <1>8 DEF CaptureFails, CaptureOf, PodOfNode
<1>9. ASSUME NEW c \in Capturer, CaptureAgain(c) PROVE Types' /\ \A d \in Capturer : CaptureOf(d)'
  <2>1. /\ cpc[c] = "failed" /\ cpc' = [cpc EXCEPT ![c] = "idle"]
        /\ deployed' = [k \in CaptureKind |-> deployed[k] \ {c}]
        /\ DOMAIN capturePods' = {q \in DOMAIN capturePods : c \notin deployed[q[1]]}
        /\ toCopy' = [toCopy EXCEPT ![c] = {}] /\ copied' = [copied EXCEPT ![c] = {}]
        /\ UNCHANGED kind
    BY <1>9 DEF CaptureAgain
  <2>2. Types'
    BY <1>0, <2>1
  <2>3. CaptureOf(c)'
    BY <1>0, <2>1 DEF CaptureOf
  <2>4. ASSUME NEW d \in Capturer \ {c} PROVE CaptureOf(d)'
    <3>1. cpc'[d] = cpc[d] /\ toCopy'[d] = toCopy[d] /\ copied'[d] = copied[d] /\ kind'[d] = kind[d]
      BY <1>0, <2>1
    <3>2. cpc[d] \in {"wait", "list", "copy", "delete"} => deployed[kind[d]] = {d} /\ deployed'[kind[d]] = {d}
      BY <1>0, <2>1 DEF CaptureOf
    <3>3. cpc[d] = "list" =>
            \A n \in CaptureNode : PodOfNode(d, n) \in DOMAIN capturePods => PodOfNode(d, n) \in DOMAIN capturePods'
      BY <2>1, <3>2 DEF PodOfNode
    <3> QED
      BY <1>0, <3>1, <3>2, <3>3 DEF CaptureOf, PodOfNode
  <2> QED
    BY <2>2, <2>3, <2>4
<1>10. ASSUME NEW n \in CaptureNode, PodOn(n) PROVE Types' /\ \A d \in Capturer : CaptureOf(d)'
  <2>1. PICK k \in CaptureKind : DOMAIN capturePods' = DOMAIN capturePods \cup {<<k, n>>}
    BY <1>10 DEF PodOn
  <2>2. UNCHANGED <<deployed, cpc, kind, toCopy, copied>>
    BY <1>10 DEF PodOn
  <2> QED
    BY <1>0, <2>1, <2>2 DEF CaptureOf, PodOfNode
<1>11. CASE CaptureEnds
  BY <1>0, <1>11 DEF CaptureEnds, CaptureOf, PodOfNode
<1>12. CASE UNCHANGED captureVars
  BY <1>0, <1>12 DEF captureVars, CaptureOf, PodOfNode
<1> QED
  BY <1>1, <1>2, <1>3, <1>4, <1>5, <1>6, <1>7, <1>8, <1>9, <1>10, <1>11, <1>12 DEF CaptureNext

OwnDeleted ==
    \A c \in Capturer : cpc[c] = "delete" /\ cpc'[c] = "done" =>
        /\ deployed[kind[c]] = {c}
        /\ kind[c] = "DaemonSet" => copied[c] = CaptureNode

LEMMA OwnDeletedStep == CaptureInv => OwnDeleted
  BY DEF CaptureInv, OwnDeleted

-----------------------------------------------------------------------------
LEMMA RepairInitInv == RepairInit => RepairInv
<1>1. SUFFICES ASSUME RepairInit PROVE RepairInv
  OBVIOUS
<1>2. lastSync = 1 /\ sync.id = 1 /\ running = MonitoringPod
  BY <1>1 DEF RepairInit
<1>3. fpc \in [Fixer -> RepairPcs] /\ \A f \in Fixer : fpc[f] = "idle"
  BY <1>1 DEF RepairInit, RepairPcs
<1>4. /\ deletedSync \in [Fixer -> Nat] /\ \A f \in Fixer : deletedSync[f] = 0
      /\ volumes \in [Fixer -> SUBSET MonitoringPod] /\ \A f \in Fixer : volumes[f] = {}
      /\ ranSince \in [Fixer -> SUBSET MonitoringPod]
  BY <1>1 DEF RepairInit
<1> QED
  BY <1>2, <1>3, <1>4 DEF RepairInv

\* What a run is going to detach did not run when it looked, and the ClusterSync it
\* waits for is of a later number than the one it deleted.
LEMMA RepairInvStep ==
    ASSUME RepairInv, RepairNext \/ UNCHANGED repairVars
    PROVE  RepairInv'
<1> USE DEF RepairInv, RepairStep, RepairPcs
<1>0. NoSync.id = 0 /\ NoSync.failed = "none"
  BY DEF NoSync
<1>1. ASSUME NEW f \in Fixer, ListStuckPods(f) PROVE RepairInv'
  BY <1>1 DEF ListStuckPods
<1>2. ASSUME NEW f \in Fixer, ResolveVolumes(f) PROVE RepairInv'
  BY <1>2 DEF ResolveVolumes
<1>3. ASSUME NEW f \in Fixer, DetachVolume(f) PROVE RepairInv'
  BY <1>3 DEF DetachVolume
<1>4. ASSUME NEW f \in Fixer, VolumesDetached(f) PROVE RepairInv'
  BY <1>4 DEF VolumesDetached
<1>5. ASSUME NEW f \in Fixer, FindSync(f) PROVE RepairInv'
  BY <1>5 DEF FindSync
<1>6. ASSUME NEW f \in Fixer, DeleteSync(f) PROVE RepairInv'
  BY <1>6 DEF DeleteSync
<1>7. ASSUME NEW f \in Fixer, AwaitSync(f) PROVE RepairInv'
  BY <1>7 DEF AwaitSync
<1>8. ASSUME NEW f \in Fixer, RepairFails(f) PROVE RepairInv'
  BY <1>8 DEF RepairFails
<1>9. ASSUME NEW p \in MonitoringPod, PodStops(p) PROVE RepairInv'
  BY <1>9 DEF PodStops
<1>10. ASSUME NEW p \in MonitoringPod, PodRuns(p) PROVE RepairInv'
  BY <1>10 DEF PodRuns
<1>11. CASE HiveSyncs
  <2>1. UNCHANGED <<fpc, deletedSync, volumes, ranSince, running>> /\ sync'.id = lastSync'
    BY <1>11 DEF HiveSyncs
  <2>2. CASE sync = NoSync
    <3>1. lastSync' = lastSync + 1
      BY <1>11, <2>2 DEF HiveSyncs
    <3>2. lastSync' \in Nat \ {0} /\ \A f \in Fixer : deletedSync[f] < lastSync'
      BY <3>1
    <3> QED
      BY <2>1, <3>1, <3>2
  <2>3. CASE sync # NoSync
    <3>1. lastSync' = lastSync
      BY <1>11, <2>3 DEF HiveSyncs
    <3> QED
      BY <2>1, <2>3, <3>1
  <2> QED
    BY <2>2, <2>3
<1>12. CASE UNCHANGED repairVars
  BY <1>12 DEF repairVars
<1> QED
  BY <1>1, <1>2, <1>3, <1>4, <1>5, <1>6, <1>7, <1>8, <1>9, <1>10, <1>11, <1>12 DEF RepairNext, RepairRun

RepairsRight ==
    /\ \A p \in attached \ attached' : \E f \in Fixer : p \notin ranSince[f] /\ p \in volumes[f]
    /\ \A f \in Fixer : fpc[f] = "awaitSync" /\ fpc'[f] = "synced" => sync.id > deletedSync[f]

LEMMA RepairsRightStep ==
    ASSUME RepairInv, RepairNext
    PROVE  RepairsRight
<1>1. \A p \in attached \ attached' : \E f \in Fixer : p \notin ranSince[f] /\ p \in volumes[f]
  <2>1. ASSUME NEW f \in Fixer, DetachVolume(f),
               NEW p \in attached \ attached'
        PROVE  p \notin ranSince[f] /\ p \in volumes[f]
    <3>1. PICK v \in volumes[f] : attached' = attached \ {v}
      BY <2>1 DEF DetachVolume
    <3> QED
      BY <3>1 DEF RepairInv
  <2>2. ASSUME ~(\E f \in Fixer : DetachVolume(f)) PROVE attached \subseteq attached'
    BY <2>2 DEF RepairNext, RepairRun, ListStuckPods, ResolveVolumes, VolumesDetached, FindSync, DeleteSync,
       AwaitSync, RepairFails, PodStops, PodRuns, HiveSyncs
  <2> QED
    BY <2>1, <2>2
<1>2. ASSUME NEW f \in Fixer, fpc[f] = "awaitSync", fpc'[f] = "synced" PROVE sync.id > deletedSync[f]
  <2>0. fpc \in [Fixer -> RepairPcs]
    BY DEF RepairInv
  <2>1. ASSUME NEW g \in Fixer, RepairRun(g), ~AwaitSync(g) PROVE FALSE
    <3>1. PICK to \in RepairPcs \ {"synced"} : fpc' = [fpc EXCEPT ![g] = to]
      BY <2>1 DEF RepairRun, ListStuckPods, ResolveVolumes, DetachVolume, VolumesDetached, FindSync, DeleteSync,
         RepairFails, RepairStep, RepairPcs
    <3> QED
      BY <1>2, <2>0, <3>1
  <2>2. UNCHANGED fpc => FALSE
    BY <1>2
  <2>3. PICK g \in Fixer : AwaitSync(g)
    BY <2>1, <2>2 DEF RepairNext, PodStops, PodRuns, HiveSyncs
  <2>4. sync.failed = "False" /\ sync # NoSync
    BY <2>3 DEF AwaitSync, NoSync
  <2>5. sync.id = lastSync /\ deletedSync[f] < lastSync
    BY <1>2, <2>4 DEF RepairInv
  <2> QED
    BY <2>5 DEF RepairInv
<1> QED
  BY <1>1, <1>2 DEF RepairsRight

-----------------------------------------------------------------------------
LEMMA NoticeInitInv == NoticeInit => NoticeInv
<1>1. SUFFICES ASSUME NoticeInit PROVE NoticeInv
  OBVIOUS
<1>2. namedReason \in [Notifier -> Nat]
  <2>1. 0..MaxReason \subseteq Nat
    BY NoticeAssumption
  <2> QED
    BY <1>1, <2>1 DEF NoticeInit
<1>3. NoticeTyped
  BY <1>1, <1>2 DEF NoticeInit, NoticeTyped, NoticePcs
<1>4. ASSUME NEW n \in Notifier PROVE LogInv(n) /\ ReasonInv(n)
  <2>1. /\ noticePc[n] = "idle" /\ Posted(n) = {} /\ mine[n] = 0 /\ dropped[n] = {} /\ toDrop[n] = {}
        /\ \A c \in Mailbox : mail[c] = {}
    BY <1>1 DEF NoticeInit, Posted
  <2> QED
    BY <2>1 DEF LogInv, ReasonInv
<1>5. evidence = {}
  BY <1>1 DEF NoticeInit
<1> QED
  BY <1>3, <1>4, <1>5 DEF NoticeInv

LEMMA NoticeTypedStep ==
    ASSUME NoticeTyped, NoticeNext \/ UNCHANGED noticeVars
    PROVE  NoticeTyped'
<1> USE DEF NoticeTyped, NoticeStep, NoticePcs, logState, reasonState
<1>1. ASSUME NEW n \in Notifier, PrepareLog(n) PROVE NoticeTyped'
  BY <1>1 DEF PrepareLog
<1>2. ASSUME NEW n \in Notifier, ConfirmLog(n) PROVE NoticeTyped'
  BY <1>2 DEF ConfirmLog
<1>3. ASSUME NEW n \in Notifier, SkipCluster(n) PROVE NoticeTyped'
  BY <1>3 DEF SkipCluster
<1>4. ASSUME NEW n \in Notifier, PostLog(n) PROVE NoticeTyped'
  BY <1>4 DEF PostLog
<1>5. ASSUME NEW n \in Notifier, RecordReply(n) PROVE NoticeTyped'
  BY <1>5 DEF RecordReply
<1>6. ASSUME NEW n \in Notifier, ReportLogs(n) PROVE NoticeTyped'
  BY <1>6 DEF ReportLogs
<1>7. ASSUME NEW n \in Notifier, InterruptLogs(n) PROVE NoticeTyped'
  BY <1>7 DEF InterruptLogs
<1>8. ASSUME NEW n \in Notifier, CheckReason(n) PROVE NoticeTyped'
  BY <1>8 DEF CheckReason
<1>9. ASSUME NEW n \in Notifier, PostReason(n) PROVE NoticeTyped'
  <2>1. /\ noticePc' \in [Notifier -> NoticePcs] /\ lastReason' \in Nat
        /\ reasons' \subseteq Nat /\ mine' \in [Notifier -> Nat]
    <3>1. CASE UNCHANGED <<lastReason, reasons, mine>>
      BY <1>9, <3>1 DEF PostReason
    <3>2. CASE lastReason' = lastReason + 1 /\ reasons' = reasons \cup {lastReason'}
      <4>1. lastReason' \in Nat
        BY <3>2
      <4>2. mine' = mine \/ mine' = [mine EXCEPT ![n] = lastReason']
        BY <1>9 DEF PostReason
      <4>3. noticePc' \in [Notifier -> NoticePcs]
        BY <1>9 DEF PostReason
      <4> QED
        BY <3>2, <4>1, <4>2, <4>3
    <3> QED
      BY <1>9, <3>1, <3>2 DEF PostReason
  <2> QED
    BY <1>9, <2>1 DEF PostReason
<1>10. ASSUME NEW n \in Notifier, PostEvidence(n) PROVE NoticeTyped'
  BY <1>10 DEF PostEvidence
<1>11. ASSUME NEW n \in Notifier, ListReasons(n) PROVE NoticeTyped'
  <2>1. PICK found \in {reasons, {}}, all \in BOOLEAN :
          IF found = {} \/ (~all /\ namedReason[n] = 0 /\ Cardinality(found) > 1)
          THEN NoticeStep(n, "idle", "failed") /\ UNCHANGED <<reasonsListed, toDrop>>
          ELSE /\ NoticeStep(n, "idle", "drop")
               /\ reasonsListed' = [reasonsListed EXCEPT ![n] = found]
               /\ toDrop' = [toDrop EXCEPT ![n] = IF all \/ Cardinality(found) = 1 THEN found ELSE {namedReason[n]}]
    BY <1>11 DEF ListReasons
  <2>2. found \in SUBSET Nat /\ {namedReason[n]} \in SUBSET Nat
    OBVIOUS
  <2>3. reasonsListed' \in [Notifier -> SUBSET Nat] /\ toDrop' \in [Notifier -> SUBSET Nat]
    <3> DEFINE goes == IF all \/ Cardinality(found) = 1 THEN found ELSE {namedReason[n]}
    <3>1. goes \in SUBSET Nat
      BY <2>2
    <3>2. \/ UNCHANGED <<reasonsListed, toDrop>>
          \/ /\ reasonsListed' = [reasonsListed EXCEPT ![n] = found]
             /\ toDrop' = [toDrop EXCEPT ![n] = goes]
      BY <2>1
    <3> HIDE DEF goes
    <3> QED
      BY <2>2, <3>1, <3>2
  <2>4. noticePc' \in [Notifier -> NoticePcs]
    BY <2>1
  <2> QED
    BY <1>11, <2>3, <2>4 DEF ListReasons
<1>12. ASSUME NEW n \in Notifier, DropReason(n) PROVE NoticeTyped'
  BY <1>12 DEF DropReason
<1>13. CASE UNCHANGED noticeVars
  BY <1>13 DEF noticeVars
<1> QED
  BY <1>1, <1>2, <1>3, <1>4, <1>5, <1>6, <1>7, <1>8, <1>9, <1>10, <1>11, <1>12, <1>13 DEF NoticeNext

\* A step of one SRE leaves what the invariant says of another alone: a log that is
\* received is the log of the SRE who posts it.
LEMMA OthersNotices ==
    ASSUME NoticeTyped, NEW n \in Notifier, NEW m \in Notifier, m # n, LogInv(m), ReasonInv(m),
           \/ PrepareLog(n) \/ ConfirmLog(n) \/ SkipCluster(n) \/ PostLog(n) \/ RecordReply(n)
           \/ ReportLogs(n) \/ InterruptLogs(n) \/ CheckReason(n) \/ PostReason(n) \/ PostEvidence(n)
           \/ ListReasons(n) \/ DropReason(n)
    PROVE  LogInv(m)' /\ ReasonInv(m)'
<1>1. /\ noticePc'[m] = noticePc[m] /\ matching'[m] = matching[m] /\ unsent'[m] = unsent[m]
      /\ inFlight'[m] = inFlight[m] /\ told'[m] = told[m] /\ untold'[m] = untold[m]
  <2>1. CASE PrepareLog(n) \/ ConfirmLog(n) \/ SkipCluster(n)
    BY <2>1 DEF NoticeTyped, PrepareLog, ConfirmLog, SkipCluster, NoticeStep, logState
  <2>2. CASE PostLog(n)
    BY <2>2 DEF NoticeTyped, PostLog, NoticeStep
  <2>3. CASE RecordReply(n) \/ ReportLogs(n) \/ InterruptLogs(n)
    BY <2>3 DEF NoticeTyped, RecordReply, ReportLogs, InterruptLogs, NoticeStep, logState
  <2>4. CASE CheckReason(n) \/ PostReason(n) \/ PostEvidence(n)
    BY <2>4 DEF NoticeTyped, CheckReason, PostReason, PostEvidence, NoticeStep, logState
  <2>5. CASE ListReasons(n) \/ DropReason(n)
    BY <2>5 DEF NoticeTyped, ListReasons, DropReason, NoticeStep, logState
  <2> QED
    BY <2>1, <2>2, <2>3, <2>4, <2>5
<1>2. /\ mine'[m] = mine[m] /\ namedReason'[m] = namedReason[m] /\ reasonsListed'[m] = reasonsListed[m]
      /\ toDrop'[m] = toDrop[m] /\ dropped'[m] = dropped[m]
  <2>1. CASE PrepareLog(n) \/ ConfirmLog(n) \/ SkipCluster(n) \/ PostLog(n) \/ RecordReply(n)
             \/ ReportLogs(n) \/ InterruptLogs(n) \/ CheckReason(n) \/ PostEvidence(n)
    BY <2>1 DEF PrepareLog, ConfirmLog, SkipCluster, PostLog, RecordReply, ReportLogs, InterruptLogs,
       CheckReason, PostEvidence, reasonState
  <2>2. CASE PostReason(n)
    BY <2>2 DEF NoticeTyped, PostReason, NoticeStep
  <2>3. CASE ListReasons(n)
    BY <2>3 DEF NoticeTyped, ListReasons, NoticeStep
  <2>4. CASE DropReason(n)
    BY <2>4 DEF NoticeTyped, DropReason
  <2> QED
    BY <2>1, <2>2, <2>3, <2>4
<1>3. \A c \in Mailbox : m \in mail'[c] <=> m \in mail[c]
  <2>1. CASE PostLog(n)
    BY <2>1 DEF NoticeTyped, PostLog
  <2>2. CASE ~PostLog(n)
    BY <2>2 DEF PrepareLog, ConfirmLog, SkipCluster, RecordReply, ReportLogs, InterruptLogs,
       CheckReason, PostReason, PostEvidence, ListReasons, DropReason
  <2> QED
    BY <2>1, <2>2
<1>4. Posted(m)' = Posted(m)
  BY <1>1 DEF Posted
<1>5. LogInv(m)'
  BY <1>1, <1>3, <1>4 DEF LogInv
<1>6. ReasonInv(m)'
  BY <1>1, <1>2 DEF ReasonInv
<1> QED
  BY <1>5, <1>6

\* What a step of an SRE does to what the invariant says of that SRE.
LEMMA OwnNotices ==
    ASSUME NoticeTyped, NoticeTyped', NEW n \in Notifier, LogInv(n), ReasonInv(n),
           \/ PrepareLog(n) \/ ConfirmLog(n) \/ SkipCluster(n) \/ PostLog(n) \/ RecordReply(n)
           \/ ReportLogs(n) \/ InterruptLogs(n) \/ CheckReason(n) \/ PostReason(n) \/ PostEvidence(n)
           \/ ListReasons(n) \/ DropReason(n)
    PROVE  LogInv(n)' /\ ReasonInv(n)'
<1> USE DEF NoticeTyped, NoticeStep, logState, reasonState
<1>1. CASE PrepareLog(n)
  BY <1>1 DEF PrepareLog, LogInv, ReasonInv, Posted
<1>2. CASE ConfirmLog(n)
  BY <1>2 DEF ConfirmLog, LogInv, ReasonInv, Posted
<1>3. CASE SkipCluster(n)
  <2>1. noticePc[n] = "loop" /\ noticePc'[n] = "loop"
    BY <1>3 DEF SkipCluster
  <2>2. PICK c \in unsent[n] : unsent'[n] = unsent[n] \ {c} /\ matching'[n] = matching[n] \ {c}
    BY <1>3 DEF SkipCluster
  <2>3. Posted(n)' = Posted(n) /\ UNCHANGED <<mail, inFlight, told, untold>>
    BY <1>3 DEF SkipCluster, Posted
  <2>4. LogInv(n)'
    BY <2>1, <2>2, <2>3 DEF LogInv, Posted
  <2>5. ReasonInv(n)'
    BY <1>3, <2>1 DEF SkipCluster, ReasonInv
  <2> QED
    BY <2>4, <2>5
<1>4. CASE PostLog(n)
  <2>1. noticePc[n] = "loop" /\ noticePc'[n] = "loop" /\ inFlight[n] = {}
    BY <1>4 DEF PostLog
  <2>2. PICK c \in unsent[n] :
          /\ unsent'[n] = unsent[n] \ {c} /\ inFlight'[n] = {c}
          /\ mail' = [mail EXCEPT ![c] = @ \cup {n}] \/ mail' = mail
    BY <1>4 DEF PostLog
  <2>3. UNCHANGED <<matching, told, untold>>
    BY <1>4 DEF PostLog
  <2>4. Posted(n)' = Posted(n) \cup {c}
    BY <2>1, <2>2, <2>3 DEF Posted
  <2>5. c \in Mailbox /\ c \notin Posted(n) /\ c \in matching[n]
    BY <2>1, <2>2 DEF LogInv
  <2>6. \A b \in Mailbox : (n \in mail[b] => n \in mail'[b]) /\ (n \in mail'[b] => n \in mail[b] \/ b = c)
    BY <2>2, <2>5
  <2>7. /\ matching[n] = unsent'[n] \cup Posted(n)' /\ unsent'[n] \cap Posted(n)' = {}
        /\ inFlight'[n] \cap (told[n] \cup untold[n]) = {}
    BY <2>1, <2>2, <2>4, <2>5 DEF LogInv, Posted
  <2>8. LogInv(n)'
    BY <2>1, <2>3, <2>4, <2>6, <2>7 DEF LogInv
  <2>9. ReasonInv(n)'
    BY <1>4, <2>1 DEF PostLog, ReasonInv
  <2> QED
    BY <2>8, <2>9
<1>5. CASE RecordReply(n)
  <2>1. noticePc[n] = "loop" /\ noticePc'[n] = "loop" /\ inFlight'[n] = {}
    BY <1>5 DEF RecordReply
  <2>2. UNCHANGED <<mail, matching, unsent>>
    BY <1>5 DEF RecordReply
  <2>3. \/ /\ \A c \in inFlight[n] : n \in mail[c]
           /\ told'[n] = told[n] \cup inFlight[n] /\ untold'[n] = untold[n]
        \/ told'[n] = told[n] /\ untold'[n] = untold[n] \cup inFlight[n]
    BY <1>5 DEF RecordReply
  <2>4. Posted(n)' = Posted(n)
    BY <2>1, <2>3 DEF Posted
  <2>5. told'[n] \cap untold'[n] = {} /\ \A c \in told'[n] : n \in mail[c]
    BY <2>1, <2>3 DEF LogInv
  <2>6. LogInv(n)'
    BY <2>1, <2>2, <2>4, <2>5 DEF LogInv
  <2>7. ReasonInv(n)'
    BY <1>5, <2>1 DEF RecordReply, ReasonInv
  <2> QED
    BY <2>6, <2>7
<1>6. CASE ReportLogs(n)
  <2>1. /\ noticePc[n] = "loop" /\ noticePc'[n] = "reported" /\ inFlight[n] = {} /\ unsent[n] = {}
        /\ UNCHANGED <<mail, matching, unsent, inFlight, told, untold>>
    BY <1>6 DEF ReportLogs
  <2>2. LogInv(n)'
    BY <2>1 DEF LogInv, Posted
  <2>3. ReasonInv(n)'
    BY <1>6, <2>1 DEF ReportLogs, ReasonInv
  <2> QED
    BY <2>2, <2>3
<1>7. CASE InterruptLogs(n)
  <2>1. /\ noticePc[n] = "loop" /\ noticePc'[n] \in {"reported", "killed"}
        /\ UNCHANGED <<mail, matching, told>>
    BY <1>7 DEF InterruptLogs
  <2>2. noticePc'[n] = "reported" => untold'[n] = untold[n] \cup (matching[n] \ told[n])
    BY <1>7 DEF InterruptLogs
  <2>3. LogInv(n)'
    BY <2>1, <2>2 DEF LogInv, Posted
  <2>4. ReasonInv(n)'
    BY <1>7, <2>1 DEF InterruptLogs, ReasonInv
  <2> QED
    BY <2>3, <2>4
<1>8. CASE CheckReason(n)
  BY <1>8 DEF CheckReason, LogInv, ReasonInv, Posted
<1>9. CASE PostReason(n)
  <2>1. /\ noticePc[n] = "reason" /\ noticePc'[n] \in {"evidence", "done", "failed"}
        /\ UNCHANGED <<mail, logState, namedReason, reasonsListed, toDrop, dropped>>
    BY <1>9 DEF PostReason
  <2>2. noticePc'[n] = "evidence" => mine'[n] = lastReason + 1
    BY <1>9 DEF PostReason
  <2>3. LogInv(n)'
    BY <2>1 DEF LogInv, Posted
  <2>4. ReasonInv(n)'
    BY <2>1, <2>2 DEF ReasonInv
  <2> QED
    BY <2>3, <2>4
<1>10. CASE PostEvidence(n)
  BY <1>10 DEF PostEvidence, LogInv, ReasonInv, Posted
<1>11. CASE ListReasons(n)
  <2>1. /\ noticePc[n] = "idle" /\ noticePc'[n] \in {"failed", "drop"}
        /\ UNCHANGED <<mail, logState, mine, namedReason, dropped>>
    BY <1>11 DEF ListReasons
  <2>2. LogInv(n)'
    BY <2>1 DEF LogInv, Posted
  <2>3. toDrop'[n] \subseteq reasonsListed'[n] \cup {namedReason[n]}
    <3>1. PICK found \in {reasons, {}}, all \in BOOLEAN :
          IF found = {} \/ (~all /\ namedReason[n] = 0 /\ Cardinality(found) > 1)
          THEN NoticeStep(n, "idle", "failed") /\ UNCHANGED <<reasonsListed, toDrop>>
          ELSE /\ NoticeStep(n, "idle", "drop")
               /\ reasonsListed' = [reasonsListed EXCEPT ![n] = found]
               /\ toDrop' = [toDrop EXCEPT ![n] = IF all \/ Cardinality(found) = 1 THEN found ELSE {namedReason[n]}]
      BY <1>11 DEF ListReasons
    <3>2. CASE UNCHANGED <<reasonsListed, toDrop>>
      BY <3>2 DEF ReasonInv
    <3>3. CASE /\ reasonsListed' = [reasonsListed EXCEPT ![n] = found]
               /\ toDrop' = [toDrop EXCEPT ![n] = IF all \/ Cardinality(found) = 1 THEN found ELSE {namedReason[n]}]
      BY <3>3
    <3> QED
      BY <3>1, <3>2, <3>3
  <2>4. ReasonInv(n)'
    BY <2>1, <2>3 DEF ReasonInv
  <2> QED
    BY <2>2, <2>4
<1>12. CASE DropReason(n)
  <2>1. noticePc[n] = "drop"
    BY <1>12 DEF DropReason
  <2>2. noticePc'[n] \in {"done", "drop"}
    BY <1>12 DEF DropReason
  <2>3. PICK r \in toDrop[n] :
          /\ toDrop' = [toDrop EXCEPT ![n] = @ \ {r}]
          /\ \/ reasons' = reasons \ {r} /\ dropped' = [dropped EXCEPT ![n] = @ \cup (reasons \cap {r})]
             \/ UNCHANGED <<reasons, dropped>>
    BY <1>12 DEF DropReason
  <2>4. UNCHANGED <<mail, logState, mine, namedReason, reasonsListed>>
    BY <1>12 DEF DropReason
  <2>5. toDrop'[n] \subseteq toDrop[n] /\ dropped'[n] \subseteq dropped[n] \cup toDrop[n]
    BY <2>3
  <2>6. LogInv(n)'
    BY <2>1, <2>2, <2>4 DEF LogInv, Posted
  <2>7. ReasonInv(n)'
    BY <2>1, <2>2, <2>4, <2>5 DEF ReasonInv
  <2> QED
    BY <2>6, <2>7
<1> QED
  BY <1>1, <1>2, <1>3, <1>4, <1>5, <1>6, <1>7, <1>8, <1>9, <1>10, <1>11, <1>12

\* Evidence names the reason its run posted, which the run never forgets.
LEMMA EvidenceStep ==
    ASSUME NoticeInv, NoticeNext
    PROVE  evidence' \subseteq {mine'[m] : m \in Notifier} \ {0}
<1> DEFINE Ids == {mine[m] : m \in Notifier} \ {0}
<1>0. NoticeTyped /\ evidence \subseteq Ids
  BY DEF NoticeInv
<1>1. ASSUME NEW n \in Notifier, PostReason(n) PROVE evidence' \subseteq {mine'[m] : m \in Notifier} \ {0}
  <2>1. noticePc[n] = "reason" /\ evidence' = evidence
    BY <1>1 DEF PostReason
  <2>2. mine[n] = 0
    BY <2>1 DEF NoticeInv, ReasonInv
  <2>3. \A m \in Notifier \ {n} : mine'[m] = mine[m]
    BY <1>0, <1>1 DEF PostReason, NoticeTyped
  <2> QED
    BY <1>0, <2>1, <2>2, <2>3
<1>2. ASSUME NEW n \in Notifier, PostEvidence(n) PROVE evidence' \subseteq {mine'[m] : m \in Notifier} \ {0}
  <2>1. mine' = mine /\ evidence' \subseteq evidence \cup {mine[n]}
    BY <1>2 DEF PostEvidence, reasonState
  <2>2. evidence' # evidence => noticePc[n] = "evidence"
    BY <1>2 DEF PostEvidence, NoticeStep
  <2>3. noticePc[n] = "evidence" => mine[n] # 0
    BY DEF NoticeInv, ReasonInv
  <2> QED
    BY <1>0, <2>1, <2>2, <2>3
<1>3. ASSUME NEW n \in Notifier,
             \/ PrepareLog(n) \/ ConfirmLog(n) \/ SkipCluster(n) \/ PostLog(n) \/ RecordReply(n)
             \/ ReportLogs(n) \/ InterruptLogs(n) \/ CheckReason(n) \/ ListReasons(n) \/ DropReason(n)
      PROVE  UNCHANGED <<evidence, mine>>
  BY <1>3 DEF PrepareLog, ConfirmLog, SkipCluster, PostLog, RecordReply, ReportLogs, InterruptLogs,
     CheckReason, ListReasons, DropReason, reasonState
<1> QED
  BY <1>0, <1>1, <1>2, <1>3 DEF NoticeNext

LEMMA NoticeInvStep ==
    ASSUME NoticeInv, NoticeNext \/ UNCHANGED noticeVars
    PROVE  NoticeInv'
<1>0. NoticeTyped /\ \A m \in Notifier : LogInv(m) /\ ReasonInv(m)
  BY DEF NoticeInv
<1>1. NoticeTyped'
  BY <1>0, NoticeTypedStep
<1>2. CASE NoticeNext
  <2>1. PICK n \in Notifier :
           \/ PrepareLog(n) \/ ConfirmLog(n) \/ SkipCluster(n) \/ PostLog(n) \/ RecordReply(n)
           \/ ReportLogs(n) \/ InterruptLogs(n) \/ CheckReason(n) \/ PostReason(n) \/ PostEvidence(n)
           \/ ListReasons(n) \/ DropReason(n)
    BY <1>2 DEF NoticeNext
  <2>2. LogInv(n)' /\ ReasonInv(n)'
    BY <1>0, <1>1, <2>1, OwnNotices
  <2>3. \A m \in Notifier : m # n => LogInv(m)' /\ ReasonInv(m)'
    BY <1>0, <2>1, OthersNotices
  <2>4. evidence' \subseteq {mine'[m] : m \in Notifier} \ {0}
    BY <1>2, EvidenceStep
  <2> QED
    BY <1>1, <2>2, <2>3, <2>4 DEF NoticeInv
<1>3. CASE UNCHANGED noticeVars
  BY <1>1, <1>3 DEF NoticeInv, noticeVars, logState, reasonState, LogInv, ReasonInv, Posted
<1> QED
  BY <1>2, <1>3

LEMMA NoticeInvTold == NoticeInv => NoticesTold
  BY DEF NoticeInv, NoticeTyped, LogInv, ReasonInv, NoticesTold

-----------------------------------------------------------------------------
LEMMA BranchIsOwn == BranchName # MasterBranch /\ BranchName' # MasterBranch
<1>1. \A h : <<"block", h>> # MasterBranch /\ <<"promote", h>> # MasterBranch
  BY DEF MasterBranch
<1> QED
  BY <1>1 DEF BranchName

LEMMA PromotedInRef == Promoted \subseteq Ref
  BY DEF Promoted, Canaries, Gates, ProdTargets

\* What is promoted depends on the command and the marks of the targets alone.
LEMMA PromotedStays ==
    ASSUME UNCHANGED <<promoCmd, trait>>
    PROVE  Promoted' = Promoted
  BY DEF Promoted, Canaries, Gates, ProdTargets

LEMMA OtherBranchKept ==
    ASSUME MasterBranch \in DOMAIN trees, NEW b, NEW t, b # MasterBranch, trees' = WithBranch(b, t)
    PROVE  MasterBranch \in DOMAIN trees' /\ trees'[MasterBranch] = trees[MasterBranch] /\ trees'[b] = t
  BY DEF WithBranch

LEMMA PromoInitInv == PromoInit \/ NoClone => PromoInv
<1>1. CASE PromoInit
  <2>1. promoPc = "idle" /\ promoCmd = "none"
    BY <1>1 DEF PromoInit
  <2>2. workTree.refs \in [Ref -> Hash]
    BY <1>1 DEF PromoInit
  <2>3. DOMAIN trees = {MasterBranch} /\ trees[MasterBranch] \in Bases
    BY <1>1, <2>2 DEF PromoInit, Bases
  <2>4. MasterInv
    BY <2>1, <2>3 DEF MasterInv, Bases, Working, BeforeEdit
  <2>5. RunInv /\ DocInv
    BY <2>1 DEF RunInv, DocInv, Checking
  <2>6. PromotionIsWhole
    BY <2>1, <2>4 DEF MasterInv, PromotionIsWhole
  <2> QED
    BY <2>4, <2>5, <2>6 DEF PromoInv
<1>2. CASE NoClone
  <2>1. promoPc = "none" /\ promoCmd = "none"
    BY <1>2 DEF NoClone
  <2>2. /\ DOMAIN trees = {MasterBranch}
        /\ trees[MasterBranch].own = {} /\ trees[MasterBranch].blocked = {}
    BY <1>2 DEF NoClone
  <2>3. MasterInv
    BY <2>1, <2>2 DEF MasterInv, Working, BeforeEdit
  <2>4. RunInv /\ DocInv
    BY <2>1 DEF RunInv, DocInv, Checking
  <2>5. PromotionIsWhole
    BY <2>1, <2>2 DEF PromotionIsWhole
  <2> QED
    BY <2>3, <2>4, <2>5 DEF PromoInv
<1> QED
  BY <1>1, <1>2

\* Master changes only when the SRE pulls it; a run commits to its own branch.
LEMMA MasterStep ==
    ASSUME MasterInv, PromoNext \/ UNCHANGED promoVars
    PROVE  MasterInv'
<1> USE DEF Working, BeforeEdit, Checking, PromoStep, PromoAtRest, promoRun
<1>0. /\ MasterBranch \in DOMAIN trees
      /\ promoPc # "none" => trees[MasterBranch] \in Bases
      /\ trees[MasterBranch].own = {} /\ trees[MasterBranch].blocked = {}
  BY DEF MasterInv
<1>1. CASE ReadFiles
  <2>1. promoPc \in {"idle", "done", "failed"} /\ promoPc' \in {"clean", "checkout"}
    BY <1>1 DEF ReadFiles
  <2>2. trees' = trees /\ newHash' \in Hash /\ gitClone' = gitClone
    BY <1>1 DEF ReadFiles
  <2>3. promoCmd' \in Checking => gitClone = "app-interface"
    BY <1>1 DEF ReadFiles, PromoCmd
  <2> QED
    BY <1>0, <2>1, <2>2, <2>3 DEF MasterInv
<1>2. CASE CheckClean \/ FilterTargets \/ GetRepo \/ PromoFails
  <2>1. UNCHANGED <<trees, promoRun, gitClone, onBranch>>
    BY <1>2 DEF CheckClean, FilterTargets, GetRepo, PromoFails
  <2>2. promoPc \in Working /\ promoPc' \in {"filter", "repo", "checkout", "failed"}
    BY <1>2 DEF CheckClean, FilterTargets, GetRepo, PromoFails
  <2> QED
    BY <1>0, <2>1, <2>2 DEF MasterInv
<1>3. CASE CheckoutNewBranch \/ UpdateDynatraceConfig
  <2>1. promoPc = "checkout" /\ promoPc' \in {"edit", "failed"} /\ UNCHANGED <<promoRun, gitClone>>
    BY <1>3 DEF CheckoutNewBranch, UpdateDynatraceConfig
  <2>2. CASE UNCHANGED trees /\ promoPc' = "failed"
    BY <1>0, <2>1, <2>2 DEF MasterInv
  <2>3. CASE trees' = WithBranch(BranchName, trees[MasterBranch]) /\ onBranch' = BranchName
    <3>1. MasterBranch \in DOMAIN trees' /\ trees'[MasterBranch] = trees[MasterBranch]
      BY <1>0, <2>3, BranchIsOwn, OtherBranchKept
    <3>2. BranchName' = BranchName
      BY <2>1 DEF BranchName
    <3> QED
      BY <1>0, <2>1, <2>3, <3>1, <3>2 DEF MasterInv
  <2> QED
    BY <1>3, <2>2, <2>3 DEF CheckoutNewBranch, UpdateDynatraceConfig
<1>4. CASE PromoteGroup \/ AddBlockedVersion \/ UpdateFiles \/ UpdateModule
  <2>1. promoPc = "edit" /\ promoPc' \in {"commit", "failed"} /\ UNCHANGED <<trees, promoRun, gitClone, onBranch>>
    BY <1>4 DEF PromoteGroup, AddBlockedVersion, UpdateFiles, UpdateModule
  <2>2. BranchName' = BranchName
    BY <2>1 DEF BranchName
  <2> QED
    BY <1>0, <2>1, <2>2 DEF MasterInv
<1>5. CASE CommitAll
  <2>1. /\ promoPc = "commit" /\ promoPc' \in {"edit", "done", "failed"}
        /\ UNCHANGED <<promoRun, gitClone, onBranch>>
    BY <1>5 DEF CommitAll
  <2>2. BranchName' = BranchName /\ onBranch = BranchName
    BY <2>1 DEF BranchName, MasterInv
  <2>3. MasterBranch \in DOMAIN trees' /\ trees'[MasterBranch] = trees[MasterBranch]
    BY <1>0, <1>5, <2>2, BranchIsOwn, OtherBranchKept DEF CommitAll
  <2> QED
    BY <1>0, <2>1, <2>2, <2>3 DEF MasterInv
<1>6. CASE EditOther
  <2>1. CASE Afterwards
    BY <1>0, <1>6, <2>1 DEF EditOther, Afterwards, MasterInv
  <2>2. CASE ~Afterwards
    <3>1. UNCHANGED <<promoPc, promoRun, gitClone, trees>> /\ promoPc = "repo"
      BY <1>6, <2>2 DEF EditOther
    <3> QED
      BY <1>0, <3>1 DEF MasterInv
  <2> QED
    BY <2>1, <2>2
<1>7. CASE Discard \/ SwitchBranch
  <2>1. promoPc # "none" /\ promoPc' = "idle" /\ trees' = trees
    BY <1>7 DEF Discard, SwitchBranch, Afterwards
  <2> QED
    BY <1>0, <2>1 DEF MasterInv
<1>8. CASE PullMaster
  <2>1. promoPc # "none" /\ promoPc' = "idle" /\ workTree = FilesOf(trees[MasterBranch])
    BY <1>8 DEF PullMaster, Afterwards, Unstaged
  <2>2. PICK t \in Ref, h \in Hash : workTree' = [workTree EXCEPT !.refs[t] = h]
    BY <1>8 DEF PullMaster
  <2>3. workTree.refs \in [Ref -> Hash]
    BY <1>0, <2>1 DEF Bases, FilesOf
  <2>4. workTree'.refs = [workTree.refs EXCEPT ![t] = h]
    BY <2>1, <2>2 DEF FilesOf
  <2>5. workTree'.refs \in [Ref -> Hash]
    BY <2>3, <2>4
  <2>6. DOMAIN trees' = DOMAIN trees \cup {MasterBranch}
        /\ trees'[MasterBranch] = [trees[MasterBranch] EXCEPT !.refs = workTree'.refs]
    BY <1>8 DEF PullMaster, WithBranch
  <2>7. trees'[MasterBranch] \in Bases
    BY <1>0, <2>1, <2>5, <2>6 DEF Bases
  <2>8. trees'[MasterBranch].own = {} /\ trees'[MasterBranch].blocked = {}
    BY <2>7 DEF Bases
  <2> QED
    BY <1>0, <2>1, <2>6, <2>7, <2>8 DEF MasterInv
<1>9. CASE UNCHANGED promoVars
  BY <1>9 DEF MasterInv, promoVars, BranchName
<1> QED
  BY <1>1, <1>2, <1>3, <1>4, <1>5, <1>6, <1>7, <1>8, <1>9 DEF PromoNext

\* A run that saw to it began without edits.
LEMMA RunStep ==
    ASSUME RunInv, PromoNext \/ UNCHANGED promoVars
    PROVE  RunInv'
<1> USE DEF RunInv, Working, BeforeEdit, Checking, PromoStep, PromoAtRest, promoRun
<1>1. CASE ReadFiles
  BY <1>1 DEF ReadFiles
<1>2. CASE CheckClean
  BY <1>2 DEF CheckClean
<1>3. CASE FilterTargets
  <2>1. promoPc = "filter" /\ promoPc' \in {"failed", "repo"} /\ UNCHANGED promoRun
    BY <1>3 DEF FilterTargets
  <2> QED
    BY <1>3, <2>1
<1>4. CASE GetRepo
  BY <1>4 DEF GetRepo
<1>5. CASE CheckoutNewBranch \/ UpdateDynatraceConfig
  <2>1. promoPc = "checkout" /\ promoPc' \in {"failed", "edit"} /\ UNCHANGED <<promoRun, promoGroups>>
    BY <1>5 DEF CheckoutNewBranch, UpdateDynatraceConfig
  <2> QED
    BY <2>1
<1>6. CASE PromoteGroup
  BY <1>6 DEF PromoteGroup
<1>7. CASE AddBlockedVersion \/ UpdateFiles \/ UpdateModule
  <2>1. promoPc = "edit" /\ promoPc' \in {"failed", "commit"} /\ UNCHANGED <<promoRun, promoGroups>>
    BY <1>7 DEF AddBlockedVersion, UpdateFiles, UpdateModule
  <2> QED
    BY <2>1
<1>8. CASE CommitAll \/ PromoFails
  <2>1. promoPc \in Working /\ promoPc' \in {"failed", "edit", "done"} /\ UNCHANGED <<promoRun, promoGroups>>
    BY <1>8 DEF CommitAll, PromoFails
  <2>2. promoPc' = "edit" => promoPc = "commit"
    BY <1>8 DEF CommitAll, PromoFails
  <2> QED
    BY <2>1, <2>2
<1>9. CASE EditOther \/ Discard \/ SwitchBranch \/ PullMaster
  <2>1. CASE Afterwards
    BY <2>1 DEF Afterwards
  <2>2. CASE ~Afterwards
    BY <1>9, <2>2 DEF EditOther, Discard, SwitchBranch, PullMaster
  <2> QED
    BY <2>1, <2>2
<1>10. CASE UNCHANGED promoVars
  BY <1>10 DEF promoVars
<1> QED
  BY <1>1, <1>2, <1>3, <1>4, <1>5, <1>6, <1>7, <1>8, <1>9, <1>10 DEF PromoNext

\* The steps of a run take it from master's files to those files with its change.
LEMMA DocStep ==
    ASSUME MasterInv, RunInv, DocInv, PromoNext \/ UNCHANGED promoVars
    PROVE  DocInv'
<1> USE DEF Working, BeforeEdit, Checking, PromoStep, PromoAtRest, promoRun
<1>1. CASE ReadFiles
  <2>1. promoPc' \in {"clean", "checkout"} /\ trees' = trees /\ promoGroups' = {}
    BY <1>1 DEF ReadFiles
  <2>2. promoCmd' \in Checking => promoPc' = "clean"
    BY <1>1 DEF ReadFiles
  <2>3. fromMaster' => doc' = FilesOf(trees[MasterBranch])'
    BY <1>1 DEF ReadFiles, FilesOf
  <2> QED
    BY <2>1, <2>2, <2>3 DEF DocInv
<1>2. CASE CheckClean \/ GetRepo \/ PromoFails
  <2>1. UNCHANGED <<trees, promoRun, doc, promoGroups, trait>> /\ promoPc \in Working
    BY <1>2 DEF CheckClean, GetRepo, PromoFails
  <2>2. promoPc' \in {"filter", "repo", "checkout", "failed"}
    BY <1>2 DEF CheckClean, GetRepo, PromoFails
  <2>3. promoPc' # "failed" => promoPc \in BeforeEdit
    BY <1>2 DEF CheckClean, GetRepo, PromoFails
  <2>4. promoPc' \in {"repo", "checkout"} /\ promoCmd # "block" => promoPc = "repo"
    BY <1>2 DEF CheckClean, GetRepo, PromoFails
  <2>5. Promoted' = Promoted
    BY <2>1, PromotedStays
  <2>6. FilesOf(trees[MasterBranch])' = FilesOf(trees[MasterBranch])
    BY <2>1 DEF FilesOf
  <2> QED
    BY <2>1, <2>2, <2>3, <2>4, <2>5, <2>6 DEF DocInv
<1>3. CASE FilterTargets
  <2>1. /\ promoPc = "filter" /\ promoPc' \in {"repo", "failed"}
        /\ UNCHANGED <<trees, promoRun, doc, trait>>
    BY <1>3 DEF FilterTargets
  <2>2. promoGroups' = {{t \in Promoted : doc.refs[t] = h} : h \in Hash} \ {{}}
    BY <1>3 DEF FilterTargets
  <2>3. Promoted' = Promoted
    BY <2>1, PromotedStays
  <2>4. FilesOf(trees[MasterBranch])' = FilesOf(trees[MasterBranch])
    BY <2>1 DEF FilesOf
  <2>5. ASSUME fromMaster, promoCmd \in Checking PROVE UNION promoGroups' = Promoted
    <3>1. doc = FilesOf(trees[MasterBranch]) /\ trees[MasterBranch] \in Bases
      BY <2>1, <2>5 DEF DocInv, MasterInv
    <3>2. \A t \in Promoted : doc.refs[t] \in Hash
      BY <3>1, PromotedInRef DEF FilesOf, Bases
    <3>3. \A t \in Promoted : t \in {u \in Promoted : doc.refs[u] = doc.refs[t]}
      OBVIOUS
    <3>4. \A t \in Promoted : {u \in Promoted : doc.refs[u] = doc.refs[t]} \in promoGroups'
      BY <2>2, <3>2, <3>3
    <3>5. Promoted \subseteq UNION promoGroups'
      BY <3>3, <3>4
    <3>6. UNION promoGroups' \subseteq Promoted
      BY <2>2
    <3> QED
      BY <3>5, <3>6
  <2> QED
    BY <2>1, <2>3, <2>4, <2>5 DEF DocInv
<1>4. CASE CheckoutNewBranch
  <2>1. /\ promoPc = "checkout" /\ promoPc' \in {"edit", "failed"}
        /\ UNCHANGED <<promoRun, doc, trait, promoGroups>>
    BY <1>4 DEF CheckoutNewBranch
  <2>2. CASE promoPc' = "failed"
    BY <2>2 DEF DocInv
  <2>3. CASE promoPc' = "edit"
    <3>1. trees' = WithBranch(BranchName, trees[MasterBranch]) /\ workTree' = FilesOf(trees[MasterBranch])
      BY <1>4, <2>3 DEF CheckoutNewBranch
    <3>2. MasterBranch \in DOMAIN trees' /\ trees'[MasterBranch] = trees[MasterBranch]
      BY <3>1, BranchIsOwn, OtherBranchKept DEF MasterInv
    <3>3. Promoted' = Promoted
      BY <2>1, PromotedStays
    <3>4. ASSUME fromMaster, promoCmd \in Checking
          PROVE  /\ promoCmd # "block" => UNION promoGroups = Promoted
                 /\ workTree' = doc /\ doc = FilesOf(trees[MasterBranch]) /\ trees[MasterBranch] \in Bases
      BY <2>1, <3>1, <3>4 DEF DocInv, MasterInv
    <3>5. ASSUME fromMaster, promoCmd \in Checking
          PROVE  /\ doc \in [refs : [Ref -> Hash], blocked : SUBSET Hash, hotfix : SUBSET Hash]
                 /\ doc.refs = trees[MasterBranch].refs /\ doc.blocked = {} /\ doc.hotfix = {}
      BY <3>4, <3>5 DEF FilesOf, Bases
    <3>6. fromMaster /\ promoCmd \in Checking => DoneTargets' = {}
      BY <2>1, <3>3, <3>4 DEF DoneTargets
    <3>7. OldRefs' = trees[MasterBranch].refs
      BY <3>2 DEF OldRefs
    <3> QED
      BY <2>1, <2>3, <3>3, <3>4, <3>5, <3>6, <3>7 DEF DocInv
  <2> QED
    BY <2>1, <2>2, <2>3
<1>5. CASE UpdateDynatraceConfig \/ UpdateFiles \/ UpdateModule
  <2>1. promoCmd' = promoCmd /\ promoPc \in Working
    BY <1>5 DEF UpdateDynatraceConfig, UpdateFiles, UpdateModule
  <2>2. promoCmd \notin Checking
    BY <1>5, <2>1 DEF UpdateDynatraceConfig, UpdateFiles, UpdateModule, MasterInv
  <2> QED
    BY <2>1, <2>2 DEF DocInv
<1>6. CASE PromoteGroup
  <2>1. /\ promoCmd \in {"saas", "hotfix", "rhobs"} /\ promoPc = "edit" /\ promoPc' = "commit"
        /\ UNCHANGED <<trees, promoRun, trait>>
    BY <1>6 DEF PromoteGroup
  <2> DEFINE set(g) == [t \in Ref |-> IF t \in g THEN newHash ELSE doc.refs[t]]
             fix == IF promoCmd = "hotfix" THEN {newHash} ELSE doc.hotfix
  <2>2. SUFFICES ASSUME fromMaster
                 PROVE  DocInv'
    BY <2>1 DEF DocInv
  <2>3. /\ UNION promoGroups \subseteq Promoted
        /\ workTree = doc
        /\ doc \in [refs : [Ref -> Hash], blocked : SUBSET Hash, hotfix : SUBSET Hash]
        /\ \A t \in Promoted \ UNION promoGroups : doc.refs[t] = newHash
        /\ \A t \in Ref : t \in Promoted \/ doc.refs[t] = OldRefs[t]
        /\ doc.blocked = {} /\ (promoCmd # "hotfix" => doc.hotfix = {})
    BY <2>1, <2>2 DEF DocInv, DoneTargets
  <2>4. PICK g \in promoGroups :
          /\ promoGroups' = promoGroups \ {g}
          /\ doc' = [doc EXCEPT !.refs = [t \in Ref |-> IF t \in g THEN newHash ELSE @[t]],
                                !.hotfix = IF promoCmd = "hotfix" THEN {newHash} ELSE @]
    BY <1>6 DEF PromoteGroup
  <2>5. doc = [refs |-> doc.refs, blocked |-> doc.blocked, hotfix |-> doc.hotfix]
    BY <2>3
  <2>6. doc' = [refs |-> set(g), blocked |-> doc.blocked, hotfix |-> fix]
    BY <2>4, <2>5
  <2>7. doc'.refs = set(g) /\ doc'.blocked = {} /\ doc'.hotfix = fix
    BY <2>3, <2>6
  <2>8. workTree' = doc'
    <3>1. CASE promoCmd = "hotfix"
      BY <1>6, <3>1 DEF PromoteGroup
    <3>2. CASE promoCmd # "hotfix"
      <4>1. workTree' = [doc EXCEPT !.refs = doc'.refs]
        BY <1>6, <2>3, <3>2 DEF PromoteGroup
      <4>2. workTree' = [refs |-> doc'.refs, blocked |-> doc.blocked, hotfix |-> doc.hotfix]
        BY <2>5, <4>1
      <4> QED
        BY <2>6, <2>7, <3>2, <4>2
    <3> QED
      BY <3>1, <3>2
  <2>9. newHash \in Hash
    BY <2>1 DEF MasterInv
  <2>10. set(g) \in [Ref -> Hash] /\ fix \in SUBSET Hash
    BY <2>3, <2>9
  <2>11. doc' \in [refs : [Ref -> Hash], blocked : SUBSET Hash, hotfix : SUBSET Hash]
    BY <2>3, <2>6, <2>10
  <2>12. g \subseteq Promoted /\ Promoted \subseteq Ref /\ Promoted' = Promoted
    BY <2>1, <2>3, <2>4, PromotedInRef, PromotedStays
  <2>13. UNION promoGroups' \subseteq Promoted
    BY <2>3, <2>4
  <2>14. \A t \in Promoted \ UNION promoGroups' : set(g)[t] = newHash
    BY <2>3, <2>4, <2>12
  <2>15. \A t \in Ref : t \in Promoted \/ set(g)[t] = OldRefs[t]
    BY <2>3, <2>12
  <2>16. OldRefs' = OldRefs /\ newHash' = newHash /\ promoCmd' = promoCmd
    BY <2>1 DEF OldRefs
  <2>17. DoneTargets' = Promoted \ UNION promoGroups'
    BY <2>1, <2>12, <2>16 DEF DoneTargets
  <2>18. IF promoCmd = "hotfix" THEN doc'.hotfix = {newHash} ELSE doc'.hotfix = {}
    BY <2>3, <2>7
  <2> HIDE DEF set, fix
  <2> QED
    BY <2>1, <2>7, <2>8, <2>11, <2>12, <2>13, <2>14, <2>15, <2>16, <2>17, <2>18 DEF DocInv
<1>7. CASE AddBlockedVersion
  <2>1. /\ promoCmd = "block" /\ promoPc = "edit" /\ promoPc' \in {"commit", "failed"}
        /\ UNCHANGED <<trees, promoRun, trait, promoGroups>>
    BY <1>7 DEF AddBlockedVersion
  <2>2. SUFFICES ASSUME fromMaster, promoPc' = "commit"
                 PROVE  DocInv'
    BY <2>1 DEF DocInv
  <2>3. /\ workTree = doc /\ doc.blocked = {} /\ doc.hotfix = {}
        /\ doc \in [refs : [Ref -> Hash], blocked : SUBSET Hash, hotfix : SUBSET Hash]
        /\ \A t \in Ref : doc.refs[t] = OldRefs[t]
    BY <2>1, <2>2 DEF DocInv
  <2>4. doc = [refs |-> doc.refs, blocked |-> {}, hotfix |-> {}]
    BY <2>3
  <2>5. doc' = [refs |-> doc.refs, blocked |-> {newHash}, hotfix |-> {}]
    BY <1>7, <2>2, <2>3, <2>4 DEF AddBlockedVersion
  <2>6. workTree' = [refs |-> doc.refs, blocked |-> {newHash}, hotfix |-> {}]
    BY <1>7, <2>2, <2>3, <2>4, <2>5 DEF AddBlockedVersion
  <2>7. newHash \in Hash
    BY <2>1 DEF MasterInv
  <2>8. doc' \in [refs : [Ref -> Hash], blocked : SUBSET Hash, hotfix : SUBSET Hash]
    BY <2>3, <2>5, <2>7
  <2>9. doc'.refs = doc.refs /\ doc'.blocked = {newHash} /\ doc'.hotfix = {}
    BY <2>5
  <2>10. DoneTargets' = {} /\ OldRefs' = OldRefs
    BY <2>1 DEF DoneTargets, OldRefs
  <2> QED
    BY <2>1, <2>2, <2>3, <2>5, <2>6, <2>8, <2>9, <2>10 DEF DocInv
<1>8. CASE CommitAll
  <2>1. /\ promoPc = "commit" /\ promoPc' \in {"edit", "done", "failed"}
        /\ UNCHANGED <<promoRun, trait, promoGroups, doc, workTree>>
    BY <1>8 DEF CommitAll
  <2>2. SUFFICES ASSUME promoPc' = "edit", fromMaster, promoCmd \in Checking
                 PROVE  DocInv'
    BY <2>1 DEF DocInv
  <2>3. trees'[MasterBranch] = trees[MasterBranch]
    BY <1>8, <2>1, BranchIsOwn, OtherBranchKept DEF CommitAll, MasterInv
  <2>4. promoGroups # {}
    BY <1>8, <2>2 DEF CommitAll
  <2>5. promoCmd # "block"
    BY <2>2, <2>4 DEF RunInv
  <2>6. Promoted' = Promoted /\ OldRefs' = OldRefs
    BY <2>1, <2>3, PromotedStays DEF OldRefs
  <2>7. DoneTargets' = DoneTargets
    BY <2>1, <2>6 DEF DoneTargets
  <2> QED
    BY <2>1, <2>2, <2>5, <2>6, <2>7 DEF DocInv
<1>9. CASE EditOther \/ Discard \/ SwitchBranch \/ PullMaster
  <2>1. CASE Afterwards
    BY <2>1 DEF Afterwards, DocInv
  <2>2. CASE ~Afterwards
    <3>1. UNCHANGED <<promoPc, promoRun, doc, promoGroups, trees, trait>> /\ promoPc = "repo"
      BY <1>9, <2>2 DEF EditOther, Discard, SwitchBranch, PullMaster
    <3>2. Promoted' = Promoted
      BY <3>1, PromotedStays
    <3> QED
      BY <3>1, <3>2 DEF DocInv, FilesOf
  <2> QED
    BY <2>1, <2>2
<1>10. CASE UNCHANGED promoVars
  <2>1. UNCHANGED <<promoPc, promoRun, doc, promoGroups, trees, workTree, trait>>
    BY <1>10 DEF promoVars
  <2>2. Promoted' = Promoted /\ OldRefs' = OldRefs
    BY <2>1, PromotedStays DEF OldRefs
  <2>3. DoneTargets' = DoneTargets
    BY <2>1, <2>2 DEF DoneTargets
  <2> QED
    BY <2>1, <2>2, <2>3 DEF DocInv, FilesOf
<1> QED
  BY <1>1, <1>2, <1>3, <1>4, <1>5, <1>6, <1>7, <1>8, <1>9, <1>10 DEF PromoNext

\* The commit after the last group is of master and the run's change.
LEMMA WholeStep ==
    ASSUME PromoInv, MasterInv', PromoNext \/ UNCHANGED promoVars
    PROVE  PromotionIsWhole'
<1> USE DEF Checking, PromoStep, promoRun
<1>0. trees'[MasterBranch].own = {} /\ trees'[MasterBranch].blocked = {}
  BY DEF MasterInv
<1>1. ASSUME CommitAll, promoPc' = "done", fromMaster, promoCmd \in Checking
      PROVE  PromotionIsWhole'
  <2>1. /\ promoPc = "commit" /\ onBranch' = onBranch /\ promoGroups = {}
        /\ UNCHANGED <<promoRun, trait>>
        /\ trees' = WithBranch(onBranch, [refs |-> workTree.refs, blocked |-> workTree.blocked, hotfix |-> workTree.hotfix,
                                      own |-> trees[onBranch].own \cup ownEdits])
    BY <1>1 DEF CommitAll
  <2>2. onBranch = BranchName /\ BranchName' = BranchName /\ editsBefore = {}
    BY <1>1, <2>1 DEF PromoInv, MasterInv, RunInv, BranchName, Working, BeforeEdit
  <2>3. /\ trees'[MasterBranch] = trees[MasterBranch]
        /\ trees'[onBranch] = [refs |-> workTree.refs, blocked |-> workTree.blocked, hotfix |-> workTree.hotfix,
                                      own |-> trees[onBranch].own \cup ownEdits]
    BY <2>1, <2>2, BranchIsOwn, OtherBranchKept DEF PromoInv, MasterInv
  <2>4. trees[MasterBranch] \in Bases
    BY <2>1 DEF PromoInv, MasterInv
  <2>5. /\ workTree = doc /\ doc.refs \in [Ref -> Hash]
        /\ \A t \in DoneTargets : doc.refs[t] = newHash
        /\ \A t \in Ref : (promoCmd # "block" /\ t \in Promoted) \/ doc.refs[t] = OldRefs[t]
        /\ doc.blocked = (IF promoCmd = "block" THEN {newHash} ELSE {})
        /\ doc.hotfix = (IF promoCmd = "hotfix" THEN {newHash} ELSE {})
    BY <1>1, <2>1 DEF PromoInv, DocInv
  <2>6. Promoted' = Promoted
    BY <2>1, PromotedStays
  <2>7. DoneTargets = (IF promoCmd = "block" THEN {} ELSE Promoted)
    BY <2>1 DEF DoneTargets
  <2>8. doc.refs = [t \in Ref |-> IF promoCmd # "block" /\ t \in Promoted THEN newHash ELSE trees[MasterBranch].refs[t]]
    BY <2>5, <2>7, PromotedInRef DEF OldRefs
  <2>9. trees[MasterBranch].blocked = {} /\ trees[MasterBranch].hotfix = {}
    BY <2>4 DEF Bases
  <2>10. FilesOf(trees'[onBranch]) =
             [refs |-> [t \in Ref |-> IF promoCmd # "block" /\ t \in Promoted THEN newHash ELSE trees[MasterBranch].refs[t]],
              blocked |-> IF promoCmd = "block" THEN trees[MasterBranch].blocked \cup {newHash} ELSE trees[MasterBranch].blocked,
              hotfix |-> IF promoCmd = "hotfix" THEN {newHash} ELSE trees[MasterBranch].hotfix]
    BY <2>3, <2>5, <2>8, <2>9 DEF FilesOf
  <2>11. FilesOf(trees[onBranch])' = FilesOf(trees'[onBranch])
    BY <2>1 DEF FilesOf
  <2> QED
    BY <1>0, <2>1, <2>2, <2>3, <2>6, <2>10, <2>11 DEF PromotionIsWhole
<1>2. ASSUME CommitAll, ~(promoPc' = "done" /\ fromMaster /\ promoCmd \in Checking)
      PROVE  PromotionIsWhole'
  BY <1>0, <1>2 DEF CommitAll, PromotionIsWhole
<1>3. ASSUME PromoNext, ~CommitAll PROVE PromotionIsWhole'
  <2>1. promoPc' # "done"
    <3>1. CASE ReadFiles \/ CheckClean \/ FilterTargets \/ GetRepo \/ CheckoutNewBranch \/ UpdateDynatraceConfig
      BY <3>1 DEF ReadFiles, CheckClean, FilterTargets, GetRepo, CheckoutNewBranch, UpdateDynatraceConfig
    <3>2. CASE PromoteGroup \/ AddBlockedVersion \/ UpdateFiles \/ UpdateModule \/ PromoFails
      BY <3>2 DEF PromoteGroup, AddBlockedVersion, UpdateFiles, UpdateModule, PromoFails
    <3>3. CASE EditOther \/ Discard \/ SwitchBranch \/ PullMaster
      BY <3>3 DEF EditOther, Discard, SwitchBranch, PullMaster, Afterwards
    <3> QED
      BY <1>3, <3>1, <3>2, <3>3 DEF PromoNext
  <2> QED
    BY <1>0, <2>1 DEF PromotionIsWhole
<1>4. CASE UNCHANGED promoVars
  <2>1. UNCHANGED <<promoPc, promoRun, trees, trait, onBranch>>
    BY <1>4 DEF promoVars
  <2>2. Promoted' = Promoted /\ BranchName' = BranchName
    BY <2>1, PromotedStays DEF BranchName
  <2>3. FilesOf(trees[onBranch])' = FilesOf(trees[onBranch])
    BY <2>1 DEF FilesOf
  <2> QED
    BY <2>1, <2>2, <2>3 DEF PromoInv, PromotionIsWhole
<1> QED
  BY <1>1, <1>2, <1>3, <1>4

LEMMA PromoInvStep ==
    ASSUME PromoInv, PromoNext \/ UNCHANGED promoVars
    PROVE  PromoInv'
<1>1. MasterInv' /\ RunInv' /\ DocInv'
  BY MasterStep, RunStep, DocStep DEF PromoInv
<1>2. PromotionIsWhole'
  BY <1>1, WholeStep
<1> QED
  BY <1>1, <1>2 DEF PromoInv

-----------------------------------------------------------------------------
(***************************************************************************)
(* The SREs' commands together.                                            *)
(***************************************************************************)
LEMMA ClusterInitInv == ClusterInit => ClusterInv
<1>1. SUFFICES ASSUME ClusterInit PROVE ClusterInv
  OBVIOUS
<1>2. AccessInit /\ CaptureInit /\ RepairInit /\ NoticeInit /\ (PromoInit \/ NoClone)
  BY <1>1 DEF ClusterInit
<1> QED
  BY <1>2, AccessInitInv, CaptureInitInv, RepairInitInv, NoticeInitInv, PromoInitInv DEF ClusterInv

\* A command is of one of the five kinds: what the others look at stays.
LEMMA EachStep ==
    ASSUME [ClusterNext]_clusterVars
    PROVE  /\ JumphostNext \/ BreakGlassNext \/ UNCHANGED accessVars
           /\ CaptureNext \/ UNCHANGED captureVars
           /\ RepairNext \/ UNCHANGED repairVars
           /\ NoticeNext \/ UNCHANGED noticeVars
           /\ PromoNext \/ UNCHANGED promoVars
<1>1. CASE Access
  BY <1>1 DEF Access
<1>2. CASE Capture
  BY <1>2 DEF Capture
<1>3. CASE Repairs
  BY <1>3 DEF Repairs
<1>4. CASE Notice
  BY <1>4 DEF Notice
<1>5. CASE Promote
  BY <1>5 DEF Promote
<1>6. CASE UNCHANGED clusterVars
  BY <1>6 DEF clusterVars
<1> QED
  BY <1>1, <1>2, <1>3, <1>4, <1>5, <1>6 DEF ClusterNext

LEMMA ClusterInvStep ==
    ASSUME ClusterInv, [ClusterNext]_clusterVars
    PROVE  ClusterInv'
<1>1. AccessInv /\ CaptureInv /\ RepairInv /\ NoticeInv /\ PromoInv
  BY DEF ClusterInv
<1>2. AccessInv'
  BY <1>1, EachStep, AccessStep
<1>3. CaptureInv'
  BY <1>1, EachStep, CaptureInvStep
<1>4. RepairInv'
  BY <1>1, EachStep, RepairInvStep
<1>5. NoticeInv'
  BY <1>1, EachStep, NoticeInvStep
<1>6. PromoInv'
  BY <1>1, EachStep, PromoInvStep
<1> QED
  BY <1>2, <1>3, <1>4, <1>5, <1>6 DEF ClusterInv

LEMMA AlwaysClusterInv == ClusterSpec => []ClusterInv
<1>1. ClusterInit => ClusterInv
  BY ClusterInitInv
<1>2. ClusterInv /\ [Access \/ Capture \/ Repairs \/ Notice \/ Promote]_clusterVars => ClusterInv'
  BY ClusterInvStep DEF ClusterNext
<1> QED
  BY <1>1, <1>2, PTL DEF ClusterSpec

\* "Deleted" is said of a jumphost when none runs any more, however many SREs made and
\* deleted them at a time, and "dropped" of the emergency access to a cluster when no pod
\* of it is left; what is deleted for it is that cluster's (jumphost delete, break-glass).
THEOREM RemovedIsGone == ClusterSpec => RemovedMeansGone
<1>1. ClusterInv /\ [Access \/ Capture \/ Repairs \/ Notice \/ Promote]_clusterVars => [HostsGone]_accessVars
  BY EachStep, HostsGoneStep DEF ClusterInv, ClusterNext
<1>2. ClusterInv /\ [Access \/ Capture \/ Repairs \/ Notice \/ Promote]_clusterVars => [PodsGone]_accessVars
  BY EachStep, PodsGoneStep DEF ClusterInv, ClusterNext
<1>3. [HostsGone]_accessVars
        => [\A r \in Responder : apc[r] # "deleted" /\ apc'[r] = "deleted" =>
              \A h \in DOMAIN hosts' : hosts'[h] = "terminated"]_accessVars
  BY DEF HostsGone
<1>4. [PodsGone]_accessVars
        => [\A r \in Responder :
              /\ apc[r] # "dropped" /\ apc'[r] = "dropped" =>
                   \A p \in DOMAIN jumpPods' : jumpPods'[p].cluster # subject[r]
              /\ apc[r] = "deletePods" /\ apc'[r] = "waitPods" =>
                   \A p \in DOMAIN jumpPods : jumpPods[p].cluster # subject[r] => p \in DOMAIN jumpPods']_accessVars
  BY DEF PodsGone
<1>5. ClusterSpec => DeletedMeansNoHost
  BY <1>1, <1>3, AlwaysClusterInv, PTL DEF ClusterSpec, DeletedMeansNoHost
<1>6. ClusterSpec => DroppedMeansNoPod
  BY <1>2, <1>4, AlwaysClusterInv, PTL DEF ClusterSpec, DroppedMeansNoPod
<1> QED
  BY <1>5, <1>6 DEF RemovedMeansGone

\* A packet capture that ends well deletes the object it made and no other run's, and one
\* by DaemonSet has the file of every node by then (packetCaptureCmd).
THEOREM CapturesAreWhole == ClusterSpec => CapturedThenDeleted
<1>1. ClusterInv => OwnDeleted
  BY OwnDeletedStep DEF ClusterInv
<1>2. OwnDeleted
        => [\A c \in Capturer : cpc[c] = "delete" /\ cpc'[c] = "done" =>
              /\ deployed[kind[c]] = {c}
              /\ kind[c] = "DaemonSet" => copied[c] = CaptureNode]_captureVars
  BY DEF OwnDeleted
<1> QED
  BY <1>1, <1>2, AlwaysClusterInv, PTL DEF ClusterSpec, CapturedThenDeleted

\* A volume is detached only by a run that listed it, and whose pod has not run all through
\* that run; a resync reports only a ClusterSync that Hive made after the run's deletion,
\* also when other SREs resync at the time (detachVolumes, the poll of resync).
THEOREM RepairsHold == ClusterSpec => RepairsAreSound
<1>1. ClusterInv /\ [Access \/ Capture \/ Repairs \/ Notice \/ Promote]_clusterVars => [RepairsRight]_repairVars
  BY EachStep, RepairsRightStep DEF ClusterInv, ClusterNext
<1>2. [RepairsRight]_repairVars
        => [/\ \A p \in attached \ attached' : \E f \in Fixer : p \notin ranSince[f] /\ p \in volumes[f]
            /\ \A f \in Fixer : fpc[f] = "awaitSync" /\ fpc'[f] = "synced" => sync.id > deletedSync[f]]_repairVars
  BY DEF RepairsRight
<1> QED
  BY <1>1, <1>2, AlwaysClusterInv, PTL DEF ClusterSpec, RepairsAreSound

\* The report of `servicelog post`, an interrupted one too, is of every cluster it found,
\* counts none that got no log as told, and leaves out none that got one; evidence is of a
\* reason its run posted; and no reason is deleted that was not listed or named.
THEOREM NoticesAreTold == ClusterSpec => []NoticesTold
<1>1. ClusterInv => NoticesTold
  BY NoticeInvTold DEF ClusterInv
<1> QED
  BY <1>1, AlwaysClusterInv, PTL

\* A promotion that succeeds from master's files has made master and its own change,
\* whatever earlier runs, the SRE's edits and pulls left in the clone.
THEOREM PromotionsAreWhole == ClusterSpec => []PromotionIsWhole
<1>1. ClusterInv => PromotionIsWhole
  BY DEF ClusterInv, PromoInv
<1> QED
  BY <1>1, AlwaysClusterInv, PTL
-----------------------------------------------------------------------------
(***************************************************************************)
(* The transfer of a cluster to another owner (TransferOwner), a           *)
(* specification of its own: its type invariant, the order of its records, *)
(* the shortness of its gaps, and what "Transfer complete" means.          *)
(***************************************************************************)
\* The labels from l on, in the order a run passes them.
FromCreator == {"creator", "unbind", "bind", "register", "agent", "check", "done"}
FromUnbind == FromCreator \ {"creator"}
FromRegister == FromUnbind \ {"unbind", "bind"}
FromAgent == FromRegister \ {"register"}
FromValidate == {"validate", "org"} \cup FromCreator
FromVerify == {"verify"} \cup FromValidate

(***************************************************************************)
(* What a run has achieved when it stands at a label.  Nothing another     *)
(* actor does takes it back: the only one, Propagate, copies a source that *)
(* is new by then, and on a classic cluster has stopped, for the SyncSet   *)
(* is gone.                                                                *)
(***************************************************************************)
Progress ==
    /\ pc \in FromCreator => org = Org("new")
    /\ pc \in FromUnbind => creator = "new"
    /\ pc \in FromRegister => "new" \in owners
    /\ pc \in FromAgent => csOrg = Org("new")
    /\ pc \in {"sync", "await", "cleanup", "telemeter"} \cup FromVerify => source = "new"
    /\ pc \in FromValidate => target = "new"

Rollouts ==
    ~hypershift =>
        /\ pc # "work"
        /\ pc \in {"telemeter"} \cup FromVerify => ~syncSet
        /\ pc \in FromVerify => pods["telemeter"] = target
        /\ pc \in {"check", "done"} => pods["agent"] = target

TransferInv == TypeOK /\ Progress /\ Rollouts /\ RecordsInOrder /\ GapsAreShort

USE DEF FromCreator, FromUnbind, FromRegister, FromAgent, FromValidate, FromVerify, Idle, Owner

LEMMA InitTransferInv == Init => TransferInv
<1> SUFFICES ASSUME Init PROVE TransferInv
    OBVIOUS
<1> USE DEF Init
<1>1. TypeOK
  <2>1. seen \in [org : {Org(u) : u \in Owner}, creator : Owner]
      BY DEF Org
  <2>2. org \in {Org(u) : u \in Owner} /\ csOrg \in {Org(u) : u \in Owner}
      BY DEF Org
  <2>3. pods \in [{"telemeter", "agent"} -> Owner] /\ faults \in 0..MaxFaults
      BY TransferAssumption
  <2> QED BY <2>1, <2>2, <2>3 DEF TypeOK
<1>2. Progress /\ Rollouts
    BY DEF Progress, Rollouts
<1>3. RecordsInOrder /\ GapsAreShort
    BY DEF RecordsInOrder, GapsAreShort, Org
<1> QED BY <1>1, <1>2, <1>3 DEF TransferInv

LEMMA NextTypeOK == TypeOK /\ [Next]_vars => TypeOK'
<1> USE TransferAssumption DEF TypeOK, ocm, secret, Step
<1> SUFFICES ASSUME TypeOK, [Next]_vars PROVE TypeOK'
    OBVIOUS
<1>1. CASE Begin BY <1>1 DEF Begin
<1>2. CASE NotifyCustomer \/ UpdateManifestWork \/ DeleteSecret \/ CreateSecret \/ CreateSyncSet
    BY <1>2 DEF NotifyCustomer, UpdateManifestWork, DeleteSecret, CreateSecret, CreateSyncSet
<1>3. CASE SyncConfirmed \/ SyncTimedOut \/ DeleteSyncSet
    BY <1>3 DEF SyncConfirmed, SyncTimedOut, DeleteSyncSet
<1>3a. CASE RolloutTelemeter
    BY <1>3a DEF RolloutTelemeter
<1>3b. CASE VerifySecret \/ ValidateOldOwner
    BY <1>3b DEF VerifySecret, ValidateOldOwner
<1>4. CASE PatchOrg \/ PatchCreator BY <1>4 DEF PatchOrg, PatchCreator
<1>5. CASE DeleteRoleBinding
  <2>1. faults' \in 0..MaxFaults
      BY <1>5 DEF DeleteRoleBinding
  <2>2. owners' \subseteq Owner
      BY <1>5 DEF DeleteRoleBinding
  <2>3. pc' = "bind" /\ UNCHANGED <<hypershift, org, creator, csOrg, secret, pods, seen, log>>
      BY <1>5 DEF DeleteRoleBinding
  <2> QED BY <2>1, <2>2, <2>3
<1>6. CASE AddRoleBinding
  <2>1. owners' \subseteq Owner
      BY <1>6 DEF AddRoleBinding
  <2>2. pc' \in {"failed", "register"} /\ UNCHANGED <<hypershift, org, creator, csOrg, secret, pods, seen, log, faults>>
      BY <1>6 DEF AddRoleBinding
  <2> QED BY <2>1, <2>2
<1>7. CASE RegisterCluster \/ RolloutAgent
    BY <1>7 DEF RegisterCluster, RolloutAgent
<1>7a. CASE Complete
  <2>1. log' \subseteq {"initiated", "complete"}
      BY <1>7a DEF Complete
  <2>2. pc' \in {"done", "failed"} /\ UNCHANGED <<hypershift, ocm, secret, pods, seen, faults>>
      BY <1>7a DEF Complete
  <2> QED BY <2>1, <2>2
<1>8. CASE Fail BY <1>8 DEF Fail
<1>9. CASE DropStatus BY <1>9 DEF DropStatus
<1>9a. CASE Propagate
  <2>1. success' \in BOOLEAN /\ target' \in Owner
      BY <1>9a DEF Propagate
  <2>2. UNCHANGED <<hypershift, ocm, source, syncSet, pods, pc, seen, log, faults>>
      BY <1>9a DEF Propagate
  <2> QED BY <2>1, <2>2
<1>10. CASE UNCHANGED vars BY <1>10 DEF vars
<1> QED BY <1>1, <1>2, <1>3, <1>4, <1>5, <1>6, <1>7, <1>8, <1>9, <1>10, <1>3a, <1>3b, <1>7a, <1>9a DEF Next, Run

LEMMA NextProgress == TypeOK /\ Progress /\ [Next]_vars => Progress'
<1> USE DEF Progress, ocm, secret, Step
<1> SUFFICES ASSUME TypeOK, Progress, [Next]_vars PROVE Progress'
    OBVIOUS
<1>1. CASE Begin BY <1>1 DEF Begin
<1>2. CASE NotifyCustomer \/ UpdateManifestWork \/ DeleteSecret \/ CreateSecret \/ CreateSyncSet
    BY <1>2 DEF NotifyCustomer, UpdateManifestWork, DeleteSecret, CreateSecret, CreateSyncSet
<1>3. CASE SyncConfirmed \/ SyncTimedOut \/ DeleteSyncSet \/ RolloutTelemeter \/ VerifySecret \/ ValidateOldOwner
    BY <1>3 DEF SyncConfirmed, SyncTimedOut, DeleteSyncSet, RolloutTelemeter, VerifySecret, ValidateOldOwner
<1>4. CASE PatchOrg \/ PatchCreator \/ DeleteRoleBinding \/ AddRoleBinding
    BY <1>4 DEF PatchOrg, PatchCreator, DeleteRoleBinding, AddRoleBinding
<1>5. CASE RegisterCluster \/ RolloutAgent \/ Complete
    BY <1>5 DEF RegisterCluster, RolloutAgent, Complete
<1>6. CASE Fail BY <1>6 DEF Fail
\* The source a run past its creation has is the new one.
<1>7. CASE Propagate \/ DropStatus BY <1>7 DEF Propagate, DropStatus
<1>8. CASE UNCHANGED vars BY <1>8 DEF vars
<1> QED BY <1>1, <1>2, <1>3, <1>4, <1>5, <1>6, <1>7, <1>8 DEF Next, Run

LEMMA NextRollouts == TypeOK /\ Rollouts /\ [Next]_vars => Rollouts'
<1> USE DEF Rollouts, TypeOK, ocm, secret, Step
<1> SUFFICES ASSUME TypeOK, Rollouts, [Next]_vars, ~hypershift' PROVE Rollouts'
    OBVIOUS
<1>1. CASE Begin BY <1>1 DEF Begin
<1>2. CASE NotifyCustomer \/ UpdateManifestWork \/ DeleteSecret \/ CreateSecret \/ CreateSyncSet
    BY <1>2 DEF NotifyCustomer, UpdateManifestWork, DeleteSecret, CreateSecret, CreateSyncSet
<1>3. CASE SyncConfirmed \/ SyncTimedOut \/ DeleteSyncSet \/ RolloutTelemeter \/ VerifySecret \/ ValidateOldOwner
    BY <1>3 DEF SyncConfirmed, SyncTimedOut, DeleteSyncSet, RolloutTelemeter, VerifySecret, ValidateOldOwner
<1>4. CASE PatchOrg \/ PatchCreator \/ DeleteRoleBinding \/ AddRoleBinding
    BY <1>4 DEF PatchOrg, PatchCreator, DeleteRoleBinding, AddRoleBinding
<1>5. CASE RegisterCluster \/ RolloutAgent \/ Complete
    BY <1>5 DEF RegisterCluster, RolloutAgent, Complete
<1>6. CASE Fail BY <1>6 DEF Fail
\* Once the pods are restarted there is no SyncSet to copy anything.
<1>7. CASE Propagate \/ DropStatus BY <1>7 DEF Propagate, DropStatus
<1>8. CASE UNCHANGED vars BY <1>8 DEF vars
<1> QED BY <1>1, <1>2, <1>3, <1>4, <1>5, <1>6, <1>7, <1>8 DEF Next, Run

LEMMA NextRecords ==
    TypeOK /\ Progress /\ RecordsInOrder /\ [Next]_vars => RecordsInOrder'
<1> USE DEF RecordsInOrder, ocm, Step
<1> SUFFICES ASSUME TypeOK, Progress, RecordsInOrder, [Next]_vars PROVE RecordsInOrder'
    OBVIOUS
<1>1. CASE PatchOrg BY <1>1 DEF PatchOrg
<1>2. CASE PatchCreator BY <1>2 DEF PatchCreator, Progress
<1>3. CASE RegisterCluster BY <1>3 DEF RegisterCluster, Progress
<1>4. CASE UNCHANGED <<org, creator, csOrg>> BY <1>4
<1> QED
    BY <1>1, <1>2, <1>3, <1>4
    DEF Next, Run, vars, Begin, NotifyCustomer, UpdateManifestWork, DeleteSecret, CreateSecret,
        CreateSyncSet, SyncConfirmed, SyncTimedOut, DeleteSyncSet, RolloutTelemeter, VerifySecret,
        ValidateOldOwner, DeleteRoleBinding, AddRoleBinding, RolloutAgent, Complete, Fail,
        Propagate, DropStatus

LEMMA NextGaps == TypeOK /\ GapsAreShort /\ [Next]_vars => GapsAreShort'
<1> USE DEF GapsAreShort, TypeOK, ocm, secret, Step
<1> SUFFICES ASSUME TypeOK, GapsAreShort, [Next]_vars PROVE GapsAreShort'
    OBVIOUS
<1>1. CASE Begin BY <1>1 DEF Begin
<1>2. CASE NotifyCustomer \/ UpdateManifestWork \/ DeleteSecret \/ CreateSecret \/ CreateSyncSet
    BY <1>2 DEF NotifyCustomer, UpdateManifestWork, DeleteSecret, CreateSecret, CreateSyncSet
<1>3. CASE SyncConfirmed \/ SyncTimedOut \/ DeleteSyncSet \/ RolloutTelemeter \/ VerifySecret \/ ValidateOldOwner
    BY <1>3 DEF SyncConfirmed, SyncTimedOut, DeleteSyncSet, RolloutTelemeter, VerifySecret, ValidateOldOwner
<1>4. CASE PatchOrg \/ PatchCreator \/ DeleteRoleBinding \/ AddRoleBinding
    BY <1>4 DEF PatchOrg, PatchCreator, DeleteRoleBinding, AddRoleBinding
<1>5. CASE RegisterCluster \/ RolloutAgent \/ Complete
    BY <1>5 DEF RegisterCluster, RolloutAgent, Complete
\* The step that may leave a gap is no longer free of faults.
<1>6. CASE Fail BY <1>6, TransferAssumption DEF Fail
<1>7. CASE Propagate \/ DropStatus BY <1>7 DEF Propagate, DropStatus
<1>8. CASE UNCHANGED vars BY <1>8 DEF vars
<1> QED BY <1>1, <1>2, <1>3, <1>4, <1>5, <1>6, <1>7, <1>8 DEF Next, Run

LEMMA AlwaysTransferInv == Spec => []TransferInv
<1>1. TransferInv /\ [Next]_vars => TransferInv'
    BY NextTypeOK, NextProgress, NextRollouts, NextRecords, NextGaps DEF TransferInv
<1> QED BY InitTransferInv, <1>1, PTL DEF Spec

\* Every variable of a transfer stays in its type, with any faults and reruns.
THEOREM TransferTypeCorrect == Spec => []TypeOK
  BY AlwaysTransferInv, PTL DEF TransferInv

\* The organisation is patched before the creator, and CS after both.
THEOREM RecordsOrdered == Spec => []RecordsInOrder
  BY AlwaysTransferInv, PTL DEF TransferInv

\* Without a fault, no owner and no Hive secret are missing for longer than
\* from a deletion to the call after it.
THEOREM ShortGaps == Spec => []GapsAreShort
  BY AlwaysTransferInv, PTL DEF TransferInv

\* "Transfer complete" is true of the subscription, CS, the new binding, the
\* cluster's secret and the restarted pods.
THEOREM CompleteIsTransferred == Spec => []CompleteMeansTransferred
<1>1. TransferInv => CompleteMeansTransferred
    BY DEF TransferInv, TypeOK, Progress, Rollouts, CompleteMeansTransferred
<1> QED BY <1>1, AlwaysTransferInv, PTL
================================================================================
