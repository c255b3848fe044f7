---------------------------- MODULE ClusterCommands ----------------------------
(***************************************************************************)
(* Commands of one SRE or of several that change something for a cluster:  *)
(* jumphosts and jump pods (EmergencyAccess), the pods of a packet capture *)
(* (PacketCapture), volumes and ClusterSyncs (ClusterRepairs), service     *)
(* logs and limited support reasons (Notices), and the git clone from      *)
(* which a new version is promoted (Promotion).  They work on separate     *)
(* objects; the SREs of a behaviour all give commands of one of the five.  *)
(***************************************************************************)
EXTENDS EmergencyAccess, PacketCapture, ClusterRepairs, Notices, Promotion, TLC

VARIABLE command     \* the commands given

\* There is no clone of a repository.
NoClone ==
    /\ gitClone = "none" /\ trait = {} /\ promoPc = "none" /\ promoRuns = 0 /\ promoCmd = "none" /\ newHash = {}
    /\ doc = {} /\ trees = [b \in {MasterBranch} |-> [own |-> {}, blocked |-> {}]] /\ onBranch = {}
    /\ workTree = {} /\ ownEdits = {} /\ promoGroups = {} /\ fromMaster = FALSE /\ editsBefore = {}

\* What the commands given do not look at has one value.
ClusterInit ==
    /\ command \in {"jumphost", "break-glass", "capture", "repairs", "notices", "promote"}
    /\ command = "break-glass" \/ subject = [r \in Responder |-> CHOOSE c \in PrivateCluster : TRUE]
    /\ AccessInit
    /\ command = "capture" \/ kind = [c \in Capturer |-> "Pod"]
    /\ CaptureInit
    /\ command = "repairs" \/ bound = {}
    /\ RepairInit
    /\ command = "notices" \/ namedReason = [n \in Notifier |-> 0]
    /\ NoticeInit
    /\ (command = "promote" /\ PromoInit) \/ (command # "promote" /\ NoClone)

Access ==
    /\ (command = "jumphost" /\ JumphostNext) \/ (command = "break-glass" /\ BreakGlassNext)
    /\ UNCHANGED <<command, captureVars, repairVars, noticeVars, promoVars>>
Capture ==
    /\ command = "capture" /\ CaptureNext
    /\ UNCHANGED <<command, accessVars, repairVars, noticeVars, promoVars>>
Repairs ==
    /\ command = "repairs" /\ RepairNext
    /\ UNCHANGED <<command, accessVars, captureVars, noticeVars, promoVars>>
Notice ==
    /\ command = "notices" /\ NoticeNext
    /\ UNCHANGED <<command, accessVars, captureVars, repairVars, promoVars>>
Promote ==
    /\ command = "promote" /\ PromoNext
    /\ UNCHANGED <<command, accessVars, captureVars, repairVars, noticeVars>>

clusterVars == <<command, accessVars, captureVars, repairVars, noticeVars, promoVars>>
ClusterSpec == ClusterInit /\ [][Access \/ Capture \/ Repairs \/ Notice \/ Promote]_clusterVars

\* Neither the SREs, nor the nodes and what else a set of the same size stands for,
\* nor the targets of a promotion are told apart; the private clusters are.
Interchangeable == Permutations(Responder) \cup Permutations(CaptureNode) \cup Permutations(Ref)
-----------------------------------------------------------------------------
\* When `jumphost delete` reports success no jumphost runs, and when `break-glass
\* --cleanup` does, no pod of its cluster is left and none of another's was deleted.
RemovedMeansGone == DeletedMeansNoHost /\ DroppedMeansNoPod
=============================================================================
