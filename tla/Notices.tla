------------------------------- MODULE Notices --------------------------------
(***************************************************************************)
(* What customers are told: `osdctl servicelog post` to many clusters,     *)
(* with a goroutine that on an interrupt counts those left as failed and   *)
(* prints the report; `osdctl cluster support post`, a limited support     *)
(* reason and then a log with its evidence; `osdctl cluster support        *)
(* delete`.  SREs run them side by side.                                   *)
(***************************************************************************)
EXTENDS Naturals, FiniteSets

CONSTANTS
    Notifier,            \* SREs, each with one command
    Mailbox,             \* clusters that service logs go to
    MaxReason            \* bound: limited support reasons ever made, of one cluster

ASSUME NoticeAssumption == MaxReason \in Nat

VARIABLES
    mail,                \* of each cluster, whose service log it received
    reasons, lastReason, \* limited support reasons of the cluster, and the last ID given
    evidence,            \* reasons that an internal log gives the evidence of
    noticePc,            \* step of each SRE
    matching, unsent,    \* clusters found; those not yet looked at
    inFlight,            \* the cluster the post at hand is for
    told, untold,        \* successfulClusters and failedClusters
    mine,                \* reason the run posted, or 0
    namedReason,         \* --limited-support-reason-id, or 0
    reasonsListed, toDrop, dropped \* reasons the run found, is to delete, and deleted

logState == <<matching, unsent, inFlight, told, untold>>
reasonState == <<mine, namedReason, reasonsListed, toDrop, dropped>>
noticeVars == <<mail, reasons, lastReason, evidence, noticePc, logState, reasonState>>

NoticeInit ==
    /\ mail = [c \in Mailbox |-> {}] /\ reasons = {} /\ lastReason = 0 /\ evidence = {}
    /\ noticePc = [n \in Notifier |-> "idle"]
    /\ matching = [n \in Notifier |-> {}] /\ unsent = [n \in Notifier |-> {}] /\ inFlight = [n \in Notifier |-> {}]
    /\ told = [n \in Notifier |-> {}] /\ untold = [n \in Notifier |-> {}]
    /\ mine = [n \in Notifier |-> 0] /\ namedReason \in [Notifier -> 0..MaxReason]
    /\ reasonsListed = [n \in Notifier |-> {}]
    /\ toDrop = [n \in Notifier |-> {}]
    /\ dropped = [n \in Notifier |-> {}]
-----------------------------------------------------------------------------
NoticeStep(n, from, to) == noticePc[n] = from /\ noticePc' = [noticePc EXCEPT ![n] = to]

\* Template, parameters and filters; any of them may be refused.
PrepareLog(n) ==
    /\ \/ NoticeStep(n, "idle", "failed") /\ UNCHANGED <<matching, unsent>>
       \/ \E found \in SUBSET Mailbox \ {{}} :
            /\ NoticeStep(n, "idle", "confirm")
            /\ matching' = [matching EXCEPT ![n] = found] /\ unsent' = [unsent EXCEPT ![n] = found]
    /\ UNCHANGED <<mail, reasons, lastReason, evidence, inFlight, told, untold, reasonState>>

\* A log of the last hour is asked about if the cluster is the only one; a dead link or
\* a dry run ends it; the SRE may decline.
ConfirmLog(n) ==
    /\ NoticeStep(n, "confirm", "loop") \/ NoticeStep(n, "confirm", "declined")
    /\ UNCHANGED <<mail, reasons, lastReason, evidence, logState, reasonState>>

\* The log is about another product than the cluster's, and the SRE declines.
SkipCluster(n) ==
    /\ NoticeStep(n, "loop", "loop") /\ inFlight[n] = {}
    /\ \E c \in unsent[n] : unsent' = [unsent EXCEPT ![n] = @ \ {c}] /\ matching' = [matching EXCEPT ![n] = @ \ {c}]
    /\ UNCHANGED <<mail, reasons, lastReason, evidence, inFlight, told, untold, reasonState>>

PostLog(n) ==
    /\ NoticeStep(n, "loop", "loop") /\ inFlight[n] = {}
    /\ \E c \in unsent[n] :
         /\ unsent' = [unsent EXCEPT ![n] = @ \ {c}] /\ inFlight' = [inFlight EXCEPT ![n] = {c}]
         /\ mail' = [mail EXCEPT ![c] = @ \cup {n}] \/ mail' = mail
    /\ UNCHANGED <<reasons, lastReason, evidence, matching, told, untold, reasonState>>

\* Mutant: a post without a reply counts as sent.
RecordSent(n) ==
    /\ NoticeStep(n, "loop", "loop") /\ inFlight[n] # {} /\ inFlight' = [inFlight EXCEPT ![n] = {}]
    /\ told' = [told EXCEPT ![n] = @ \cup inFlight[n]]
    /\ UNCHANGED <<mail, reasons, lastReason, evidence, matching, unsent, untold, reasonState>>

\* The reply may be lost although the log was received.
RecordReply(n) ==
    /\ NoticeStep(n, "loop", "loop") /\ inFlight[n] # {} /\ inFlight' = [inFlight EXCEPT ![n] = {}]
    /\ \/ (\A c \in inFlight[n] : n \in mail[c]) /\ told' = [told EXCEPT ![n] = @ \cup inFlight[n]] /\ UNCHANGED untold
       \/ untold' = [untold EXCEPT ![n] = @ \cup inFlight[n]] /\ UNCHANGED told
    /\ UNCHANGED <<mail, reasons, lastReason, evidence, matching, unsent, reasonState>>

ReportLogs(n) ==
    /\ NoticeStep(n, "loop", "reported") /\ inFlight[n] = {} /\ unsent[n] = {}
    /\ UNCHANGED <<mail, reasons, lastReason, evidence, logState, reasonState>>

\* cleanUp, in the goroutine of the interrupt, then log.Fatal; the maps are shared with
\* the loop without a lock, so that the runtime may end the program instead.
InterruptLogs(n) ==
    /\ \/ NoticeStep(n, "loop", "reported") /\ untold' = [untold EXCEPT ![n] = @ \cup (matching[n] \ told[n])]
       \/ NoticeStep(n, "loop", "killed") /\ UNCHANGED untold
    /\ UNCHANGED <<mail, reasons, lastReason, evidence, matching, unsent, inFlight, told, reasonState>>
-----------------------------------------------------------------------------
\* Cluster, subscription and labels; a management cluster or a critical customer is
\* asked about, and the reason once more.
CheckReason(n) ==
    /\ NoticeStep(n, "idle", "reason") \/ NoticeStep(n, "idle", "declined") \/ NoticeStep(n, "idle", "failed")
    /\ UNCHANGED <<mail, reasons, lastReason, evidence, logState, reasonState>>

\* With --evidence a log follows.
PostReason(n) ==
    /\ noticePc[n] = "reason"
    /\ \/ /\ lastReason < MaxReason /\ lastReason' = lastReason + 1 /\ reasons' = reasons \cup {lastReason'}
          /\ \/ /\ mine' = [mine EXCEPT ![n] = lastReason']
                /\ \E next \in {"evidence", "done"} : NoticeStep(n, "reason", next)
             \/ NoticeStep(n, "reason", "failed") /\ UNCHANGED mine
       \/ NoticeStep(n, "reason", "failed") /\ UNCHANGED <<lastReason, reasons, mine>>
    /\ UNCHANGED <<mail, evidence, logState, namedReason, reasonsListed, toDrop, dropped>>

PostEvidence(n) ==
    /\ \/ NoticeStep(n, "evidence", "done") /\ evidence' = evidence \cup {mine[n]}
       \/ NoticeStep(n, "evidence", "failed") /\ UNCHANGED evidence
    /\ UNCHANGED <<mail, reasons, lastReason, logState, reasonState>>
-----------------------------------------------------------------------------
\* Unless all are to go, one that is the only one, else the one that is named.  An
\* error of the listing shows as none.
ListReasons(n) ==
    /\ \E found \in {reasons, {}}, all \in BOOLEAN :
         /\ all => namedReason[n] = 0
         /\ IF found = {} \/ (~all /\ namedReason[n] = 0 /\ Cardinality(found) > 1)
            THEN NoticeStep(n, "idle", "failed") /\ UNCHANGED <<reasonsListed, toDrop>>
            ELSE /\ NoticeStep(n, "idle", "drop")
                 /\ reasonsListed' = [reasonsListed EXCEPT ![n] = found]
                 /\ toDrop' = [toDrop EXCEPT ![n] = IF all \/ Cardinality(found) = 1 THEN found ELSE {namedReason[n]}]
    /\ UNCHANGED <<mail, reasons, lastReason, evidence, logState, mine, namedReason, dropped>>

\* A refusal counts as a deletion if the reply is JSON.
DropReason(n) ==
    /\ noticePc[n] = "drop"
    /\ \E r \in toDrop[n] :
         /\ toDrop' = [toDrop EXCEPT ![n] = @ \ {r}]
         /\ \/ reasons' = reasons \ {r} /\ dropped' = [dropped EXCEPT ![n] = @ \cup (reasons \cap {r})]
            \/ UNCHANGED <<reasons, dropped>>
    /\ noticePc' = [noticePc EXCEPT ![n] = IF toDrop'[n] = {} THEN "done" ELSE "drop"]
    /\ UNCHANGED <<mail, lastReason, evidence, logState, mine, namedReason, reasonsListed>>
-----------------------------------------------------------------------------
NoticeNext == \E n \in Notifier :
    \/ PrepareLog(n) \/ ConfirmLog(n) \/ SkipCluster(n) \/ PostLog(n) \/ RecordReply(n) \/ ReportLogs(n) \/ InterruptLogs(n)
    \/ CheckReason(n) \/ PostReason(n) \/ PostEvidence(n) \/ ListReasons(n) \/ DropReason(n)

NoticeSpec == NoticeInit /\ [][NoticeNext]_noticeVars
-----------------------------------------------------------------------------
\* A report, an interrupted one included, counts as sent only what was received, and
\* leaves out no cluster that received the log; evidence is of the reason that its run
\* posted; and reasons posted after a deletion made its list are not deleted by it.
NoticesTold == \A n \in Notifier :
    /\ noticePc[n] = "reported" =>
        /\ told[n] \cap untold[n] = {} /\ told[n] \cup untold[n] = matching[n]
        /\ \A c \in Mailbox : (c \in told[n] => n \in mail[c]) /\ (n \in mail[c] => c \in matching[n])
    /\ evidence \subseteq {mine[m] : m \in Notifier} \ {0}
    /\ dropped[n] \subseteq reasonsListed[n] \cup {namedReason[n]}

\* "Remove a specific limited support reason" (-i): that one, and no other.
NamedReasonOnly == \A n \in Notifier : namedReason[n] # 0 => dropped[n] \subseteq {namedReason[n]}
=============================================================================
