-------------------------------- MODULE Queries --------------------------------
(***************************************************************************)
(* Commands that read and change nothing: logs of a hosted control plane   *)
(* (LogQuery, LogStream), the context of a cluster (ClusterContext), DNS   *)
(* records and egress (DnsCheck, NetworkCheck), CloudTrail's events with   *)
(* their cache (TrailCache), must-gather (MustGather).  A behaviour is one *)
(* of them.                                                                *)
(***************************************************************************)
EXTENDS LogQuery, LogStream, ClusterContext, DnsCheck, NetworkCheck, TrailCache, MustGather

VARIABLE command     \* the command given

\* What the command does not look at has one value.
QueriesInit ==
    /\ command \in {"logs", "follow", "context", "dns", "egress", "cloudtrail", "must-gather"}
    /\ \/ command = "logs"
       \/ /\ stamp = [l \in Line |-> 1] /\ stored = Line /\ hasCell = {} /\ usagesLeft = {"logs"}
          /\ forward = TRUE /\ limit = NoLimit
    /\ QueryInit /\ StreamInit
    /\ \/ command = "context"
       \/ pagerReady = FALSE /\ hostedCluster = FALSE /\ wholeCheck = FALSE /\ longOutput = FALSE
    /\ ContextInit
    /\ command = "dns" \/ (oldCluster = FALSE /\ records = [t \in DnsTest |-> "PASS"])
    /\ DnsInit
    /\ \/ command = "egress"
       \/ /\ egressKind = "none" /\ egressReady = FALSE /\ podFlag = FALSE /\ credsFlag = "none" /\ subnetFlag = {}
          /\ groupFlag = FALSE /\ allFlag = FALSE /\ quietFlag = FALSE /\ platformFlag = "none" /\ publicSubnet = {}
    /\ EgressInit
    /\ command = "cloudtrail" \/ trailRegions = <<"default">>
    /\ TrailInit
    /\ command = "must-gather" \/ (hosted = FALSE /\ targets = GatherTarget)
    /\ MustGatherInit

Logs ==
    /\ command = "logs" /\ QueryNext
    /\ UNCHANGED <<command, streamVars, contextVars, dnsVars, egressVars, trailVars, mustGatherVars>>
Follow ==
    /\ command = "follow" /\ StreamNext
    /\ UNCHANGED <<command, queryVars, contextVars, dnsVars, egressVars, trailVars, mustGatherVars>>
Context ==
    /\ command = "context" /\ ContextNext
    /\ UNCHANGED <<command, queryVars, streamVars, dnsVars, egressVars, trailVars, mustGatherVars>>
Dns ==
    /\ command = "dns" /\ DnsNext
    /\ UNCHANGED <<command, queryVars, streamVars, contextVars, egressVars, trailVars, mustGatherVars>>
Egress ==
    /\ command = "egress" /\ EgressNext
    /\ UNCHANGED <<command, queryVars, streamVars, contextVars, dnsVars, trailVars, mustGatherVars>>
Cloudtrail ==
    /\ command = "cloudtrail" /\ TrailNext
    /\ UNCHANGED <<command, queryVars, streamVars, contextVars, dnsVars, egressVars, mustGatherVars>>
Gather ==
    /\ command = "must-gather" /\ MustGatherNext
    /\ UNCHANGED <<command, queryVars, streamVars, contextVars, dnsVars, egressVars, trailVars>>

queriesVars == <<command, queryVars, streamVars, contextVars, dnsVars, egressVars, trailVars, mustGatherVars>>

\* The goroutine that streams goes on, the one of its interrupt, and those of a
\* must-gather.  Nothing is assumed of the other commands.
GoesOn == (command = "follow" /\ StreamLoop) \/ (command = "must-gather" /\ GatherWork)
QueriesFairness ==
    /\ WF_queriesVars((Follow \/ Gather) /\ GoesOn)
    /\ WF_queriesVars(Follow /\ OnInterrupt)

QueriesSpec ==
    /\ QueriesInit /\ [][Logs \/ Follow \/ Context \/ Dns \/ Egress \/ Cloudtrail \/ Gather]_queriesVars
    /\ QueriesFairness
-----------------------------------------------------------------------------
\* Every page brings a query nearer to its end, however its lines crowd at one
\* timestamp; of a context's goroutines one can always go on; a stream that was
\* interrupted ends; and so does a must-gather, whose targets wait for the one that
\* logs in.
QueriesEnd ==
    /\ PagesAdvance
    /\ command = "context" => []SomebodyGoesOn
    /\ command = "follow" => InterruptEnds
    /\ command = "must-gather" => GatherEnds

\* A query has every line between its bounds once and in order, and was asked of the
\* right cell (LogQuery).
LogsAreRight == LogsAreComplete /\ BestCellFound

\* A context has all the errors and is printed: its goroutines share a slice, and wait
\* for one another.
ContextIsWhole == NoErrorLost /\ NoneWaitsForTheDone

\* The two checks of a network: what `verify-dns` reports has every record, and a clean
\* egress verification has probed all that was chosen.
NetworkVerdicts == DnsReportComplete /\ EgressVerdictHolds
=============================================================================
