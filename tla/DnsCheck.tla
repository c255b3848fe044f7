------------------------------- MODULE DnsCheck -------------------------------
(***************************************************************************)
(* `osdctl cluster verify-dns`: a goroutine per record looks it up and     *)
(* sends its result to a channel; another closes the channel once they are *)
(* done; the main one takes results until it is closed.                    *)
(***************************************************************************)
EXTENDS Naturals, FiniteSets

CONSTANTS
    DnsRecord,           \* console, default ingress, API, OAuth and their challenges
    UniqueRecord         \* those with the cluster's ID, skipped on clusters of before March 2025

DnsTest == DnsRecord \cup UniqueRecord

VARIABLES
    vpc,                 \* the main goroutine
    oldCluster,          \* made before the cut-off
    lookup,              \* each test's goroutine: not launched, running, sent, done
    channel,             \* results in the channel: of test and status
    channelClosed,
    dnsReport,           \* results taken
    records              \* of each record, what the resolver says

dnsVars == <<vpc, oldCluster, lookup, channel, channelClosed, dnsReport, records>>

DnsInit ==
    /\ vpc = "start"
    /\ oldCluster \in BOOLEAN
    /\ lookup = [t \in DnsTest |-> "none"]
    /\ channel = {}
    /\ channelClosed = FALSE
    /\ dnsReport = {} /\ records \in [DnsTest -> {"PASS", "FAIL"}]

\* Only of a hosted cluster that is ready.
StartLookups ==
    /\ vpc = "start"
    /\ \/ vpc' = "collect" /\ lookup' = [t \in DnsTest |-> "running"]
       \/ vpc' = "failed" /\ UNCHANGED lookup
    /\ UNCHANGED <<oldCluster, channel, channelClosed, dnsReport, records>>

\* A record resolves if the answer is the target expected of it.
DnsStatus(t) == IF t \in UniqueRecord /\ oldCluster THEN "SKIP" ELSE records[t]

SendResult(t) ==
    /\ lookup[t] = "running" /\ lookup' = [lookup EXCEPT ![t] = "sent"]
    /\ channelClosed = FALSE /\ channel' = channel \cup {<<t, DnsStatus(t)>>}
    /\ UNCHANGED <<vpc, oldCluster, channelClosed, dnsReport, records>>

LookupDone(t) ==
    /\ lookup[t] = "sent" /\ lookup' = [lookup EXCEPT ![t] = "done"]
    /\ UNCHANGED <<vpc, oldCluster, channel, channelClosed, dnsReport, records>>

CloseChannel ==
    /\ vpc = "collect" /\ ~channelClosed /\ \A t \in DnsTest : lookup[t] = "done"
    /\ channelClosed' = TRUE /\ UNCHANGED <<vpc, oldCluster, lookup, channel, dnsReport, records>>

TakeResult ==
    /\ vpc = "collect"
    /\ \E r \in channel : channel' = channel \ {r} /\ dnsReport' = dnsReport \cup {r}
    /\ UNCHANGED <<vpc, oldCluster, lookup, channelClosed, records>>

\* The summary counts the results, and advice follows those that failed.
Analyze ==
    /\ vpc = "collect" /\ channelClosed /\ channel = {} /\ vpc' = "reported"
    /\ UNCHANGED <<oldCluster, lookup, channel, channelClosed, dnsReport, records>>
-----------------------------------------------------------------------------
DnsNext ==
    \/ StartLookups \/ CloseChannel \/ TakeResult \/ Analyze
    \/ \E t \in DnsTest : SendResult(t) \/ LookupDone(t)

DnsSpec == DnsInit /\ [][DnsNext]_dnsVars
-----------------------------------------------------------------------------
\* In whatever order the lookups end: no result is sent to a closed channel, and a
\* report has one result of every record.
DnsReportComplete ==
    /\ channelClosed => \A t \in DnsTest : lookup[t] \in {"sent", "done"}
    /\ vpc = "reported" => dnsReport = {<<t, DnsStatus(t)>> : t \in DnsTest}
=============================================================================
