---------------------------- MODULE ClusterContext ----------------------------
(***************************************************************************)
(* `osdctl cluster context`: a goroutine per data point asks OCM, Jira,    *)
(* PagerDuty, RHOBS and AWS at the same time and puts what it gets in the  *)
(* data printed, or an error in a slice that all share under a mutex.  The *)
(* historical alerts wait for the current ones, whose services they are of.*)
(***************************************************************************)
EXTENDS Naturals, Sequences, FiniteSets, SequencesExt

CONSTANTS
    PlainPoint,           \* data points of one query: limited support, service logs, Jira, ...
    TrailPoint,           \* those of --full: what CloudTrail has
    PagerService          \* services of PagerDuty

Retriever == PlainPoint \cup TrailPoint \cup {"alerts", "history", "rhobs", "description"}
Point == PlainPoint \cup TrailPoint \cup {"service", "alerts", "history", "dashboard", "logsUrl", "description"}
Nobody == "nobody"
ASSUME ContextAssumption ==
    /\ IsFiniteSet(PagerService)
    /\ (PlainPoint \cup TrailPoint) \cap {"service", "alerts", "history", "rhobs", "description", Nobody} = {}

VARIABLES
    cpc,                  \* the main goroutine: basics, launch, wait, printed, failed
    pagerReady, hostedCluster, wholeCheck, longOutput, \* client of PagerDuty made; HCP; --full; output
    rpc, rnext,           \* each retriever: step, and the step after the error at hand
    point,                \* its data point at hand
    mutexHolder, sliceRead, \* who holds the mutex; the slice each has read
    dataErrors,           \* the slice: data points with an error
    fields, gaps,         \* points with a value; those that could not be queried
    pdServiceID, alertsDone, \* shared: services found; the wait group of PagerDuty
    historyOf             \* of each service, the services whose incidents its history counts

contextOptions == <<pagerReady, hostedCluster, wholeCheck, longOutput>>
contextData == <<dataErrors, fields, gaps, pdServiceID, alertsDone, historyOf>>
contextVars == <<cpc, contextOptions, rpc, rnext, point, mutexHolder, sliceRead, contextData>>

ContextInit ==
    /\ cpc = "basics"
    /\ pagerReady \in BOOLEAN
    /\ hostedCluster \in BOOLEAN
    /\ wholeCheck \in BOOLEAN
    /\ longOutput \in BOOLEAN
    /\ rpc = [r \in Retriever |-> "idle"]
    /\ rnext = [r \in Retriever |-> "done"]
    /\ point = [r \in Retriever |-> "service"]
    /\ mutexHolder = Nobody /\ sliceRead = [r \in Retriever |-> {}]
    /\ dataErrors = IF pagerReady THEN {} ELSE {"alerts"}
    /\ gaps = IF pagerReady THEN {} ELSE {"alerts"} \cup (IF wholeCheck THEN {"history"} ELSE {})
    /\ fields = {} /\ pdServiceID = {} /\ alertsDone = FALSE /\ historyOf = [s \in PagerService |-> {}]
-----------------------------------------------------------------------------
Wanted(r) == (r = "description" => longOutput) /\ (r \in TrailPoint \cup {"history"} => wholeCheck)

\* The cluster and its CIDRs: without them there is nothing to print.
Basics ==
    /\ cpc = "basics" /\ cpc' \in {"launch", "failed"}
    /\ UNCHANGED <<contextOptions, rpc, rnext, point, mutexHolder, sliceRead, contextData>>

Launch ==
    /\ cpc = "launch" /\ cpc' = "wait"
    /\ rpc' = [r \in Retriever |-> IF Wanted(r) THEN "query" ELSE "done"]
    /\ UNCHANGED <<contextOptions, rnext, point, mutexHolder, sliceRead, contextData>>

PrintContext ==
    /\ cpc = "wait" /\ \A r \in Retriever : rpc[r] = "done" /\ cpc' = "printed"
    /\ UNCHANGED <<contextOptions, rpc, rnext, point, mutexHolder, sliceRead, contextData>>
-----------------------------------------------------------------------------
Goes(r, to) == rpc' = [rpc EXCEPT ![r] = to]

\* The query of p fails: its error is appended, after which r goes on with next.
Failing(r, p, next) ==
    /\ Goes(r, "lock") /\ rnext' = [rnext EXCEPT ![r] = next] /\ point' = [point EXCEPT ![r] = p]
    /\ gaps' = gaps \cup {p} /\ UNCHANGED fields

Found(r, p, next) == Goes(r, next) /\ fields' = fields \cup {p} /\ UNCHANGED <<rnext, point, gaps>>

\* Mutant: the slice is shared without the mutex.
AppendUnlocked(r) ==
    \/ /\ rpc[r] = "lock" /\ Goes(r, "append") /\ sliceRead' = [sliceRead EXCEPT ![r] = dataErrors]
       /\ UNCHANGED <<mutexHolder, dataErrors>>
    \/ /\ rpc[r] = "append" /\ Goes(r, rnext[r]) /\ dataErrors' = sliceRead[r] \cup {point[r]}
       /\ UNCHANGED <<mutexHolder, sliceRead>>

\* Lock, read the slice, write it with the error, unlock.
AppendError(r) ==
    \/ /\ rpc[r] = "lock" /\ mutexHolder = Nobody /\ mutexHolder' = r /\ Goes(r, "append")
       /\ sliceRead' = [sliceRead EXCEPT ![r] = dataErrors] /\ UNCHANGED dataErrors
    \/ /\ rpc[r] = "append" /\ mutexHolder' = Nobody /\ Goes(r, rnext[r])
       /\ dataErrors' = sliceRead[r] \cup {point[r]} /\ UNCHANGED sliceRead

TellError(r) ==
    /\ AppendError(r)
    /\ UNCHANGED <<cpc, contextOptions, rnext, point, fields, gaps, pdServiceID, alertsDone, historyOf>>

FetchPlain(r) ==
    /\ r \in PlainPoint /\ rpc[r] = "query"
    /\ Found(r, r, "done") \/ Failing(r, r, "done")
    /\ UNCHANGED <<cpc, contextOptions, mutexHolder, sliceRead, dataErrors, pdServiceID, alertsDone, historyOf>>

\* As many pages as asked for of the events that change something, or an error.
FetchTrail(r) ==
    /\ r \in TrailPoint /\ rpc[r] = "query"
    /\ Found(r, r, "done") \/ Failing(r, r, "done")
    /\ UNCHANGED <<cpc, contextOptions, mutexHolder, sliceRead, dataErrors, pdServiceID, alertsDone, historyOf>>

\* Not of a classic cluster that is no management cluster, which is said instead, nor
\* if that is not known.
FetchDashboard ==
    /\ rpc["rhobs"] = "query"
    /\ \/ Found("rhobs", "dashboard", "logsUrl") \/ Failing("rhobs", "dashboard", "logsUrl")
       \/ ~hostedCluster /\ (Found("rhobs", "dashboard", "done") \/ Failing("rhobs", "dashboard", "done"))
    /\ UNCHANGED <<cpc, contextOptions, mutexHolder, sliceRead, dataErrors, pdServiceID, alertsDone, historyOf>>

FetchLogsUrl ==
    /\ rpc["rhobs"] = "logsUrl"
    /\ Found("rhobs", "logsUrl", "done") \/ Failing("rhobs", "logsUrl", "done")
    /\ UNCHANGED <<cpc, contextOptions, mutexHolder, sliceRead, dataErrors, pdServiceID, alertsDone, historyOf>>

\* `ocm describe cluster`; an error is printed at once.
FetchDescription ==
    /\ rpc["description"] = "query" /\ Goes("description", "done")
    /\ \/ fields' = fields \cup {"description"} /\ UNCHANGED gaps
       \/ gaps' = gaps \cup {"description"} /\ UNCHANGED fields
    /\ UNCHANGED <<cpc, contextOptions, rnext, point, mutexHolder, sliceRead, dataErrors,
                   pdServiceID, alertsDone, historyOf>>
-----------------------------------------------------------------------------
SkipAlerts ==
    /\ rpc["alerts"] = "query" /\ ~pagerReady /\ Goes("alerts", "done") /\ alertsDone' = TRUE
    /\ UNCHANGED <<cpc, contextOptions, rnext, point, mutexHolder, sliceRead, dataErrors, fields,
                   gaps, pdServiceID, historyOf>>

\* Without services it goes on, to alerts of none.
FindServices ==
    /\ rpc["alerts"] = "query" /\ pagerReady
    /\ \/ /\ pdServiceID' \in SUBSET PagerService
          /\ Goes("alerts", "incidents") /\ UNCHANGED <<rnext, point, gaps, fields>>
       \/ Failing("alerts", "service", "incidents") /\ UNCHANGED pdServiceID
    /\ UNCHANGED <<cpc, contextOptions, mutexHolder, sliceRead, dataErrors, alertsDone, historyOf>>

ListIncidents ==
    /\ rpc["alerts"] = "incidents"
    /\ Found("alerts", "alerts", "end") \/ (pdServiceID # {} /\ Failing("alerts", "alerts", "end"))
    /\ UNCHANGED <<cpc, contextOptions, mutexHolder, sliceRead, dataErrors, pdServiceID, alertsDone, historyOf>>

AlertsEnd ==
    /\ rpc["alerts"] = "end" /\ Goes("alerts", "done") /\ alertsDone' = TRUE
    /\ UNCHANGED <<cpc, contextOptions, rnext, point, mutexHolder, sliceRead, dataErrors, fields,
                   gaps, pdServiceID, historyOf>>

\* Not of a hosted cluster, whose services are shared.  Of the services in order, each
\* is counted with the incidents of those before it.
FetchHistory ==
    /\ rpc["history"] = "query" /\ alertsDone
    /\ \/ /\ ~hostedCluster /\ Found("history", "history", "done")
          /\ \E order \in SetToSeqs(pdServiceID) : historyOf' = [s \in PagerService |->
                {order[j] : j \in {k \in DOMAIN order : \E i \in k..Len(order) : order[i] = s}}]
       \/ (hostedCluster \/ pdServiceID # {}) /\ Failing("history", "history", "done") /\ UNCHANGED historyOf
    /\ UNCHANGED <<cpc, contextOptions, mutexHolder, sliceRead, dataErrors, pdServiceID, alertsDone>>
-----------------------------------------------------------------------------
Retrieve(r) ==
    \/ TellError(r) \/ FetchPlain(r) \/ FetchTrail(r)
    \/ r = "rhobs" /\ (FetchDashboard \/ FetchLogsUrl)
    \/ r = "description" /\ FetchDescription
    \/ r = "alerts" /\ (SkipAlerts \/ FindServices \/ ListIncidents \/ AlertsEnd)
    \/ r = "history" /\ FetchHistory

ContextNext == Basics \/ Launch \/ PrintContext \/ \E r \in Retriever : Retrieve(r)

ContextSpec == ContextInit /\ [][ContextNext]_contextVars
-----------------------------------------------------------------------------
\* What is printed has an error for every point that could not be queried, however the
\* goroutines interleave, except the two that have none (below); and the history is of
\* the services that the current alerts are of.
NoErrorLost ==
    cpc = "printed" =>
        /\ gaps \ {"description", "history"} \subseteq dataErrors
        /\ "history" \in gaps /\ pagerReady => "history" \in dataErrors
        /\ "history" \in fields => {s \in PagerService : s \in historyOf[s]} = pdServiceID

\* Whoever waits for the mutex waits for a goroutine that is about to unlock it, and
\* the history for alerts that have not returned, whatever has failed before.
NoneWaitsForTheDone ==
    /\ mutexHolder # Nobody => mutexHolder \in Retriever /\ rpc[mutexHolder] = "append"
    /\ cpc = "wait" /\ ~alertsDone => rpc["alerts"] \notin {"idle", "done"}

\* Until the context is printed some goroutine can go on.
SomebodyGoesOn == cpc \in {"printed", "failed"} \/ ENABLED ContextNext
=============================================================================
