------------------------------ MODULE TrailCache ------------------------------
(***************************************************************************)
(* `osdctl cloudtrail`: write-events prints the events of a period, of the *)
(* cluster's region and then of the default one, from a file of periods    *)
(* and events kept of earlier runs, and asks CloudTrail only for what the  *)
(* file lacks; errors and permission-denied-events ask it for everything.  *)
(***************************************************************************)
EXTENDS Integers, FiniteSets, SequencesExt

CONSTANTS
    LastSecond,          \* bound: times are 0..LastSecond, with a write event in each second
    MaxTrailRuns         \* bound: runs

ASSUME TrailAssumption == LastSecond \in Nat

Second == 0..LastSecond
Regions == {<<"default">>, <<"cluster's", "default">>}

VARIABLES
    trailPc, trailRuns,
    trailRegions,        \* those to ask, in order
    regionsDone,         \* how many of them are done
    requested,           \* requestedPeriod
    cacheFile, torn,     \* the file: seconds covered, events; and whether a save was cut short
    cacheRead,           \* as this run read it
    missingPeriod, toFetch, \* of the run; those left in this region
    fullOverlap,
    newCovered, newEvents,  \* newCacheData
    printed,             \* <<region, second>>
    disturbed            \* history: what makes the cache or a run lose events

cacheState == <<cacheFile, torn>>
trailRun == <<requested, cacheRead, missingPeriod, toFetch, fullOverlap, newCovered, newEvents>>
trailVars == <<trailPc, trailRuns, trailRegions, regionsDone, cacheState, trailRun, printed, disturbed>>

TrailInit ==
    /\ trailPc = "idle" /\ trailRuns = 0 /\ trailRegions \in Regions /\ regionsDone = 0
    /\ requested = <<0, 0>> /\ cacheFile = [covered |-> {}, events |-> {}] /\ torn = FALSE /\ cacheRead = cacheFile
    /\ missingPeriod = {} /\ toFetch = {} /\ fullOverlap = FALSE /\ newCovered = {} /\ newEvents = {}
    /\ printed = {} /\ disturbed = {}
-----------------------------------------------------------------------------
\* A period is of its first and last second.
Touch(p, q) == p[2] + 1 >= q[1] /\ q[2] + 1 >= p[1]

\* Merge: overlapping and adjacent periods are one, so that those of the file are the
\* longest stretches of what is covered.
Periods(covered) ==
    {p \in covered \X covered : p[1] <= p[2] /\ p[1]..p[2] \subseteq covered /\ {p[1] - 1, p[2] + 1} \cap covered = {}}

\* What is missing of a period beside one that is cached, up to the next one.
Diff(p, req, cached) ==
    LET rest == <<p[2] + 1, req[2]>>
        next == {q \in cached : q[1] > p[2] /\ Touch(q, rest)}
    IN {d \in {<<req[1], p[1] - 1>>, <<rest[1], Min({rest[2]} \cup {q[1] - 1 : q \in next})>>} : d[1] <= d[2]}

\* The order of the loop: what is missing after a cached period, then before the next.
FoundBefore(f, m) == f[2] < m[2] \/ (f[2] = m[2] /\ f[1] > m[1])

\* A missing period of one second is left out, and so is one that touches another.
Kept(all) == {kept \in SUBSET all :
    \A m \in all : m \in kept <=> m[1] # m[2] /\ \A f \in kept : FoundBefore(f, m) => ~Touch(m, f)}

DiffMultiple(req, cached) ==
    LET touching == {p \in cached : Touch(p, req)}
        all == UNION {Diff(p, req, cached) : p \in touching}
    IN {[missing |-> IF all = {} THEN {req} ELSE kept,
         full |-> \E p \in touching : Diff(p, req, cached) = {},
         lone |-> \E m \in all : m[1] = m[2] /\ m[1] \notin UNION {f[1]..f[2] : f \in kept}] : kept \in Kept(all)}

Region == trailRegions[regionsDone + 1]
Between(from, to) ==
    {e \in cacheRead.events : e[1] = Region /\ e[2] \in (requested[1]..requested[2]) \cap (from..to)}

TrailBegins ==
    /\ trailPc \in {"idle", "done", "failed"} /\ trailRuns < MaxTrailRuns /\ trailRuns' = trailRuns + 1
    /\ requested' \in {p \in Second \X Second : p[1] <= p[2]}
    /\ regionsDone' = 0
    /\ missingPeriod' = {}
    /\ toFetch' = {}
    /\ newCovered' = {}
    /\ newEvents' = {}
    /\ fullOverlap' = FALSE
    /\ printed' = {} /\ disturbed' = disturbed \ {"lone second"} /\ cacheRead' = [covered |-> {}, events |-> {}]
    /\ UNCHANGED <<trailRegions, cacheState>>

WriteEvents == TrailBegins /\ trailPc' = "read"
ErrorEvents == TrailBegins /\ trailPc' = "errors"

\* Mutant: the periods are worked out again for the second region.
ReadCacheAnew ==
    /\ trailPc = "read" /\ cacheRead' = cacheFile
    /\ \E d \in DiffMultiple(requested, Periods(cacheFile.covered)) :
          /\ torn = FALSE /\ trailPc' = "fetch" /\ missingPeriod' = d.missing /\ fullOverlap' = d.full
          /\ disturbed' = IF d.lone THEN disturbed \cup {"lone second"} ELSE disturbed
    /\ toFetch' = missingPeriod' /\ newCovered' = {} /\ newEvents' = {}
    /\ UNCHANGED <<trailRuns, trailRegions, regionsDone, cacheState, requested, printed>>

\* The second region goes by the periods of the first, whose save covered them.
ReadCache ==
    /\ trailPc = "read" /\ torn = FALSE /\ trailPc' = "fetch" /\ cacheRead' = cacheFile
    /\ IF missingPeriod = {}
       THEN \E d \in DiffMultiple(requested, Periods(cacheFile.covered)) :
               /\ missingPeriod' = d.missing /\ fullOverlap' = d.full
               /\ disturbed' = IF d.lone THEN disturbed \cup {"lone second"} ELSE disturbed
       ELSE fullOverlap' = FALSE /\ UNCHANGED <<missingPeriod, disturbed>>
    /\ toFetch' = missingPeriod' /\ newCovered' = {} /\ newEvents' = {}
    /\ UNCHANGED <<trailRuns, trailRegions, regionsDone, cacheState, requested, printed>>

\* A file that is no JSON stays so.
ReadFailure ==
    /\ trailPc = "read" /\ torn /\ trailPc' = "failed"
    /\ UNCHANGED <<trailRuns, trailRegions, regionsDone, cacheState, trailRun, printed, disturbed>>

FromCache ==
    /\ trailPc = "fetch" /\ fullOverlap /\ toFetch # {} /\ trailPc' = "save"
    /\ printed' = printed \cup Between(requested[1], requested[2])
    /\ missingPeriod' = {} /\ toFetch' = {}
    /\ UNCHANGED <<trailRuns, trailRegions, regionsDone, cacheState, requested, cacheRead,
                   fullOverlap, newCovered, newEvents, disturbed>>

\* The latest first: what the cache has after it, if it is the first; CloudTrail's
\* events, of which none are kept if a page failed and its goroutine's panic has not
\* ended the process yet; and what the cache has down to the next.
FetchPeriod ==
    /\ trailPc = "fetch" /\ ~fullOverlap /\ toFetch # {}
    /\ \E m \in toFetch, got \in BOOLEAN :
         LET earlier == {x \in toFetch : x[1] < m[1]}
             last == earlier = {}
             fetched == IF got THEN {<<Region, s>> : s \in m[1]..m[2]} ELSE {}
         IN /\ \A x \in toFetch : x[1] <= m[1]
            /\ toFetch' = toFetch \ {m}
            /\ printed' = printed \cup fetched
                 \cup (IF toFetch = missingPeriod THEN Between(m[2], requested[2]) ELSE {})
                 \cup (IF last THEN Between(requested[1], m[1]) ELSE Between(Max({x[2] : x \in earlier}) + 1, m[1] - 1))
            /\ newCovered' = newCovered \cup ((IF last THEN m[1] ELSE m[1] - 1)..m[2])
            /\ newEvents' = newEvents \cup fetched
            /\ disturbed' = IF got THEN disturbed ELSE disturbed \cup {"page failed"}
    /\ UNCHANGED <<trailPc, trailRuns, trailRegions, regionsDone, cacheState, requested, cacheRead,
                   missingPeriod, fullOverlap>>

FetchedAll ==
    /\ trailPc = "fetch" /\ toFetch = {} /\ trailPc' = "save"
    /\ UNCHANGED <<trailRuns, trailRegions, regionsDone, cacheState, trailRun, printed, disturbed>>

SaveCache ==
    /\ trailPc = "save" /\ regionsDone' = regionsDone + 1
    /\ cacheFile' = [covered |-> cacheRead.covered \cup newCovered, events |-> cacheRead.events \cup newEvents]
    /\ trailPc' = IF regionsDone' = Len(trailRegions) THEN "done" ELSE "read"
    /\ UNCHANGED <<trailRuns, trailRegions, torn, trailRun, printed, disturbed>>

\* Of the default region only write events.
ListErrors ==
    /\ trailPc = "errors" /\ regionsDone' = regionsDone + 1
    /\ printed' = printed \cup {<<Region, s>> : s \in requested[1]..requested[2]}
    /\ trailPc' = IF regionsDone' = Len(trailRegions) THEN "done" ELSE "errors"
    /\ UNCHANGED <<trailRuns, trailRegions, cacheState, trailRun, disturbed>>

\* Also the panic after an error of a page; the file is truncated before it is written.
TrailKilled ==
    /\ trailPc \in {"read", "fetch", "save", "errors"} /\ trailPc' = "failed"
    /\ torn' \in {torn, torn \/ trailPc = "save"}
    /\ disturbed' = IF regionsDone = 1 /\ trailPc # "errors" THEN disturbed \cup {"killed between regions"} ELSE disturbed
    /\ UNCHANGED <<trailRuns, trailRegions, regionsDone, cacheFile, trailRun, printed>>
-----------------------------------------------------------------------------
TrailNext ==
    \/ WriteEvents \/ ErrorEvents \/ ReadCache \/ ReadFailure \/ FromCache \/ FetchPeriod \/ FetchedAll \/ SaveCache
    \/ ListErrors \/ TrailKilled

TrailSpec == TrailInit /\ [][TrailNext]_trailVars
-----------------------------------------------------------------------------
\* "Specifies all events that occur after the specified time": what a run takes from
\* the file and what it asks for are all of the period, whatever periods earlier runs
\* asked for and wherever they were killed, but for a period of one second beside a
\* cached one, a failed page, and a kill between the two regions.
TrailShowsAll ==
    trailPc = "done" /\ disturbed = {} =>
        printed = {<<trailRegions[i], s>> : i \in DOMAIN trailRegions, s \in requested[1]..requested[2]}
=============================================================================
