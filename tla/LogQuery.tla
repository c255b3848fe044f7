------------------------------- MODULE LogQuery -------------------------------
(***************************************************************************)
(* `osdctl rhobs logs`: the RHOBS cell that has the logs of a cluster is   *)
(* looked up in up to three places, and the logs of a window of time are   *)
(* then read page by page from a store that may still be receiving some.   *)
(* The store returns the first lines of the window; of lines of one        *)
(* timestamp, which ones is its choice.                                    *)
(***************************************************************************)
EXTENDS Integers, Sequences, FiniteSets, SequencesExt

CONSTANTS
    Line,                 \* log lines, numbered
    LastStamp,            \* timestamps are 1..LastStamp
    PageSize, MaxLines    \* lines per request, and the limits the SRE may ask for (0: none)

ASSUME QueryAssumption ==
    /\ Line \subseteq Int /\ IsFiniteSet(Line)
    /\ LastStamp \in Nat /\ PageSize \in Nat \ {0} /\ MaxLines \subseteq Nat

NoLimit == 0
Usage == {"metrics", "logs"}
Source == Usage \cup {"deployment"}   \* two config maps, and the ClusterDeployment on Hive

VARIABLES
    stamp, stored, storedAtStart, \* of each line its timestamp; lines in the store, now and at first
    hasCell,              \* sources that tell the cell
    qpc,
    usagesLeft, usage,    \* those a fetcher is wanted for
    asked,                \* sources asked, in order
    cell,                 \* of each usage, the source its cell is from
    forward, limit, linesLeft,
    winFrom, winTo,       \* the window
    shownLines            \* lines printed, in order

storeVars == <<stamp, stored, storedAtStart, hasCell>>
cellVars == <<usagesLeft, usage, asked, cell>>
pageVars == <<linesLeft, winFrom, winTo, shownLines>>
queryVars == <<storeVars, qpc, cellVars, forward, limit, pageVars>>

\* Both fetchers are wanted by the commands that show metrics and logs.
QueryInit ==
    /\ stamp \in [Line -> 1..LastStamp] /\ \A l, k \in Line : l < k => stamp[l] <= stamp[k]
    /\ stored \in {Line} \cup {Line \ {l} : l \in Line} /\ storedAtStart = stored
    /\ hasCell \in SUBSET Source
    /\ qpc = "usage" /\ usagesLeft \in {{"logs"}, Usage} /\ usage = {}
    /\ asked = <<>> /\ cell = [u \in Usage |-> {}]
    /\ forward \in BOOLEAN /\ limit \in MaxLines /\ linesLeft = IF limit = NoLimit THEN -1 ELSE limit
    /\ winFrom = 1 /\ winTo = LastStamp /\ shownLines = <<>>
-----------------------------------------------------------------------------
QueryStep(from, to) == qpc = from /\ qpc' = to

\* In the order of a map of Go.
NextUsage ==
    /\ \/ \E u \in usagesLeft : usage' = {u} /\ usagesLeft' = usagesLeft \ {u} /\ QueryStep("usage", "own")
       \/ /\ usagesLeft = {} /\ QueryStep("usage", IF cell["logs"] = {} THEN "failed" ELSE "token")
          /\ UNCHANGED <<usagesLeft, usage>>
    /\ UNCHANGED <<storeVars, asked, cell, forward, limit, pageVars>>

\* The answer of a source is remembered, a failure too.
Ask(s) == asked' = IF s \in ToSet(asked) THEN asked ELSE Append(asked, s)

\* The config map of the usage, then the ClusterDeployment, then the other config map.
TrySource(here, s, next) ==
    /\ Ask(s)
    /\ IF s \in hasCell
       THEN cell' = [u \in Usage |-> IF u \in usage THEN {s} ELSE cell[u]] /\ QueryStep(here, "usage")
       ELSE QueryStep(here, next) /\ UNCHANGED cell
    /\ UNCHANGED <<storeVars, usagesLeft, usage, forward, limit, pageVars>>

OwnConfigMap == \E u \in usage : TrySource("own", u, "deployment")
HiveDeployment == TrySource("deployment", "deployment", "other")
OtherConfigMap == \E u \in Usage \ usage : TrySource("other", u, "usage")

\* From the environment, the configuration or Vault; half a pair is refused.
GetToken ==
    /\ QueryStep("token", "page") \/ QueryStep("token", "failed")
    /\ UNCHANGED <<storeVars, cellVars, forward, limit, pageVars>>
-----------------------------------------------------------------------------
Window == {l \in stored : stamp[l] \in winFrom..winTo}
ThisPage == IF 0 < linesLeft /\ linesLeft < PageSize THEN linesLeft ELSE PageSize
Sooner(l, k) == IF forward THEN stamp[l] < stamp[k] ELSE stamp[l] > stamp[k]
Response == {p \in SUBSET Window :
    /\ Cardinality(p) <= ThisPage /\ (Cardinality(p) = ThisPage \/ p = Window)
    /\ \A l \in p, k \in Window \ p : ~Sooner(k, l)}

\* The timestamp of the last line of a page.
EdgeStamp(p) == CHOOSE t \in {stamp[l] : l \in p} : \A l \in p : IF forward THEN stamp[l] <= t ELSE stamp[l] >= t
OneStamp(p) == {stamp[l] : l \in p} = {EdgeStamp(p)}

\* Mutants: the next page begins past the edge always, or never.
PastEdgeAlways(p) ==
    IF forward THEN winFrom' = EdgeStamp(p) + 1 /\ UNCHANGED winTo ELSE winTo' = EdgeStamp(p) - 1 /\ UNCHANGED winFrom
PastEdgeNever(p) ==
    IF forward THEN winFrom' = EdgeStamp(p) /\ UNCHANGED winTo ELSE winTo' = EdgeStamp(p) /\ UNCHANGED winFrom

\* The next page begins with the last timestamp of this one, whose lines are left to it,
\* or past it if there is no other.
MoveWindow(p) ==
    LET past == IF OneStamp(p) THEN 1 ELSE 0 IN
    IF forward THEN winFrom' = EdgeStamp(p) + past /\ UNCHANGED winTo ELSE winTo' = EdgeStamp(p) - past /\ UNCHANGED winFrom

ReadPage ==
    /\ qpc = "page" /\ linesLeft # 0 /\ Window # {}
    /\ \E p \in Response :
        LET now == IF OneStamp(p) THEN p ELSE {l \in p : stamp[l] # EdgeStamp(p)} IN
        /\ MoveWindow(p)
        /\ \E page \in SetToSeqs(now) :
              /\ \A i, j \in DOMAIN page : i < j => IF forward THEN page[i] < page[j] ELSE page[i] > page[j]
              /\ shownLines' = shownLines \o page
        /\ linesLeft' = linesLeft - Cardinality(now)
    /\ UNCHANGED <<storeVars, qpc, cellVars, forward, limit>>

LastPage ==
    /\ linesLeft = 0 \/ Window = {}
    /\ QueryStep("page", "done")
    /\ UNCHANGED <<storeVars, cellVars, forward, limit, pageVars>>

ReadFails ==
    /\ QueryStep("page", "failed") /\ UNCHANGED <<storeVars, cellVars, forward, limit, pageVars>>

\* Lines may reach the store late.
LineArrives ==
    /\ \E l \in Line \ stored : stored' = stored \cup {l}
    /\ UNCHANGED <<stamp, storedAtStart, hasCell, qpc, cellVars, forward, limit, pageVars>>

QueryRun == NextUsage \/ OwnConfigMap \/ HiveDeployment \/ OtherConfigMap \/ GetToken \/ ReadPage \/ LastPage \/ ReadFails

QueryNext == QueryRun \/ LineArrives

QuerySpec == QueryInit /\ [][QueryNext]_queryVars
-----------------------------------------------------------------------------
Shown == ToSet(shownLines)
Crowded(l) == Cardinality({k \in stored : stamp[k] = stamp[l]}) > PageSize

\* No line is printed twice or out of order.  What was in the store at first is printed
\* up to the last line printed, and to the end if no limit was reached, except of a
\* timestamp with more lines than fit a page.
LogsAreComplete ==
    /\ Len(shownLines) = Cardinality(Shown)
    /\ \A i, j \in 1..Len(shownLines) : i < j => ~Sooner(shownLines[j], shownLines[i])
    /\ qpc = "done" => \A l \in storedAtStart \ Shown :
        \/ Crowded(l)
        \/ limit # NoLimit /\ Len(shownLines) >= limit /\ \A k \in Shown : ~Sooner(l, k)

\* A usage has a cell if any source tells one, from its own config map if that does,
\* and a source is asked once even for two usages.
BestCellFound ==
    /\ Len(asked) = Cardinality(ToSet(asked))
    /\ qpc \notin {"usage", "own", "deployment", "other"} =>
        \A u \in Usage : cell[u] # {} =>
            cell[u] = (IF u \in hasCell THEN {u} ELSE IF "deployment" \in hasCell THEN {"deployment"} ELSE Usage \ {u})
    /\ qpc = "failed" /\ shownLines = <<>> /\ hasCell # {} => cell["logs"] # {}

\* Every page that is read narrows the window, however many lines share a timestamp,
\* so that a query ends.
PagesAdvance ==
    [][qpc = "page" /\ qpc' = "page" /\ stored' = stored => winTo' - winFrom' < winTo - winFrom]_queryVars
=============================================================================
