----------------------------- MODULE QueriesProofs -----------------------------
(***************************************************************************)
(* Theorems about the commands that read and change nothing, for any       *)
(* number of sockets, records, subnets, targets and calls.                 *)
(***************************************************************************)
EXTENDS Queries, FiniteSetTheorems, FunctionTheorems, WellFoundedInduction, TLAPS

-----------------------------------------------------------------------------
(***************************************************************************)
(* Sequences and sets.                                                     *)
(***************************************************************************)
\* A sequence of SetToSeqs has every element of its set, as often as it has elements.
LEMMA SeqsOfSet ==
    ASSUME NEW S, IsFiniteSet(S), NEW order \in SetToSeqs(S)
    PROVE  /\ order \in Seq(S) /\ Len(order) = Cardinality(S)
           /\ \A s \in S : \E i \in DOMAIN order : order[i] = s
           /\ ToSet(order) = S
<1> DEFINE n == Cardinality(S)
<1>1. n \in Nat
  BY FS_CardinalityType
<1>2. order \in [1..n -> S] /\ \A i, j \in 1..n : i # j => order[i] # order[j]
  BY DEF SetToSeqs
<1>3. n = Cardinality(S)
  OBVIOUS
<1> HIDE DEF n
<1>4. order \in Injection(1..n, S)
  BY <1>2, Fun_IsInj
<1>5. order \in Surjection(1..n, S)
  <2>1. Cardinality(1..n) = Cardinality(S)
    BY <1>1, <1>3, FS_Interval
  <2>2. Cardinality(1..n) = Cardinality(S) <=> order \in Surjection(1..n, S)
    BY <1>4, FS_Injection, Zenon
  <2> QED
    BY <2>1, <2>2
<1>6. \A s \in S : \E i \in 1..n : order[i] = s
  BY <1>2, <1>5 DEF Surjection
<1>7. order \in Seq(S) /\ Len(order) = n /\ DOMAIN order = 1..n
  BY <1>1, <1>2
<1>8. ToSet(order) = S
  BY <1>2, <1>6, <1>7 DEF ToSet
<1> QED
  BY <1>3, <1>6, <1>7, <1>8

LEMMA ToSetOfConcat ==
    ASSUME NEW S, NEW s \in Seq(S), NEW t \in Seq(S)
    PROVE  /\ s \o t \in Seq(S) /\ Len(s \o t) = Len(s) + Len(t)
           /\ ToSet(s \o t) = ToSet(s) \cup ToSet(t)
           /\ \A i \in 1..Len(s) : (s \o t)[i] = s[i]
           /\ \A i \in (Len(s) + 1)..(Len(s) + Len(t)) : (s \o t)[i] = t[i - Len(s)]
<1>1. /\ s \o t \in Seq(S) /\ Len(s \o t) = Len(s) + Len(t) /\ Len(s) \in Nat /\ Len(t) \in Nat
      /\ DOMAIN s = 1..Len(s) /\ DOMAIN t = 1..Len(t) /\ DOMAIN (s \o t) = 1..(Len(s) + Len(t))
  OBVIOUS
<1>2. \A i \in 1..Len(s) : (s \o t)[i] = s[i]
  OBVIOUS
<1>3. \A i \in (Len(s) + 1)..(Len(s) + Len(t)) : (s \o t)[i] = t[i - Len(s)]
  OBVIOUS
<1>4. ToSet(s \o t) \subseteq ToSet(s) \cup ToSet(t)
  BY <1>1, <1>2, <1>3 DEF ToSet
<1>5. ToSet(s) \subseteq ToSet(s \o t)
  BY <1>1, <1>2 DEF ToSet
<1>6. ASSUME NEW x \in ToSet(t) PROVE x \in ToSet(s \o t)
  <2>1. PICK j \in 1..Len(t) : t[j] = x
    BY <1>1 DEF ToSet
  <2>2. j + Len(s) \in (Len(s) + 1)..(Len(s) + Len(t)) /\ (j + Len(s)) - Len(s) = j
    BY <1>1
  <2>3. (s \o t)[j + Len(s)] = x
    BY <1>3, <2>1, <2>2
  <2>4. j + Len(s) \in DOMAIN (s \o t)
    BY <1>1, <2>2
  <2> QED
    BY <2>3, <2>4 DEF ToSet
<1> QED
  BY <1>1, <1>2, <1>3, <1>4, <1>5, <1>6

\* A nonempty set of natural numbers has a least, and one of bounded numbers a greatest.
LEMMA LeastOf ==
    ASSUME NEW T \in SUBSET Nat, T # {}
    PROVE  \E m \in T : \A t \in T : m <= t
<1> DEFINE less == {p \in Nat \X Nat : p[1] < p[2]}
<1>1. IsWellFoundedOn(less, Nat)
  BY NatLessThanWellFounded DEF OpToRel
<1> HIDE DEF less
<1>2. PICK m \in T : \A t \in T : <<t, m>> \notin less
  BY <1>1, WFMin
<1>3. \A t \in T : ~(t < m)
  BY <1>2 DEF less
<1> QED
  BY <1>3

LEMMA GreatestOf ==
    ASSUME NEW b \in Nat, NEW T \in SUBSET 0..b, T # {}
    PROVE  \E m \in T : \A t \in T : t <= m
<1> DEFINE U == {n \in Nat : \E t \in T : n = b - t}
<1>1. U \in SUBSET Nat /\ U # {}
  <2>1. PICK t \in T : TRUE
    OBVIOUS
  <2>2. b - t \in Nat
    BY <2>1
  <2>3. b - t \in U
    BY <2>1, <2>2
  <2> QED
    BY <2>3
<1>2. PICK m \in U : \A u \in U : m <= u
  BY <1>1, LeastOf
<1>3. b - m \in T /\ \A t \in T : b - t \in U
  BY <1>2
<1> QED
  BY <1>2, <1>3
-----------------------------------------------------------------------------
(***************************************************************************)
(* Streams: who holds which socket.  Once the loop is told to end, the     *)
(* shared context holds none, for only the loop puts one there.            *)
(***************************************************************************)
StreamPcs == {"loop", "dial", "store", "pick", "read", "error", "closeAndLoop", "closeAndFail", "ended"}
Holders == {"loop", "interrupt"}

StreamType ==
    /\ socket \in [1..MaxSockets -> {"unmade", "open", "broken", "closed"}]
    /\ isLooping \in BOOLEAN /\ abnormal \in BOOLEAN /\ webSocket \in 0..MaxSockets /\ newSocket \in 0..MaxSockets
    /\ toClose \in [Holders -> 0..MaxSockets]
    /\ spc \in StreamPcs /\ ipc \in {"waiting", "signalled", "closing", "ended"}

HeldBy ==
    /\ spc # "store" => newSocket = NoSocket
    /\ spc = "store" => webSocket = NoSocket
    /\ spc \notin {"closeAndLoop", "closeAndFail"} => toClose["loop"] = NoSocket
    /\ ipc # "closing" => toClose["interrupt"] = NoSocket
    /\ spc = "closeAndFail" => ~isLooping
    /\ ~isLooping \/ spc = "ended" => webSocket = NoSocket

StreamInv == StreamType /\ HeldBy /\ NoSocketLeft

LEMMA StreamBegins == StreamInit => StreamInv
<1> SUFFICES ASSUME StreamInit PROVE StreamInv
  OBVIOUS
<1>1. StreamType
  <2>1. isLooping \in BOOLEAN /\ abnormal \in BOOLEAN
    BY DEF StreamInit
  <2> QED
    BY <2>1, StreamAssumption DEF StreamInit, StreamType, StreamPcs, Holders, NoSocket
<1>2. HeldBy /\ NoSocketLeft
  BY DEF StreamInit, HeldBy, NoSocketLeft, NoSocket
<1> QED
  BY <1>1, <1>2 DEF StreamInv

\* A websocket that is closed is not open; no other changes.
LEMMA ClosedSocket ==
    ASSUME StreamType, NEW w \in 0..MaxSockets, CloseSocket(w)
    PROVE  /\ socket' \in [1..MaxSockets -> {"unmade", "open", "broken", "closed"}]
           /\ \A v \in 1..MaxSockets : socket'[v] = IF v = w THEN "closed" ELSE socket[v]
BY DEF StreamType, CloseSocket, NoSocket

LEMMA StreamStepType ==
    ASSUME StreamInv, StreamNext
    PROVE  StreamType'
<1> USE StreamAssumption DEF StreamInv, StreamType, StreamStep, StreamPcs, NoSocket
<1>1. CASE TestLoop \/ Pick \/ ReadLines \/ ReadError
  BY <1>1 DEF TestLoop, Pick, ReadLines, ReadError
<1>2. CASE Dial
  <2>1. socket' \in [1..MaxSockets -> {"unmade", "open", "broken", "closed"}] /\ newSocket' \in 0..MaxSockets
    BY <1>2 DEF Dial
  <2>2. spc' \in StreamPcs /\ UNCHANGED <<isLooping, abnormal, webSocket, toClose, ipc>>
    BY <1>2 DEF Dial
  <2> QED
    BY <2>1, <2>2
<1>3. CASE Store
  <2>1. CASE isLooping
    BY <1>3, <2>1 DEF Store
  <2>2. CASE ~isLooping
    <3>1. CloseSocket(newSocket)
      BY <1>3, <2>2 DEF Store
    <3>2. socket' \in [1..MaxSockets -> {"unmade", "open", "broken", "closed"}]
      BY <3>1, ClosedSocket
    <3> QED
      BY <1>3, <2>2, <3>2 DEF Store
  <2> QED
    BY <2>1, <2>2
<1>4. CASE HandleError
  <2>1. isLooping' \in BOOLEAN
    BY <1>4, Zenon DEF HandleError, TakeSocket
  <2>2. webSocket' \in 0..MaxSockets /\ toClose' \in [Holders -> 0..MaxSockets] /\ spc' \in StreamPcs
    BY <1>4 DEF HandleError, TakeSocket, Holders
  <2> QED
    BY <1>4, <2>1, <2>2 DEF HandleError
<1>5. CASE CloseBroken
  <2>1. toClose["loop"] \in 0..MaxSockets /\ CloseSocket(toClose["loop"])
    BY <1>5 DEF CloseBroken, Holders
  <2>2. socket' \in [1..MaxSockets -> {"unmade", "open", "broken", "closed"}]
    BY <2>1, ClosedSocket
  <2> QED
    BY <1>5, <2>2 DEF CloseBroken, Holders
<1>6. CASE Signal
  BY <1>6 DEF Signal
<1>7. CASE EndLoop
  BY <1>7 DEF EndLoop, TakeSocket, Holders
<1>8. CASE CloseOnSignal
  <2>1. toClose["interrupt"] \in 0..MaxSockets /\ CloseSocket(toClose["interrupt"])
    BY <1>8 DEF CloseOnSignal, Holders
  <2>2. socket' \in [1..MaxSockets -> {"unmade", "open", "broken", "closed"}]
    BY <2>1, ClosedSocket
  <2> QED
    BY <1>8, <2>2 DEF CloseOnSignal, Holders
<1>9. CASE SocketBreaks
  BY <1>9 DEF SocketBreaks
<1> QED
  BY <1>1, <1>2, <1>3, <1>4, <1>5, <1>6, <1>7, <1>8, <1>9 DEF StreamNext, StreamLoop, OnInterrupt

LEMMA StreamStepHeld ==
    ASSUME StreamInv, StreamNext
    PROVE  HeldBy'
<1> USE DEF StreamInv, StreamType, HeldBy, StreamStep, NoSocket
<1>1. CASE TestLoop \/ Pick \/ ReadLines \/ ReadError
  BY <1>1 DEF TestLoop, Pick, ReadLines, ReadError
<1>2. CASE Dial
  BY <1>2 DEF Dial
<1>3. CASE Store
  BY <1>3 DEF Store
<1>4. CASE HandleError
  BY <1>4 DEF HandleError, TakeSocket, Holders
<1>5. CASE CloseBroken
  BY <1>5 DEF CloseBroken, Holders
<1>6. CASE Signal \/ SocketBreaks
  BY <1>6 DEF Signal, SocketBreaks
<1>7. CASE EndLoop
  BY <1>7 DEF EndLoop, TakeSocket, Holders
<1>8. CASE CloseOnSignal
  BY <1>8 DEF CloseOnSignal, Holders
<1> QED
  BY <1>1, <1>2, <1>3, <1>4, <1>5, <1>6, <1>7, <1>8 DEF StreamNext, StreamLoop, OnInterrupt

\* Every open websocket stays in somebody's hands: whoever lets go of one has closed
\* it or handed it on.
Held == {webSocket, newSocket, toClose["loop"], toClose["interrupt"]}
OpenIsHeld == \A w \in 1..MaxSockets : socket[w] = "open" => w \in Held

LEMMA StreamStepOpen ==
    ASSUME StreamInv, StreamNext
    PROVE  OpenIsHeld'
<1> USE DEF StreamInv, StreamType, HeldBy, OpenIsHeld, Held, StreamStep, NoSocket
<1>0. OpenIsHeld
  BY DEF NoSocketLeft
<1> SUFFICES ASSUME NEW w \in 1..MaxSockets, socket'[w] = "open"
             PROVE  w \in Held'
  OBVIOUS
<1>1. CASE TestLoop \/ Pick \/ ReadLines \/ ReadError
  BY <1>0, <1>1 DEF TestLoop, Pick, ReadLines, ReadError
<1>2. CASE Dial
  BY <1>0, <1>2 DEF Dial
<1>3. CASE Store
  <2>1. CASE isLooping
    BY <1>0, <1>3, <2>1 DEF Store
  <2>2. CASE ~isLooping
    <3>1. CloseSocket(newSocket)
      BY <1>3, <2>2 DEF Store
    <3>2. w # newSocket /\ socket[w] = "open"
      BY <3>1, ClosedSocket
    <3> QED
      BY <1>0, <1>3, <2>2, <3>2 DEF Store
  <2> QED
    BY <2>1, <2>2
<1>4. CASE HandleError
  BY <1>0, <1>4 DEF HandleError, TakeSocket, Holders
<1>5. CASE CloseBroken
  <2>1. toClose["loop"] \in 0..MaxSockets /\ CloseSocket(toClose["loop"])
    BY <1>5 DEF CloseBroken, Holders
  <2>2. w # toClose["loop"] /\ socket[w] = "open"
    BY <2>1, ClosedSocket
  <2> QED
    BY <1>0, <1>5, <2>2 DEF CloseBroken, Holders
<1>6. CASE Signal \/ SocketBreaks
  BY <1>0, <1>6 DEF Signal, SocketBreaks
<1>7. CASE EndLoop
  BY <1>0, <1>7 DEF EndLoop, TakeSocket, Holders
<1>8. CASE CloseOnSignal
  <2>1. toClose["interrupt"] \in 0..MaxSockets /\ CloseSocket(toClose["interrupt"])
    BY <1>8 DEF CloseOnSignal, Holders
  <2>2. w # toClose["interrupt"] /\ socket[w] = "open"
    BY <2>1, ClosedSocket
  <2> QED
    BY <1>0, <1>8, <2>2 DEF CloseOnSignal, Holders
<1> QED
  BY <1>1, <1>2, <1>3, <1>4, <1>5, <1>6, <1>7, <1>8 DEF StreamNext, StreamLoop, OnInterrupt

LEMMA StreamStepInv ==
    ASSUME StreamInv, StreamNext
    PROVE  StreamInv'
<1>1. StreamType' /\ HeldBy' /\ OpenIsHeld'
  BY StreamStepType, StreamStepHeld, StreamStepOpen
<1>2. NoSocketLeft'
  BY <1>1 DEF NoSocketLeft, OpenIsHeld, Held, HeldBy, NoSocket
<1> QED
  BY <1>1, <1>2 DEF StreamInv
-----------------------------------------------------------------------------
(***************************************************************************)
(* Must-gather: the one in a sync.Once is its owner, and no result stands  *)
(* before its artifacts.                                                   *)
(***************************************************************************)
GatherPcs == {"none", "namespaces", "logs", "resolve", "login", "oc", "done"}

GatherType ==
    /\ mgPc \in {"start", "gather", "archive", "complete", "partial", "failed", "killed"}
    /\ targets \subseteq GatherTarget
    /\ gatherPc \in [GatherTarget -> GatherPcs]
    /\ result \in [GatherTarget -> {"none", "FAILED", "PARTIAL", "SUCCEEDED"}]
    /\ once \in [Infra -> {"new", "running", "ok", "error"}]
    /\ onceOwner \in [Infra -> GatherTarget \cup {"none"}]
    /\ elevations \in [Infra -> Nat] /\ tokenInits \in Nat
    /\ exported \in [LogNamespace -> {"none", "running", "ok", "error"}]

LoginsAreOwned ==
    /\ \A c \in Infra : IF once[c] \in {"new", "running"} THEN elevations[c] = 0 ELSE elevations[c] <= 1
    /\ \A t \in GatherTarget : gatherPc[t] = "login" => once[InfraOf(t)] = "running" /\ onceOwner[InfraOf(t)] = t

Artifacts ==
    /\ tokenInits <= 1 /\ (gatherPc["hcp"] \in {"none", "namespaces"} => tokenInits = 0)
    /\ mgPc = "start" => \A t \in GatherTarget : gatherPc[t] = "none"
    /\ \A n \in LogNamespace : exported[n] = "ok" => n \in collected
    /\ collected \cap GatherTarget \subseteq targets
    /\ \A t \in GatherTarget :
        /\ gatherPc[t] = "done" <=> result[t] # "none"
        /\ result[t] = "SUCCEEDED" => t \in collected /\ (t = "hcp" => LogsOK)
        /\ result[t] = "PARTIAL" => t = "hcp" /\ (t \in collected \/ LogsOK)

Verdict ==
    /\ mgPc \in {"archive", "complete", "partial"} => \E t \in targets : result[t] \in {"PARTIAL", "SUCCEEDED"}
    /\ mgPc \in {"complete", "partial"} => archived = collected
    /\ mgPc = "complete" => \A t \in targets : result[t] = "SUCCEEDED"

GatherInv == GatherType /\ LoginsAreOwned /\ Artifacts /\ Verdict

LEMMA GatherBegins == MustGatherInit => GatherInv
<1> SUFFICES ASSUME MustGatherInit PROVE GatherInv
  OBVIOUS
<1> USE DEF MustGatherInit
<1>1. GatherType
  BY DEF GatherType, GatherPcs
<1>2. LoginsAreOwned /\ Verdict
  BY DEF LoginsAreOwned, Verdict
<1>3. Artifacts
  BY DEF Artifacts, LogsOK, GatherTarget
<1> QED
  BY <1>1, <1>2, <1>3 DEF GatherInv

LEMMA InfraOfTarget == \A t : InfraOf(t) \in Infra
BY DEF InfraOf, Infra

\* One step of a target's goroutine, and the others stand still.
LEMMA GatherStepOne ==
    ASSUME GatherType, NEW t \in GatherTarget, NEW from, NEW to \in GatherPcs, GatherStep(t, from, to)
    PROVE  /\ t \in targets /\ mgPc = "gather" /\ gatherPc[t] = from
           /\ gatherPc' \in [GatherTarget -> GatherPcs]
           /\ gatherPc'[t] = to
           /\ \A u \in GatherTarget \ {t} : gatherPc'[u] = gatherPc[u]
BY DEF GatherType, GatherStep

LEMMA ResultOne ==
    ASSUME GatherType, NEW t \in GatherTarget, NEW r \in {"FAILED", "PARTIAL", "SUCCEEDED"}, ResultIs(t, r)
    PROVE  /\ result' \in [GatherTarget -> {"none", "FAILED", "PARTIAL", "SUCCEEDED"}]
           /\ result'[t] = r
           /\ \A u \in GatherTarget \ {t} : result'[u] = result[u]
BY DEF GatherType, ResultIs

LEMMA WithoutDumpValue ==
    ASSUME NEW t
    PROVE  /\ WithoutDump(t) \in {"FAILED", "PARTIAL"}
           /\ WithoutDump(t) = "PARTIAL" => t = "hcp" /\ LogsOK
BY DEF WithoutDump

LEMMA GatherStepType ==
    ASSUME GatherInv, MustGatherNext
    PROVE  GatherType'
<1>0. GatherType /\ "hcp" \in GatherTarget
  BY DEF GatherInv, GatherTarget
<1> USE <1>0, InfraOfTarget
<1>1. CASE ValidateTargets
  BY <1>1 DEF ValidateTargets, GatherType, GatherPcs, mgWorld
<1>2. CASE ResolveNamespaces
  <2>1. gatherPc' \in [GatherTarget -> GatherPcs]
    <3>1. "logs" \in GatherPcs /\ "done" \in GatherPcs
      BY DEF GatherPcs
    <3> QED
      BY <1>2, <3>1, GatherStepOne DEF ResolveNamespaces
  <2>2. result' \in [GatherTarget -> {"none", "FAILED", "PARTIAL", "SUCCEEDED"}]
    BY <1>2 DEF ResolveNamespaces, ResultIs, GatherType
  <2>3. tokenInits' \in Nat /\ exported' \in [LogNamespace -> {"none", "running", "ok", "error"}]
    BY <1>2 DEF ResolveNamespaces, GatherType
  <2> QED
    BY <1>2, <2>1, <2>2, <2>3 DEF ResolveNamespaces, GatherType, mgWorld
<1>3. ASSUME NEW n \in LogNamespace, ExportNamespace(n) PROVE GatherType'
  BY <1>3 DEF ExportNamespace, GatherType, mgWorld
<1>4. CASE AwaitExports
  BY <1>4 DEF AwaitExports, GatherStep, GatherType, GatherPcs, mgWorld
<1>5. ASSUME NEW t \in GatherTarget, EnterOnce(t) PROVE GatherType'
  BY <1>5 DEF EnterOnce, GatherStep, GatherType, GatherPcs, mgWorld
<1>6. ASSUME NEW t \in GatherTarget, LogIn(t) PROVE GatherType'
  BY <1>6 DEF LogIn, GatherStep, GatherType, GatherPcs, mgWorld
<1>7. ASSUME NEW t \in GatherTarget, AfterOnce(t) PROVE GatherType'
  <2>1. gatherPc' \in [GatherTarget -> GatherPcs]
    BY <1>7 DEF AfterOnce, GatherStep, GatherType, GatherPcs
  <2>2. result' \in [GatherTarget -> {"none", "FAILED", "PARTIAL", "SUCCEEDED"}]
    BY <1>7, WithoutDumpValue DEF AfterOnce, ResultIs, GatherType
  <2> QED
    BY <1>7, <2>1, <2>2 DEF AfterOnce, GatherType, mgWorld
<1>8. ASSUME NEW t \in GatherTarget, RunMustGather(t) PROVE GatherType'
  <2>1. gatherPc' \in [GatherTarget -> GatherPcs]
    BY <1>8 DEF RunMustGather, GatherStep, GatherType, GatherPcs
  <2>2. result' \in [GatherTarget -> {"none", "FAILED", "PARTIAL", "SUCCEEDED"}]
    BY <1>8, WithoutDumpValue DEF RunMustGather, ResultIs, GatherType
  <2> QED
    BY <1>8, <2>1, <2>2 DEF RunMustGather, GatherType, mgWorld
<1>9. CASE InterruptGather
  <2>1. gatherPc' \in [GatherTarget -> GatherPcs]
    BY <1>9 DEF InterruptGather, GatherType, GatherPcs
  <2>2. result' \in [GatherTarget -> {"none", "FAILED", "PARTIAL", "SUCCEEDED"}]
    BY <1>9, WithoutDumpValue DEF InterruptGather, GatherType
  <2>3. mgPc' \in {"gather", "killed"}
    BY <1>9 DEF InterruptGather
  <2> QED
    BY <1>9, <2>1, <2>2, <2>3 DEF InterruptGather, GatherType, mgWorld
<1>10. CASE AllGathered \/ CreateTarball
  BY <1>10 DEF AllGathered, CreateTarball, GatherType, mgWorld
<1> QED
  BY <1>1, <1>2, <1>3, <1>4, <1>5, <1>6, <1>7, <1>8, <1>9, <1>10 DEF MustGatherNext, GatherWork

LEMMA GatherStepLogins ==
    ASSUME GatherInv, MustGatherNext
    PROVE  LoginsAreOwned'
<1>0. GatherType /\ LoginsAreOwned /\ "hcp" \in GatherTarget
  BY DEF GatherInv, GatherTarget
<1> USE <1>0, InfraOfTarget
<1>1. ASSUME NEW t \in GatherTarget, EnterOnce(t) PROVE LoginsAreOwned'
  BY <1>1 DEF EnterOnce, GatherStep, GatherType, LoginsAreOwned
<1>2. ASSUME NEW t \in GatherTarget, LogIn(t) PROVE LoginsAreOwned'
  <2> DEFINE c == InfraOf(t)
  <2>1. once[c] = "running" /\ onceOwner[c] = t /\ elevations[c] = 0 /\ c \in Infra
    BY <1>2 DEF LogIn, GatherStep, LoginsAreOwned
  <2>2. elevations' = [elevations EXCEPT ![c] = 1] /\ UNCHANGED onceOwner
    BY <1>2, <2>1 DEF LogIn, GatherType
  <2>3. PICK o \in {"ok", "error"} : once' = [once EXCEPT ![c] = o]
    BY <1>2 DEF LogIn
  <2>4. gatherPc' = [gatherPc EXCEPT ![t] = "resolve"]
    BY <1>2 DEF LogIn, GatherStep
  <2> HIDE DEF c
  <2>5. \A d \in Infra : IF once'[d] \in {"new", "running"} THEN elevations'[d] = 0 ELSE elevations'[d] <= 1
    BY <2>1, <2>2, <2>3 DEF GatherType, LoginsAreOwned
  <2>6. ASSUME NEW u \in GatherTarget, gatherPc'[u] = "login"
        PROVE  once'[InfraOf(u)] = "running" /\ onceOwner'[InfraOf(u)] = u
    <3>1. u # t /\ gatherPc[u] = "login"
      BY <2>4, <2>6 DEF GatherType
    <3>2. once[InfraOf(u)] = "running" /\ onceOwner[InfraOf(u)] = u /\ InfraOf(u) # c
      BY <2>1, <3>1 DEF LoginsAreOwned
    <3> QED
      BY <2>2, <2>3, <3>2 DEF GatherType
  <2> QED
    BY <2>5, <2>6 DEF LoginsAreOwned
<1>3. CASE /\ UNCHANGED <<once, onceOwner, elevations>>
           /\ \A t \in GatherTarget : gatherPc'[t] = "login" => gatherPc[t] = "login"
  BY <1>3 DEF LoginsAreOwned
<1>4. CASE ValidateTargets \/ ResolveNamespaces \/ AwaitExports \/ AllGathered \/ CreateTarball \/ InterruptGather
  <2>1. UNCHANGED <<once, onceOwner, elevations>>
    BY <1>4 DEF ValidateTargets, ResolveNamespaces, AwaitExports, AllGathered, CreateTarball, InterruptGather
  <2>2. \A t \in GatherTarget : gatherPc'[t] = "login" => gatherPc[t] = "login"
    BY <1>4 DEF ValidateTargets, ResolveNamespaces, AwaitExports, AllGathered, CreateTarball, InterruptGather,
                GatherStep, GatherType
  <2> QED
    BY <1>3, <2>1, <2>2
<1>5. ASSUME NEW n \in LogNamespace, ExportNamespace(n) PROVE LoginsAreOwned'
  BY <1>3, <1>5 DEF ExportNamespace
<1>6. ASSUME NEW t \in GatherTarget, AfterOnce(t) \/ RunMustGather(t) PROVE LoginsAreOwned'
  <2>1. UNCHANGED <<once, onceOwner, elevations>>
    BY <1>6 DEF AfterOnce, RunMustGather
  <2>2. \A u \in GatherTarget : gatherPc'[u] = "login" => gatherPc[u] = "login"
    BY <1>6 DEF AfterOnce, RunMustGather, GatherStep, GatherType
  <2> QED
    BY <1>3, <2>1, <2>2
<1> QED
  BY <1>1, <1>2, <1>4, <1>5, <1>6 DEF MustGatherNext, GatherWork

LEMMA GatherStepArtifacts ==
    ASSUME GatherInv, MustGatherNext
    PROVE  Artifacts'
<1>0. GatherType /\ LoginsAreOwned /\ Artifacts /\ "hcp" \in GatherTarget
  BY DEF GatherInv, GatherTarget
<1> USE <1>0
\* A target's slot alone changes.
<1>a. ASSUME NEW t \in GatherTarget, NEW r \in {"FAILED", "PARTIAL", "SUCCEEDED"}, ResultIs(t, r),
             NEW from \in GatherPcs, GatherStep(t, from, "done"),
             UNCHANGED <<exported, targets, mgPc, tokenInits>>, from \notin {"none", "namespaces"} \/ t # "hcp",
             collected \subseteq collected', collected' \subseteq collected \cup {t},
             r = "SUCCEEDED" => t \in collected' /\ (t = "hcp" => LogsOK),
             r = "PARTIAL" => t = "hcp" /\ (t \in collected' \/ LogsOK)
      PROVE  Artifacts'
  <2>1. /\ t \in targets /\ mgPc = "gather" /\ gatherPc[t] = from /\ gatherPc'[t] = "done"
        /\ \A u \in GatherTarget \ {t} : gatherPc'[u] = gatherPc[u]
    BY <1>a, GatherStepOne DEF GatherPcs
  <2>2. result'[t] = r /\ \A u \in GatherTarget \ {t} : result'[u] = result[u]
    BY <1>a, ResultOne
  <2>3. LogsOK' = LogsOK
    BY <1>a DEF LogsOK
  <2>4. ASSUME NEW u \in GatherTarget
        PROVE  /\ gatherPc'[u] = "done" <=> result'[u] # "none"
               /\ result'[u] = "SUCCEEDED" => u \in collected' /\ (u = "hcp" => LogsOK')
               /\ result'[u] = "PARTIAL" => u = "hcp" /\ (u \in collected' \/ LogsOK')
    BY <1>a, <2>1, <2>2, <2>3 DEF Artifacts
  <2>5. tokenInits' <= 1 /\ (gatherPc'["hcp"] \in {"none", "namespaces"} => tokenInits' = 0)
    BY <1>a, <2>1 DEF Artifacts
  <2>6. collected' \cap GatherTarget \subseteq targets' /\ \A n \in LogNamespace : exported'[n] = "ok" => n \in collected'
    BY <1>a, <2>1 DEF Artifacts
  <2>7. mgPc' # "start"
    BY <1>a, <2>1
  <2> QED
    BY <2>4, <2>5, <2>6, <2>7 DEF Artifacts
\* Nothing of what the invariant is about changes but a step short of the end.
<1>b. ASSUME UNCHANGED <<exported, result, collected, targets, tokenInits>>, mgPc' # "start",
             \A t \in GatherTarget : gatherPc'[t] = "done" <=> gatherPc[t] = "done",
             gatherPc'["hcp"] \in {"none", "namespaces"} => gatherPc["hcp"] \in {"none", "namespaces"}
      PROVE  Artifacts'
  <2>1. LogsOK' = LogsOK
    BY <1>b DEF LogsOK
  <2> QED
    BY <1>b, <2>1 DEF Artifacts
<1>1. CASE ValidateTargets
  <2>1. \A t \in GatherTarget : gatherPc[t] = "none"
    BY <1>1 DEF ValidateTargets, Artifacts
  <2>2. mgPc' # "start" /\ \A t \in GatherTarget : gatherPc'[t] \in {"none", "namespaces", "resolve"}
    BY <1>1, <2>1 DEF ValidateTargets
  <2>3. UNCHANGED <<exported, result, collected, targets, tokenInits>>
    BY <1>1 DEF ValidateTargets, mgWorld
  <2> QED
    BY <1>b, <2>1, <2>2, <2>3
<1>2. CASE ResolveNamespaces
  <2>1. CASE GatherStep("hcp", "namespaces", "logs")
    <3>1. UNCHANGED <<result, collected, targets, mgPc>>
      BY <1>2, <2>1 DEF ResolveNamespaces, mgWorld, GatherStep, GatherType
    <3>2. /\ mgPc = "gather" /\ gatherPc["hcp"] = "namespaces" /\ gatherPc'["hcp"] = "logs"
          /\ \A u \in GatherTarget \ {"hcp"} : gatherPc'[u] = gatherPc[u]
      BY <2>1, GatherStepOne DEF GatherPcs
    <3>3. tokenInits' <= 1
      BY <1>2, <2>1, <3>2 DEF ResolveNamespaces, Artifacts, GatherStep, GatherType
    <3>4. \A n \in LogNamespace : exported'[n] # "ok"
      BY <1>2, <2>1, <3>2 DEF ResolveNamespaces, GatherStep, GatherType
    <3>5. result["hcp"] = "none"
      BY <3>2 DEF Artifacts
    <3>6. \A t \in GatherTarget : result'[t] = "PARTIAL" => t = "hcp"
      BY <3>1 DEF Artifacts
    <3> QED
      BY <3>1, <3>2, <3>3, <3>4, <3>5, <3>6 DEF Artifacts
  <2>2. CASE GatherStep("hcp", "namespaces", "done")
    <3>1. ResultIs("hcp", "FAILED") /\ UNCHANGED <<tokenInits, exported, collected, targets, mgPc>>
      BY <1>2, <2>2 DEF ResolveNamespaces, mgWorld, GatherStep, GatherType
    <3>2. /\ mgPc = "gather" /\ gatherPc["hcp"] = "namespaces" /\ gatherPc'["hcp"] = "done"
          /\ \A u \in GatherTarget \ {"hcp"} : gatherPc'[u] = gatherPc[u]
      BY <2>2, GatherStepOne DEF GatherPcs
    <3>3. result'["hcp"] = "FAILED" /\ \A u \in GatherTarget \ {"hcp"} : result'[u] = result[u]
      BY <3>1, ResultOne
    <3>4. LogsOK' = LogsOK
      BY <3>1 DEF LogsOK
    <3> QED
      BY <3>1, <3>2, <3>3, <3>4 DEF Artifacts
  <2> QED
    BY <1>2, <2>1, <2>2 DEF ResolveNamespaces
<1>3. ASSUME NEW n \in LogNamespace, ExportNamespace(n) PROVE Artifacts'
  <2>1. UNCHANGED <<mgPc, targets, gatherPc, result, tokenInits>> /\ exported[n] = "running"
    BY <1>3 DEF ExportNamespace, mgWorld
  <2>2. \A m \in LogNamespace : exported'[m] = "ok" => m \in collected'
    BY <1>3 DEF ExportNamespace, Artifacts, GatherType
  <2>3. collected \subseteq collected' /\ collected' \cap GatherTarget \subseteq targets
    BY <1>3, GatherAssumption DEF ExportNamespace, Artifacts
  <2>4. ~LogsOK
    BY <2>1 DEF LogsOK
  <2> QED
    BY <2>1, <2>2, <2>3, <2>4 DEF Artifacts
<1>4. CASE AwaitExports
  <2>1. /\ mgPc = "gather" /\ gatherPc["hcp"] = "logs" /\ gatherPc'["hcp"] = "resolve"
        /\ \A u \in GatherTarget \ {"hcp"} : gatherPc'[u] = gatherPc[u]
    BY <1>4, GatherStepOne DEF AwaitExports, GatherPcs
  <2>2. UNCHANGED <<mgPc, exported, result, collected, targets, tokenInits>>
    BY <1>4 DEF AwaitExports, mgWorld
  <2> QED
    BY <1>b, <2>1, <2>2
<1>5. ASSUME NEW t \in GatherTarget, EnterOnce(t) \/ LogIn(t) PROVE Artifacts'
  <2>1. PICK from \in {"resolve", "login"}, to \in {"resolve", "login"} : GatherStep(t, from, to)
    BY <1>5 DEF EnterOnce, LogIn
  <2>2. /\ mgPc = "gather" /\ gatherPc[t] = from /\ gatherPc'[t] = to
        /\ \A u \in GatherTarget \ {t} : gatherPc'[u] = gatherPc[u]
    BY <2>1, GatherStepOne DEF GatherPcs
  <2>3. UNCHANGED <<mgPc, exported, result, collected, targets, tokenInits>>
    BY <1>5 DEF EnterOnce, LogIn, mgWorld
  <2> QED
    BY <1>b, <2>2, <2>3
<1>6. ASSUME NEW t \in GatherTarget, AfterOnce(t) PROVE Artifacts'
  <2>1. CASE GatherStep(t, "resolve", "oc")
    <3>1. /\ mgPc = "gather" /\ gatherPc[t] = "resolve" /\ gatherPc'[t] = "oc"
          /\ \A u \in GatherTarget \ {t} : gatherPc'[u] = gatherPc[u]
      BY <2>1, GatherStepOne DEF GatherPcs
    <3>2. UNCHANGED <<mgPc, exported, result, collected, targets, tokenInits>>
      BY <1>6, <3>1 DEF AfterOnce, mgWorld, GatherStep, GatherType
    <3> QED
      BY <1>b, <3>1, <3>2
  <2>2. CASE GatherStep(t, "resolve", "done")
    <3>1. /\ mgPc = "gather" /\ gatherPc[t] = "resolve" /\ gatherPc'[t] = "done"
      BY <2>2, GatherStepOne DEF GatherPcs
    <3>2. ResultIs(t, WithoutDump(t)) /\ UNCHANGED <<mgPc, exported, collected, targets, tokenInits>>
      BY <1>6, <3>1 DEF AfterOnce, mgWorld, GatherStep, GatherType
    <3> QED
      BY <1>a, <2>2, <3>2, WithoutDumpValue DEF GatherPcs
  <2> QED
    BY <1>6, <2>1, <2>2 DEF AfterOnce
<1>7. ASSUME NEW t \in GatherTarget, RunMustGather(t) PROVE Artifacts'
  <2>1. GatherStep(t, "oc", "done") /\ UNCHANGED <<mgPc, exported, targets, tokenInits>>
    BY <1>7 DEF RunMustGather, mgWorld
  <2>2. CASE collected' = collected \cup {t} /\ ResultIs(t, IF t = "hcp" /\ ~LogsOK THEN "PARTIAL" ELSE "SUCCEEDED")
    <3> DEFINE r == IF t = "hcp" /\ ~LogsOK THEN "PARTIAL" ELSE "SUCCEEDED"
    <3>1. /\ r \in {"FAILED", "PARTIAL", "SUCCEEDED"} /\ ResultIs(t, r)
          /\ r = "SUCCEEDED" => t \in collected' /\ (t = "hcp" => LogsOK)
          /\ r = "PARTIAL" => t = "hcp" /\ (t \in collected' \/ LogsOK)
      BY <2>2
    <3> HIDE DEF r
    <3> QED
      BY <1>a, <2>1, <2>2, <3>1 DEF GatherPcs
  <2>3. CASE ResultIs(t, WithoutDump(t)) /\ UNCHANGED collected
    BY <1>a, <2>1, <2>3, WithoutDumpValue DEF GatherPcs
  <2> QED
    BY <1>7, <2>2, <2>3 DEF RunMustGather
<1>8. CASE InterruptGather
  <2>1. UNCHANGED <<exported, collected, targets, tokenInits>> /\ mgPc = "gather" /\ mgPc' # "start"
    BY <1>8 DEF InterruptGather, mgWorld
  <2>2. CASE UNCHANGED <<gatherPc, result>>
    BY <1>b, <2>1, <2>2
  <2>3. CASE /\ gatherPc' = [t \in GatherTarget |-> IF t \in targets /\ gatherPc[t] = "oc" THEN "done" ELSE gatherPc[t]]
             /\ result' = [t \in GatherTarget |-> IF t \in targets /\ gatherPc[t] = "oc" THEN WithoutDump(t) ELSE result[t]]
    <3>1. LogsOK' = LogsOK
      BY <2>1 DEF LogsOK
    <3>2. ASSUME NEW u \in GatherTarget
          PROVE  /\ gatherPc'[u] = "done" <=> result'[u] # "none"
                 /\ result'[u] = "SUCCEEDED" => u \in collected' /\ (u = "hcp" => LogsOK')
                 /\ result'[u] = "PARTIAL" => u = "hcp" /\ (u \in collected' \/ LogsOK')
      <4>1. CASE u \in targets /\ gatherPc[u] = "oc"
        BY <2>3, <3>1, <4>1, WithoutDumpValue
      <4>2. CASE ~(u \in targets /\ gatherPc[u] = "oc")
        BY <2>1, <2>3, <3>1, <4>2 DEF Artifacts
      <4> QED
        BY <4>1, <4>2
    <3>3. gatherPc'["hcp"] \in {"none", "namespaces"} => gatherPc["hcp"] \in {"none", "namespaces"}
      BY <2>3
    <3> QED
      BY <2>1, <3>2, <3>3 DEF Artifacts
  <2> QED
    BY <1>8, <2>2, <2>3 DEF InterruptGather
<1>9. CASE AllGathered \/ CreateTarball
  <2>1. UNCHANGED <<exported, result, collected, targets, tokenInits, gatherPc>> /\ mgPc' # "start"
    BY <1>9 DEF AllGathered, CreateTarball, mgWorld
  <2> QED
    BY <1>b, <2>1
<1> QED
  BY <1>1, <1>2, <1>3, <1>4, <1>5, <1>6, <1>7, <1>8, <1>9 DEF MustGatherNext, GatherWork

LEMMA GatherStepVerdict ==
    ASSUME GatherInv, MustGatherNext
    PROVE  Verdict'
<1>0. GatherType /\ Artifacts /\ Verdict /\ "hcp" \in GatherTarget
  BY DEF GatherInv, GatherTarget
<1> USE <1>0
<1>1. CASE mgPc' \in {"start", "gather", "killed", "failed"}
  BY <1>1 DEF Verdict
<1>2. CASE AllGathered
  <2>1. CASE \A t \in targets : result[t] = "FAILED"
    BY <1>1, <1>2, <2>1 DEF AllGathered
  <2>2. CASE \E t \in targets : result[t] # "FAILED"
    <3>1. PICK t \in targets : result[t] # "FAILED"
      BY <2>2
    <3>2. result[t] \in {"PARTIAL", "SUCCEEDED"}
      BY <1>2, <3>1 DEF AllGathered, Artifacts, GatherType
    <3> QED
      BY <1>2, <3>1, <3>2 DEF AllGathered, Verdict, mgWorld
  <2> QED
    BY <2>1, <2>2
<1>3. CASE CreateTarball
  <2>1. CASE mgPc' = "failed"
    BY <1>1, <2>1
  <2>2. CASE archived' = collected /\ mgPc' = IF \A t \in targets : result[t] = "SUCCEEDED" THEN "complete" ELSE "partial"
    <3>1. UNCHANGED <<targets, result, collected>> /\ mgPc = "archive"
      BY <1>3 DEF CreateTarball, mgWorld
    <3> QED
      BY <2>2, <3>1 DEF Verdict
  <2> QED
    BY <1>3, <2>1, <2>2 DEF CreateTarball
\* Every other step is of a run that gathers, or of one that has not begun.
<1>4. CASE ~(AllGathered \/ CreateTarball)
  <2>1. mgPc' \in {"gather", "killed", "failed"}
    <3>1. CASE ValidateTargets \/ InterruptGather
      BY <3>1 DEF ValidateTargets, InterruptGather
    <3>2. CASE ResolveNamespaces \/ AwaitExports
      BY <3>2 DEF ResolveNamespaces, AwaitExports, GatherStep
    <3>3. ASSUME NEW n \in LogNamespace, ExportNamespace(n) PROVE mgPc' = "gather"
      BY <3>3 DEF ExportNamespace
    <3>4. ASSUME NEW t \in GatherTarget, EnterOnce(t) \/ LogIn(t) \/ AfterOnce(t) \/ RunMustGather(t)
          PROVE  mgPc' = "gather"
      BY <3>4 DEF EnterOnce, LogIn, AfterOnce, RunMustGather, GatherStep
    <3> QED
      BY <1>4, <3>1, <3>2, <3>3, <3>4 DEF MustGatherNext, GatherWork
  <2> QED
    BY <1>1, <2>1
<1> QED
  BY <1>2, <1>3, <1>4

LEMMA GatherStepInv ==
    ASSUME GatherInv, MustGatherNext
    PROVE  GatherInv'
BY GatherStepType, GatherStepLogins, GatherStepArtifacts, GatherStepVerdict DEF GatherInv

LEMMA GatherInvTrue == GatherInv => GatherIsTrue
<1> SUFFICES ASSUME GatherInv PROVE GatherIsTrue
  OBVIOUS
<1> USE DEF GatherInv, GatherType
<1>1. \A c \in Infra : elevations[c] <= 1
  BY DEF LoginsAreOwned
<1>2. tokenInits <= 1
  BY DEF Artifacts
<1>3. mgPc = "complete" => targets \cup (IF "hcp" \in targets THEN LogNamespace ELSE {}) \subseteq archived
  <2> SUFFICES ASSUME mgPc = "complete"
               PROVE  targets \cup (IF "hcp" \in targets THEN LogNamespace ELSE {}) \subseteq collected
    BY DEF Verdict
  <2>1. \A t \in targets : t \in collected /\ (t = "hcp" => LogsOK)
    BY DEF Verdict, Artifacts
  <2>2. "hcp" \in targets => LogNamespace \subseteq collected
    BY <2>1 DEF LogsOK, Artifacts
  <2> QED
    BY <2>1, <2>2
<1>4. mgPc = "partial" => archived # {} /\ archived \cap GatherTarget \subseteq targets
  <2> SUFFICES ASSUME mgPc = "partial" PROVE collected # {} /\ collected \cap GatherTarget \subseteq targets
    BY DEF Verdict
  <2>1. PICK t \in targets : result[t] \in {"PARTIAL", "SUCCEEDED"}
    BY DEF Verdict
  <2>2. t \in collected \/ LogsOK
    BY <2>1 DEF Artifacts
  <2>3. LogsOK => \E n \in LogNamespace : n \in collected
    BY GatherAssumption DEF LogsOK, Artifacts
  <2> QED
    BY <2>2, <2>3 DEF Artifacts
<1> QED
  BY <1>1, <1>2, <1>3, <1>4 DEF GatherIsTrue

-----------------------------------------------------------------------------
(***************************************************************************)
(* DNS: what was sent is in the channel or in the report, until the end    *)
(* all of it.                                                              *)
(***************************************************************************)
Sent == {t \in DnsTest : lookup[t] \in {"sent", "done"}}

DnsInv ==
    /\ lookup \in [DnsTest -> {"none", "running", "sent", "done"}]
    /\ channel \cup dnsReport = {<<t, DnsStatus(t)>> : t \in Sent}
    /\ vpc = "start" => \A t \in DnsTest : lookup[t] = "none"
    /\ channelClosed => \A t \in DnsTest : lookup[t] = "done"
    /\ vpc = "reported" => channelClosed /\ channel = {}

LEMMA DnsBegins == DnsInit => DnsInv
BY DEF DnsInit, DnsInv, Sent

LEMMA DnsStepInv ==
    ASSUME DnsInv, DnsNext
    PROVE  DnsInv'
<1> USE DEF DnsInv
<1>1. CASE StartLookups
  <2>1. Sent' = Sent /\ Sent = {} /\ UNCHANGED <<oldCluster, channel, channelClosed, dnsReport, records>>
    BY <1>1 DEF StartLookups, Sent
  <2>2. channel = {} /\ dnsReport = {}
    BY <2>1
  <2>3. channelClosed => \A t \in DnsTest : lookup'[t] = "done"
    BY <1>1 DEF StartLookups, Sent
  <2>4. lookup' \in [DnsTest -> {"none", "running", "sent", "done"}] /\ vpc' \in {"collect", "failed"}
    BY <1>1 DEF StartLookups
  <2> QED
    BY <2>1, <2>2, <2>3, <2>4
<1>2. ASSUME NEW t \in DnsTest, SendResult(t) PROVE DnsInv'
  <2>1. /\ lookup[t] = "running" /\ lookup' = [lookup EXCEPT ![t] = "sent"] /\ ~channelClosed
        /\ channel' = channel \cup {<<t, DnsStatus(t)>>} /\ UNCHANGED <<vpc, oldCluster, channelClosed, dnsReport, records>>
    BY <1>2 DEF SendResult
  <2>2. Sent' = Sent \cup {t}
    BY <2>1 DEF Sent
  <2>3. \A u : DnsStatus(u)' = DnsStatus(u)
    BY <2>1 DEF DnsStatus
  <2>4. {<<u, DnsStatus(u)>> : u \in Sent}' = {<<u, DnsStatus(u)>> : u \in Sent} \cup {<<t, DnsStatus(t)>>}
    BY <2>2, <2>3
  <2>5. vpc # "start" /\ lookup' \in [DnsTest -> {"none", "running", "sent", "done"}]
    BY <2>1
  <2> QED
    BY <2>1, <2>2, <2>4, <2>5
<1>3. ASSUME NEW t \in DnsTest, LookupDone(t) PROVE DnsInv'
  <2>1. /\ lookup[t] = "sent" /\ lookup' = [lookup EXCEPT ![t] = "done"]
        /\ UNCHANGED <<vpc, oldCluster, channel, channelClosed, dnsReport, records>>
    BY <1>3 DEF LookupDone
  <2>2. Sent' = Sent
    BY <2>1 DEF Sent
  <2>3. \A u : DnsStatus(u)' = DnsStatus(u)
    BY <2>1 DEF DnsStatus
  <2> QED
    BY <2>1, <2>2, <2>3
<1>4. CASE CloseChannel
  <2>1. UNCHANGED <<vpc, oldCluster, lookup, channel, dnsReport, records>> /\ vpc = "collect"
        /\ \A t \in DnsTest : lookup[t] = "done"
    BY <1>4 DEF CloseChannel
  <2>2. Sent' = Sent /\ \A u : DnsStatus(u)' = DnsStatus(u)
    BY <2>1 DEF Sent, DnsStatus
  <2> QED
    BY <2>1, <2>2
<1>5. CASE TakeResult
  <2>1. UNCHANGED <<vpc, oldCluster, lookup, channelClosed, records>> /\ vpc = "collect"
        /\ (channel \cup dnsReport)' = channel \cup dnsReport
    BY <1>5 DEF TakeResult
  <2>2. Sent' = Sent /\ \A u : DnsStatus(u)' = DnsStatus(u)
    BY <2>1 DEF Sent, DnsStatus
  <2> QED
    BY <2>1, <2>2
<1>6. CASE Analyze
  <2>1. UNCHANGED <<oldCluster, lookup, channel, channelClosed, dnsReport, records>>
        /\ channelClosed /\ channel = {} /\ vpc' = "reported"
    BY <1>6 DEF Analyze
  <2>2. Sent' = Sent /\ \A u : DnsStatus(u)' = DnsStatus(u)
    BY <2>1 DEF Sent, DnsStatus
  <2> QED
    BY <2>1, <2>2
<1> QED
  BY <1>1, <1>2, <1>3, <1>4, <1>5, <1>6 DEF DnsNext

LEMMA DnsInvComplete == DnsInv => DnsReportComplete
<1> SUFFICES ASSUME DnsInv PROVE DnsReportComplete
  OBVIOUS
<1>1. channelClosed => \A t \in DnsTest : lookup[t] \in {"sent", "done"}
  BY DEF DnsInv
<1>2. ASSUME vpc = "reported" PROVE dnsReport = {<<t, DnsStatus(t)>> : t \in DnsTest}
  <2>1. Sent = DnsTest /\ channel = {}
    BY <1>2 DEF DnsInv, Sent
  <2> QED
    BY <2>1 DEF DnsInv
<1> QED
  BY <1>1, <1>2 DEF DnsReportComplete
-----------------------------------------------------------------------------
(***************************************************************************)
(* Egress: what each step of the run may take for granted of the flags and *)
(* of the subnets.                                                         *)
(***************************************************************************)
Probing == {"probe", "notify", "clean", "blocked"}

EgressInv ==
    /\ credsFlag \in {"none", "reason", "kubeconfig"}
    /\ podFlag \in BOOLEAN /\ podMode \in BOOLEAN
    /\ npc = "cluster" /\ podFlag /\ egressKind # "none" => credsFlag # "none"
    /\ npc = "pods" => podMode /\ (egressKind # "none" => credsFlag # "none")
    /\ npc \in {"cloud", "subnets", "routes", "group"} => ~podMode
    /\ npc \in {"subnets", "routes", "group"} => egressKind # "hosted"
    /\ npc \in {"input", "cluster", "pods", "cloud", "subnets"} => foundPrivate = {}
    /\ foundPrivate \cap publicSubnet = {}
    /\ npc \in {"group"} \cup Probing /\ ~podMode /\ platform # "gcp" => chosen \cap publicSubnet = {}
    /\ npc \notin Probing => probed = {}
    /\ probed \subseteq Target
    /\ npc # "blocked" => notice = "none"
    /\ npc = "clean" => probed = Target /\ probed # {} /\ egressBlocked \in {"no", "error"}
    /\ npc \in Probing =>
        /\ podMode /\ egressKind # "none" => restAs \in {"kubeconfig", "elevated"}
        /\ egressKind = "hosted" /\ platform # "gcp" => podMode

LEMMA EgressBegins == EgressInit => EgressInv
BY DEF EgressInit, EgressInv, Probing, Target

LEMMA EgressStepInv ==
    ASSUME EgressInv, EgressNext
    PROVE  EgressInv'
<1> USE DEF EgressInv, EgressStep, Probing, egressWorld, egressFlags, Target
<1>1. CASE EgressFails
  BY <1>1 DEF EgressFails
<1>2. CASE ValidateInput
  BY <1>2 DEF ValidateInput
<1>3. CASE ChooseMode
  BY <1>3 DEF ChooseMode
<1>4. CASE SetUpPods
  BY <1>4 DEF SetUpPods, RestConfig
<1>5. CASE SetUpCloud
  BY <1>5 DEF SetUpCloud
<1>6. CASE SetUpGcp
  BY <1>6 DEF SetUpGcp
<1>7. CASE ListSubnets
  BY <1>7 DEF ListSubnets
<1>8. CASE CheckRoutes
  BY <1>8 DEF CheckRoutes
<1>9. CASE FindGroup
  BY <1>9 DEF FindGroup
<1>10. CASE Probe
  BY <1>10 DEF Probe
<1>11. CASE Notify
  BY <1>11 DEF Notify
<1> QED
  BY <1>1, <1>2, <1>3, <1>4, <1>5, <1>6, <1>7, <1>8, <1>9, <1>10, <1>11 DEF EgressNext

LEMMA EgressInvHolds == EgressInv => EgressVerdictHolds
BY DEF EgressInv, EgressVerdictHolds, Probing, Target

-----------------------------------------------------------------------------
(***************************************************************************)
(* The context of a cluster: an error at hand is one that its goroutine    *)
(* has still to append, and the slice read is the slice while the mutex is *)
(* held.                                                                   *)
(***************************************************************************)
AfterError == {"done", "logsUrl", "incidents", "end"}
RetrieverPcs == {"idle", "query", "lock", "append"} \cup AfterError

ContextType ==
    /\ rpc \in [Retriever -> RetrieverPcs] /\ rnext \in [Retriever -> AfterError]
    /\ point \in [Retriever -> Point] /\ sliceRead \in [Retriever -> SUBSET Point]
    /\ dataErrors \subseteq Point /\ gaps \subseteq Point
    /\ pdServiceID \subseteq PagerService
    /\ historyOf \in [PagerService -> SUBSET PagerService]

Appending == {r \in Retriever : rpc[r] \in {"lock", "append"}}
ErrorsAtHand == {point[r] : r \in Appending}
\* Of these the gap is known from elsewhere.
Untold == {"description"} \cup (IF pagerReady THEN {} ELSE {"history"})

MutexKept ==
    /\ \A r \in Retriever : rpc[r] = "append" <=> mutexHolder = r
    /\ mutexHolder \in Retriever \cup {Nobody}
    /\ \A r \in Retriever : rpc[r] = "append" => sliceRead[r] = dataErrors

ContextSteps ==
    /\ cpc \in {"basics", "launch"} => \A r \in Retriever : rpc[r] = "idle"
    /\ cpc = "printed" => \A r \in Retriever : rpc[r] = "done"
    /\ cpc = "failed" => \A r \in Retriever : rpc[r] = "idle"
    /\ cpc \in {"basics", "launch", "wait", "printed", "failed"}
    /\ cpc \in {"wait", "printed"} => \A r \in Retriever : rpc[r] # "idle"
    /\ rnext["alerts"] = "done" => rpc["alerts"] \notin {"lock", "append"}
    /\ cpc \in {"wait", "printed"} => (alertsDone <=> rpc["alerts"] = "done")
    /\ alertsDone => cpc \in {"wait", "printed"}

HistoryIsOf ==
    "history" \in fields => alertsDone /\ {s \in PagerService : s \in historyOf[s]} = pdServiceID

ErrorsKept == gaps \ Untold \subseteq dataErrors \cup ErrorsAtHand

ContextInv == ContextType /\ MutexKept /\ ContextSteps /\ HistoryIsOf /\ ErrorsKept

LEMMA NamedRetrievers ==
    /\ {"alerts", "history", "rhobs", "description"} \subseteq Retriever
    /\ Nobody \notin Retriever
    /\ PlainPoint \subseteq Retriever /\ TrailPoint \subseteq Retriever
    /\ \A r \in PlainPoint \cup TrailPoint : r \notin {"alerts", "history", "rhobs", "description"} /\ r \in Point
    /\ {"service", "alerts", "history", "dashboard", "logsUrl", "description"} \subseteq Point
BY ContextAssumption DEF Retriever, Nobody, Point

LEMMA ContextBegins == ContextInit => ContextInv
<1> SUFFICES ASSUME ContextInit PROVE ContextInv
  OBVIOUS
<1> USE NamedRetrievers DEF ContextInit
<1>1. ContextType
  <2>1. gaps \subseteq Point /\ dataErrors \subseteq Point
    OBVIOUS
  <2> QED
    BY <2>1 DEF ContextType, RetrieverPcs, AfterError
<1>2. MutexKept /\ ContextSteps /\ HistoryIsOf
  BY DEF MutexKept, ContextSteps, HistoryIsOf, Nobody
<1>3. ErrorsKept
  BY DEF ErrorsKept, Untold
<1> QED
  BY <1>1, <1>2, <1>3 DEF ContextInv

\* What the goroutines share under the mutex stands still.
SharedStill == UNCHANGED <<pagerReady, mutexHolder, sliceRead, dataErrors>>
SharedKept == MutexKept /\ ErrorsKept
SharedType ==
    /\ rpc \in [Retriever -> RetrieverPcs] /\ rnext \in [Retriever -> AfterError]
    /\ point \in [Retriever -> Point] /\ sliceRead \in [Retriever -> SUBSET Point]
    /\ dataErrors \subseteq Point /\ gaps \subseteq Point

\* A step of a goroutine that has no error at hand, and has none afterwards.
LEMMA QuietStep ==
    ASSUME SharedType, SharedKept, NEW r \in Retriever, rpc[r] \notin {"lock", "append"},
           NEW next \in AfterError, Goes(r, next), UNCHANGED <<rnext, point>>, SharedStill,
           gaps' \subseteq Point, gaps' \ Untold \subseteq gaps
    PROVE  SharedType' /\ SharedKept'
<1>1. /\ rpc' = [rpc EXCEPT ![r] = next] /\ next \notin {"lock", "append"} /\ next \in RetrieverPcs
      /\ Untold' = Untold
  BY DEF Goes, AfterError, RetrieverPcs, SharedStill, Untold
<1>2. Appending' = Appending
  BY <1>1 DEF Appending, SharedType
<1>3. ErrorsAtHand' = ErrorsAtHand
  BY <1>2 DEF ErrorsAtHand
<1>4. ErrorsKept'
  BY <1>1, <1>3 DEF SharedKept, ErrorsKept, SharedStill
<1>5. MutexKept'
  BY <1>1 DEF SharedKept, MutexKept, SharedStill, SharedType
<1>6. SharedType'
  BY <1>1 DEF SharedType, SharedStill
<1> QED
  BY <1>4, <1>5, <1>6 DEF SharedKept

LEMMA FoundStep ==
    ASSUME SharedType, SharedKept, NEW r \in Retriever, rpc[r] \notin {"lock", "append"},
           NEW p, NEW next \in AfterError, Found(r, p, next), SharedStill
    PROVE  SharedType' /\ SharedKept'
BY QuietStep DEF Found, SharedType

\* A step of a goroutine whose query has failed.
LEMMA FailingStep ==
    ASSUME SharedType, SharedKept, NEW r \in Retriever, rpc[r] \notin {"lock", "append"},
           NEW p \in Point, NEW next \in AfterError, Failing(r, p, next), SharedStill
    PROVE  SharedType' /\ SharedKept'
<1>1. /\ rpc' = [rpc EXCEPT ![r] = "lock"] /\ point' = [point EXCEPT ![r] = p]
      /\ rnext' = [rnext EXCEPT ![r] = next] /\ gaps' = gaps \cup {p} /\ "lock" \in RetrieverPcs
      /\ Untold' = Untold
  BY DEF Failing, Goes, RetrieverPcs, SharedStill, Untold
<1>2. Appending' = Appending \cup {r} /\ r \notin Appending
  BY <1>1 DEF Appending, SharedType
<1>3. ErrorsAtHand' = ErrorsAtHand \cup {p}
  <2>1. Appending \subseteq Retriever
    BY DEF Appending
  <2>2. \A q \in Appending : point'[q] = point[q]
    BY <1>1, <1>2, <2>1 DEF SharedType
  <2>3. point'[r] = p
    BY <1>1 DEF SharedType
  <2> QED
    BY <1>2, <2>2, <2>3 DEF ErrorsAtHand
<1>4. ErrorsKept'
  BY <1>1, <1>3 DEF SharedKept, ErrorsKept, SharedStill
<1>5. MutexKept'
  BY <1>1 DEF SharedKept, MutexKept, SharedStill, SharedType
<1>6. SharedType'
  BY <1>1 DEF SharedType, SharedStill
<1> QED
  BY <1>4, <1>5, <1>6 DEF SharedKept

\* The mutex: what is read under it is what is written with the error.
LEMMA TellStep ==
    ASSUME SharedType, SharedKept, NEW r \in Retriever, TellError(r)
    PROVE  SharedType' /\ SharedKept'
<1> USE NamedRetrievers
<1>1. UNCHANGED <<cpc, pagerReady, rnext, point, gaps>> /\ Untold' = Untold
  BY DEF TellError, contextOptions, Untold
<1>2. CASE rpc[r] = "lock" /\ mutexHolder = Nobody /\ mutexHolder' = r /\ Goes(r, "append")
           /\ sliceRead' = [sliceRead EXCEPT ![r] = dataErrors] /\ UNCHANGED dataErrors
  <2>1. rpc' = [rpc EXCEPT ![r] = "append"] /\ "append" \in RetrieverPcs
    BY <1>2 DEF Goes, RetrieverPcs
  <2>2. Appending' = Appending
    BY <1>2, <2>1 DEF Appending, SharedType
  <2>3. ErrorsAtHand' = ErrorsAtHand
    BY <1>1, <2>2 DEF ErrorsAtHand
  <2>4. ErrorsKept'
    BY <1>1, <1>2, <2>3 DEF SharedKept, ErrorsKept
  <2>5. \A q \in Retriever : rpc[q] # "append"
    BY <1>2 DEF SharedKept, MutexKept
  <2>6. MutexKept'
    BY <1>2, <2>1, <2>5 DEF MutexKept, SharedType
  <2>7. SharedType'
    BY <1>1, <1>2, <2>1 DEF SharedType
  <2> QED
    BY <2>4, <2>6, <2>7 DEF SharedKept
<1>3. CASE rpc[r] = "append" /\ mutexHolder' = Nobody /\ Goes(r, rnext[r])
           /\ dataErrors' = sliceRead[r] \cup {point[r]} /\ UNCHANGED sliceRead
  <2>1. rpc' = [rpc EXCEPT ![r] = rnext[r]] /\ rnext[r] \in RetrieverPcs \ {"lock", "append"}
    BY <1>3 DEF Goes, RetrieverPcs, AfterError, SharedType
  <2>2. Appending' = Appending \ {r}
    BY <1>3, <2>1 DEF Appending, SharedType
  <2>3. ErrorsAtHand \subseteq ErrorsAtHand' \cup {point[r]}
    BY <1>1, <2>2 DEF ErrorsAtHand
  <2>4. dataErrors' = dataErrors \cup {point[r]}
    BY <1>3 DEF SharedKept, MutexKept
  <2>5. ErrorsKept'
    BY <1>1, <2>3, <2>4 DEF SharedKept, ErrorsKept
  <2>6. \A q \in Retriever \ {r} : rpc[q] # "append"
    BY <1>3 DEF SharedKept, MutexKept
  <2>7. MutexKept'
    BY <1>3, <2>1, <2>6 DEF MutexKept, SharedType
  <2>8. SharedType'
    BY <1>1, <1>3, <2>1 DEF SharedType
  <2> QED
    BY <2>5, <2>7, <2>8 DEF SharedKept
<1> QED
  BY <1>2, <1>3 DEF TellError, AppendError

\* The history in order has every service that the alerts found, and no other.
LEMMA HistoryOfAll ==
    ASSUME NEW S \in SUBSET PagerService, NEW order \in SetToSeqs(S), NEW h,
           h = [s \in PagerService |->
                  {order[j] : j \in {k \in DOMAIN order : \E i \in k..Len(order) : order[i] = s}}]
    PROVE  h \in [PagerService -> SUBSET PagerService] /\ {s \in PagerService : s \in h[s]} = S
<1>1. order \in Seq(S) /\ \A s \in S : \E i \in DOMAIN order : order[i] = s
  <2>1. IsFiniteSet(S)
    BY ContextAssumption, FS_Subset
  <2> QED
    BY <2>1, SeqsOfSet
<1>2. DOMAIN order = 1..Len(order) /\ Len(order) \in Nat /\ \A i \in DOMAIN order : order[i] \in S
  BY <1>1
<1>3. h \in [PagerService -> SUBSET PagerService]
  BY <1>2
<1>4. ASSUME NEW s \in S PROVE s \in h[s]
  <2>1. PICK i \in DOMAIN order : order[i] = s
    BY <1>1
  <2>2. i \in i..Len(order)
    BY <1>2
  <2> QED
    BY <2>1, <2>2
<1>5. ASSUME NEW s \in PagerService, s \in h[s] PROVE s \in S
  BY <1>2, <1>5
<1> QED
  BY <1>3, <1>4, <1>5

LEMMA RetrieveShared ==
    ASSUME ContextInv, NEW r \in Retriever, Retrieve(r)
    PROVE  SharedType' /\ SharedKept'
<1>0. SharedType /\ SharedKept
  BY DEF ContextInv, ContextType, SharedType, SharedKept
<1> USE <1>0, NamedRetrievers DEF SharedStill, contextOptions
<1>1. CASE TellError(r)
  BY <1>1, TellStep
<1>2. CASE FetchPlain(r) \/ FetchTrail(r)
  <2>1. rpc[r] = "query" /\ (Found(r, r, "done") \/ Failing(r, r, "done")) /\ SharedStill
        /\ r \in PlainPoint \cup TrailPoint /\ "done" \in AfterError
    BY <1>2 DEF FetchPlain, FetchTrail, AfterError
  <2> QED
    BY <2>1, FoundStep, FailingStep
<1>3. CASE r = "rhobs" /\ FetchDashboard
  <2>1. PICK next \in {"logsUrl", "done"} : Found(r, "dashboard", next) \/ Failing(r, "dashboard", next)
    BY <1>3 DEF FetchDashboard
  <2>2. rpc[r] = "query" /\ SharedStill /\ next \in AfterError
    BY <1>3 DEF FetchDashboard, AfterError
  <2> QED
    BY <2>1, <2>2, FoundStep, FailingStep
<1>4. CASE r = "rhobs" /\ FetchLogsUrl
  <2>1. rpc[r] = "logsUrl" /\ SharedStill /\ "done" \in AfterError
        /\ (Found(r, "logsUrl", "done") \/ Failing(r, "logsUrl", "done"))
    BY <1>4 DEF FetchLogsUrl, AfterError
  <2> QED
    BY <2>1, FoundStep, FailingStep
<1>5. CASE r = "description" /\ FetchDescription
  <2>1. /\ rpc[r] = "query" /\ Goes(r, "done") /\ UNCHANGED <<rnext, point>> /\ SharedStill /\ "done" \in AfterError
        /\ gaps' \subseteq gaps \cup {"description"}
    BY <1>5 DEF FetchDescription, AfterError
  <2>2. gaps' \subseteq Point /\ gaps' \ Untold \subseteq gaps
    BY <2>1 DEF SharedType, Untold
  <2> QED
    BY <2>1, <2>2, QuietStep
<1>6. CASE r = "alerts" /\ (SkipAlerts \/ AlertsEnd)
  <2>1. /\ rpc[r] \in {"query", "end"} /\ Goes(r, "done") /\ UNCHANGED <<rnext, point, gaps>> /\ SharedStill
        /\ "done" \in AfterError
    BY <1>6 DEF SkipAlerts, AlertsEnd, AfterError
  <2>2. gaps' \subseteq Point /\ gaps' \ Untold \subseteq gaps
    BY <2>1 DEF SharedType
  <2> QED
    BY <2>1, <2>2, QuietStep
<1>7. CASE r = "alerts" /\ FindServices
  <2>1. rpc[r] = "query" /\ SharedStill /\ "incidents" \in AfterError
    BY <1>7 DEF FindServices, AfterError
  <2>2. CASE Goes(r, "incidents") /\ UNCHANGED <<rnext, point, gaps, fields>>
    <3>1. gaps' \subseteq Point /\ gaps' \ Untold \subseteq gaps
      BY <2>2 DEF SharedType
    <3> QED
      BY <2>1, <2>2, <3>1, QuietStep
  <2>3. CASE Failing(r, "service", "incidents")
    BY <2>1, <2>3, FailingStep
  <2> QED
    BY <1>7, <2>2, <2>3 DEF FindServices
<1>8. CASE r = "alerts" /\ ListIncidents
  <2>1. rpc[r] = "incidents" /\ SharedStill /\ "end" \in AfterError
        /\ (Found(r, "alerts", "end") \/ Failing(r, "alerts", "end"))
    BY <1>8 DEF ListIncidents, AfterError
  <2> QED
    BY <2>1, FoundStep, FailingStep
<1>9. CASE r = "history" /\ FetchHistory
  <2>1. rpc[r] = "query" /\ SharedStill /\ "done" \in AfterError
        /\ (Found(r, "history", "done") \/ Failing(r, "history", "done"))
    BY <1>9 DEF FetchHistory, AfterError
  <2> QED
    BY <2>1, FoundStep, FailingStep
<1> QED
  BY <1>1, <1>2, <1>3, <1>4, <1>5, <1>6, <1>7, <1>8, <1>9 DEF Retrieve

\* Of the other variables: the services found, and the history of them.
LEMMA RetrieveHistory ==
    ASSUME ContextInv, NEW r \in Retriever, Retrieve(r)
    PROVE  /\ pdServiceID' \subseteq PagerService /\ historyOf' \in [PagerService -> SUBSET PagerService]
           /\ HistoryIsOf'
<1> USE NamedRetrievers DEF ContextInv, ContextType, HistoryIsOf
<1>0. rpc["alerts"] = "query" => ~alertsDone
  BY DEF ContextSteps
<1>1. CASE /\ UNCHANGED <<pdServiceID, historyOf>> /\ (alertsDone => alertsDone')
           /\ "history" \in fields' => "history" \in fields
  BY <1>1
<1>2. CASE TellError(r)
  BY <1>1, <1>2 DEF TellError
<1>3. CASE FetchPlain(r) \/ FetchTrail(r)
  <2>1. UNCHANGED <<pdServiceID, historyOf, alertsDone>> /\ fields' \subseteq fields \cup {r}
        /\ r \in PlainPoint \cup TrailPoint
    BY <1>3 DEF FetchPlain, FetchTrail, Found, Failing
  <2> QED
    BY <1>1, <2>1
<1>4. CASE r = "rhobs" /\ (FetchDashboard \/ FetchLogsUrl)
  <2>1. UNCHANGED <<pdServiceID, historyOf, alertsDone>> /\ fields' \subseteq fields \cup {"dashboard", "logsUrl"}
    BY <1>4 DEF FetchDashboard, FetchLogsUrl, Found, Failing
  <2> QED
    BY <1>1, <2>1
<1>5. CASE r = "description" /\ FetchDescription
  BY <1>1, <1>5 DEF FetchDescription
<1>6. CASE r = "alerts" /\ (SkipAlerts \/ AlertsEnd)
  BY <1>1, <1>6 DEF SkipAlerts, AlertsEnd
<1>7. CASE r = "alerts" /\ FindServices
  <2>1. rpc["alerts"] = "query" /\ UNCHANGED <<historyOf, alertsDone, fields>> /\ pdServiceID' \subseteq PagerService
    BY <1>7 DEF FindServices, Failing
  <2> QED
    BY <1>0, <2>1
<1>8. CASE r = "alerts" /\ ListIncidents
  <2>1. UNCHANGED <<pdServiceID, historyOf, alertsDone>> /\ fields' \subseteq fields \cup {"alerts"}
    BY <1>8 DEF ListIncidents, Found, Failing
  <2> QED
    BY <1>1, <2>1
<1>9. CASE r = "history" /\ FetchHistory
  <2>1. UNCHANGED <<pdServiceID, alertsDone>> /\ alertsDone
    BY <1>9 DEF FetchHistory
  <2>2. CASE Failing("history", "history", "done") /\ UNCHANGED historyOf
    BY <1>1, <2>1, <2>2 DEF Failing
  <2>3. CASE \E order \in SetToSeqs(pdServiceID) : historyOf' = [s \in PagerService |->
                {order[j] : j \in {k \in DOMAIN order : \E i \in k..Len(order) : order[i] = s}}]
    <3>1. PICK order \in SetToSeqs(pdServiceID) : historyOf' = [s \in PagerService |->
                {order[j] : j \in {k \in DOMAIN order : \E i \in k..Len(order) : order[i] = s}}]
      BY <2>3
    <3>2. historyOf' \in [PagerService -> SUBSET PagerService] /\ {s \in PagerService : s \in historyOf'[s]} = pdServiceID
      BY <3>1, HistoryOfAll
    <3> QED
      BY <2>1, <3>2
  <2> QED
    BY <1>9, <2>2, <2>3 DEF FetchHistory
<1> QED
  BY <1>2, <1>3, <1>4, <1>5, <1>6, <1>7, <1>8, <1>9 DEF Retrieve

\* Where a goroutine's step takes it, and that the others stand still.
LEMMA RetrieveGoes ==
    ASSUME ContextInv, NEW r \in Retriever, Retrieve(r)
    PROVE  /\ cpc' = cpc /\ rpc[r] \notin {"idle", "done"} /\ rpc'[r] # "idle"
           /\ \A q \in Retriever \ {r} : rpc'[q] = rpc[q] /\ rnext'[q] = rnext[q]
           /\ IF r = "alerts"
              THEN /\ rpc'[r] = "done" => alertsDone'
                   /\ rpc'[r] # "done" => alertsDone' = alertsDone
                   /\ rpc'[r] \in {"lock", "append"} => rnext'[r] # "done"
              ELSE alertsDone' = alertsDone
<1> USE NamedRetrievers DEF ContextInv, ContextType, ContextSteps, Goes
<1>1. CASE TellError(r)
  <2>1. UNCHANGED <<cpc, alertsDone, rnext>> /\ rpc[r] \in {"lock", "append"}
    BY <1>1 DEF TellError, AppendError
  <2>2. PICK to \in {"append", rnext[r]} : rpc' = [rpc EXCEPT ![r] = to]
    BY <1>1 DEF TellError, AppendError
  <2>3. rnext[r] # "idle" /\ (r = "alerts" => rnext[r] # "done")
    BY <2>1 DEF AfterError
  <2> QED
    BY <2>1, <2>2, <2>3
<1>2. CASE FetchPlain(r) \/ FetchTrail(r)
  BY <1>2 DEF FetchPlain, FetchTrail, Found, Failing
<1>3. CASE r = "rhobs" /\ (FetchDashboard \/ FetchLogsUrl)
  BY <1>3 DEF FetchDashboard, FetchLogsUrl, Found, Failing
<1>4. CASE r = "description" /\ FetchDescription
  BY <1>4 DEF FetchDescription
<1>5. CASE r = "alerts" /\ (SkipAlerts \/ AlertsEnd)
  BY <1>5 DEF SkipAlerts, AlertsEnd
<1>6. CASE r = "alerts" /\ FindServices
  BY <1>6 DEF FindServices, Failing
<1>7. CASE r = "alerts" /\ ListIncidents
  BY <1>7 DEF ListIncidents, Found, Failing
<1>8. CASE r = "history" /\ FetchHistory
  BY <1>8 DEF FetchHistory, Found, Failing
<1> QED
  BY <1>1, <1>2, <1>3, <1>4, <1>5, <1>6, <1>7, <1>8 DEF Retrieve

LEMMA RetrieveInv ==
    ASSUME ContextInv, NEW r \in Retriever, Retrieve(r)
    PROVE  ContextInv'
<1>1. SharedType' /\ SharedKept'
  BY RetrieveShared
<1>2. pdServiceID' \subseteq PagerService /\ historyOf' \in [PagerService -> SUBSET PagerService] /\ HistoryIsOf'
  BY RetrieveHistory
<1>3. ContextSteps'
  <2>1. "alerts" \in Retriever
    BY NamedRetrievers
  <2>2. ContextSteps
    BY DEF ContextInv
  <2>3. cpc = "wait"
    BY <2>2, RetrieveGoes DEF ContextSteps
  <2> QED
    BY <2>1, <2>2, <2>3, RetrieveGoes DEF ContextSteps
<1> QED
  BY <1>1, <1>2, <1>3 DEF ContextInv, ContextType, SharedType, SharedKept

LEMMA ContextStepInv ==
    ASSUME ContextInv, ContextNext
    PROVE  ContextInv'
<1> USE NamedRetrievers DEF ContextInv
<1>0. ASSUME UNCHANGED <<pagerReady, rnext, point, mutexHolder, sliceRead, contextData>>, Appending' = Appending,
             \A r \in Retriever : rpc'[r] = "append" <=> rpc[r] = "append"
      PROVE  MutexKept' /\ HistoryIsOf' /\ ErrorsKept'
  <2>1. ErrorsAtHand' = ErrorsAtHand /\ Untold' = Untold
    BY <1>0 DEF ErrorsAtHand, Untold
  <2> QED
    BY <1>0, <2>1 DEF MutexKept, HistoryIsOf, ErrorsKept, contextData
<1>1. CASE Basics \/ PrintContext
  <2>1. UNCHANGED <<pagerReady, rpc, rnext, point, mutexHolder, sliceRead, contextData>>
    BY <1>1 DEF Basics, PrintContext, contextOptions
  <2>2. Appending' = Appending
    BY <2>1 DEF Appending
  <2>3. ContextSteps'
    BY <1>1, <2>1 DEF Basics, PrintContext, ContextSteps, contextData
  <2>4. ContextType'
    BY <2>1 DEF ContextType, contextData
  <2> QED
    BY <1>0, <2>1, <2>2, <2>3, <2>4
<1>2. CASE Launch
  <2>1. UNCHANGED <<pagerReady, rnext, point, mutexHolder, sliceRead, contextData>> /\ cpc = "launch" /\ cpc' = "wait"
        /\ rpc' = [r \in Retriever |-> IF Wanted(r) THEN "query" ELSE "done"]
    BY <1>2 DEF Launch, contextOptions
  <2>2. \A r \in Retriever : rpc[r] = "idle" /\ rpc'[r] \in {"query", "done"}
    BY <2>1 DEF ContextSteps
  <2>3. Appending' = Appending
    BY <2>2 DEF Appending
  <2>4. rpc'["alerts"] = "query"
    BY <2>1, ContextAssumption DEF Wanted
  <2>5. ~alertsDone
    BY <2>1 DEF ContextSteps
  <2>6. ContextSteps'
    BY <2>1, <2>2, <2>4, <2>5 DEF ContextSteps, contextData
  <2>7. rpc' \in [Retriever -> RetrieverPcs]
    BY <2>1 DEF RetrieverPcs, AfterError
  <2>8. ContextType'
    BY <2>1, <2>7 DEF ContextType, contextData
  <2> QED
    BY <1>0, <2>1, <2>2, <2>3, <2>6, <2>8
<1> QED
  BY <1>1, <1>2, RetrieveInv DEF ContextNext

LEMMA ContextInvWhole == ContextInv => ContextIsWhole
<1> SUFFICES ASSUME ContextInv PROVE ContextIsWhole
  OBVIOUS
<1> USE NamedRetrievers DEF ContextInv
<1>1. ASSUME cpc = "printed" PROVE ErrorsAtHand = {}
  BY <1>1 DEF ContextSteps, ErrorsAtHand, Appending
<1>2. NoErrorLost
  BY <1>1 DEF NoErrorLost, ErrorsKept, Untold, HistoryIsOf
<1>3. NoneWaitsForTheDone
  BY DEF NoneWaitsForTheDone, MutexKept, ContextSteps
<1> QED
  BY <1>2, <1>3 DEF ContextIsWhole

-----------------------------------------------------------------------------
(***************************************************************************)
(* The choice of a cell: a usage that was tried has its cell from the best *)
(* source, or there is none, and what was found not to tell it is known.   *)
(***************************************************************************)
Trying == {"own", "deployment", "other"}
BestSource(u) == IF u \in hasCell THEN {u} ELSE IF "deployment" \in hasCell THEN {"deployment"} ELSE Usage \ {u}

CellType ==
    /\ qpc \in {"usage", "token", "page", "done", "failed"} \cup Trying
    /\ usagesLeft \subseteq Usage /\ hasCell \subseteq Source /\ cell \in [Usage -> SUBSET Source]
    /\ qpc \in Trying => \E u \in Usage : usage = {u}

AskedOnce == asked \in Seq(Source) /\ IsFiniteSet(ToSet(asked)) /\ Len(asked) = Cardinality(ToSet(asked))

CellsAreBest ==
    /\ \A u \in Usage : cell[u] # {} => cell[u] = BestSource(u)
    /\ qpc \in {"deployment", "other"} => usage \cap hasCell = {}
    /\ qpc = "other" => "deployment" \notin hasCell
    /\ qpc \in {"token", "page", "done", "failed"} => usagesLeft = {}
    /\ "logs" \in usagesLeft \/ (qpc \in Trying /\ usage = {"logs"}) \/ cell["logs"] # {} \/ hasCell = {}

CellInv == CellType /\ AskedOnce /\ CellsAreBest

LEMMA CellBegins == QueryInit => CellInv
<1> SUFFICES ASSUME QueryInit PROVE CellInv
  OBVIOUS
<1>1. CellType
  BY DEF QueryInit, CellType, Trying, Usage
<1>2. AskedOnce
  <2>1. asked = <<>> /\ ToSet(asked) = {}
    BY DEF QueryInit, ToSet
  <2> QED
    BY <2>1, FS_EmptySet DEF AskedOnce
<1>3. CellsAreBest
  BY DEF QueryInit, CellsAreBest, Usage
<1> QED
  BY <1>1, <1>2, <1>3 DEF CellInv

\* The answer of a source is remembered: none is asked twice.
LEMMA AskOnce ==
    ASSUME AskedOnce, NEW s \in Source, Ask(s)
    PROVE  AskedOnce'
<1>1. CASE s \in ToSet(asked)
  BY <1>1 DEF Ask, AskedOnce
<1>2. CASE s \notin ToSet(asked)
  <2>1. asked' = Append(asked, s) /\ asked \in Seq(Source)
    BY <1>2 DEF Ask, AskedOnce
  <2>2. asked' \in Seq(Source) /\ Len(asked') = Len(asked) + 1
    BY <2>1
  <2>3. ToSet(asked') = ToSet(asked) \cup {s}
    <3>1. DOMAIN asked' = DOMAIN asked \cup {Len(asked) + 1} /\ asked'[Len(asked) + 1] = s
          /\ \A i \in DOMAIN asked : asked'[i] = asked[i]
      BY <2>1
    <3> QED
      BY <3>1 DEF ToSet
  <2>4. IsFiniteSet(ToSet(asked'))
        /\ Cardinality(ToSet(asked')) = Cardinality(ToSet(asked)) + 1
    BY <1>2, <2>3, FS_AddElement DEF AskedOnce
  <2> QED
    BY <2>2, <2>4 DEF AskedOnce
<1> QED
  BY <1>1, <1>2

\* A source that is tried when the better ones are known not to tell.
LEMMA TryBest ==
    ASSUME CellInv, qpc \in Trying, NEW here, NEW s \in Source, NEW next \in {"deployment", "other", "usage"},
           TrySource(here, s, next),
           \A u \in usage : s \in hasCell => {s} = BestSource(u),
           s \notin hasCell =>
              /\ next \in {"deployment", "other"} => usage \cap hasCell = {}
              /\ next = "other" => "deployment" \notin hasCell
              /\ next = "usage" /\ "logs" \in usage => hasCell = {}
    PROVE  CellInv'
<1> USE DEF CellInv
<1>1. AskedOnce'
  BY AskOnce DEF TrySource
<1>2. PICK v \in Usage : usage = {v}
  BY DEF CellType
<1>3. UNCHANGED <<hasCell, usagesLeft, usage>>
  BY DEF TrySource, storeVars
<1>4. \A u : BestSource(u)' = BestSource(u)
  BY <1>3 DEF BestSource
<1>5. CASE s \in hasCell
  <2>1. cell' = [u \in Usage |-> IF u \in usage THEN {s} ELSE cell[u]] /\ qpc' = "usage"
    BY <1>5 DEF TrySource, QueryStep
  <2>2. cell' \in [Usage -> SUBSET Source]
    BY <2>1 DEF CellType
  <2>3. CellType'
    BY <1>3, <2>1, <2>2 DEF CellType, Trying
  <2>4. \A u \in Usage : cell'[u] # {} => cell'[u] = BestSource(u)
    BY <1>5, <2>1 DEF CellsAreBest
  <2>5. "logs" \in usagesLeft \/ cell'["logs"] # {} \/ hasCell = {}
    BY <1>2, <2>1 DEF CellsAreBest, Usage
  <2> QED
    BY <1>1, <1>3, <1>4, <2>1, <2>3, <2>4, <2>5 DEF CellsAreBest
<1>6. CASE s \notin hasCell
  <2>1. cell' = cell /\ qpc' = next
    BY <1>6 DEF TrySource, QueryStep
  <2>2. CellType'
    BY <1>3, <2>1 DEF CellType, Trying
  <2>3. "logs" \in usagesLeft \/ (qpc' \in Trying /\ usage = {"logs"}) \/ cell["logs"] # {} \/ hasCell = {}
    BY <1>2, <1>6, <2>1 DEF CellsAreBest, Trying
  <2> QED
    BY <1>1, <1>3, <1>4, <1>6, <2>1, <2>2, <2>3 DEF CellsAreBest
<1> QED
  BY <1>5, <1>6

LEMMA CellStepInv ==
    ASSUME CellInv, QueryNext
    PROVE  CellInv'
<1> USE DEF CellInv
<1>0. ASSUME UNCHANGED <<hasCell, usagesLeft, usage, asked, cell>>, qpc' \in {"token", "page", "done", "failed"},
             qpc \in {"token", "page", "done", "failed"}
      PROVE  CellInv'
  BY <1>0 DEF CellType, AskedOnce, CellsAreBest, BestSource, Trying
<1>1. CASE NextUsage
  <2>1. UNCHANGED <<hasCell, asked, cell>> /\ qpc = "usage"
    BY <1>1 DEF NextUsage, storeVars, QueryStep
  <2>2. CASE \E u \in usagesLeft : usage' = {u} /\ usagesLeft' = usagesLeft \ {u} /\ QueryStep("usage", "own")
    <3>1. PICK u \in usagesLeft : usage' = {u} /\ usagesLeft' = usagesLeft \ {u} /\ QueryStep("usage", "own")
      BY <2>2
    <3>2. CellType' /\ AskedOnce'
      BY <2>1, <3>1 DEF CellType, AskedOnce, Trying, QueryStep
    <3>3. CellsAreBest'
      BY <2>1, <3>1 DEF CellType, CellsAreBest, BestSource, Trying, QueryStep
    <3> QED
      BY <3>2, <3>3
  <2>3. CASE usagesLeft = {} /\ qpc' \in {"failed", "token"} /\ UNCHANGED <<usagesLeft, usage>>
    <3>1. CellType' /\ AskedOnce'
      BY <2>1, <2>3 DEF CellType, AskedOnce, Trying
    <3>2. CellsAreBest'
      BY <2>1, <2>3 DEF CellsAreBest, BestSource, Trying
    <3> QED
      BY <3>1, <3>2
  <2> QED
    BY <1>1, <2>2, <2>3 DEF NextUsage, QueryStep
<1>2. CASE OwnConfigMap
  <2>1. PICK u \in usage : TrySource("own", u, "deployment")
    BY <1>2 DEF OwnConfigMap
  <2>2. qpc = "own" /\ qpc \in Trying
    BY <2>1 DEF TrySource, QueryStep, Trying
  <2>3. usage = {u} /\ u \in Source /\ u \in Usage
    BY <2>1, <2>2 DEF CellType, Source
  <2> QED
    BY <2>1, <2>2, <2>3, TryBest DEF BestSource
<1>3. CASE HiveDeployment
  <2>1. qpc = "deployment" /\ qpc \in Trying /\ TrySource("deployment", "deployment", "other")
    BY <1>3 DEF HiveDeployment, TrySource, QueryStep, Trying
  <2>2. usage \cap hasCell = {} /\ "deployment" \in Source
    BY <2>1 DEF CellsAreBest, Source
  <2>3. \A u \in usage : "deployment" \in hasCell => {"deployment"} = BestSource(u)
    BY <2>2 DEF BestSource
  <2> QED
    BY <2>1, <2>2, <2>3, TryBest
<1>4. CASE OtherConfigMap
  <2>1. PICK o \in Usage \ usage : TrySource("other", o, "usage")
    BY <1>4 DEF OtherConfigMap
  <2>2. qpc = "other" /\ qpc \in Trying
    BY <2>1 DEF TrySource, QueryStep, Trying
  <2>3. usage \cap hasCell = {} /\ "deployment" \notin hasCell /\ o \in Source
    BY <2>2 DEF CellsAreBest, Source
  <2>4. PICK v \in Usage : usage = {v}
    BY <2>2 DEF CellType
  <2>5. Usage = {v, o}
    BY <2>1, <2>4 DEF Usage
  <2>6. \A u \in usage : o \in hasCell => {o} = BestSource(u)
    BY <2>1, <2>3, <2>4, <2>5 DEF BestSource
  <2>7. o \notin hasCell => hasCell = {}
    BY <2>3, <2>4, <2>5 DEF CellType, Source
  <2> QED
    BY <2>1, <2>2, <2>3, <2>6, <2>7, TryBest
<1>5. CASE GetToken
  BY <1>0, <1>5 DEF GetToken, QueryStep, storeVars, cellVars
<1>6. CASE ReadPage \/ LastPage \/ ReadFails
  BY <1>0, <1>6 DEF ReadPage, LastPage, ReadFails, QueryStep, storeVars, cellVars
<1>7. CASE LineArrives
  BY <1>7 DEF LineArrives, cellVars, CellType, AskedOnce, CellsAreBest, BestSource
<1> QED
  BY <1>1, <1>2, <1>3, <1>4, <1>5, <1>6, <1>7 DEF QueryNext, QueryRun

LEMMA CellInvBest == CellInv => BestCellFound
<1> SUFFICES ASSUME CellInv PROVE BestCellFound
  OBVIOUS
<1> USE DEF CellInv
<1>1. Len(asked) = Cardinality(ToSet(asked))
  BY DEF AskedOnce
<1>2. \A u \in Usage : cell[u] # {} =>
        cell[u] = (IF u \in hasCell THEN {u} ELSE IF "deployment" \in hasCell THEN {"deployment"} ELSE Usage \ {u})
  BY DEF CellsAreBest, BestSource
<1>3. qpc = "failed" /\ hasCell # {} => cell["logs"] # {}
  BY DEF CellsAreBest, Trying
<1> QED
  BY <1>1, <1>2, <1>3 DEF BestCellFound

-----------------------------------------------------------------------------
(***************************************************************************)
(* Pages: a query reads forward or backward; measured in its direction,    *)
(* what is shown lies before the front of the window, and what lies before *)
(* the front is shown, unless more lines have its timestamp than fit a     *)
(* page or the limit cut the page.                                         *)
(***************************************************************************)
Key(l) == IF forward THEN stamp[l] ELSE 0 - stamp[l]
WinFront == IF forward THEN winFrom ELSE 0 - winTo

PageType ==
    /\ stamp \in [Line -> 1..LastStamp] /\ \A l, k \in Line : l < k => stamp[l] <= stamp[k]
    /\ stored \subseteq Line /\ storedAtStart \subseteq stored /\ shownLines \in Seq(Line)
    /\ forward \in BOOLEAN /\ limit \in Nat /\ linesLeft \in Int /\ winFrom \in Int /\ winTo \in Int
    /\ forward => winTo = LastStamp
    /\ ~forward => winFrom = 1

ShownOnce ==
    /\ IsFiniteSet(Shown) /\ Len(shownLines) = Cardinality(Shown)
    /\ \A i, j \in 1..Len(shownLines) : i < j => Key(shownLines[i]) <= Key(shownLines[j])
    /\ \A l \in Shown : Key(l) < WinFront

Counted ==
    /\ limit = NoLimit => linesLeft < 0
    /\ limit # NoLimit => linesLeft >= 0 /\ linesLeft + Len(shownLines) = limit

\* Of a line that is left out: too many have its timestamp, or a limit was reached before it.
LeftOut(l) == Crowded(l) \/ (linesLeft = 0 /\ \A k \in Shown : Key(k) <= Key(l))

NoneMissed ==
    /\ \A l \in storedAtStart \ Shown : Key(l) < WinFront => LeftOut(l)
    /\ qpc = "done" => linesLeft = 0 \/ \A l \in storedAtStart : Key(l) < WinFront

PageInv == PageType /\ ShownOnce /\ Counted /\ NoneMissed

LEMMA PageBegins == QueryInit => PageInv
<1> SUFFICES ASSUME QueryInit PROVE PageInv
  OBVIOUS
<1> USE QueryAssumption DEF QueryInit
<1>1. PageType
  <2>1. forward \in BOOLEAN
    OBVIOUS
  <2>2. limit \in Nat /\ linesLeft \in Int
    BY DEF NoLimit
  <2> QED
    BY <2>1, <2>2 DEF PageType
<1>2. Shown = {} /\ shownLines = <<>>
  BY DEF Shown, ToSet
<1>3. ShownOnce
  BY <1>2, FS_EmptySet DEF ShownOnce
<1>4. Counted
  <2>1. limit \in Nat /\ linesLeft = (IF limit = 0 THEN -1 ELSE limit) /\ Len(shownLines) = 0
    BY DEF NoLimit
  <2> QED
    BY <2>1 DEF Counted, NoLimit
<1>5. NoneMissed
  <2>1. \A l \in storedAtStart : stamp[l] \in 1..LastStamp
    BY DEF PageType
  <2>2. \A l \in storedAtStart : ~(Key(l) < WinFront)
    BY <2>1 DEF Key, WinFront
  <2> QED
    BY <2>2 DEF NoneMissed
<1> QED
  BY <1>1, <1>3, <1>4, <1>5 DEF PageInv

LEMMA KeyType == PageType => WinFront \in Int /\ \A l \in Line : Key(l) \in Int
<1> SUFFICES ASSUME PageType PROVE WinFront \in Int /\ \A l \in Line : Key(l) \in Int
  OBVIOUS
<1>1. \A l \in Line : stamp[l] \in Int
  BY QueryAssumption DEF PageType
<1> QED
  BY <1>1 DEF PageType, Key, WinFront

LEMMA SoonerIsBefore ==
    ASSUME PageType, NEW l \in Line, NEW k \in Line
    PROVE  Sooner(l, k) <=> Key(l) < Key(k)
<1>1. stamp[l] \in Int /\ stamp[k] \in Int
  BY QueryAssumption DEF PageType
<1> QED
  BY <1>1 DEF Sooner, Key

\* The other end of the window leaves nothing out.
LEMMA WindowIs ==
    ASSUME PageType
    PROVE  Window \subseteq Line /\ IsFiniteSet(Window) /\ \A l \in stored : l \in Window <=> Key(l) >= WinFront
<1>1. \A l \in stored : stamp[l] \in Int /\ 1 <= stamp[l] /\ stamp[l] <= LastStamp
  BY QueryAssumption DEF PageType
<1>2. Window \subseteq Line
  BY DEF Window, PageType
<1>3. IsFiniteSet(Window)
  BY <1>2, QueryAssumption, FS_Subset
<1>4. \A l \in stored : l \in Window <=> Key(l) >= WinFront
  BY <1>1, QueryAssumption DEF PageType, Window, Key, WinFront
<1> QED
  BY <1>2, <1>3, <1>4

\* The last timestamp of a page that has a line is that of a line of it.
LEMMA EdgeIs ==
    ASSUME PageType, NEW p \in SUBSET Line, p # {}
    PROVE  \E e \in Int :
             /\ EdgeStamp(p) = IF forward THEN e ELSE 0 - e
             /\ (\A l \in p : Key(l) <= e) /\ \E l \in p : Key(l) = e
<1> DEFINE T == {stamp[l] : l \in p}
<1>1. T \in SUBSET (0..LastStamp) /\ T \in SUBSET Nat /\ T # {} /\ LastStamp \in Nat
  <2>1. LastStamp \in Nat /\ \A l \in p : stamp[l] \in 1..LastStamp
    BY QueryAssumption DEF PageType
  <2>2. \A t \in T : t \in Nat /\ t \in 0..LastStamp
    BY <2>1
  <2>3. T # {}
    OBVIOUS
  <2> HIDE DEF T
  <2> QED
    BY <2>1, <2>2, <2>3
<1>2. \E t \in T : \A l \in p : IF forward THEN stamp[l] <= t ELSE stamp[l] >= t
  <2>1. CASE forward
    <3>1. \E t \in T : \A s \in T : s <= t
      <4> HIDE DEF T
      <4> QED
        BY <1>1, GreatestOf
    <3> QED
      BY <2>1, <3>1
  <2>2. CASE ~forward
    <3>1. \E t \in T : \A s \in T : t <= s
      <4> HIDE DEF T
      <4> QED
        BY <1>1, LeastOf
    <3>2. PICK t \in T : \A s \in T : t <= s
      BY <3>1
    <3>3. \A l \in p : stamp[l] \in T
      OBVIOUS
    <3>4. \A l \in p : stamp[l] >= t
      <4> HIDE DEF T
      <4> QED
        BY <1>1, <3>2, <3>3
    <3> QED
      BY <2>2, <3>4
  <2> QED
    BY <2>1, <2>2
<1>3. EdgeStamp(p) \in T /\ \A l \in p : IF forward THEN stamp[l] <= EdgeStamp(p) ELSE stamp[l] >= EdgeStamp(p)
  <2> DEFINE IsLast(t) == \A l \in p : IF forward THEN stamp[l] <= t ELSE stamp[l] >= t
  <2>1. EdgeStamp(p) = CHOOSE t \in T : IsLast(t)
    BY DEF EdgeStamp
  <2>2. \E t \in T : IsLast(t)
    BY <1>2
  <2>3. EdgeStamp(p) \in T /\ IsLast(EdgeStamp(p))
    <3> HIDE DEF IsLast, T
    <3> QED
      BY <2>1, <2>2
  <2> QED
    BY <2>3
<1>4. PICK m \in p : EdgeStamp(p) = stamp[m]
  BY <1>3
<1>5. \A l \in p : stamp[l] \in Int
  BY QueryAssumption DEF PageType
<1>6. Key(m) \in Int /\ EdgeStamp(p) = IF forward THEN Key(m) ELSE 0 - Key(m)
  BY <1>4, <1>5 DEF Key
<1>7. \A l \in p : Key(l) <= Key(m)
  BY <1>3, <1>4, <1>5 DEF Key
<1> QED
  BY <1>6, <1>7

\* A page, its edge, and what of it is shown now.
LEMMA PageIs ==
    ASSUME PageType, linesLeft # 0, Window # {}, NEW p \in Response
    PROVE  /\ p \subseteq Window /\ p # {} /\ IsFiniteSet(p)
           /\ Cardinality(p) <= ThisPage /\ (Cardinality(p) = ThisPage \/ p = Window)
           /\ \A l \in p, k \in Window \ p : Key(l) <= Key(k)
           /\ ThisPage \in Nat \ {0} /\ (linesLeft > 0 => ThisPage <= linesLeft)
           /\ ThisPage # PageSize => ThisPage = linesLeft
<1>1. p \subseteq Window /\ Cardinality(p) <= ThisPage /\ (Cardinality(p) = ThisPage \/ p = Window)
      /\ \A l \in p, k \in Window \ p : ~Sooner(k, l)
  BY DEF Response
<1>2. Window \subseteq Line /\ IsFiniteSet(Window)
  BY WindowIs
<1>3. IsFiniteSet(p)
  BY <1>1, <1>2, FS_Subset
<1>4. /\ ThisPage \in Nat \ {0} /\ (linesLeft > 0 => ThisPage <= linesLeft)
      /\ ThisPage # PageSize => ThisPage = linesLeft
  BY QueryAssumption DEF ThisPage, PageType
<1>5. p # {}
  <2>1. Cardinality({}) = 0
    BY FS_EmptySet
  <2> QED
    BY <1>1, <1>4, <2>1
<1>6. \A l \in p, k \in Window \ p : Key(l) <= Key(k)
  <2>1. p \subseteq Line /\ \A l \in Line : Key(l) \in Int
    BY <1>1, <1>2, KeyType
  <2> QED
    BY <1>1, <1>2, <2>1, SoonerIsBefore
<1> QED
  BY <1>1, <1>3, <1>4, <1>5, <1>6

\* A page with the edge e: all of it if it has no other timestamp, else what is before e.
EdgeOf(p, e) == (\A l \in p : Key(l) <= e) /\ \E l \in p : Key(l) = e
OnlyEdge(p, e) == \A l \in p : Key(l) = e

LEMMA PageStep ==
    ASSUME PageType, ReadPage
    PROVE  \E p \in Response, e \in Int, now \in SUBSET Line, page \in Seq(Line) :
             /\ p \subseteq Line /\ EdgeOf(p, e)
             /\ now = IF OnlyEdge(p, e) THEN p ELSE {l \in p : Key(l) < e}
             /\ IF forward THEN winFrom' = e + (IF OnlyEdge(p, e) THEN 1 ELSE 0) /\ winTo' = winTo
                           ELSE winTo' = 0 - (e + (IF OnlyEdge(p, e) THEN 1 ELSE 0)) /\ winFrom' = winFrom
             /\ Len(page) = Cardinality(now) /\ ToSet(page) = now
             /\ \A i, j \in DOMAIN page : i < j => Key(page[i]) <= Key(page[j])
             /\ shownLines' = shownLines \o page /\ linesLeft' = linesLeft - Cardinality(now)
<1>1. PICK p \in Response :
        LET now == IF OneStamp(p) THEN p ELSE {l \in p : stamp[l] # EdgeStamp(p)} IN
        /\ MoveWindow(p)
        /\ \E page \in SetToSeqs(now) :
              /\ \A i, j \in DOMAIN page : i < j => IF forward THEN page[i] < page[j] ELSE page[i] > page[j]
              /\ shownLines' = shownLines \o page
        /\ linesLeft' = linesLeft - Cardinality(now)
  BY DEF ReadPage
<1>2. p # {} /\ IsFiniteSet(p) /\ p \subseteq Line
  BY PageIs, WindowIs DEF ReadPage
<1>3. PICK e \in Int : /\ EdgeStamp(p) = IF forward THEN e ELSE 0 - e
                       /\ (\A l \in p : Key(l) <= e) /\ \E l \in p : Key(l) = e
  BY <1>2, EdgeIs
<1>4. EdgeOf(p, e)
  BY <1>3 DEF EdgeOf
<1>5. \A l \in p : stamp[l] \in Int /\ (stamp[l] = EdgeStamp(p) <=> Key(l) = e) /\ Key(l) \in Int
  <2>1. \A l \in p : stamp[l] \in Int
    BY <1>2, QueryAssumption DEF PageType
  <2> QED
    BY <1>3, <2>1 DEF Key
<1>6. OneStamp(p) <=> OnlyEdge(p, e)
  BY <1>2, <1>5 DEF OneStamp, OnlyEdge
<1> DEFINE now == IF OneStamp(p) THEN p ELSE {l \in p : stamp[l] # EdgeStamp(p)}
<1>7. now = IF OnlyEdge(p, e) THEN p ELSE {l \in p : Key(l) < e}
  BY <1>3, <1>5, <1>6
<1>8. PICK page \in SetToSeqs(now) :
        /\ \A i, j \in DOMAIN page : i < j => IF forward THEN page[i] < page[j] ELSE page[i] > page[j]
        /\ shownLines' = shownLines \o page
  BY <1>1
<1>9. linesLeft' = linesLeft - Cardinality(now) /\ MoveWindow(p)
  BY <1>1
<1>10. now \subseteq p
  OBVIOUS
<1> HIDE DEF now
<1>11. IsFiniteSet(now)
  BY <1>2, <1>10, FS_Subset
<1>12. page \in Seq(now) /\ Len(page) = Cardinality(now) /\ ToSet(page) = now
  BY <1>11, SeqsOfSet
<1>13. page \in Seq(Line) /\ \A i \in DOMAIN page : page[i] \in Line
  <2>1. now \subseteq Line
    BY <1>2, <1>10
  <2> QED
    BY <1>12, <2>1
<1>14. ASSUME NEW i \in DOMAIN page, NEW j \in DOMAIN page, i < j PROVE Key(page[i]) <= Key(page[j])
  <2>1. page[i] \in Line /\ page[j] \in Line /\ IF forward THEN page[i] < page[j] ELSE page[i] > page[j]
    BY <1>8, <1>13, <1>14
  <2>2. stamp[page[i]] \in Int /\ stamp[page[j]] \in Int
    BY <2>1, QueryAssumption DEF PageType
  <2>3. \A l, k \in Line : l < k => stamp[l] <= stamp[k]
    BY DEF PageType
  <2>4. CASE forward
    BY <2>1, <2>2, <2>3, <2>4 DEF Key
  <2>5. CASE ~forward
    <3>1. page[j] < page[i]
      BY <2>1, <2>5, QueryAssumption
    <3>2. stamp[page[j]] <= stamp[page[i]]
      BY <2>1, <2>3, <3>1
    <3> QED
      BY <2>2, <2>5, <3>2 DEF Key
  <2> QED
    BY <2>4, <2>5
<1>15. IF forward THEN winFrom' = e + (IF OnlyEdge(p, e) THEN 1 ELSE 0) /\ winTo' = winTo
                  ELSE winTo' = 0 - (e + (IF OnlyEdge(p, e) THEN 1 ELSE 0)) /\ winFrom' = winFrom
  BY <1>3, <1>6, <1>9 DEF MoveWindow
<1>16. now \in SUBSET Line
  BY <1>2, <1>10
<1> QED
  BY <1>2, <1>4, <1>7, <1>8, <1>9, <1>12, <1>13, <1>14, <1>15, <1>16

\* More lines with its timestamp than fit a page make a line crowded, and stay.
LEMMA CrowdedBy ==
    ASSUME PageType, NEW p \in SUBSET stored, Cardinality(p) = PageSize, NEW l \in stored \ p,
           \A k \in p : stamp[k] = stamp[l]
    PROVE  Crowded(l)
<1> DEFINE same == {k \in stored : stamp[k] = stamp[l]}
<1>1. IsFiniteSet(stored) /\ IsFiniteSet(p) /\ IsFiniteSet(same)
  BY QueryAssumption, FS_Subset DEF PageType
<1>2. p \cup {l} \subseteq same
  OBVIOUS
<1> HIDE DEF same
<1>3. Cardinality(p \cup {l}) = PageSize + 1 /\ IsFiniteSet(p \cup {l})
  BY <1>1, FS_AddElement
<1>4. Cardinality(p \cup {l}) <= Cardinality(same) /\ Cardinality(same) \in Nat
  BY <1>1, <1>2, FS_Subset, FS_CardinalityType
<1>5. Cardinality(same) > PageSize
  BY <1>3, <1>4, QueryAssumption
<1> QED
  BY <1>5 DEF Crowded, same

LEMMA CrowdedStays ==
    ASSUME PageType, stamp' = stamp, stored \subseteq stored', stored' \subseteq Line, NEW l, Crowded(l)
    PROVE  Crowded(l)'
<1> DEFINE same == {k \in stored : stamp[k] = stamp[l]}
           after == {k \in stored' : stamp'[k] = stamp'[l]}
<1>1. IsFiniteSet(after)
  BY QueryAssumption, FS_Subset
<1>2. same \subseteq after
  OBVIOUS
<1> HIDE DEF same, after
<1>3. Cardinality(same) <= Cardinality(after) /\ Cardinality(same) \in Nat /\ Cardinality(after) \in Nat
  BY <1>1, <1>2, FS_Subset, FS_CardinalityType
<1>4. Cardinality(same) > PageSize
  BY DEF Crowded, same
<1>5. Cardinality(after) > PageSize
  BY <1>3, <1>4, QueryAssumption
<1> QED
  BY <1>5 DEF Crowded, after

\* What was left out stays so, as lines arrive and as others are shown behind it.
LEMMA LeftOutStays ==
    ASSUME PageType, stamp' = stamp, UNCHANGED <<forward, linesLeft, shownLines>>, stored \subseteq stored', stored' \subseteq Line,
           NEW l, LeftOut(l)
    PROVE  LeftOut(l)'
<1>1. Crowded(l) => Crowded(l)'
  BY CrowdedStays
<1>2. Shown' = Shown /\ \A k : Key(k)' = Key(k)
  BY DEF Shown, Key
<1> QED
  BY <1>1, <1>2 DEF LeftOut

LEMMA ReadPageInv ==
    ASSUME PageInv, ReadPage
    PROVE  PageInv'
<1>0. PageType /\ ShownOnce /\ Counted /\ NoneMissed
  BY DEF PageInv
<1>1. PICK p \in Response, e \in Int, now \in SUBSET Line, page \in Seq(Line) :
             /\ p \subseteq Line /\ EdgeOf(p, e)
             /\ now = IF OnlyEdge(p, e) THEN p ELSE {l \in p : Key(l) < e}
             /\ IF forward THEN winFrom' = e + (IF OnlyEdge(p, e) THEN 1 ELSE 0) /\ winTo' = winTo
                           ELSE winTo' = 0 - (e + (IF OnlyEdge(p, e) THEN 1 ELSE 0)) /\ winFrom' = winFrom
             /\ Len(page) = Cardinality(now) /\ ToSet(page) = now
             /\ \A i, j \in DOMAIN page : i < j => Key(page[i]) <= Key(page[j])
             /\ shownLines' = shownLines \o page /\ linesLeft' = linesLeft - Cardinality(now)
  BY <1>0, PageStep
<1>2. linesLeft # 0 /\ Window # {} /\ UNCHANGED <<stamp, stored, storedAtStart, forward, limit, qpc>> /\ qpc = "page"
  BY DEF ReadPage, storeVars
<1>3. /\ p \subseteq Window /\ p # {} /\ IsFiniteSet(p)
      /\ Cardinality(p) <= ThisPage /\ (Cardinality(p) = ThisPage \/ p = Window)
      /\ \A l \in p, k \in Window \ p : Key(l) <= Key(k)
      /\ ThisPage \in Nat \ {0} /\ (linesLeft > 0 => ThisPage <= linesLeft)
      /\ ThisPage # PageSize => ThisPage = linesLeft
  BY <1>0, <1>2, PageIs
<1>4. Window \subseteq Line /\ IsFiniteSet(Window) /\ \A l \in stored : l \in Window <=> Key(l) >= WinFront
  BY <1>0, WindowIs
<1>5. WinFront \in Int /\ \A l \in Line : Key(l) \in Int
  BY <1>0, KeyType
<1>6. Window \subseteq stored
  BY DEF Window
<1>7. now \subseteq p /\ IsFiniteSet(now)
  BY <1>1, <1>3, FS_Subset
<1>8. \A k : Key(k)' = Key(k)
  BY <1>2 DEF Key
<1>9. WinFront' = e + (IF OnlyEdge(p, e) THEN 1 ELSE 0)
  BY <1>1, <1>2 DEF WinFront
<1>10. \A l \in p : Key(l) \in Int /\ WinFront <= Key(l) /\ Key(l) <= e
  BY <1>1, <1>3, <1>4, <1>5, <1>6 DEF EdgeOf
<1>11. WinFront <= e /\ (\A l \in now : Key(l) < WinFront')
  BY <1>1, <1>3, <1>5, <1>7, <1>9, <1>10
<1>12. PageType'
  <2>1. shownLines' \in Seq(Line)
    BY <1>0, <1>1, ToSetOfConcat DEF PageType
  <2>2. Cardinality(now) \in Nat
    BY <1>7, FS_CardinalityType
  <2>3. linesLeft' \in Int
    BY <1>0, <1>1, <2>2 DEF PageType
  <2>4. winFrom' \in Int /\ winTo' \in Int /\ (forward => winTo' = LastStamp) /\ (~forward => winFrom' = 1)
    BY <1>0, <1>1 DEF PageType
  <2> QED
    BY <1>0, <1>2, <2>1, <2>3, <2>4 DEF PageType
<1>13. /\ Len(shownLines') = Len(shownLines) + Len(page) /\ Shown' = Shown \cup now
       /\ \A i \in 1..Len(shownLines) : shownLines'[i] = shownLines[i]
       /\ \A i \in (Len(shownLines) + 1)..(Len(shownLines) + Len(page)) : shownLines'[i] = page[i - Len(shownLines)]
       /\ Len(shownLines) \in Nat /\ Len(page) \in Nat /\ DOMAIN page = 1..Len(page)
  <2>1. shownLines \in Seq(Line)
    BY <1>0 DEF PageType
  <2>2. ToSet(shownLines') = ToSet(shownLines) \cup ToSet(page)
    BY <1>1, <2>1, ToSetOfConcat
  <2>3. Shown' = Shown \cup now
    BY <1>1, <2>2 DEF Shown
  <2>4. Len(shownLines) \in Nat /\ Len(page) \in Nat /\ DOMAIN page = 1..Len(page)
    BY <1>1, <2>1
  <2> QED
    BY <1>1, <2>1, <2>3, <2>4, ToSetOfConcat
<1>14. Shown \cap now = {} /\ Shown \subseteq Line
  <2>1. \A l \in Shown : Key(l) < WinFront
    BY <1>0 DEF ShownOnce
  <2>2. Shown \subseteq Line
    BY <1>0 DEF Shown, ToSet, PageType
  <2>3. \A l \in Shown : ~(WinFront <= Key(l))
    BY <1>5, <2>1, <2>2
  <2> QED
    BY <1>7, <1>10, <2>2, <2>3
<1>15. \A k \in Shown : Key(k) \in Int /\ Key(k) < WinFront
  BY <1>0, <1>5, <1>14 DEF ShownOnce
<1>16. ShownOnce'
  <2>1. IsFiniteSet(Shown') /\ Cardinality(Shown') = Cardinality(Shown) + Cardinality(now)
    <3>1. IsFiniteSet(Shown)
      BY <1>0 DEF ShownOnce
    <3>2. IsFiniteSet(Shown \cup now)
          /\ Cardinality(Shown \cup now) = Cardinality(Shown) + Cardinality(now) - Cardinality(Shown \cap now)
      BY <1>7, <3>1, FS_Union
    <3>3. Cardinality(Shown) \in Nat /\ Cardinality(now) \in Nat /\ Cardinality(Shown \cap now) = 0
      BY <1>7, <1>14, <3>1, FS_CardinalityType, FS_EmptySet
    <3> QED
      BY <1>13, <3>2, <3>3
  <2>2. Len(shownLines') = Cardinality(Shown')
    BY <1>0, <1>1, <1>13, <2>1 DEF ShownOnce
  <2>3. ASSUME NEW i \in 1..Len(shownLines'), NEW j \in 1..Len(shownLines'), i < j
        PROVE  Key(shownLines'[i]) <= Key(shownLines'[j])
    <3> DEFINE n == Len(shownLines)
    <3>1. n \in Nat /\ i \in 1..(n + Len(page)) /\ j \in 1..(n + Len(page))
      BY <1>13, <2>3
    <3>2. CASE j <= n
      <4>1. i \in 1..n /\ j \in 1..n
        BY <2>3, <3>1, <3>2
      <4> QED
        BY <1>0, <1>13, <2>3, <4>1 DEF ShownOnce
    <3>3. CASE i > n
      <4>1. i - n \in DOMAIN page /\ j - n \in DOMAIN page /\ i - n < j - n
            /\ i \in (n + 1)..(n + Len(page)) /\ j \in (n + 1)..(n + Len(page))
        BY <1>13, <2>3, <3>1, <3>3
      <4>2. shownLines'[i] = page[i - n] /\ shownLines'[j] = page[j - n]
        BY <1>13, <4>1
      <4> QED
        BY <1>1, <4>1, <4>2
    <3>4. CASE i <= n /\ j > n
      <4>1. i \in 1..n /\ j - n \in DOMAIN page /\ j \in (n + 1)..(n + Len(page))
        BY <1>13, <2>3, <3>1, <3>4
      <4>2. shownLines'[i] \in Shown
        <5>1. shownLines'[i] = shownLines[i] /\ i \in DOMAIN shownLines
          BY <1>0, <1>13, <4>1 DEF PageType
        <5> QED
          BY <5>1 DEF Shown, ToSet
      <4>3. shownLines'[j] \in now
        <5>1. shownLines'[j] = page[j - n]
          BY <1>13, <4>1
        <5> QED
          BY <1>1, <4>1, <5>1 DEF ToSet
      <4>4. Key(shownLines'[i]) < WinFront /\ WinFront <= Key(shownLines'[j])
            /\ Key(shownLines'[i]) \in Int /\ Key(shownLines'[j]) \in Int
        BY <1>7, <1>10, <1>15, <4>2, <4>3
      <4> QED
        BY <1>5, <4>4
    <3> QED
      BY <3>1, <3>2, <3>3, <3>4
  <2>4. ASSUME NEW l \in Shown' PROVE Key(l) < WinFront'
    <3>1. CASE l \in Shown
      <4>1. Key(l) \in Int /\ Key(l) < WinFront /\ WinFront <= WinFront'
        BY <1>5, <1>9, <1>11, <1>15, <3>1
      <4> QED
        BY <1>5, <1>9, <4>1
    <3>2. CASE l \in now
      BY <1>11, <3>2
    <3> QED
      BY <1>13, <2>4, <3>1, <3>2
  <2> QED
    BY <1>8, <2>1, <2>2, <2>3, <2>4 DEF ShownOnce
<1>17. Cardinality(now) \in Nat /\ Cardinality(now) <= Cardinality(p) /\ Cardinality(p) \in Nat
  BY <1>3, <1>7, FS_Subset, FS_CardinalityType
<1>18. Counted'
  <2>1. CASE limit = NoLimit
    BY <1>0, <1>1, <1>2, <1>17, <2>1 DEF Counted, PageType
  <2>2. CASE limit # NoLimit
    <3>1. linesLeft \in Int /\ linesLeft >= 0 /\ linesLeft + Len(shownLines) = limit
      BY <1>0, <2>2 DEF Counted, PageType
    <3>2. Cardinality(now) <= linesLeft
      BY <1>2, <1>3, <1>17, <3>1
    <3> QED
      BY <1>1, <1>2, <1>13, <1>17, <2>2, <3>1, <3>2 DEF Counted
  <2> QED
    BY <2>1, <2>2
<1>19. ASSUME NEW l \in storedAtStart \ Shown', Key(l) < WinFront' PROVE LeftOut(l)'
  <2>1. l \in stored /\ l \in Line /\ Key(l) \in Int /\ l \notin Shown
    BY <1>0, <1>5, <1>13 DEF PageType
  \* It was before the front already.
  <2>2. CASE Key(l) < WinFront
    <3>1. LeftOut(l)
      BY <1>0, <1>19, <2>1, <2>2 DEF NoneMissed
    <3>2. Crowded(l)
      BY <1>2, <3>1 DEF LeftOut
    <3>3. stored' \subseteq Line /\ stored \subseteq stored' /\ stamp' = stamp
      BY <1>0, <1>2 DEF PageType
    <3> QED
      BY <1>0, <3>2, <3>3, CrowdedStays DEF LeftOut
  \* It is of the page's one timestamp, and the page was full.
  <2>3. CASE Key(l) >= WinFront
    <3>1. l \in Window
      BY <1>4, <2>1, <2>3
    <3>2. l \notin p
      <4>1. CASE l \in p
        <5>1. OnlyEdge(p, e) => l \in now
          BY <1>1, <4>1
        <5>2. ~OnlyEdge(p, e) => Key(l) < e
          BY <1>9, <1>19
        <5> QED
          BY <1>1, <1>13, <1>19, <4>1, <5>1, <5>2
      <4> QED
        BY <4>1
    <3>3. PICK m \in p : Key(m) = e
      BY <1>1 DEF EdgeOf
    <3>4. e <= Key(l)
      BY <1>3, <3>1, <3>2, <3>3
    <3>5. OnlyEdge(p, e) /\ Key(l) = e /\ now = p
      BY <1>1, <1>9, <1>19, <2>1, <3>4
    <3>6. Cardinality(p) = ThisPage
      BY <1>3, <3>1, <3>2
    <3>7. CASE ThisPage = PageSize
      <4>1. \A k \in p : stamp[k] = stamp[l]
        <5>1. \A k \in p \cup {l} : stamp[k] \in Int
          BY <1>0, <1>1, <2>1, QueryAssumption DEF PageType
        <5> QED
          BY <3>5, <5>1 DEF OnlyEdge, Key
      <4>2. Crowded(l)
        BY <1>0, <1>3, <1>6, <2>1, <3>2, <3>6, <3>7, <4>1, CrowdedBy
      <4>3. stored' \subseteq Line /\ stored \subseteq stored' /\ stamp' = stamp
        BY <1>0, <1>2 DEF PageType
      <4> QED
        BY <1>0, <4>2, <4>3, CrowdedStays DEF LeftOut
    <3>8. CASE ThisPage # PageSize
      <4>1. linesLeft' = 0
        BY <1>0, <1>1, <1>3, <1>17, <3>5, <3>6, <3>8 DEF PageType
      <4>2. ASSUME NEW k \in Shown' PROVE Key(k) <= Key(l)
        <5>1. CASE k \in Shown
          BY <1>5, <1>15, <2>1, <2>3, <5>1
        <5>2. CASE k \in now
          BY <1>7, <1>10, <3>5, <5>2
        <5> QED
          BY <1>13, <5>1, <5>2
      <4> QED
        BY <1>8, <4>1, <4>2 DEF LeftOut
    <3> QED
      BY <3>7, <3>8
  <2> QED
    BY <1>5, <2>1, <2>2, <2>3
<1>20. NoneMissed'
  BY <1>2, <1>8, <1>19 DEF NoneMissed
<1> QED
  BY <1>12, <1>16, <1>18, <1>20 DEF PageInv

LEMMA PageStepInv ==
    ASSUME PageInv, QueryNext
    PROVE  PageInv'
<1>0. PageType /\ ShownOnce /\ Counted /\ NoneMissed
  BY DEF PageInv
\* Steps that read nothing, short of the end.
<1>1. ASSUME UNCHANGED <<storeVars, forward, limit, pageVars>>,
             qpc' = "done" => linesLeft = 0 \/ \A l \in storedAtStart : Key(l) < WinFront
      PROVE  PageInv'
  <2>1. UNCHANGED <<stamp, stored, storedAtStart, forward, limit, linesLeft, winFrom, winTo, shownLines>>
    BY <1>1 DEF storeVars, pageVars
  <2>2. Shown' = Shown /\ WinFront' = WinFront /\ \A l : Key(l)' = Key(l) /\ Crowded(l)' = Crowded(l)
    BY <2>1 DEF Shown, WinFront, Key, Crowded
  <2>3. PageType' /\ ShownOnce' /\ Counted'
    BY <1>0, <2>1, <2>2 DEF PageType, ShownOnce, Counted
  <2>4. NoneMissed'
    BY <1>0, <1>1, <2>1, <2>2 DEF NoneMissed, LeftOut
  <2> QED
    BY <2>3, <2>4 DEF PageInv
<1>2. CASE NextUsage \/ OwnConfigMap \/ HiveDeployment \/ OtherConfigMap \/ GetToken \/ ReadFails
  <2>1. UNCHANGED <<storeVars, forward, limit, pageVars>>
    BY <1>2 DEF NextUsage, OwnConfigMap, HiveDeployment, OtherConfigMap, GetToken, ReadFails, TrySource
  <2>2. qpc' # "done"
    BY <1>2 DEF NextUsage, OwnConfigMap, HiveDeployment, OtherConfigMap, GetToken, ReadFails, TrySource, QueryStep
  <2> QED
    BY <1>1, <2>1, <2>2
<1>3. CASE ReadPage
  BY <1>3, ReadPageInv
<1>4. CASE LastPage
  <2>1. UNCHANGED <<storeVars, forward, limit, pageVars>> /\ (linesLeft = 0 \/ Window = {})
    BY <1>4 DEF LastPage
  <2>2. ASSUME Window = {}, NEW l \in storedAtStart PROVE Key(l) < WinFront
    <3>1. l \in stored /\ Key(l) \in Int /\ WinFront \in Int
      BY <1>0, KeyType DEF PageType
    <3>2. ~(Key(l) >= WinFront)
      BY <1>0, <2>2, <3>1, WindowIs
    <3> QED
      BY <3>1, <3>2
  <2> QED
    BY <1>1, <2>1, <2>2
<1>5. CASE LineArrives
  <2>1. UNCHANGED <<stamp, storedAtStart, forward, limit, linesLeft, winFrom, winTo, shownLines, qpc>>
        /\ stored \subseteq stored' /\ stored' \subseteq Line
    BY <1>0, <1>5 DEF LineArrives, pageVars, PageType
  <2>2. Shown' = Shown /\ WinFront' = WinFront /\ \A l : Key(l)' = Key(l)
    BY <2>1 DEF Shown, WinFront, Key
  <2>3. PageType' /\ ShownOnce' /\ Counted'
    BY <1>0, <2>1, <2>2 DEF PageType, ShownOnce, Counted
  <2>4. \A l : LeftOut(l) => LeftOut(l)'
    BY <1>0, <2>1, LeftOutStays
  <2>5. NoneMissed'
    BY <1>0, <2>1, <2>2, <2>4 DEF NoneMissed
  <2> QED
    BY <2>3, <2>5 DEF PageInv
<1> QED
  BY <1>2, <1>3, <1>4, <1>5 DEF QueryNext, QueryRun

LEMMA PageInvComplete == PageInv => LogsAreComplete
<1> SUFFICES ASSUME PageInv PROVE LogsAreComplete
  OBVIOUS
<1>0. PageType /\ ShownOnce /\ Counted /\ NoneMissed
  BY DEF PageInv
<1>1. Shown \subseteq Line /\ \A l \in Line : Key(l) \in Int
  BY <1>0, KeyType DEF Shown, ToSet, PageType
<1>2. Len(shownLines) = Cardinality(Shown)
  BY <1>0 DEF ShownOnce
<1>3. ASSUME NEW i \in 1..Len(shownLines), NEW j \in 1..Len(shownLines), i < j
      PROVE  ~Sooner(shownLines[j], shownLines[i])
  <2>1. shownLines[i] \in Line /\ shownLines[j] \in Line
    BY <1>0 DEF PageType
  <2>2. Key(shownLines[i]) <= Key(shownLines[j])
    BY <1>0, <1>3 DEF ShownOnce
  <2> QED
    BY <1>0, <1>1, <2>1, <2>2, SoonerIsBefore
<1>4. ASSUME qpc = "done", NEW l \in storedAtStart \ Shown, ~Crowded(l)
      PROVE  limit # NoLimit /\ Len(shownLines) >= limit /\ \A k \in Shown : ~Sooner(l, k)
  <2>1. l \in Line
    BY <1>0 DEF PageType
  <2>2. linesLeft = 0 /\ \A k \in Shown : Key(k) <= Key(l)
    <3>1. CASE Key(l) < WinFront
      BY <1>0, <1>4, <3>1 DEF NoneMissed, LeftOut
    <3>2. CASE ~(Key(l) < WinFront)
      <4>1. linesLeft = 0
        BY <1>0, <1>4, <3>2 DEF NoneMissed
      <4>2. \A k \in Shown : Key(k) < WinFront
        BY <1>0 DEF ShownOnce
      <4>3. WinFront \in Int /\ Key(l) \in Int
        BY <1>0, <2>1, KeyType
      <4> QED
        BY <1>1, <3>2, <4>1, <4>2, <4>3
    <3> QED
      BY <3>1, <3>2
  <2>3. limit # NoLimit /\ Len(shownLines) >= limit
    BY <1>0, <2>2 DEF Counted, PageType
  <2>4. \A k \in Shown : ~Sooner(l, k)
    BY <1>0, <1>1, <2>1, <2>2, SoonerIsBefore
  <2> QED
    BY <2>3, <2>4
<1> QED
  BY <1>2, <1>3, <1>4 DEF LogsAreComplete

-----------------------------------------------------------------------------
(***************************************************************************)
(* CloudTrail: of a second that the file covers it has the events of every *)
(* region, but for what the run at hand has fetched of the first and not   *)
(* of the second; and what is missing and what is known make up the period.*)
(***************************************************************************)
Writing == {"read", "fetch", "save"}
Asked == requested[1]..requested[2]
RegionName == {"default", "cluster's"}

\* The run, and those before it, lost no page and were not killed between the regions.
Unbroken == "page failed" \notin disturbed /\ "killed between regions" \notin disturbed
Known(s) == \A i \in DOMAIN trailRegions : <<trailRegions[i], s>> \in cacheFile.events
Missing(s) == \E m \in missingPeriod : s \in m[1]..m[2]

TrailType ==
    /\ trailPc \in Writing \cup {"idle", "errors", "done", "failed"}
    /\ trailRegions \in Regions /\ regionsDone \in 0..Len(trailRegions)
    /\ requested \in Second \X Second /\ requested[1] <= requested[2]
    /\ cacheFile \in [covered : SUBSET Second, events : SUBSET (RegionName \X Second)]
    /\ cacheRead \in [covered : SUBSET Second, events : SUBSET (RegionName \X Second)]
    /\ torn \in BOOLEAN /\ fullOverlap \in BOOLEAN
    /\ missingPeriod \subseteq Second \X Second /\ toFetch \subseteq missingPeriod
    /\ newCovered \subseteq Second /\ newEvents \subseteq RegionName \X Second
    /\ disturbed \subseteq {"lone second", "page failed", "killed between regions"}

RunSteps ==
    /\ trailPc \in Writing \cup {"errors"} => regionsDone < Len(trailRegions)
    /\ trailPc = "done" => regionsDone = Len(trailRegions)
    /\ trailPc \in {"fetch", "save"} \/ (trailPc = "read" /\ regionsDone = 1) => torn = FALSE
    /\ trailPc \in {"fetch", "save"} => cacheRead = cacheFile
    /\ trailPc = "save" => toFetch = {}

FileKnows ==
    Unbroken => \A s \in cacheFile.covered : \A i \in DOMAIN trailRegions :
        \/ <<trailRegions[i], s>> \in cacheFile.events
        \/ i = 2 /\ regionsDone = 1 /\ trailPc \in Writing /\ Missing(s)

MissingIs ==
    /\ \A m \in missingPeriod : requested[1] <= m[1] /\ m[1] <= m[2] /\ m[2] <= requested[2]
    /\ \A m, x \in missingPeriod : m # x => ~Touch(m, x)
    /\ trailPc \in Writing => \A m, x \in missingPeriod : x[1] < m[1] =>
        m[1] - 1 \in cacheFile.covered /\ (Unbroken => Known(m[1] - 1))
    /\ trailPc \in Writing /\ Unbroken /\ "lone second" \notin disturbed /\ missingPeriod # {} =>
        \A s \in Asked : Missing(s) \/ Known(s)

FetchedSoFar ==
    /\ \A x \in missingPeriod, y \in toFetch : x[1] <= y[1] => x \in toFetch
    /\ trailPc = "fetch" /\ fullOverlap => toFetch = missingPeriod /\ missingPeriod # {} /\ (Unbroken => \A s \in Asked : Known(s))
    /\ trailPc = "fetch" /\ disturbed = {} => missingPeriod # {}
    /\ trailPc \in {"fetch", "save"} => \A s \in newCovered :
        \/ \E m \in missingPeriod \ toFetch : s \in m[1]..m[2]
        \/ s \in cacheFile.covered /\ (Unbroken => Known(s))
    /\ trailPc \in {"fetch", "save"} /\ Unbroken =>
        \A m \in missingPeriod \ toFetch : \A s \in m[1]..m[2] : <<Region, s>> \in newEvents

\* What the first region left to do the second does, or there is nothing to fetch.
NothingToFetch ==
    \A d \in DiffMultiple(requested, Periods(cacheFile.covered)) : d.full \/ d.missing = {}

SecondGoesByFirst ==
    /\ trailPc \in {"fetch", "save"} \/ (trailPc = "read" /\ regionsDone = 1) =>
        (missingPeriod = {} \/ (trailPc = "fetch" /\ fullOverlap) => NothingToFetch)
    /\ trailPc \in Writing /\ regionsDone = 1 /\ Unbroken =>
        \A m \in missingPeriod : \A s \in m[1]..m[2] : <<trailRegions[1], s>> \in cacheFile.events

Shows ==
    /\ printed \subseteq {<<trailRegions[i], s>> : i \in DOMAIN trailRegions, s \in Asked}
    /\ trailPc \in Writing \cup {"errors", "done"} /\ disturbed = {} =>
        \A i \in 1..regionsDone : \A s \in Asked : <<trailRegions[i], s>> \in printed
    /\ trailPc = "fetch" /\ disturbed = {} /\ ~fullOverlap /\ toFetch # missingPeriod =>
        \A s \in Asked : (\A x \in toFetch : x[2] < s) => <<Region, s>> \in printed
    /\ trailPc = "save" /\ disturbed = {} => \A s \in Asked : <<Region, s>> \in printed

TrailInv == TrailType /\ RunSteps /\ FileKnows /\ MissingIs /\ FetchedSoFar /\ SecondGoesByFirst /\ Shows

\* Two periods of the file neither overlap nor are adjacent.
LEMMA PeriodsApart ==
    ASSUME NEW C \in SUBSET Second, NEW p \in Periods(C), NEW q \in Periods(C), p # q
    PROVE  p[2] + 1 < q[1] \/ q[2] + 1 < p[1]
<1>1. p \in C \X C /\ p[1] <= p[2] /\ p[1]..p[2] \subseteq C /\ p[1] - 1 \notin C /\ p[2] + 1 \notin C
  BY DEF Periods
<1>2. q \in C \X C /\ q[1] <= q[2] /\ q[1]..q[2] \subseteq C /\ q[1] - 1 \notin C /\ q[2] + 1 \notin C
  BY DEF Periods
<1>3. C \subseteq Int
  BY TrailAssumption DEF Second
<1>4. p[1] \in Int /\ p[2] \in Int /\ q[1] \in Int /\ q[2] \in Int
  BY <1>1, <1>2, <1>3
<1> SUFFICES ASSUME p[2] + 1 >= q[1], q[2] + 1 >= p[1] PROVE FALSE
  BY <1>4
<1>5. p[1] = q[1]
  <2>1. ~(p[1] < q[1])
    <3>1. p[1] < q[1] => q[1] - 1 \in p[1]..p[2]
      BY <1>4
    <3> QED
      BY <1>1, <1>2, <3>1
  <2>2. ~(q[1] < p[1])
    <3>1. q[1] < p[1] => p[1] - 1 \in q[1]..q[2]
      BY <1>4
    <3> QED
      BY <1>1, <1>2, <3>1
  <2> QED
    BY <1>4, <2>1, <2>2
<1>6. p[2] = q[2]
  <2>1. ~(p[2] < q[2])
    <3>1. p[2] < q[2] => p[2] + 1 \in q[1]..q[2]
      BY <1>1, <1>4, <1>5
    <3> QED
      BY <1>1, <1>2, <3>1
  <2>2. ~(q[2] < p[2])
    <3>1. q[2] < p[2] => q[2] + 1 \in p[1]..p[2]
      BY <1>2, <1>4, <1>5
    <3> QED
      BY <1>1, <1>2, <3>1
  <2> QED
    BY <1>4, <2>1, <2>2
<1> QED
  BY <1>1, <1>2, <1>5, <1>6

LEMMA PeriodIs ==
    ASSUME NEW C \in SUBSET Second, NEW p \in Periods(C)
    PROVE  p \in Second \X Second /\ p[1] \in Nat /\ p[2] \in Nat /\ p[1] <= p[2] /\ p[1]..p[2] \subseteq C
<1>1. p \in C \X C /\ p[1] <= p[2] /\ p[1]..p[2] \subseteq C
  BY DEF Periods
<1>2. Second \subseteq Nat
  BY TrailAssumption DEF Second
<1>3. p[1] \in C /\ p[2] \in C /\ p \in Second \X Second
  BY <1>1
<1> QED
  BY <1>1, <1>2, <1>3

\* Where what is missing after a cached period ends.
EndAfter(p, req, cached) == Min({req[2]} \cup {q[1] - 1 : q \in {q \in cached : q[1] > p[2] /\ Touch(q, <<p[2] + 1, req[2]>>)}})

LEMMA EndAfterIs ==
    ASSUME NEW C \in SUBSET Second, NEW req \in Second \X Second, NEW p \in Periods(C), Touch(p, req)
    PROVE  LET e == EndAfter(p, req, Periods(C)) IN
           /\ e \in Nat /\ e <= req[2]
           /\ e = req[2] \/ \E q \in Periods(C) : q[1] > p[2] /\ e = q[1] - 1 /\ Touch(q, req)
           /\ \A q \in Periods(C) : q[1] > p[2] => e < q[1]
<1> DEFINE e == EndAfter(p, req, Periods(C))
           next == {q \in Periods(C) : q[1] > p[2] /\ Touch(q, <<p[2] + 1, req[2]>>)}
           ends == {req[2]} \cup {q[1] - 1 : q \in next}
<1>1. /\ req[1] \in Nat /\ req[2] \in Nat /\ p[1] \in Nat /\ p[2] \in Nat /\ p[1] <= p[2]
      /\ \A q \in Periods(C) : q[1] \in Nat /\ q[2] \in Nat /\ q[1] <= q[2]
  BY PeriodIs, TrailAssumption DEF Second
<1>2. ends \in SUBSET Nat /\ ends # {}
  <2>1. \A q \in next : q[1] - 1 \in Nat
    BY <1>1
  <2> QED
    BY <1>1, <2>1
<1>3. e = Min(ends)
  BY DEF EndAfter
<1>4. e \in ends /\ \A t \in ends : e <= t
  BY <1>2, <1>3, LeastOf DEF Min
<1>5. e \in Nat /\ e <= req[2]
  BY <1>1, <1>2, <1>4
<1>6. e = req[2] \/ \E q \in next : e = q[1] - 1
  BY <1>4
<1>7. \A q \in next : e <= q[1] - 1
  BY <1>4
<1> HIDE DEF e, ends
<1>8. \A q \in next : Touch(q, req)
  BY <1>1 DEF Touch
<1>9. ASSUME NEW q \in Periods(C), q[1] > p[2] PROVE e < q[1]
  <2>1. CASE q \in next
    BY <1>1, <1>5, <1>7, <2>1
  <2>2. CASE q \notin next
    <3>1. ~Touch(q, <<p[2] + 1, req[2]>>)
      BY <1>9, <2>2
    <3>2. req[2] + 1 < q[1]
      BY <1>1, <1>9, <3>1 DEF Touch
    <3> QED
      BY <1>1, <1>5, <3>2
  <2> QED
    BY <2>1, <2>2
<1>10. e = req[2] \/ \E q \in Periods(C) : q[1] > p[2] /\ e = q[1] - 1 /\ Touch(q, req)
  BY <1>6, <1>8
<1> QED
  BY <1>5, <1>9, <1>10 DEF e

\* What is missing of a request: nothing of what the file covers beside it, in periods
\* that are apart; all that it does not cover, unless a second on its own was left out.
MissingOf(req, C) == UNION {Diff(p, req, Periods(C)) : p \in {p \in Periods(C) : Touch(p, req)}}

LEMMA MissingOfIs ==
    ASSUME NEW C \in SUBSET Second, NEW req \in Second \X Second, NEW d
    PROVE  d \in MissingOf(req, C) <=> \E p \in Periods(C) :
             /\ Touch(p, req) /\ d[1] <= d[2]
             /\ d = <<req[1], p[1] - 1>> \/ d = <<p[2] + 1, EndAfter(p, req, Periods(C))>>
<1>1. \A p : Diff(p, req, Periods(C)) =
               {x \in {<<req[1], p[1] - 1>>, <<p[2] + 1, EndAfter(p, req, Periods(C))>>} : x[1] <= x[2]}
  BY DEF Diff, EndAfter
<1> QED
  BY <1>1 DEF MissingOf

LEMMA MissingLies ==
    ASSUME NEW C \in SUBSET Second, NEW req \in Second \X Second, NEW d \in MissingOf(req, C)
    PROVE  /\ d \in Second \X Second /\ d[1] \in Nat /\ d[2] \in Nat
           /\ req[1] <= d[1] /\ d[1] <= d[2] /\ d[2] <= req[2]
           /\ d[1] = req[1] \/ d[1] - 1 \in C
<1>1. PICK p \in Periods(C) :
        /\ Touch(p, req) /\ d[1] <= d[2]
        /\ d = <<req[1], p[1] - 1>> \/ d = <<p[2] + 1, EndAfter(p, req, Periods(C))>>
  BY MissingOfIs
<1>2. p[1] \in Nat /\ p[2] \in Nat /\ p[1] <= p[2] /\ p[2] \in C /\ req[1] \in Nat /\ req[2] \in Nat
  <2>1. p[2] \in p[1]..p[2]
    BY PeriodIs
  <2> QED
    BY <2>1, PeriodIs, TrailAssumption DEF Second
<1>3. req[1] <= p[2] + 1 /\ p[1] <= req[2] + 1
  BY <1>1, <1>2 DEF Touch
<1>4. CASE d = <<req[1], p[1] - 1>>
  BY <1>1, <1>2, <1>3, <1>4, TrailAssumption DEF Second
<1>5. CASE d = <<p[2] + 1, EndAfter(p, req, Periods(C))>>
  <2> DEFINE e == EndAfter(p, req, Periods(C))
  <2>1. e \in Nat /\ e <= req[2]
    BY <1>1, EndAfterIs
  <2>2. d = <<p[2] + 1, e>>
    BY <1>5
  <2> HIDE DEF e
  <2>3. d[1] = p[2] + 1 /\ d[2] = e
    BY <2>2
  <2>4. d \in Second \X Second
    BY <1>1, <1>2, <2>1, <2>2, TrailAssumption DEF Second
  <2> QED
    BY <1>1, <1>2, <1>3, <2>1, <2>3, <2>4
<1> QED
  BY <1>1, <1>4, <1>5

\* What is kept is apart.
LEMMA KeptApart ==
    ASSUME NEW all \in SUBSET (Nat \X Nat), NEW kept \in Kept(all), NEW m \in kept, NEW x \in kept, m # x
    PROVE  ~Touch(m, x)
<1>1. m \in all /\ x \in all
  BY DEF Kept
<1>2. m[1] \in Nat /\ m[2] \in Nat /\ x[1] \in Nat /\ x[2] \in Nat /\ (m[1] # x[1] \/ m[2] # x[2])
  BY <1>1
<1>3. FoundBefore(m, x) \/ FoundBefore(x, m)
  BY <1>2 DEF FoundBefore
<1>4. FoundBefore(x, m) => ~Touch(m, x)
  BY <1>1 DEF Kept
<1>5. FoundBefore(m, x) => ~Touch(x, m)
  BY <1>1 DEF Kept
<1> QED
  BY <1>3, <1>4, <1>5 DEF Touch

\* What is missing after a cached period is kept, unless it is one second.
LEMMA AfterIsKept ==
    ASSUME NEW C \in SUBSET Second, NEW req \in Second \X Second, NEW kept \in Kept(MissingOf(req, C)),
           NEW p \in Periods(C), Touch(p, req), p[2] + 1 < EndAfter(p, req, Periods(C))
    PROVE  <<p[2] + 1, EndAfter(p, req, Periods(C))>> \in kept
<1> DEFINE end(q) == EndAfter(q, req, Periods(C))
           m == <<p[2] + 1, end(p)>>
<1>1. /\ req[1] \in Nat /\ req[2] \in Nat
      /\ \A q \in Periods(C) : q[1] \in Nat /\ q[2] \in Nat /\ q[1] <= q[2]
  BY PeriodIs, TrailAssumption DEF Second
<1>2. \A q \in Periods(C) : Touch(q, req) => end(q) \in Nat /\ end(q) <= req[2]
  BY EndAfterIs
<1>3. \A q \in Periods(C) : Touch(q, req) => \A v \in Periods(C) : v[1] > q[2] => end(q) < v[1]
  BY EndAfterIs
<1>4. end(p) \in Nat /\ p[2] + 1 < end(p)
  BY <1>2
<1> HIDE DEF end
<1>5. m[1] = p[2] + 1 /\ m[2] = end(p) /\ m[1] # m[2]
  BY <1>1, <1>4
<1>6. m \in MissingOf(req, C)
  <2>1. m[1] <= m[2]
    BY <1>1, <1>4, <1>5
  <2> QED
    BY <2>1, MissingOfIs DEF end
<1>7. ASSUME NEW f \in kept, FoundBefore(f, m), Touch(m, f) PROVE FALSE
  <2>1. f \in MissingOf(req, C)
    BY DEF Kept
  <2>2. PICK q \in Periods(C) : Touch(q, req) /\ f[1] <= f[2] /\ (f = <<req[1], q[1] - 1>> \/ f = <<q[2] + 1, end(q)>>)
    BY <2>1, MissingOfIs DEF end
  <2>3. q[1] \in Nat /\ q[2] \in Nat /\ q[1] <= q[2] /\ end(q) \in Nat /\ p[1] \in Nat /\ p[2] \in Nat /\ p[1] <= p[2]
    BY <1>1, <1>2, <2>2
  <2>4. req[1] <= p[2] + 1
    BY <1>1, <2>3 DEF Touch
  <2>5. CASE f = <<req[1], q[1] - 1>>
    <3>1. f[1] = req[1] /\ f[2] = q[1] - 1
      BY <2>5
    <3>2. q[1] > p[2]
      BY <1>1, <1>5, <1>7, <2>3, <3>1 DEF Touch
    <3>3. end(p) < q[1]
      BY <1>3, <3>2
    <3> QED
      BY <1>1, <1>4, <1>5, <1>7, <2>3, <2>4, <3>1, <3>3 DEF FoundBefore
  <2>6. CASE f = <<q[2] + 1, end(q)>>
    <3>1. f[1] = q[2] + 1 /\ f[2] = end(q)
      BY <2>6
    <3>2. q[2] + 1 <= end(q) /\ (end(q) < end(p) \/ (end(q) = end(p) /\ q[2] > p[2])) /\ end(q) >= p[2]
      BY <1>1, <1>4, <1>5, <1>7, <2>2, <2>3, <3>1 DEF FoundBefore, Touch
    <3>3. p # q
      BY <2>3, <3>2
    <3>4. CASE p[2] + 1 < q[1]
      <4>1. end(p) < q[1]
        BY <1>3, <2>3, <3>4
      <4> QED
        BY <1>4, <2>3, <3>2, <4>1
    <3>5. CASE q[2] + 1 < p[1]
      <4>1. end(q) < p[1]
        BY <1>3, <2>2, <2>3, <3>5
      <4> QED
        BY <1>4, <2>3, <3>2, <4>1
    <3> QED
      BY <3>3, <3>4, <3>5, PeriodsApart
  <2> QED
    BY <2>2, <2>5, <2>6
<1>8. m \in kept
  BY <1>5, <1>6, <1>7 DEF Kept
<1> QED
  BY <1>8 DEF end

\* And what is missing before the first period beside the request that ends it.
LEMMA BeforeIsKept ==
    ASSUME NEW C \in SUBSET Second, NEW req \in Second \X Second, NEW kept \in Kept(MissingOf(req, C)),
           NEW p \in Periods(C), Touch(p, req), req[1] < p[1] - 1,
           \A q \in Periods(C) : Touch(q, req) => p[1] <= q[1]
    PROVE  <<req[1], p[1] - 1>> \in kept
<1> DEFINE end(q) == EndAfter(q, req, Periods(C))
           m == <<req[1], p[1] - 1>>
<1>1. /\ req[1] \in Nat /\ req[2] \in Nat
      /\ \A q \in Periods(C) : q[1] \in Nat /\ q[2] \in Nat /\ q[1] <= q[2]
  BY PeriodIs, TrailAssumption DEF Second
<1>2. m[1] = req[1] /\ m[2] = p[1] - 1 /\ m[1] # m[2] /\ m[1] <= m[2]
  BY <1>1
<1>3. m \in MissingOf(req, C)
  BY <1>2, MissingOfIs
<1>4. ASSUME NEW f \in kept, FoundBefore(f, m) PROVE FALSE
  <2>1. f \in MissingOf(req, C)
    BY DEF Kept
  <2>2. PICK q \in Periods(C) : Touch(q, req) /\ f[1] <= f[2] /\ (f = <<req[1], q[1] - 1>> \/ f = <<q[2] + 1, end(q)>>)
    BY <2>1, MissingOfIs
  <2>3. end(q) \in Nat
    BY <2>2, EndAfterIs
  <2> HIDE DEF end
  <2>4. q[1] \in Nat /\ q[2] \in Nat /\ q[1] <= q[2] /\ p[1] \in Nat /\ p[1] <= q[1]
    BY <1>1, <2>2
  <2>5. CASE f = <<req[1], q[1] - 1>>
    <3>1. f[1] = req[1] /\ f[2] = q[1] - 1
      BY <2>5
    <3> QED
      BY <1>1, <1>2, <1>4, <2>4, <3>1 DEF FoundBefore
  <2>6. CASE f = <<q[2] + 1, end(q)>>
    <3>1. f[1] = q[2] + 1 /\ f[2] = end(q)
      BY <2>6
    <3> QED
      BY <1>1, <1>2, <1>4, <2>2, <2>3, <2>4, <3>1 DEF FoundBefore
  <2> QED
    BY <2>2, <2>5, <2>6
<1> QED
  BY <1>2, <1>3, <1>4 DEF Kept

\* A second of the request that the file does not cover is kept, or left out alone.
LEMMA MissingFound ==
    ASSUME NEW C \in SUBSET Second, NEW req \in Second \X Second, NEW kept \in Kept(MissingOf(req, C)),
           NEW p0 \in Periods(C), Touch(p0, req),
           NEW s \in (req[1]..req[2]) \ C
    PROVE  \/ \E m \in kept : s \in m[1]..m[2]
           \/ \E m \in MissingOf(req, C) : m[1] = m[2] /\ m[1] = s
<1> DEFINE end(q) == EndAfter(q, req, Periods(C))
<1>1. /\ req[1] \in Nat /\ req[2] \in Nat /\ s \in Nat /\ req[1] <= s /\ s <= req[2]
      /\ \A q \in Periods(C) : q[1] \in Nat /\ q[2] \in Nat /\ q[1] <= q[2] /\ q[1] \in Second /\ q[2] \in Second
  BY PeriodIs, TrailAssumption DEF Second
<1>2. \A q \in Periods(C) : s < q[1] \/ q[2] < s
  <2> TAKE q \in Periods(C)
  <2>1. s \notin q[1]..q[2]
    BY PeriodIs
  <2> QED
    BY <1>1, <2>1
<1>3. CASE \E q \in Periods(C) : Touch(q, req) /\ q[2] < s
  <2> DEFINE T == {q[2] : q \in {q \in Periods(C) : Touch(q, req) /\ q[2] < s}}
  <2>1. T \in SUBSET (0..LastSecond) /\ T # {}
    BY <1>1, <1>3 DEF Second
  <2>2. PICK t \in T : \A v \in T : v <= t
    BY <2>1, GreatestOf, TrailAssumption
  <2>3. PICK p \in Periods(C) : Touch(p, req) /\ p[2] < s /\ p[2] = t
    BY <2>2
  <2>4. \A q \in Periods(C) : Touch(q, req) /\ q[2] < s => q[2] <= p[2]
    BY <2>2, <2>3
  <2> HIDE DEF T
  <2>5. end(p) \in Nat /\ (end(p) = req[2] \/ \E q \in Periods(C) : q[1] > p[2] /\ end(p) = q[1] - 1 /\ Touch(q, req))
    BY <2>3, EndAfterIs
  <2>6. p[2] + 1 <= s /\ p[1] \in Nat /\ p[2] \in Nat
    BY <1>1, <2>3
  <2>7. s <= end(p)
    <3>1. SUFFICES ASSUME NEW q \in Periods(C), q[1] > p[2], end(p) = q[1] - 1, Touch(q, req), q[1] <= s PROVE FALSE
      BY <1>1, <2>5
    <3>2. q[2] < s
      BY <1>1, <1>2, <3>1
    <3>3. q[2] <= p[2]
      BY <2>4, <3>1, <3>2
    <3> QED
      BY <1>1, <2>6, <3>1, <3>3
  <2>8. CASE p[2] + 1 < end(p)
    <3>1. <<p[2] + 1, end(p)>> \in kept
      BY <2>3, <2>8, AfterIsKept
    <3> HIDE DEF end
    <3> QED
      BY <1>1, <2>5, <2>6, <2>7, <3>1
  <2>9. CASE ~(p[2] + 1 < end(p))
    <3> DEFINE m == <<p[2] + 1, end(p)>>
    <3> HIDE DEF end
    <3>1. m[1] = m[2] /\ m[1] = s /\ m[1] <= m[2]
      BY <1>1, <2>5, <2>6, <2>7, <2>9
    <3>2. m \in MissingOf(req, C)
      BY <2>3, <3>1, MissingOfIs DEF end
    <3> QED
      BY <3>1, <3>2
  <2> QED
    BY <2>8, <2>9
<1>4. CASE \A q \in Periods(C) : Touch(q, req) => s < q[1]
  <2> DEFINE T == {q[1] : q \in {q \in Periods(C) : Touch(q, req)}}
  <2>1. T \in SUBSET Nat /\ T # {}
    BY <1>1
  <2>2. PICK t \in T : \A v \in T : t <= v
    BY <2>1, LeastOf
  <2>3. PICK p \in Periods(C) : Touch(p, req) /\ p[1] = t
    BY <2>2
  <2>4. \A q \in Periods(C) : Touch(q, req) => p[1] <= q[1]
    BY <2>2, <2>3
  <2> HIDE DEF T
  <2>5. p[1] \in Nat /\ s < p[1]
    BY <1>1, <1>4, <2>3
  <2>6. CASE req[1] < p[1] - 1
    <3>1. <<req[1], p[1] - 1>> \in kept
      BY <2>3, <2>4, <2>6, BeforeIsKept
    <3> QED
      BY <1>1, <2>5, <3>1
  <2>7. CASE ~(req[1] < p[1] - 1)
    <3> DEFINE m == <<req[1], p[1] - 1>>
    <3>1. m[1] = m[2] /\ m[1] = s /\ m[1] <= m[2]
      BY <1>1, <2>5, <2>7
    <3>2. m \in MissingOf(req, C)
      BY <2>3, <3>1, MissingOfIs
    <3> QED
      BY <3>1, <3>2
  <2> QED
    BY <2>6, <2>7
<1> QED
  BY <1>2, <1>3, <1>4

\* DiffMultiple, for any periods of the file and any request: what is missing are periods
\* of the request that are apart, of which all but the first begin where the file's end;
\* unless a second on its own was left out they are all that the file does not cover; and
\* a full overlap is one.
THEOREM DiffMultipleIs ==
    ASSUME NEW C \in SUBSET Second, NEW req \in Second \X Second, req[1] <= req[2],
           NEW d \in DiffMultiple(req, Periods(C))
    PROVE  /\ d.missing \subseteq Second \X Second
           /\ \A m \in d.missing : req[1] <= m[1] /\ m[1] <= m[2] /\ m[2] <= req[2]
           /\ \A m, x \in d.missing : m # x => ~Touch(m, x)
           /\ \A m, x \in d.missing : x[1] < m[1] => m[1] - 1 \in C
           /\ ~d.lone => d.missing # {} /\ \A s \in (req[1]..req[2]) \ C : \E m \in d.missing : s \in m[1]..m[2]
           /\ d.full \in BOOLEAN /\ d.lone \in BOOLEAN
           /\ d.full => d.missing = {req} /\ req[1]..req[2] \subseteq C
<1> DEFINE all == MissingOf(req, C)
<1>1. PICK kept \in Kept(all) :
        d = [missing |-> IF all = {} THEN {req} ELSE kept,
             full |-> \E p \in {p \in Periods(C) : Touch(p, req)} : Diff(p, req, Periods(C)) = {},
             lone |-> \E m \in all : m[1] = m[2] /\ m[1] \notin UNION {f[1]..f[2] : f \in kept}]
  BY DEF DiffMultiple, MissingOf
<1>2. /\ d.missing = IF all = {} THEN {req} ELSE kept
      /\ d.full = (\E p \in {p \in Periods(C) : Touch(p, req)} : Diff(p, req, Periods(C)) = {})
      /\ d.lone = (\E m \in all : m[1] = m[2] /\ m[1] \notin UNION {f[1]..f[2] : f \in kept})
  BY <1>1
<1>3. d.full \in BOOLEAN /\ d.lone \in BOOLEAN
  BY <1>2, Zenon
<1>4. /\ req[1] \in Nat /\ req[2] \in Nat
      /\ \A q \in Periods(C) : q[1] \in Nat /\ q[2] \in Nat /\ q[1] <= q[2]
  BY PeriodIs, TrailAssumption DEF Second
<1>5. kept \subseteq all
  BY DEF Kept
<1>6. \A m \in all : m \in Second \X Second /\ m \in Nat \X Nat /\ req[1] <= m[1] /\ m[1] <= m[2] /\ m[2] <= req[2]
  <2> TAKE m \in all
  <2>1. m \in Second \X Second /\ m[1] \in Nat /\ m[2] \in Nat /\ req[1] <= m[1] /\ m[1] <= m[2] /\ m[2] <= req[2]
    BY MissingLies
  <2>2. m \in Nat \X Nat
    BY <2>1
  <2> QED
    BY <2>1, <2>2
<1>7. \A m \in all : m[1] = req[1] \/ m[1] - 1 \in C
  BY MissingLies
<1> HIDE DEF all
<1>8. d.missing \subseteq Second \X Second /\ \A m \in d.missing : req[1] <= m[1] /\ m[1] <= m[2] /\ m[2] <= req[2]
  BY <1>2, <1>4, <1>5, <1>6
<1>9. \A m, x \in d.missing : m # x => ~Touch(m, x)
  <2>1. all \in SUBSET (Nat \X Nat)
    BY <1>6
  <2>2. \A m, x \in kept : m # x => ~Touch(m, x)
    BY <2>1, KeptApart
  <2> QED
    BY <1>2, <2>2
<1>10. \A m, x \in d.missing : x[1] < m[1] => m[1] - 1 \in C
  <2> SUFFICES ASSUME NEW m \in d.missing, NEW x \in d.missing, x[1] < m[1] PROVE m[1] - 1 \in C
    OBVIOUS
  <2>1. m # x
    <3>1. x[1] \in Int /\ m[1] \in Int
      BY <1>8, TrailAssumption DEF Second
    <3> QED
      BY <3>1
  <2>2. m \in all /\ x \in all
    BY <1>2, <1>5, <2>1
  <2>3. m[1] # req[1]
    <3>1. x[1] \in Nat /\ m[1] \in Nat /\ req[1] <= x[1]
      BY <1>6, <2>2
    <3> QED
      BY <1>4, <3>1
  <2> QED
    BY <1>7, <2>2, <2>3
<1>11. ASSUME ~d.lone PROVE d.missing # {}
  <2>1. SUFFICES ASSUME all # {}, kept = {} PROVE FALSE
    BY <1>2
  <2>2. PICK m \in all : TRUE
    BY <2>1
  <2>3. m[1] = m[2]
    <3>1. m \in kept <=> m[1] # m[2] /\ \A f \in kept : FoundBefore(f, m) => ~Touch(m, f)
      BY DEF Kept
    <3> QED
      BY <2>1, <3>1
  <2>4. m[1] \notin UNION {f[1]..f[2] : f \in kept}
    BY <2>1
  <2> QED
    BY <1>2, <1>11, <2>3, <2>4
<1>12. ASSUME ~d.lone, NEW s \in (req[1]..req[2]) \ C PROVE \E m \in d.missing : s \in m[1]..m[2]
  <2>1. CASE all = {}
    BY <1>2, <2>1
  <2>2. CASE all # {}
    <3>1. PICK m0 \in all : TRUE
      BY <2>2
    <3>2. PICK p0 \in Periods(C) : Touch(p0, req)
      BY <3>1, MissingOfIs DEF all
    <3>3. \/ \E m \in kept : s \in m[1]..m[2]
          \/ \E m \in all : m[1] = m[2] /\ m[1] = s
      BY <3>2, MissingFound DEF all
    <3>4. \A m \in all : m[1] = m[2] => m[1] \in UNION {f[1]..f[2] : f \in kept}
      BY <1>2, <1>12
    <3>5. \E m \in kept : s \in m[1]..m[2]
      BY <3>3, <3>4
    <3> QED
      BY <1>2, <2>2, <3>5
  <2> QED
    BY <2>1, <2>2
<1>13. ASSUME d.full PROVE d.missing = {req} /\ req[1]..req[2] \subseteq C
  <2>1. PICK p \in Periods(C) : Touch(p, req) /\ Diff(p, req, Periods(C)) = {}
    BY <1>2, <1>13
  <2> DEFINE e == EndAfter(p, req, Periods(C))
  <2>2. \A x \in {<<req[1], p[1] - 1>>, <<p[2] + 1, e>>} : ~(x[1] <= x[2])
    BY <2>1 DEF Diff, EndAfter
  <2>3. e \in Nat /\ (e = req[2] \/ \E q \in Periods(C) : q[1] > p[2] /\ e = q[1] - 1)
    BY <2>1, EndAfterIs
  <2> HIDE DEF e
  <2>4. p[1] <= req[1]
    BY <1>4, <2>2
  <2>5. e < p[2] + 1
    BY <1>4, <2>2, <2>3
  <2>6. e = req[2]
    <3>1. SUFFICES ASSUME NEW q \in Periods(C), q[1] > p[2], e = q[1] - 1 PROVE FALSE
      BY <2>3
    <3>2. p # q
      BY <1>4, <3>1
    <3>3. p[2] + 1 < q[1] \/ q[2] + 1 < p[1]
      BY <3>2, PeriodsApart
    <3> QED
      BY <1>4, <2>5, <3>1, <3>3
  <2>7. req[2] <= p[2]
    BY <1>4, <2>5, <2>6
  <2>8. req[1]..req[2] \subseteq C
    <3>1. p[1]..p[2] \subseteq C
      BY PeriodIs
    <3>2. req[1]..req[2] \subseteq p[1]..p[2]
      BY <1>4, <2>4, <2>7
    <3> QED
      BY <3>1, <3>2
  <2>9. \A q \in Periods(C) : Touch(q, req) => q = p
    <3> SUFFICES ASSUME NEW q \in Periods(C), Touch(q, req), q # p PROVE FALSE
      OBVIOUS
    <3>1. p[2] + 1 < q[1] \/ q[2] + 1 < p[1]
      BY PeriodsApart
    <3> QED
      BY <1>4, <2>4, <2>7, <3>1 DEF Touch
  <2>10. all = {}
    BY <2>1, <2>9 DEF all, MissingOf
  <2> QED
    BY <1>2, <2>8, <2>10
<1> QED
  BY <1>3, <1>8, <1>9, <1>10, <1>11, <1>12, <1>13


\* Whichever periods are kept, there is something to fetch or there is nothing.
LEMMA NothingEither ==
    ASSUME NEW C \in SUBSET Second, NEW req \in Second \X Second,
           NEW d \in DiffMultiple(req, Periods(C)), d.full \/ d.missing = {},
           NEW c \in DiffMultiple(req, Periods(C))
    PROVE  c.full \/ c.missing = {}
<1> DEFINE all == MissingOf(req, C)
           whole == \E p \in {p \in Periods(C) : Touch(p, req)} : Diff(p, req, Periods(C)) = {}
<1>1. PICK kept \in Kept(all) :
        d = [missing |-> IF all = {} THEN {req} ELSE kept, full |-> whole,
             lone |-> \E m \in all : m[1] = m[2] /\ m[1] \notin UNION {f[1]..f[2] : f \in kept}]
  BY DEF DiffMultiple, MissingOf
<1>2. PICK left \in Kept(all) :
        c = [missing |-> IF all = {} THEN {req} ELSE left, full |-> whole,
             lone |-> \E m \in all : m[1] = m[2] /\ m[1] \notin UNION {f[1]..f[2] : f \in left}]
  BY DEF DiffMultiple, MissingOf
<1> HIDE DEF all, whole
<1>a. d.missing = (IF all = {} THEN {req} ELSE kept) /\ d.full = whole
  BY <1>1
<1>b. c.missing = (IF all = {} THEN {req} ELSE left) /\ c.full = whole
  BY <1>2
<1>3. CASE d.full
  BY <1>a, <1>b, <1>3
<1>4. CASE d.missing = {}
  <2>1. kept = {} /\ all # {}
    BY <1>a, <1>4
  <2>2. \A m \in all : m[1] = m[2]
    BY <2>1 DEF Kept
  <2>3. left = {}
    BY <2>2 DEF Kept
  <2> QED
    BY <1>b, <2>1, <2>3
<1> QED
  BY <1>3, <1>4

LEMMA RegionsAre ==
    ASSUME trailRegions \in Regions
    PROVE  /\ Len(trailRegions) \in {1, 2} /\ DOMAIN trailRegions = 1..Len(trailRegions)
           /\ \A i \in DOMAIN trailRegions : trailRegions[i] \in RegionName
<1>1. CASE trailRegions = <<"default">>
  <2>1. Len(trailRegions) = 1 /\ DOMAIN trailRegions = 1..1 /\ trailRegions[1] \in RegionName
    BY <1>1 DEF RegionName
  <2>2. \A i \in 1..1 : i = 1
    OBVIOUS
  <2> QED
    BY <2>1, <2>2
<1>2. CASE trailRegions = <<"cluster's", "default">>
  <2>1. Len(trailRegions) = 2 /\ DOMAIN trailRegions = 1..2 /\ trailRegions[1] \in RegionName /\ trailRegions[2] \in RegionName
    BY <1>2 DEF RegionName
  <2>2. \A i \in 1..2 : i = 1 \/ i = 2
    OBVIOUS
  <2> QED
    BY <2>1, <2>2
<1> QED
  BY <1>1, <1>2 DEF Regions

LEMMA RequestIs ==
    ASSUME TrailType
    PROVE  /\ Second \subseteq Nat /\ requested[1] \in Second /\ requested[2] \in Second
           /\ requested[1] \in Nat /\ requested[2] \in Nat /\ requested[1] <= requested[2]
           /\ Asked \subseteq Second /\ \A s \in Asked : s \in Nat
           /\ \A m \in missingPeriod : m[1] \in Nat /\ m[2] \in Nat
<1>1. Second \subseteq Nat
  BY TrailAssumption DEF Second
<1>2. requested[1] \in Second /\ requested[2] \in Second /\ requested[1] <= requested[2]
  BY DEF TrailType
<1>3. \A m \in missingPeriod : m[1] \in Second /\ m[2] \in Second
  BY DEF TrailType
<1>4. requested[1]..requested[2] \subseteq Second
  BY <1>2, TrailAssumption DEF Second
<1> QED
  BY <1>1, <1>2, <1>3, <1>4 DEF Asked

LEMMA TrailBegin == TrailInit => TrailInv
<1> SUFFICES ASSUME TrailInit PROVE TrailInv
  OBVIOUS
<1> USE DEF TrailInit
<1>1. TrailType
  <2>1. 0 \in Second
    BY TrailAssumption DEF Second
  <2>2. 0 \in 0..Len(trailRegions)
    <3>1. Len(trailRegions) \in {1, 2}
      BY RegionsAre
    <3> QED
      BY <3>1
  <2> QED
    <3>1. requested \in Second \X Second /\ requested[1] <= requested[2]
      BY <2>1, TrailAssumption DEF Second
    <3>2. torn \in BOOLEAN /\ fullOverlap \in BOOLEAN
      OBVIOUS
    <3>3. /\ cacheFile \in [covered : SUBSET Second, events : SUBSET (RegionName \X Second)]
          /\ cacheRead \in [covered : SUBSET Second, events : SUBSET (RegionName \X Second)]
      OBVIOUS
    <3> QED
      BY <2>2, <3>1, <3>2, <3>3 DEF TrailType, Writing
<1>2. RunSteps /\ FileKnows /\ MissingIs /\ FetchedSoFar /\ SecondGoesByFirst /\ Shows
  BY RegionsAre DEF RunSteps, FileKnows, MissingIs, FetchedSoFar, SecondGoesByFirst, Shows, Writing
<1> QED
  BY <1>1, <1>2 DEF TrailInv

LEMMA TrailBeginsInv == ASSUME TrailInv, WriteEvents \/ ErrorEvents PROVE TrailInv'
<1>1. /\ trailPc \in {"idle", "done", "failed"} /\ trailPc' \in {"read", "errors"}
      /\ requested' \in Second \X Second /\ requested'[1] <= requested'[2]
      /\ regionsDone' = 0 /\ missingPeriod' = {} /\ toFetch' = {} /\ newCovered' = {} /\ newEvents' = {}
      /\ fullOverlap' = FALSE /\ printed' = {} /\ disturbed' = disturbed \ {"lone second"}
      /\ cacheRead' = [covered |-> {}, events |-> {}] /\ UNCHANGED <<trailRegions, cacheFile, torn>>
  BY DEF WriteEvents, ErrorEvents, TrailBegins, cacheState
<1>a. TrailType
  BY DEF TrailInv
<1>2. 0 \in 0..Len(trailRegions) /\ 0 < Len(trailRegions)
  <2>1. Len(trailRegions) \in {1, 2}
    BY <1>a, RegionsAre DEF TrailType
  <2> QED
    BY <2>1
<1>3. TrailType'
  <2>1. disturbed' \subseteq {"lone second", "page failed", "killed between regions"}
    BY <1>1, <1>a DEF TrailType
  <2> QED
    BY <1>1, <1>2, <1>a, <2>1 DEF TrailType, Writing
<1>4. RunSteps'
  <2>1. trailPc' \notin {"done", "fetch", "save"}
    BY <1>1
  <2>2. regionsDone' = 0 /\ trailRegions' = trailRegions
    BY <1>1
  <2>3. regionsDone' < Len(trailRegions') /\ regionsDone' # 1
    BY <1>2, <2>2
  <2> QED
    BY <2>1, <2>3 DEF RunSteps
<1>5. FileKnows'
  BY <1>1 DEF TrailInv, FileKnows, Unbroken, Writing
<1>6. MissingIs' /\ FetchedSoFar'
  BY <1>1 DEF MissingIs, FetchedSoFar
<1>7. Shows'
  <2>1. regionsDone' = 0
    BY <1>1
  <2>2. \A i \in 1..0 : FALSE
    OBVIOUS
  <2>3. trailPc' # "fetch" /\ trailPc' # "save"
    BY <1>1
  <2>4. printed' = {}
    BY <1>1
  <2> QED
    BY <2>1, <2>2, <2>3, <2>4 DEF Shows
<1>8. SecondGoesByFirst'
  <2>1. trailPc' \notin {"fetch", "save"}
    BY <1>1
  <2>2. regionsDone' = 0
    BY <1>1
  <2>3. regionsDone' # 1
    BY <2>2
  <2> QED
    BY <2>1, <2>3 DEF SecondGoesByFirst
<1> QED
  BY <1>3, <1>4, <1>5, <1>6, <1>7, <1>8 DEF TrailInv

LEMMA ReadCacheInv == ASSUME TrailInv, ReadCache PROVE TrailInv'
<1>1. /\ trailPc = "read" /\ torn = FALSE /\ trailPc' = "fetch" /\ cacheRead' = cacheFile
      /\ toFetch' = missingPeriod' /\ newCovered' = {} /\ newEvents' = {}
      /\ UNCHANGED <<trailRegions, regionsDone, cacheFile, torn, requested, printed>>
  BY DEF ReadCache, cacheState
<1>a. TrailType /\ RunSteps /\ FileKnows /\ MissingIs /\ SecondGoesByFirst /\ Shows
  BY DEF TrailInv
<1>b. Region' = Region /\ Asked' = Asked /\ \A s : Known(s)' = Known(s)
  BY <1>1 DEF Region, Asked, Known
<1>c. cacheFile.covered \in SUBSET Second /\ Asked = requested[1]..requested[2]
  BY <1>a DEF TrailType, Asked
<1>2. CASE missingPeriod = {}
  <2>1. PICK d \in DiffMultiple(requested, Periods(cacheFile.covered)) :
          /\ missingPeriod' = d.missing /\ fullOverlap' = d.full
          /\ disturbed' = IF d.lone THEN disturbed \cup {"lone second"} ELSE disturbed
    BY <1>2 DEF ReadCache
  <2>2. /\ d.missing \subseteq Second \X Second
        /\ \A m \in d.missing : requested[1] <= m[1] /\ m[1] <= m[2] /\ m[2] <= requested[2]
        /\ \A m, x \in d.missing : m # x => ~Touch(m, x)
        /\ \A m, x \in d.missing : x[1] < m[1] => m[1] - 1 \in cacheFile.covered
        /\ ~d.lone => d.missing # {} /\ \A s \in Asked \ cacheFile.covered : \E m \in d.missing : s \in m[1]..m[2]
        /\ d.full \in BOOLEAN /\ d.lone \in BOOLEAN
        /\ d.full => d.missing = {requested} /\ Asked \subseteq cacheFile.covered
    BY <1>a, <1>c, DiffMultipleIs DEF TrailType
  <2>3. Unbroken => \A s \in cacheFile.covered : Known(s)
    BY <1>a, <1>2 DEF FileKnows, Known, Missing
  <2>4. Unbroken' = Unbroken /\ (disturbed' = {} => ~d.lone /\ disturbed = {}) /\ ("lone second" \notin disturbed' => ~d.lone)
    BY <2>1 DEF Unbroken
  <2>5. TrailType'
    <3>1. disturbed' \subseteq {"lone second", "page failed", "killed between regions"}
      BY <1>a, <2>1 DEF TrailType
    <3>2. fullOverlap' \in BOOLEAN
      BY <2>1, <2>2, Zenon
    <3> QED
      BY <1>1, <1>a, <2>1, <2>2, <3>1, <3>2 DEF TrailType, Writing
  <2>6. RunSteps'
    BY <1>1, <1>a DEF RunSteps, Writing
  <2>7. FileKnows'
    BY <1>1, <1>b, <2>3, <2>4 DEF FileKnows, Known
  <2>8. MissingIs'
    <3>1. \A m \in missingPeriod' : requested'[1] <= m[1] /\ m[1] <= m[2] /\ m[2] <= requested'[2]
      BY <1>1, <2>1, <2>2
    <3>2. \A m, x \in missingPeriod' : m # x => ~Touch(m, x)
      BY <2>1, <2>2
    <3>3. \A m, x \in missingPeriod' : x[1] < m[1] => m[1] - 1 \in cacheFile'.covered /\ (Unbroken' => Known(m[1] - 1)')
      <4> SUFFICES ASSUME NEW m \in missingPeriod', NEW x \in missingPeriod', x[1] < m[1]
                   PROVE  m[1] - 1 \in cacheFile.covered /\ (Unbroken => Known(m[1] - 1))
        BY <1>1, <1>b, <2>4 DEF Known
      <4>1. m[1] - 1 \in cacheFile.covered
        BY <2>1, <2>2
      <4> QED
        BY <2>3, <4>1
    <3>4. ASSUME Unbroken', "lone second" \notin disturbed', NEW s \in Asked' PROVE Missing(s)' \/ Known(s)'
      <4>1. Unbroken /\ ~d.lone /\ s \in Asked
        BY <1>b, <2>4, <3>4
      <4>2. CASE s \in cacheFile.covered
        BY <1>b, <2>3, <4>1, <4>2
      <4>3. CASE s \notin cacheFile.covered
        <5>1. PICK m \in d.missing : s \in m[1]..m[2]
          BY <2>2, <4>1, <4>3
        <5> QED
          BY <2>1, <5>1 DEF Missing
      <4> QED
        BY <4>2, <4>3
    <3> QED
      BY <3>1, <3>2, <3>3, <3>4 DEF MissingIs
  <2>9. FetchedSoFar'
    <3>1. fullOverlap' => missingPeriod' # {} /\ (Unbroken' => \A s \in Asked' : Known(s)')
      BY <1>b, <2>1, <2>2, <2>3, <2>4
    <3>2. disturbed' = {} => missingPeriod' # {}
      BY <2>1, <2>2, <2>4
    <3> QED
      BY <1>1, <3>1, <3>2 DEF FetchedSoFar
  <2>10. Shows'
    <3>1. toFetch' = missingPeriod' /\ trailPc' = "fetch"
      BY <1>1
    <3>2. printed' \subseteq {<<trailRegions[i], s>> : i \in DOMAIN trailRegions, s \in Asked}
      BY <1>1, <1>a DEF Shows
    <3>3. disturbed' = {} => \A i \in 1..regionsDone : \A s \in Asked : <<trailRegions[i], s>> \in printed'
      BY <1>1, <1>a, <2>4 DEF Shows, Writing
    <3> QED
      BY <1>1, <1>b, <3>1, <3>2, <3>3 DEF Shows
  <2>11. SecondGoesByFirst'
    <3>1. ASSUME missingPeriod' = {} \/ fullOverlap' PROVE NothingToFetch'
      <4>1. d.full \/ d.missing = {}
        BY <2>1, <3>1
      <4>2. \A c \in DiffMultiple(requested, Periods(cacheFile.covered)) : c.full \/ c.missing = {}
        BY <1>a, <1>c, <4>1, NothingEither DEF TrailType
      <4> QED
        BY <1>1, <4>2 DEF NothingToFetch
    <3>2. ASSUME regionsDone = 1, Unbroken, NEW m \in d.missing, NEW s \in m[1]..m[2]
          PROVE  <<trailRegions[1], s>> \in cacheFile.events
      <4>1. d.full \/ d.missing = {}
        BY <1>1, <1>2, <1>a, <3>2 DEF SecondGoesByFirst, NothingToFetch
      <4>2. m = requested /\ Asked \subseteq cacheFile.covered
        BY <2>2, <4>1, <3>2
      <4>3. Known(s)
        BY <1>c, <2>3, <3>2, <4>2
      <4>4. 1 \in DOMAIN trailRegions
        <5>1. Len(trailRegions) \in {1, 2} /\ DOMAIN trailRegions = 1..Len(trailRegions)
          BY <1>a, RegionsAre DEF TrailType
        <5> QED
          BY <5>1
      <4> QED
        BY <4>3, <4>4 DEF Known
    <3> QED
      BY <1>1, <2>1, <2>4, <3>1, <3>2 DEF SecondGoesByFirst
  <2> QED
    BY <2>5, <2>6, <2>7, <2>8, <2>9, <2>10, <2>11 DEF TrailInv
<1>3. CASE missingPeriod # {}
  <2>1. fullOverlap' = FALSE /\ UNCHANGED <<missingPeriod, disturbed>>
    BY <1>3 DEF ReadCache
  <2>2. Unbroken' = Unbroken /\ \A s : Missing(s)' = Missing(s)
    BY <2>1 DEF Unbroken, Missing
  <2>3. TrailType'
    BY <1>1, <1>a, <2>1 DEF TrailType, Writing
  <2>4. RunSteps'
    BY <1>1, <1>a DEF RunSteps, Writing
  <2>5. FileKnows'
    BY <1>1, <1>a, <2>2 DEF FileKnows, Writing
  <2>6. MissingIs'
    BY <1>1, <1>a, <1>b, <2>1, <2>2 DEF MissingIs, Known, Writing
  <2>7. FetchedSoFar'
    BY <1>1, <1>3, <2>1 DEF FetchedSoFar
  <2>8. Shows'
    BY <1>1, <1>a, <1>b, <2>1 DEF Shows, Writing
  <2>9. SecondGoesByFirst'
    BY <1>1, <1>3, <1>a, <2>1, <2>2 DEF SecondGoesByFirst, Writing
  <2> QED
    BY <2>3, <2>4, <2>5, <2>6, <2>7, <2>8, <2>9 DEF TrailInv
<1> QED
  BY <1>2, <1>3

LEMMA ReadFailureInv == ASSUME TrailInv, ReadFailure PROVE TrailInv'
<1>1. /\ trailPc = "read" /\ torn /\ trailPc' = "failed"
      /\ UNCHANGED <<trailRegions, regionsDone, cacheFile, torn, requested, cacheRead, missingPeriod, toFetch,
                     fullOverlap, newCovered, newEvents, printed, disturbed>>
  BY DEF ReadFailure, cacheState, trailRun
<1>a. TrailType /\ RunSteps /\ FileKnows /\ MissingIs /\ FetchedSoFar /\ Shows
  BY DEF TrailInv
<1>2. regionsDone # 1
  BY <1>1, <1>a DEF RunSteps
<1>3. TrailType' /\ RunSteps'
  BY <1>1, <1>a DEF TrailType, RunSteps, Writing
<1>4. FileKnows'
  BY <1>1, <1>2, <1>a DEF FileKnows, Unbroken
<1>5. MissingIs'
  BY <1>1, <1>a DEF MissingIs, Writing
<1>6. FetchedSoFar'
  BY <1>1, <1>a DEF FetchedSoFar
<1>7. Shows'
  BY <1>1, <1>a DEF Shows, Writing, Asked
<1>8. SecondGoesByFirst'
  BY <1>1 DEF SecondGoesByFirst, Writing
<1> QED
  BY <1>3, <1>4, <1>5, <1>6, <1>7, <1>8 DEF TrailInv

\* What a run takes from the file is of its region and its period.
LEMMA BetweenIs ==
    ASSUME TrailType, regionsDone < Len(trailRegions), NEW a \in Int, NEW b \in Int
    PROVE  /\ Between(a, b) \subseteq {<<Region, s>> : s \in Asked}
           /\ \A s \in Asked : a <= s /\ s <= b /\ <<Region, s>> \in cacheRead.events => <<Region, s>> \in Between(a, b)
           /\ {<<Region, s>> : s \in Asked} \subseteq {<<trailRegions[i], s>> : i \in DOMAIN trailRegions, s \in Asked}
           /\ regionsDone + 1 \in DOMAIN trailRegions /\ Region \in RegionName /\ Asked \subseteq Second
<1>1. regionsDone + 1 \in DOMAIN trailRegions /\ Region \in RegionName
  <2>1. /\ Len(trailRegions) \in {1, 2} /\ DOMAIN trailRegions = 1..Len(trailRegions)
        /\ \A i \in DOMAIN trailRegions : trailRegions[i] \in RegionName
    BY RegionsAre DEF TrailType
  <2>2. Len(trailRegions) \in Nat
    BY <2>1
  <2>3. regionsDone \in 0..Len(trailRegions)
    BY DEF TrailType
  <2>4. regionsDone + 1 \in 1..Len(trailRegions)
    BY <2>2, <2>3
  <2> QED
    BY <2>1, <2>4 DEF Region
<1>2. Asked \subseteq Second
  BY RequestIs
<1>3. ASSUME NEW e \in Between(a, b) PROVE e \in {<<Region, s>> : s \in Asked}
  <2>1. e \in RegionName \X Second /\ e[1] = Region /\ e[2] \in Asked
    BY DEF Between, TrailType, Asked
  <2>2. e = <<Region, e[2]>>
    BY <2>1
  <2> QED
    BY <2>1, <2>2
<1>4. ASSUME NEW s \in Asked, a <= s, s <= b, <<Region, s>> \in cacheRead.events PROVE <<Region, s>> \in Between(a, b)
  <2>1. s \in Int
    BY <1>2, TrailAssumption DEF Second
  <2>2. s \in (requested[1]..requested[2]) \cap (a..b)
    BY <1>4, <2>1 DEF Asked
  <2> QED
    BY <1>4, <2>2 DEF Between
<1> QED
  BY <1>1, <1>2, <1>3, <1>4 DEF Region

LEMMA FromCacheInv == ASSUME TrailInv, FromCache PROVE TrailInv'
<1>1. /\ trailPc = "fetch" /\ fullOverlap /\ toFetch # {} /\ trailPc' = "save"
      /\ printed' = printed \cup Between(requested[1], requested[2])
      /\ missingPeriod' = {} /\ toFetch' = {}
      /\ UNCHANGED <<trailRegions, regionsDone, cacheFile, torn, requested, cacheRead, fullOverlap,
                     newCovered, newEvents, disturbed>>
  BY DEF FromCache, cacheState
<1>a. TrailType /\ RunSteps /\ FileKnows /\ MissingIs /\ FetchedSoFar /\ Shows
  BY DEF TrailInv
<1>b. Region' = Region /\ Asked' = Asked /\ Unbroken' = Unbroken /\ \A s : Known(s)' = Known(s)
  BY <1>1 DEF Region, Asked, Known, Unbroken
<1>2. cacheRead = cacheFile /\ regionsDone < Len(trailRegions) /\ toFetch = missingPeriod
  BY <1>1, <1>a DEF RunSteps, FetchedSoFar, Writing
<1>c. requested[1] \in Int /\ requested[2] \in Int
  BY <1>a, RequestIs
<1>3. Unbroken => \A s \in Asked : Known(s)
  BY <1>1, <1>a DEF FetchedSoFar
<1>4. TrailType'
  BY <1>1, <1>a DEF TrailType, Writing
<1>5. RunSteps'
  BY <1>1, <1>a DEF RunSteps, Writing
<1>6. FileKnows'
  <2>1. Unbroken => \A s \in cacheFile.covered : Known(s)
    <3> SUFFICES ASSUME Unbroken, NEW s \in cacheFile.covered, NEW i \in DOMAIN trailRegions,
                        ~(<<trailRegions[i], s>> \in cacheFile.events)
                 PROVE  FALSE
      BY DEF Known
    <3>1. PICK m \in missingPeriod : s \in m[1]..m[2]
      BY <1>a DEF FileKnows, Missing
    <3>2. s \in Asked
      <4>1. requested[1] <= m[1] /\ m[1] <= m[2] /\ m[2] <= requested[2] /\ m[1] \in Int /\ m[2] \in Int
        <5>1. requested[1] <= m[1] /\ m[1] <= m[2] /\ m[2] <= requested[2]
          BY <1>a DEF MissingIs
        <5> QED
          BY <1>a, <5>1, RequestIs
      <4> QED
        BY <1>c, <3>1, <4>1 DEF Asked
    <3> QED
      BY <1>3, <3>2 DEF Known
  <2> QED
    BY <1>1, <1>b, <2>1 DEF FileKnows, Known
<1>7. MissingIs'
  BY <1>1 DEF MissingIs
<1>8. FetchedSoFar'
  BY <1>1, <1>2, <1>a, <1>b DEF FetchedSoFar, Known
<1>9. Shows'
  <2>1. Between(requested[1], requested[2]) \subseteq {<<trailRegions[i], s>> : i \in DOMAIN trailRegions, s \in Asked}
    BY <1>2, <1>a, <1>c, BetweenIs
  <2>2. disturbed = {} => \A s \in Asked : <<Region, s>> \in printed'
    <3> SUFFICES ASSUME disturbed = {}, NEW s \in Asked PROVE <<Region, s>> \in Between(requested[1], requested[2])
      BY <1>1
    <3>1. Known(s) /\ regionsDone + 1 \in DOMAIN trailRegions
      BY <1>2, <1>3, <1>a, <1>c, BetweenIs DEF Unbroken
    <3>2. <<Region, s>> \in cacheRead.events
      BY <1>2, <3>1 DEF Known, Region
    <3>3. requested[1] <= s /\ s <= requested[2]
      BY <1>c DEF Asked
    <3> QED
      BY <1>2, <1>a, <1>c, <3>2, <3>3, BetweenIs
  <2>3. printed' \subseteq {<<trailRegions[i], s>> : i \in DOMAIN trailRegions, s \in Asked}
    BY <1>1, <1>a, <2>1 DEF Shows
  <2>4. disturbed = {} => \A i \in 1..regionsDone : \A s \in Asked : <<trailRegions[i], s>> \in printed'
    BY <1>1, <1>a DEF Shows, Writing
  <2> QED
    BY <1>1, <1>b, <2>2, <2>3, <2>4 DEF Shows, Writing
<1>10. SecondGoesByFirst'
  <2>1. NothingToFetch
    BY <1>1 DEF TrailInv, SecondGoesByFirst
  <2>2. NothingToFetch'
    BY <1>1, <2>1 DEF NothingToFetch
  <2> QED
    BY <1>1, <2>2 DEF SecondGoesByFirst
<1> QED
  BY <1>4, <1>5, <1>6, <1>7, <1>8, <1>9, <1>10 DEF TrailInv

\* What is fetched lies in the period, and before it is the rest of what is to be fetched.
LEMMA LatestIs ==
    ASSUME TrailInv, NEW m \in toFetch, \A x \in toFetch : x[1] <= m[1]
    PROVE  /\ m \in missingPeriod /\ m[1] \in Nat /\ m[2] \in Nat /\ m[1] <= m[2] /\ m[1]..m[2] \subseteq Asked
           /\ \A x \in toFetch \ {m} : x[1] < m[1] /\ x[2] + 1 < m[1] /\ x[2] \in Second
           /\ \A y \in missingPeriod \ toFetch : m[1] < y[1]
           /\ \A x \in missingPeriod, y \in toFetch \ {m} : x[1] <= y[1] => x \in toFetch \ {m}
<1>a. TrailType /\ MissingIs /\ FetchedSoFar
  BY DEF TrailInv
<1>1. m \in missingPeriod
  BY <1>a DEF TrailType
<1>2. \A x \in missingPeriod : x[1] \in Nat /\ x[2] \in Nat /\ requested[1] <= x[1] /\ x[1] <= x[2] /\ x[2] <= requested[2]
  BY <1>a, RequestIs DEF MissingIs
<1>3. requested[1] \in Nat /\ requested[2] \in Nat
  BY <1>a, RequestIs
<1>4. m[1]..m[2] \subseteq Asked
  BY <1>1, <1>2, <1>3 DEF Asked
<1>5. ASSUME NEW x \in toFetch \ {m} PROVE x[1] < m[1] /\ x[2] + 1 < m[1] /\ x[2] \in Second
  <2>1. x \in missingPeriod /\ x # m /\ x[1] <= m[1]
    BY <1>a DEF TrailType
  <2>2. ~Touch(x, m)
    BY <1>1, <1>a, <2>1 DEF MissingIs
  <2>3. x[2] + 1 < m[1]
    BY <1>1, <1>2, <2>1, <2>2 DEF Touch
  <2>4. x[2] \in Second
    BY <1>a, <2>1 DEF TrailType
  <2> QED
    BY <1>1, <1>2, <2>1, <2>3, <2>4
<1>6. ASSUME NEW y \in missingPeriod \ toFetch PROVE m[1] < y[1]
  <2>1. ~(y[1] <= m[1])
    BY <1>a DEF FetchedSoFar
  <2> QED
    BY <1>1, <1>2, <2>1
<1>7. ASSUME NEW x \in missingPeriod, NEW y \in toFetch \ {m}, x[1] <= y[1] PROVE x \in toFetch \ {m}
  <2>1. x \in toFetch
    BY <1>7, <1>a DEF FetchedSoFar
  <2>2. y[1] < m[1] /\ y \in missingPeriod
    BY <1>5, <1>a DEF TrailType
  <2>3. x # m
    BY <1>1, <1>2, <1>7, <2>2
  <2> QED
    BY <2>1, <2>3
<1> QED
  BY <1>1, <1>2, <1>4, <1>5, <1>6, <1>7

LEMMA LastOfEarlier ==
    ASSUME NEW E \in SUBSET (Second \X Second), E # {}
    PROVE  LET b == Max({x[2] : x \in E}) IN b \in Second /\ \E x \in E : b = x[2]
<1> DEFINE T == {x[2] : x \in E}
<1>1. T \in SUBSET (0..LastSecond) /\ T # {}
  BY DEF Second
<1>2. \E b \in T : \A t \in T : t <= b
  BY <1>1, GreatestOf, TrailAssumption
<1>3. \A t \in T : t \in Int
  BY <1>1
<1>4. \E b \in T : \A t \in T : b >= t
  BY <1>2, <1>3
<1>5. Max(T) \in T
  BY <1>4 DEF Max
<1> QED
  BY <1>1, <1>5 DEF Second

LEMMA FetchPeriodInv == ASSUME TrailInv, FetchPeriod PROVE TrailInv'
<1>a. TrailType /\ RunSteps /\ FileKnows /\ MissingIs /\ FetchedSoFar /\ SecondGoesByFirst /\ Shows
  BY DEF TrailInv
<1>1. /\ trailPc = "fetch" /\ ~fullOverlap
      /\ UNCHANGED <<trailPc, trailRegions, regionsDone, cacheFile, torn, requested, cacheRead, missingPeriod, fullOverlap>>
  BY DEF FetchPeriod, cacheState
<1>2. PICK m \in toFetch, got \in BOOLEAN :
        LET earlier == {x \in toFetch : x[1] < m[1]}
            last == earlier = {}
            fetched == IF got THEN {<<Region, s>> : s \in m[1]..m[2]} ELSE {}
        IN /\ \A x \in toFetch : x[1] <= m[1]
           /\ toFetch' = toFetch \ {m}
           /\ printed' = printed \cup fetched
                \cup (IF toFetch = missingPeriod THEN Between(m[2], requested[2]) ELSE {})
                \cup (IF last THEN Between(requested[1], m[1]) ELSE Between(Max({x[2] : x \in earlier}) + 1, m[1] - 1))
           /\ newCovered' = newCovered \cup ((IF last THEN m[1] ELSE m[1] - 1)..m[2])
           /\ newEvents' = newEvents \cup fetched
           /\ disturbed' = IF got THEN disturbed ELSE disturbed \cup {"page failed"}
  BY DEF FetchPeriod
<1> DEFINE earlier == toFetch \ {m}
           last == earlier = {}
           fetched == IF got THEN {<<Region, s>> : s \in m[1]..m[2]} ELSE {}
           after == IF toFetch = missingPeriod THEN Between(m[2], requested[2]) ELSE {}
           before == IF last THEN Between(requested[1], m[1]) ELSE Between(Max({x[2] : x \in earlier}) + 1, m[1] - 1)
<1>3. /\ m \in missingPeriod /\ m[1] \in Nat /\ m[2] \in Nat /\ m[1] <= m[2] /\ m[1]..m[2] \subseteq Asked
      /\ \A x \in toFetch \ {m} : x[1] < m[1] /\ x[2] + 1 < m[1] /\ x[2] \in Second
      /\ \A y \in missingPeriod \ toFetch : m[1] < y[1]
      /\ \A x \in missingPeriod, y \in toFetch \ {m} : x[1] <= y[1] => x \in toFetch \ {m}
  BY <1>2, LatestIs
<1>4. {x \in toFetch : x[1] < m[1]} = earlier
  BY <1>3
<1>5. /\ toFetch' = earlier
      /\ printed' = printed \cup fetched \cup after \cup before
      /\ newCovered' = newCovered \cup ((IF last THEN m[1] ELSE m[1] - 1)..m[2])
      /\ newEvents' = newEvents \cup fetched
      /\ disturbed' = IF got THEN disturbed ELSE disturbed \cup {"page failed"}
  BY <1>2, <1>4
<1>6. /\ Region' = Region /\ Asked' = Asked /\ (\A s : Known(s)' = Known(s)) /\ (\A s : Missing(s)' = Missing(s))
      /\ Unbroken' => Unbroken /\ got
      /\ disturbed' = {} => disturbed = {} /\ got
      /\ disturbed \subseteq disturbed'
  BY <1>1, <1>5 DEF Region, Asked, Known, Missing, Unbroken
<1>7. cacheRead = cacheFile /\ regionsDone < Len(trailRegions)
  BY <1>1, <1>a DEF RunSteps, Writing
<1>8. /\ requested[1] \in Nat /\ requested[2] \in Nat /\ Asked \subseteq Second /\ Second \subseteq Nat
      /\ \A x \in missingPeriod : x[1] \in Nat /\ x[2] \in Nat
  BY <1>a, RequestIs
<1>9. /\ {<<Region, s>> : s \in Asked} \subseteq {<<trailRegions[i], s>> : i \in DOMAIN trailRegions, s \in Asked}
      /\ regionsDone + 1 \in DOMAIN trailRegions /\ Region \in RegionName
  BY <1>7, <1>a, BetweenIs
<1>10. fetched \subseteq {<<Region, s>> : s \in Asked}
  BY <1>3
<1>11. ~last => Max({x[2] : x \in earlier}) \in Second /\ \E v \in earlier : Max({x[2] : x \in earlier}) = v[2]
  <2>1. earlier \in SUBSET (Second \X Second)
    BY <1>a DEF TrailType
  <2> QED
    BY <2>1, LastOfEarlier
<1>12. ~last => m[1] - 1 \in cacheFile.covered /\ (Unbroken => Known(m[1] - 1))
  <2> SUFFICES ASSUME NEW x \in earlier PROVE m[1] - 1 \in cacheFile.covered /\ (Unbroken => Known(m[1] - 1))
    OBVIOUS
  <2>1. x \in missingPeriod /\ x[1] < m[1]
    BY <1>3, <1>a DEF TrailType
  <2> QED
    BY <1>1, <1>3, <1>a, <2>1 DEF MissingIs, Writing
<1> HIDE DEF earlier, last, fetched, after, before
<1>13. TrailType'
  <2>1. newCovered' \subseteq Second
    <3>1. \A s \in (m[1] - 1)..m[2] : s = m[1] - 1 \/ s \in m[1]..m[2]
      BY <1>3
    <3>2. m[1]..m[2] \subseteq Second
      BY <1>3, <1>8
    <3>3. ~last => m[1] - 1 \in Second
      BY <1>12, <1>a DEF TrailType
    <3> QED
      BY <1>5, <1>a, <3>1, <3>2, <3>3 DEF TrailType
  <2>2. newEvents' \subseteq RegionName \X Second
    <3>1. {<<Region, s>> : s \in Asked} \subseteq RegionName \X Second
      BY <1>8, <1>9
    <3>2. newEvents \subseteq RegionName \X Second
      BY <1>a DEF TrailType
    <3> QED
      BY <1>5, <1>10, <3>1, <3>2
  <2>3. disturbed' \subseteq {"lone second", "page failed", "killed between regions"}
    BY <1>5, <1>a DEF TrailType
  <2>4. toFetch' \subseteq missingPeriod'
    BY <1>1, <1>5, <1>a DEF TrailType, earlier
  <2> QED
    BY <1>1, <1>a, <2>1, <2>2, <2>3, <2>4 DEF TrailType
<1>14. RunSteps'
  BY <1>1, <1>a DEF RunSteps, Writing
<1>15. FileKnows'
  BY <1>1, <1>6, <1>a DEF FileKnows
<1>16. MissingIs'
  <2>1. "lone second" \notin disturbed' => "lone second" \notin disturbed
    BY <1>6
  <2> QED
    BY <1>1, <1>6, <1>a, <2>1 DEF MissingIs, Known
<1>17. FetchedSoFar'
  <2>1. \A x \in missingPeriod', y \in toFetch' : x[1] <= y[1] => x \in toFetch'
    BY <1>1, <1>3, <1>5 DEF earlier
  <2>2. disturbed' = {} => missingPeriod' # {}
    BY <1>1, <1>3
  <2>3. \A s \in newCovered' :
        \/ \E x \in missingPeriod' \ toFetch' : s \in x[1]..x[2]
        \/ s \in cacheFile'.covered /\ (Unbroken' => Known(s)')
    <3> SUFFICES ASSUME NEW s \in newCovered'
                 PROVE  \/ \E x \in missingPeriod \ earlier : s \in x[1]..x[2]
                        \/ s \in cacheFile.covered /\ (Unbroken => Known(s))
      BY <1>1, <1>5, <1>6
    <3>1. CASE s \in newCovered
      BY <1>1, <1>a, <3>1 DEF FetchedSoFar, earlier
    <3>2. CASE s \in m[1]..m[2]
      BY <1>3, <3>2 DEF earlier
    <3>3. CASE s = m[1] - 1 /\ ~last
      BY <1>12, <3>3
    <3> QED
      <4>1. \A t \in (m[1] - 1)..m[2] : t = m[1] - 1 \/ t \in m[1]..m[2]
        BY <1>3
      <4> QED
        BY <1>5, <3>1, <3>2, <3>3, <4>1
  <2>4. Unbroken' => \A x \in missingPeriod' \ toFetch' : \A s \in x[1]..x[2] : <<Region, s>>' \in newEvents'
    <3> SUFFICES ASSUME Unbroken', NEW x \in missingPeriod \ earlier, NEW s \in x[1]..x[2]
                 PROVE  <<Region, s>> \in newEvents \cup fetched
      BY <1>1, <1>5, <1>6
    <3>1. CASE x = m
      BY <1>6, <3>1 DEF fetched
    <3>2. CASE x # m
      BY <1>1, <1>6, <1>a, <3>2 DEF FetchedSoFar, earlier
    <3> QED
      BY <3>1, <3>2
  <2> QED
    BY <1>1, <2>1, <2>2, <2>3, <2>4 DEF FetchedSoFar
<1>18. SecondGoesByFirst'
  BY <1>1, <1>6, <1>a DEF SecondGoesByFirst, NothingToFetch
<1>19. Shows'
  <2>1. after \subseteq {<<Region, s>> : s \in Asked} /\ before \subseteq {<<Region, s>> : s \in Asked}
    <3>1. after \subseteq {<<Region, s>> : s \in Asked}
      BY <1>3, <1>7, <1>8, <1>a, BetweenIs DEF after
    <3>2. last => before \subseteq {<<Region, s>> : s \in Asked}
      BY <1>3, <1>7, <1>8, <1>a, BetweenIs DEF before
    <3>3. ASSUME ~last PROVE before \subseteq {<<Region, s>> : s \in Asked}
      <4> DEFINE b == Max({x[2] : x \in earlier}) + 1
      <4>1. b \in Int /\ m[1] - 1 \in Int
        <5>1. Max({x[2] : x \in earlier}) \in Nat
          BY <1>8, <1>11, <3>3
        <5> QED
          BY <1>3, <5>1
      <4>2. before = Between(b, m[1] - 1)
        BY <3>3 DEF before
      <4> HIDE DEF b
      <4> QED
        BY <1>7, <1>a, <4>1, <4>2, BetweenIs
    <3> QED
      BY <3>1, <3>2, <3>3
  <2>a. printed \subseteq printed' /\ \A e \in printed' : e \in printed \/ e \in {<<Region, s>> : s \in Asked}
    BY <1>5, <1>10, <2>1
  <2>2. printed' \subseteq {<<trailRegions[i], s>> : i \in DOMAIN trailRegions, s \in Asked}
    <3> DEFINE whole == {<<trailRegions[i], s>> : i \in DOMAIN trailRegions, s \in Asked}
               mine == {<<Region, s>> : s \in Asked}
    <3>1. printed \subseteq whole
      BY <1>a DEF Shows
    <3>2. mine \subseteq whole
      BY <1>9
    <3>3. \A e \in printed' : e \in printed \/ e \in mine
      BY <2>a
    <3> HIDE DEF whole, mine
    <3>4. printed' \subseteq whole
      BY <3>1, <3>2, <3>3
    <3> QED
      BY <3>4 DEF whole
  <2>3. disturbed' = {} => \A i \in 1..regionsDone : \A s \in Asked : <<trailRegions[i], s>> \in printed'
    <3>1. disturbed = {} => \A i \in 1..regionsDone : \A s \in Asked : <<trailRegions[i], s>> \in printed
      BY <1>1, <1>a DEF Shows, Writing
    <3> QED
      BY <1>6, <2>a, <3>1
  <2>4. ASSUME disturbed' = {}, NEW s \in Asked, \A x \in earlier : x[2] < s PROVE <<Region, s>> \in printed'
    <3>1. disturbed = {} /\ got /\ Unbroken /\ "lone second" \notin disturbed
      BY <1>6, <2>4 DEF Unbroken
    <3>2. Missing(s) \/ Known(s)
      BY <1>1, <1>3, <1>a, <3>1 DEF MissingIs, Writing
    <3>3. Known(s) => <<Region, s>> \in cacheRead.events
      BY <1>7, <1>9 DEF Known, Region
    <3>4. s \in Nat /\ requested[1] <= s /\ s <= requested[2]
      BY <1>8 DEF Asked
    <3>5. \A y \in earlier : s \notin y[1]..y[2]
      <4>1. \A y \in earlier : y[1] \in Nat /\ y[2] \in Nat
        BY <1>8, <1>a DEF TrailType, earlier
      <4> QED
        BY <2>4, <3>4, <4>1
    <3>6. CASE s \in m[1]..m[2]
      BY <1>5, <3>1, <3>6 DEF fetched
    <3>7. CASE m[2] < s
      <4>1. \A x \in toFetch : x[2] < s
        BY <2>4, <3>7 DEF earlier
      <4>2. CASE toFetch # missingPeriod
        BY <1>1, <1>5, <1>a, <3>1, <4>1, <4>2 DEF Shows
      <4>3. CASE toFetch = missingPeriod
        <5>1. ~Missing(s)
          <6>1. m \in toFetch /\ s \notin m[1]..m[2]
            BY <1>3, <3>4, <3>7
          <6> QED
            BY <3>5, <4>3, <6>1 DEF Missing, earlier
        <5>2. <<Region, s>> \in Between(m[2], requested[2])
          BY <1>3, <1>7, <1>8, <1>a, <3>2, <3>3, <3>4, <3>7, <5>1, BetweenIs
        <5> QED
          BY <1>5, <4>3, <5>2 DEF after
      <4> QED
        BY <4>2, <4>3
    <3>8. CASE s < m[1]
      <4>1. \A y \in missingPeriod \ toFetch : s \notin y[1]..y[2]
        <5>1. \A y \in missingPeriod \ toFetch : s < y[1] /\ y[1] \in Nat
          BY <1>3, <1>8, <3>4, <3>8
        <5> QED
          BY <3>4, <5>1
      <4>2. s \notin m[1]..m[2]
        BY <1>3, <3>4, <3>8
      <4>3. Known(s)
        BY <3>2, <3>5, <4>1, <4>2 DEF Missing, earlier
      <4>4. CASE last
        <5>1. <<Region, s>> \in Between(requested[1], m[1])
          BY <1>3, <1>7, <1>8, <1>a, <3>3, <3>4, <3>8, <4>3, BetweenIs
        <5> QED
          BY <1>5, <4>4, <5>1 DEF before
      <4>5. CASE ~last
        <5> DEFINE b == Max({x[2] : x \in earlier})
        <5>1. b \in Nat /\ b < s
          BY <1>8, <1>11, <2>4, <4>5
        <5>2. before = Between(b + 1, m[1] - 1)
          BY <4>5 DEF before
        <5> HIDE DEF b
        <5>3. b + 1 <= s /\ s <= m[1] - 1 /\ b + 1 \in Int /\ m[1] - 1 \in Int
          BY <1>3, <3>4, <3>8, <5>1
        <5>4. <<Region, s>> \in Between(b + 1, m[1] - 1)
          BY <1>7, <1>a, <3>3, <4>3, <5>3, BetweenIs
        <5> QED
          BY <1>5, <5>2, <5>4
      <4> QED
        BY <4>4, <4>5
    <3> QED
      BY <1>3, <3>4, <3>6, <3>7, <3>8
  <2>5. trailPc' = "fetch" /\ trailPc' # "save"
    BY <1>1
  <2>6. disturbed' = {} => \A s \in Asked' : (\A x \in toFetch' : x[2] < s) => <<Region, s>>' \in printed'
    BY <1>5, <1>6, <2>4
  <2>7. printed' \subseteq {<<trailRegions[i], s>>' : i \in DOMAIN trailRegions', s \in Asked'}
    BY <1>1, <1>6, <2>2
  <2>8. disturbed' = {} => \A i \in 1..regionsDone' : \A s \in Asked' : <<trailRegions[i], s>>' \in printed'
    BY <1>1, <1>6, <2>3
  <2> QED
    BY <2>5, <2>6, <2>7, <2>8 DEF Shows
<1> QED
  BY <1>13, <1>14, <1>15, <1>16, <1>17, <1>18, <1>19 DEF TrailInv

LEMMA FetchedAllInv == ASSUME TrailInv, FetchedAll PROVE TrailInv'
<1>1. /\ trailPc = "fetch" /\ toFetch = {} /\ trailPc' = "save"
      /\ UNCHANGED <<trailRegions, regionsDone, cacheFile, torn, requested, cacheRead, missingPeriod, toFetch,
                     fullOverlap, newCovered, newEvents, printed, disturbed>>
  BY DEF FetchedAll, cacheState, trailRun
<1>a. TrailType /\ RunSteps /\ FileKnows /\ MissingIs /\ FetchedSoFar /\ SecondGoesByFirst /\ Shows
  BY DEF TrailInv
<1>b. Region' = Region /\ Asked' = Asked /\ Unbroken' = Unbroken /\ \A s : Known(s)' = Known(s) /\ Missing(s)' = Missing(s)
  BY <1>1 DEF Region, Asked, Known, Missing, Unbroken
<1>2. TrailType' /\ RunSteps'
  BY <1>1, <1>a DEF TrailType, RunSteps, Writing
<1>3. FileKnows' /\ MissingIs'
  BY <1>1, <1>a, <1>b DEF FileKnows, MissingIs, Known, Writing
<1>4. FetchedSoFar'
  BY <1>1, <1>a, <1>b DEF FetchedSoFar, Known
<1>5. SecondGoesByFirst'
  BY <1>1, <1>a, <1>b DEF SecondGoesByFirst, NothingToFetch, Writing
<1>6. Shows'
  <2>1. disturbed = {} => \A s \in Asked : <<Region, s>> \in printed
    BY <1>1, <1>a DEF FetchedSoFar, Shows
  <2> QED
    BY <1>1, <1>a, <1>b, <2>1 DEF Shows, Writing
<1> QED
  BY <1>2, <1>3, <1>4, <1>5, <1>6 DEF TrailInv

\* Which region a run is at.
LEMMA RegionsDoneIs ==
    ASSUME TrailType, regionsDone < Len(trailRegions)
    PROVE  /\ Len(trailRegions) \in {1, 2} /\ DOMAIN trailRegions = 1..Len(trailRegions)
           /\ regionsDone \in {0, 1} /\ regionsDone + 1 \in 0..Len(trailRegions) /\ regionsDone + 1 \in DOMAIN trailRegions
           /\ \A i \in DOMAIN trailRegions : i = regionsDone + 1 \/ (i = 1 /\ regionsDone = 1)
                                               \/ (i = 2 /\ regionsDone = 0 /\ Len(trailRegions) = 2)
           /\ \A i \in 1..(regionsDone + 1) : i \in 1..regionsDone \/ i = regionsDone + 1
           /\ regionsDone + 1 # Len(trailRegions) => regionsDone + 1 < Len(trailRegions)
<1>1. Len(trailRegions) \in {1, 2} /\ DOMAIN trailRegions = 1..Len(trailRegions)
  BY RegionsAre DEF TrailType
<1>2. /\ regionsDone \in {0, 1} /\ regionsDone + 1 \in 0..Len(trailRegions) /\ regionsDone + 1 \in 1..Len(trailRegions)
      /\ regionsDone + 1 # Len(trailRegions) => regionsDone + 1 < Len(trailRegions)
  <2> DEFINE n == regionsDone
             l == Len(trailRegions)
  <2>1. n \in 0..l /\ n < l /\ (l = 1 \/ l = 2)
    BY <1>1 DEF TrailType
  <2> HIDE DEF n, l
  <2>2. n \in {0, 1} /\ n + 1 \in 0..l /\ n + 1 \in 1..l /\ (n + 1 # l => n + 1 < l)
    BY <2>1
  <2> QED
    BY <2>2 DEF n, l
<1>3. \A i \in 1..(regionsDone + 1) : i \in 1..regionsDone \/ i = regionsDone + 1
  BY <1>2
<1>4. \A i \in DOMAIN trailRegions : i = regionsDone + 1 \/ (i = 1 /\ regionsDone = 1)
                                        \/ (i = 2 /\ regionsDone = 0 /\ Len(trailRegions) = 2)
  <2> DEFINE n == regionsDone
             l == Len(trailRegions)
  <2>1. n \in {0, 1} /\ l \in {1, 2} /\ DOMAIN trailRegions = 1..l
    BY <1>1, <1>2
  <2> HIDE DEF n, l
  <2>2. \A i \in 1..l : i = n + 1 \/ (i = 1 /\ n = 1) \/ (i = 2 /\ n = 0 /\ l = 2)
    BY <2>1
  <2> QED
    BY <2>1, <2>2 DEF n, l
<1> QED
  BY <1>1, <1>2, <1>3, <1>4

LEMMA SaveCacheInv == ASSUME TrailInv, SaveCache PROVE TrailInv'
<1>a. TrailType /\ RunSteps /\ FileKnows /\ MissingIs /\ FetchedSoFar /\ SecondGoesByFirst /\ Shows
  BY DEF TrailInv
<1>1. /\ trailPc = "save" /\ regionsDone' = regionsDone + 1
      /\ cacheFile' = [covered |-> cacheRead.covered \cup newCovered, events |-> cacheRead.events \cup newEvents]
      /\ trailPc' = (IF regionsDone + 1 = Len(trailRegions) THEN "done" ELSE "read")
      /\ UNCHANGED <<trailRegions, torn, requested, cacheRead, missingPeriod, toFetch, fullOverlap,
                     newCovered, newEvents, printed, disturbed>>
  BY DEF SaveCache, trailRun
<1>2. cacheRead = cacheFile /\ toFetch = {} /\ regionsDone < Len(trailRegions) /\ torn = FALSE
  BY <1>1, <1>a DEF RunSteps, Writing
<1>3. cacheFile'.covered = cacheFile.covered \cup newCovered /\ cacheFile'.events = cacheFile.events \cup newEvents
  BY <1>1, <1>2
<1>4. /\ Len(trailRegions) \in {1, 2} /\ DOMAIN trailRegions = 1..Len(trailRegions)
      /\ regionsDone \in {0, 1} /\ regionsDone + 1 \in 0..Len(trailRegions) /\ regionsDone + 1 \in DOMAIN trailRegions
      /\ \A i \in DOMAIN trailRegions : i = regionsDone + 1 \/ (i = 1 /\ regionsDone = 1)
                                          \/ (i = 2 /\ regionsDone = 0 /\ Len(trailRegions) = 2)
      /\ \A i \in 1..(regionsDone + 1) : i \in 1..regionsDone \/ i = regionsDone + 1
  BY <1>2, <1>a, RegionsDoneIs
<1>5. /\ Asked' = Asked /\ Unbroken' = Unbroken /\ (\A s : Missing(s)' = Missing(s)) /\ (\A s : Known(s) => Known(s)')
      /\ trailPc' \in {"done", "read"}
  BY <1>1, <1>3 DEF Asked, Known, Missing, Unbroken
<1>6. Unbroken => \A m \in missingPeriod : \A s \in m[1]..m[2] : <<trailRegions[regionsDone + 1], s>> \in newEvents
  BY <1>1, <1>2, <1>a DEF FetchedSoFar, Region
<1>7. \A s \in newCovered : Missing(s) \/ s \in cacheFile.covered
  BY <1>1, <1>2, <1>a DEF FetchedSoFar, Missing
<1>8. TrailType'
  <2>1. cacheFile' \in [covered : SUBSET Second, events : SUBSET (RegionName \X Second)]
    BY <1>1, <1>a DEF TrailType
  <2>2. regionsDone' \in 0..Len(trailRegions')
    BY <1>1, <1>4
  <2>3. trailPc' \in Writing \cup {"idle", "errors", "done", "failed"}
    BY <1>5 DEF Writing
  <2> QED
    BY <1>1, <1>a, <2>1, <2>2, <2>3 DEF TrailType
<1>9. RunSteps'
  <2>1. regionsDone' = regionsDone + 1 /\ trailRegions' = trailRegions /\ torn' = FALSE
    BY <1>1, <1>2
  <2>2. trailPc' = "done" => regionsDone' = Len(trailRegions')
    BY <1>1
  <2>3. trailPc' # "done" => regionsDone' < Len(trailRegions')
    <3>1. trailPc' # "done" => regionsDone + 1 # Len(trailRegions)
      BY <1>1
    <3>2. regionsDone + 1 # Len(trailRegions) => regionsDone + 1 < Len(trailRegions)
      BY <1>2, <1>a, RegionsDoneIs
    <3>3. regionsDone' = regionsDone + 1 /\ trailRegions' = trailRegions
      BY <1>1
    <3> QED
      BY <3>1, <3>2, <3>3
  <2> QED
    BY <1>5, <2>1, <2>2, <2>3 DEF RunSteps, Writing
<1>10. FileKnows'
  <2> SUFFICES ASSUME Unbroken, NEW s \in cacheFile'.covered, NEW i \in DOMAIN trailRegions
               PROVE  \/ <<trailRegions[i], s>> \in cacheFile'.events
                      \/ i = 2 /\ regionsDone' = 1 /\ trailPc' \in Writing /\ Missing(s)
    BY <1>1, <1>5 DEF FileKnows
  <2>1. CASE Missing(s)
    <3>1. PICK m \in missingPeriod : s \in m[1]..m[2]
      BY <2>1 DEF Missing
    <3>2. CASE i = regionsDone + 1
      BY <1>3, <1>6, <3>1, <3>2
    <3>3. CASE i = 1 /\ regionsDone = 1
      <4>1. <<trailRegions[1], s>> \in cacheFile.events
        BY <1>1, <1>a, <3>1, <3>3 DEF SecondGoesByFirst, Writing
      <4> QED
        BY <1>3, <3>3, <4>1
    <3>4. CASE i = 2 /\ regionsDone = 0 /\ Len(trailRegions) = 2
      <4>1. regionsDone' = 1 /\ trailPc' = "read"
        BY <1>1, <3>4
      <4> QED
        BY <2>1, <3>4, <4>1 DEF Writing
    <3> QED
      BY <1>4, <3>2, <3>3, <3>4
  <2>2. CASE ~Missing(s)
    <3>1. s \in cacheFile.covered
      BY <1>3, <1>7, <2>2
    <3>2. <<trailRegions[i], s>> \in cacheFile.events
      BY <1>a, <2>2, <3>1 DEF FileKnows
    <3> QED
      BY <1>3, <3>2
  <2> QED
    BY <2>1, <2>2
<1>11. MissingIs'
  <2>1. trailPc \in Writing
    BY <1>1 DEF Writing
  <2>2. \A m, x \in missingPeriod : x[1] < m[1] => m[1] - 1 \in cacheFile'.covered /\ (Unbroken => Known(m[1] - 1)')
    <3> SUFFICES ASSUME NEW m \in missingPeriod, NEW x \in missingPeriod, x[1] < m[1]
                 PROVE  m[1] - 1 \in cacheFile'.covered /\ (Unbroken => Known(m[1] - 1)')
      OBVIOUS
    <3>1. m[1] - 1 \in cacheFile.covered /\ (Unbroken => Known(m[1] - 1))
      BY <1>a, <2>1 DEF MissingIs
    <3> QED
      BY <1>1, <1>3, <1>5, <3>1 DEF Known
  <2>3. Unbroken /\ "lone second" \notin disturbed /\ missingPeriod # {} => \A s \in Asked : Missing(s) \/ Known(s)'
    BY <1>5, <1>a, <2>1 DEF MissingIs
  <2> QED
    BY <1>1, <1>5, <1>a, <2>2, <2>3 DEF MissingIs
<1>12. FetchedSoFar'
  BY <1>1, <1>5, <1>a DEF FetchedSoFar
<1>13. SecondGoesByFirst'
  <2>1. ASSUME missingPeriod = {} PROVE NothingToFetch'
    <3>1. NothingToFetch
      BY <1>1, <1>a, <2>1 DEF SecondGoesByFirst
    <3>2. cacheFile'.covered = cacheFile.covered
      BY <1>3, <1>7, <2>1 DEF Missing
    <3> QED
      BY <1>1, <3>1, <3>2 DEF NothingToFetch
  <2>2. ASSUME regionsDone' = 1, Unbroken, NEW m \in missingPeriod, NEW s \in m[1]..m[2]
        PROVE  <<trailRegions[1], s>> \in cacheFile'.events
    <3>1. regionsDone + 1 = 1
      BY <1>1, <2>2
    <3> QED
      BY <1>3, <1>6, <2>2, <3>1
  <2> QED
    BY <1>1, <1>5, <2>1, <2>2 DEF SecondGoesByFirst
<1>14. Shows'
  <2>1. disturbed = {} => \A i \in 1..(regionsDone + 1) : \A s \in Asked : <<trailRegions[i], s>> \in printed
    <3>1. disturbed = {} => \A i \in 1..regionsDone : \A s \in Asked : <<trailRegions[i], s>> \in printed
      BY <1>1, <1>a DEF Shows, Writing
    <3>2. disturbed = {} => \A s \in Asked : <<trailRegions[regionsDone + 1], s>> \in printed
      BY <1>1, <1>a DEF Shows, Region
    <3> QED
      BY <1>4, <3>1, <3>2
  <2> QED
    BY <1>1, <1>5, <1>a, <2>1 DEF Shows
<1> QED
  BY <1>8, <1>9, <1>10, <1>11, <1>12, <1>13, <1>14 DEF TrailInv

LEMMA ListErrorsInv == ASSUME TrailInv, ListErrors PROVE TrailInv'
<1>a. TrailType /\ RunSteps /\ FileKnows /\ MissingIs /\ FetchedSoFar /\ Shows
  BY DEF TrailInv
<1>1. /\ trailPc = "errors" /\ regionsDone' = regionsDone + 1
      /\ printed' = printed \cup {<<trailRegions[regionsDone + 1], s>> : s \in Asked}
      /\ trailPc' = (IF regionsDone + 1 = Len(trailRegions) THEN "done" ELSE "errors")
      /\ UNCHANGED <<trailRegions, cacheFile, torn, requested, cacheRead, missingPeriod, toFetch, fullOverlap,
                     newCovered, newEvents, disturbed>>
  BY DEF ListErrors, trailRun, cacheState, Region, Asked
<1>2. regionsDone < Len(trailRegions)
  BY <1>1, <1>a DEF RunSteps
<1>3. /\ Len(trailRegions) \in {1, 2} /\ DOMAIN trailRegions = 1..Len(trailRegions)
      /\ regionsDone \in {0, 1} /\ regionsDone + 1 \in 0..Len(trailRegions) /\ regionsDone + 1 \in DOMAIN trailRegions
      /\ \A i \in 1..(regionsDone + 1) : i \in 1..regionsDone \/ i = regionsDone + 1
  BY <1>2, <1>a, RegionsDoneIs
<1>4. trailPc' \in {"done", "errors"} /\ Asked' = Asked /\ Unbroken' = Unbroken
  BY <1>1 DEF Asked, Unbroken
<1>5. TrailType'
  <2>1. regionsDone' \in 0..Len(trailRegions')
    BY <1>1, <1>3
  <2>2. trailPc' \in Writing \cup {"idle", "errors", "done", "failed"}
    BY <1>4
  <2> QED
    BY <1>1, <1>a, <2>1, <2>2 DEF TrailType
<1>6. RunSteps'
  <2>1. trailPc' = "done" => regionsDone' = Len(trailRegions')
    BY <1>1
  <2>2. trailPc' # "done" => regionsDone' < Len(trailRegions')
    <3>1. trailPc' # "done" => regionsDone + 1 # Len(trailRegions)
      BY <1>1
    <3>2. regionsDone + 1 # Len(trailRegions) => regionsDone + 1 < Len(trailRegions)
      BY <1>2, <1>a, RegionsDoneIs
    <3>3. regionsDone' = regionsDone + 1 /\ trailRegions' = trailRegions
      BY <1>1
    <3> QED
      BY <3>1, <3>2, <3>3
  <2> QED
    BY <1>4, <2>1, <2>2 DEF RunSteps, Writing
<1>7. FileKnows'
  <2>1. trailPc \notin Writing
    BY <1>1 DEF Writing
  <2> QED
    BY <1>1, <1>4, <1>a, <2>1 DEF FileKnows
<1>8. MissingIs' /\ FetchedSoFar' /\ SecondGoesByFirst'
  BY <1>1, <1>4, <1>a DEF MissingIs, FetchedSoFar, SecondGoesByFirst, Writing
<1>9. Shows'
  <2> DEFINE whole == {<<trailRegions[i], s>> : i \in DOMAIN trailRegions, s \in Asked}
             mine == {<<trailRegions[regionsDone + 1], s>> : s \in Asked}
  <2>1. printed' \subseteq whole
    <3>1. printed \subseteq whole
      BY <1>a DEF Shows
    <3>2. mine \subseteq whole
      BY <1>3
    <3>3. printed' = printed \cup mine
      BY <1>1
    <3> HIDE DEF whole, mine
    <3> QED
      BY <3>1, <3>2, <3>3
  <2>2. disturbed = {} => \A i \in 1..(regionsDone + 1) : \A s \in Asked : <<trailRegions[i], s>> \in printed'
    <3>1. disturbed = {} => \A i \in 1..regionsDone : \A s \in Asked : <<trailRegions[i], s>> \in printed
      BY <1>1, <1>a DEF Shows
    <3>2. \A s \in Asked : <<trailRegions[regionsDone + 1], s>> \in printed'
      BY <1>1
    <3> QED
      BY <1>1, <1>3, <3>1, <3>2
  <2> QED
    BY <1>1, <1>4, <2>1, <2>2 DEF Shows
<1> QED
  BY <1>5, <1>6, <1>7, <1>8, <1>9 DEF TrailInv

LEMMA TrailKilledInv == ASSUME TrailInv, TrailKilled PROVE TrailInv'
<1>a. TrailType /\ FileKnows /\ MissingIs /\ FetchedSoFar /\ Shows
  BY DEF TrailInv
<1>1. /\ trailPc' = "failed" /\ torn' \in {torn, torn \/ trailPc = "save"}
      /\ disturbed' = IF regionsDone = 1 /\ trailPc # "errors" THEN disturbed \cup {"killed between regions"} ELSE disturbed
      /\ UNCHANGED <<trailRegions, regionsDone, cacheFile, requested, cacheRead, missingPeriod, toFetch, fullOverlap,
                     newCovered, newEvents, printed>>
  BY DEF TrailKilled, trailRun
<1>2. TrailType'
  <2>1. torn' \in BOOLEAN
    BY <1>1, <1>a, Zenon DEF TrailType
  <2>2. disturbed' \subseteq {"lone second", "page failed", "killed between regions"}
    BY <1>1, <1>a DEF TrailType
  <2> QED
    BY <1>1, <1>a, <2>1, <2>2 DEF TrailType
<1>3. RunSteps' /\ MissingIs' /\ FetchedSoFar' /\ SecondGoesByFirst'
  BY <1>1, <1>a DEF RunSteps, MissingIs, FetchedSoFar, SecondGoesByFirst, Writing
<1>4. FileKnows'
  <2>1. Unbroken' => Unbroken /\ ~(regionsDone = 1 /\ trailPc \in Writing)
    BY <1>1 DEF Unbroken, Writing
  <2> QED
    BY <1>1, <1>a, <2>1 DEF FileKnows
<1>5. Shows'
  <2>1. printed' \subseteq {<<trailRegions[i], s>>' : i \in DOMAIN trailRegions', s \in Asked'}
    <3>1. Asked' = Asked /\ printed' = printed /\ trailRegions' = trailRegions
      BY <1>1 DEF Asked
    <3> QED
      BY <1>a, <3>1 DEF Shows
  <2>2. trailPc' = "failed"
    BY <1>1
  <2> QED
    BY <2>1, <2>2 DEF Shows, Writing
<1> QED
  BY <1>2, <1>3, <1>4, <1>5 DEF TrailInv

LEMMA TrailStepInv == ASSUME TrailInv, TrailNext PROVE TrailInv'
  BY TrailBeginsInv, ReadCacheInv, ReadFailureInv, FromCacheInv, FetchPeriodInv, FetchedAllInv, SaveCacheInv,
     ListErrorsInv, TrailKilledInv DEF TrailNext

LEMMA TrailKeeps == ASSUME TrailInv, UNCHANGED trailVars PROVE TrailInv'
<1>1. UNCHANGED <<trailPc, trailRegions, regionsDone, cacheFile, torn, requested, cacheRead, missingPeriod, toFetch,
                  fullOverlap, newCovered, newEvents, printed, disturbed>>
  BY DEF trailVars, cacheState, trailRun
<1>a. TrailType /\ RunSteps /\ FileKnows /\ MissingIs /\ FetchedSoFar /\ SecondGoesByFirst /\ Shows
  BY DEF TrailInv
<1>b. Region' = Region /\ Asked' = Asked /\ Unbroken' = Unbroken /\ \A s : Known(s)' = Known(s) /\ Missing(s)' = Missing(s)
  BY <1>1 DEF Region, Asked, Known, Missing, Unbroken
<1>2. TrailType' /\ RunSteps'
  BY <1>1, <1>a DEF TrailType, RunSteps
<1>3. FileKnows' /\ MissingIs'
  BY <1>1, <1>a, <1>b DEF FileKnows, MissingIs, Known
<1>4. FetchedSoFar' /\ SecondGoesByFirst'
  BY <1>1, <1>a, <1>b DEF FetchedSoFar, SecondGoesByFirst, NothingToFetch, Known
<1>5. Shows'
  BY <1>1, <1>a, <1>b DEF Shows
<1> QED
  BY <1>2, <1>3, <1>4, <1>5 DEF TrailInv

LEMMA TrailInvShows == TrailInv => TrailShowsAll
<1> SUFFICES ASSUME TrailInv, trailPc = "done", disturbed = {}
             PROVE  printed = {<<trailRegions[i], s>> : i \in DOMAIN trailRegions, s \in requested[1]..requested[2]}
  BY DEF TrailShowsAll
<1>1. regionsDone = Len(trailRegions) /\ DOMAIN trailRegions = 1..Len(trailRegions)
  BY RegionsAre DEF TrailInv, TrailType, RunSteps
<1>2. \A i \in DOMAIN trailRegions : \A s \in Asked : <<trailRegions[i], s>> \in printed
  BY <1>1 DEF TrailInv, Shows
<1> QED
  BY <1>2 DEF TrailInv, Shows, Asked
-----------------------------------------------------------------------------
(***************************************************************************)
(* All of them: a behaviour of Queries is of one command, whose component  *)
(* moves while the others keep still.                                      *)
(***************************************************************************)
LEMMA StreamKeeps == ASSUME StreamInv, UNCHANGED streamVars PROVE StreamInv'
BY DEF StreamInv, StreamType, HeldBy, NoSocketLeft, streamVars

LEMMA GatherKeeps == ASSUME GatherInv, UNCHANGED mustGatherVars PROVE GatherInv'
<1>1. UNCHANGED <<mgPc, hosted, targets, gatherPc, result, once, onceOwner, elevations, tokenInits, exported,
                  collected, interceptsSignals, archived>>
  BY DEF mustGatherVars, mgWorld
<1>2. GatherType' /\ LoginsAreOwned'
  BY <1>1 DEF GatherInv, GatherType, LoginsAreOwned
<1>3. Artifacts'
  BY <1>1 DEF GatherInv, Artifacts, LogsOK
<1>4. Verdict'
  BY <1>1 DEF GatherInv, Verdict
<1> QED
  BY <1>2, <1>3, <1>4 DEF GatherInv

LEMMA DnsKeeps == ASSUME DnsInv, UNCHANGED dnsVars PROVE DnsInv'
<1>1. UNCHANGED <<vpc, oldCluster, lookup, channel, channelClosed, dnsReport, records>>
  BY DEF dnsVars
<1>2. Sent' = Sent /\ \A t : DnsStatus(t)' = DnsStatus(t)
  BY <1>1 DEF Sent, DnsStatus
<1> QED
  BY <1>1, <1>2 DEF DnsInv

LEMMA EgressKeeps == ASSUME EgressInv, UNCHANGED egressVars PROVE EgressInv'
<1>1. UNCHANGED <<npc, egressKind, podFlag, credsFlag, publicSubnet, podMode, platform, restAs, chosen,
                  foundPrivate, probed, egressBlocked, notice>>
  BY DEF egressVars, egressWorld, egressFlags
<1> QED
  BY <1>1 DEF EgressInv, Target, Probing

LEMMA ContextKeeps == ASSUME ContextInv, UNCHANGED contextVars PROVE ContextInv'
<1>1. UNCHANGED <<cpc, pagerReady, rpc, rnext, point, mutexHolder, sliceRead, dataErrors, fields, gaps,
                  pdServiceID, alertsDone, historyOf>>
  BY DEF contextVars, contextOptions, contextData
<1>2. ContextType' /\ MutexKept' /\ HistoryIsOf'
  BY <1>1 DEF ContextInv, ContextType, MutexKept, HistoryIsOf
<1>3. ContextSteps'
  BY <1>1 DEF ContextInv, ContextSteps
<1>4. ErrorsKept'
  BY <1>1 DEF ContextInv, ErrorsKept, Untold, ErrorsAtHand, Appending
<1> QED
  BY <1>2, <1>3, <1>4 DEF ContextInv

LEMMA CellKeeps == ASSUME CellInv, UNCHANGED queryVars PROVE CellInv'
<1>1. UNCHANGED <<hasCell, qpc, usagesLeft, usage, asked, cell>>
  BY DEF queryVars, storeVars, cellVars
<1>2. CellType' /\ AskedOnce'
  BY <1>1 DEF CellInv, CellType, AskedOnce
<1>3. CellsAreBest'
  BY <1>1 DEF CellInv, CellsAreBest, BestSource
<1> QED
  BY <1>2, <1>3 DEF CellInv

LEMMA PageKeeps == ASSUME PageInv, UNCHANGED queryVars PROVE PageInv'
<1>1. UNCHANGED <<stamp, stored, storedAtStart, qpc, forward, limit, linesLeft, winFrom, winTo, shownLines>>
  BY DEF queryVars, storeVars, pageVars
<1>2. Shown' = Shown /\ WinFront' = WinFront /\ \A l : Key(l)' = Key(l) /\ Crowded(l)' = Crowded(l)
  BY <1>1 DEF Shown, WinFront, Key, Crowded
<1>3. PageType' /\ Counted'
  BY <1>1 DEF PageInv, PageType, Counted
<1>4. ShownOnce'
  BY <1>1 DEF PageInv, ShownOnce, Shown, WinFront, Key
<1>5. NoneMissed'
  <2>1. \A l : LeftOut(l)' = LeftOut(l)
    BY <1>1, <1>2 DEF LeftOut, Key
  <2> QED
    BY <1>1, <1>2, <2>1 DEF PageInv, NoneMissed
<1> QED
  BY <1>3, <1>4, <1>5 DEF PageInv

QueriesInv == StreamInv /\ GatherInv /\ DnsInv /\ EgressInv /\ ContextInv /\ CellInv /\ PageInv /\ TrailInv

LEMMA QueriesBegin == QueriesInit => QueriesInv
BY StreamBegins, GatherBegins, DnsBegins, EgressBegins, ContextBegins, CellBegins, PageBegins, TrailBegin
   DEF QueriesInit, QueriesInv

QueriesNext == Logs \/ Follow \/ Context \/ Dns \/ Egress \/ Cloudtrail \/ Gather

\* Whatever the command does, each component steps or stutters.
LEMMA ComponentsStep ==
    ASSUME [QueriesNext]_queriesVars
    PROVE  /\ QueryNext \/ UNCHANGED queryVars
           /\ StreamNext \/ UNCHANGED streamVars
           /\ ContextNext \/ UNCHANGED contextVars
           /\ DnsNext \/ UNCHANGED dnsVars
           /\ EgressNext \/ UNCHANGED egressVars
           /\ TrailNext \/ UNCHANGED trailVars
           /\ MustGatherNext \/ UNCHANGED mustGatherVars
BY DEF QueriesNext, queriesVars, Logs, Follow, Context, Dns, Egress, Cloudtrail, Gather

LEMMA QueriesStepInv == ASSUME QueriesInv, [QueriesNext]_queriesVars PROVE QueriesInv'
<1>1. StreamInv'
  BY ComponentsStep, StreamStepInv, StreamKeeps DEF QueriesInv
<1>2. GatherInv'
  BY ComponentsStep, GatherStepInv, GatherKeeps DEF QueriesInv
<1>3. DnsInv'
  BY ComponentsStep, DnsStepInv, DnsKeeps DEF QueriesInv
<1>4. EgressInv'
  BY ComponentsStep, EgressStepInv, EgressKeeps DEF QueriesInv
<1>5. ContextInv'
  BY ComponentsStep, ContextStepInv, ContextKeeps DEF QueriesInv
<1>6. CellInv' /\ PageInv'
  BY ComponentsStep, CellStepInv, CellKeeps, PageStepInv, PageKeeps DEF QueriesInv
<1>7. TrailInv'
  BY ComponentsStep, TrailStepInv, TrailKeeps DEF QueriesInv
<1> QED
  BY <1>1, <1>2, <1>3, <1>4, <1>5, <1>6, <1>7 DEF QueriesInv

LEMMA AlwaysQueriesInv == QueriesSpec => []QueriesInv
<1>1. QueriesInv /\ [QueriesNext]_queriesVars => QueriesInv'
  BY QueriesStepInv
<1> QED
  BY <1>1, QueriesBegin, PTL DEF QueriesSpec, QueriesNext

\* Any number of lines, timestamps and lines per page, and of lines that reach the store
\* while it is read: a query shows every line between its bounds once and in order,
\* but of a timestamp that has more than a page of them, and asked the right cell.
THEOREM LogsRight == QueriesSpec => []LogsAreRight
<1>1. QueriesInv => LogsAreRight
  BY PageInvComplete, CellInvBest DEF QueriesInv, LogsAreRight
<1> QED
  BY <1>1, AlwaysQueriesInv, PTL

\* Any number of reconnections: when both goroutines have ended no websocket is open,
\* and one that is open is known to one of them.
THEOREM NoSocketEverLeft == QueriesSpec => []NoSocketLeft
<1>1. QueriesInv => NoSocketLeft
  BY DEF QueriesInv, StreamInv
<1> QED
  BY <1>1, AlwaysQueriesInv, PTL

\* Any number of data points: a context that is printed tells every error, and no
\* goroutine waits for one that has returned.
THEOREM ContextWhole == QueriesSpec => []ContextIsWhole
<1>1. QueriesInv => ContextIsWhole
  BY ContextInvWhole DEF QueriesInv
<1> QED
  BY <1>1, AlwaysQueriesInv, PTL

\* Any records and any subnets: a report of DNS has each record's result, and a clean
\* verification of egress has probed all it chose, by the right means.
THEOREM NetworkVerdictsHold == QueriesSpec => []NetworkVerdicts
<1>1. QueriesInv => NetworkVerdicts
  BY DnsInvComplete, EgressInvHolds DEF QueriesInv, NetworkVerdicts
<1> QED
  BY <1>1, AlwaysQueriesInv, PTL

\* Any number of namespaces: targets that share a cluster log in to it once, and an
\* archive has what its verdict says.
THEOREM GatherTrue == QueriesSpec => []GatherIsTrue
<1>1. QueriesInv => GatherIsTrue
  BY GatherInvTrue DEF QueriesInv
<1> QED
  BY <1>1, AlwaysQueriesInv, PTL

\* Any length of time and any number of runs: a run of write-events that loses nothing
\* itself, as those before it did not, prints the events of every second asked for, of
\* each region, whatever of them it took from the file.
THEOREM TrailShown == QueriesSpec => []TrailShowsAll
<1>1. QueriesInv => TrailShowsAll
  BY TrailInvShows DEF QueriesInv
<1> QED
  BY <1>1, AlwaysQueriesInv, PTL

\* A page that is read moves the front of the window on, past its edge if it has no
\* other timestamp.
LEMMA PageMovesOn == ASSUME PageType, ReadPage PROVE winTo' - winFrom' < winTo - winFrom
<1>1. linesLeft # 0 /\ Window # {}
  BY DEF ReadPage
<1>2. PICK p \in Response, e \in Int :
        /\ EdgeOf(p, e)
        /\ IF forward THEN winFrom' = e + (IF OnlyEdge(p, e) THEN 1 ELSE 0) /\ winTo' = winTo
                      ELSE winTo' = 0 - (e + (IF OnlyEdge(p, e) THEN 1 ELSE 0)) /\ winFrom' = winFrom
  BY PageStep
<1>3. p \subseteq Window
  BY <1>1, PageIs
<1>4. \A l \in p : Key(l) \in Int /\ WinFront \in Int /\ Key(l) >= WinFront
  BY <1>3, WindowIs, KeyType DEF Window
<1>5. WinFront < e + (IF OnlyEdge(p, e) THEN 1 ELSE 0)
  <2>1. PICK l \in p : Key(l) = e
    BY <1>2 DEF EdgeOf
  <2>2. CASE OnlyEdge(p, e)
    BY <1>4, <2>1, <2>2
  <2>3. CASE ~OnlyEdge(p, e)
    <3>1. PICK k \in p : Key(k) # e
      BY <2>3 DEF OnlyEdge
    <3>2. Key(k) < e
      BY <1>2, <1>4, <3>1 DEF EdgeOf
    <3> QED
      BY <1>4, <2>3, <3>2
  <2> QED
    BY <2>2, <2>3
<1>6. winFrom \in Int /\ winTo \in Int /\ forward \in BOOLEAN
  BY DEF PageType
<1> DEFINE front == e + (IF OnlyEdge(p, e) THEN 1 ELSE 0)
<1>7. front \in Int /\ WinFront < front
      /\ IF forward THEN winFrom' = front /\ winTo' = winTo ELSE winTo' = 0 - front /\ winFrom' = winFrom
  BY <1>2, <1>5
<1> HIDE DEF front
<1> QED
  BY <1>6, <1>7 DEF WinFront

\* However many lines share a timestamp: every page that is read narrows the window,
\* unless a line arrived meanwhile; no query reads the same page for ever.
THEOREM PagesNarrow == QueriesSpec => PagesAdvance
<1> DEFINE Narrows == qpc = "page" /\ qpc' = "page" /\ stored' = stored => winTo' - winFrom' < winTo - winFrom
<1>1. QueriesInv /\ [QueriesNext]_queriesVars => [Narrows]_queryVars
  <2> SUFFICES ASSUME QueriesInv, QueryNext, qpc = "page", qpc' = "page", stored' = stored
               PROVE  winTo' - winFrom' < winTo - winFrom
    BY ComponentsStep
  <2>1. CASE ReadPage
    BY <2>1, PageMovesOn DEF QueriesInv, PageInv
  <2>2. ~LineArrives
    BY DEF LineArrives
  <2> QED
    BY <2>1, <2>2 DEF QueryNext, QueryRun, NextUsage, OwnConfigMap, HiveDeployment, OtherConfigMap, TrySource,
                      GetToken, LastPage, ReadFails, QueryStep
<1> QED
  BY <1>1, AlwaysQueriesInv, PTL DEF QueriesSpec, QueriesNext, PagesAdvance
===============================================================================
