-------------------------- MODULE HcpCommandsProofs --------------------------
(***************************************************************************)
(* Theorems about the commands for hosted control planes: `osdctl hcp      *)
(* restore`, for any number of SREs, attempts and faults, and the          *)
(* transition to EUS and forced upgrades, for any number of SREs and       *)
(* clusters.                                                               *)
(***************************************************************************)
EXTENDS HcpCommands, WellFoundedInduction, TLAPS

-----------------------------------------------------------------------------
(***************************************************************************)
(* VeleroRestore.  That one Restore is live is not inductive: a creation   *)
(* acts on a list of the past.  The names make it safe: attempts fail in   *)
(* the order of their numbers, so that below an attempt that exists, or    *)
(* that an SRE is about to create, all have failed for good.               *)
(***************************************************************************)
FailedBelow(n) == \A b \in Attempt : b < n => restores[b] \in Terminal

RestoreInv ==
    /\ RestoreTypeOK
    /\ \A a \in Attempt : restores[a] # "absent" => FailedBelow(a)
    /\ \A r \in Restorer : rpc[r] = "create" => attempt[r] \in Attempt /\ FailedBelow(attempt[r])
    /\ \A r \in Restorer : rpc[r] = "wait" => attempt[r] \in Attempt

\* The invariant holds before the first run.
LEMMA RestoreInitInv == RestoreInit => RestoreInv
BY MaxAttemptAssumption DEF RestoreInit, RestoreInv, RestoreTypeOK, Phase, Terminal, Attempt

\* Every step of an SRE and of Velero keeps the invariant.
LEMMA RestoreStepInv == RestoreInv /\ [RestoreNext]_restoreVars => RestoreInv'
<1> SUFFICES ASSUME RestoreInv, [RestoreNext]_restoreVars PROVE RestoreInv'
  OBVIOUS
<1> USE MaxAttemptAssumption DEF RestoreInv, RestoreTypeOK, FailedBelow, Phase, Terminal, Attempt
<1>1. ASSUME NEW r \in Restorer, GetRestore(r) PROVE RestoreInv'
  <2>1. CASE \E a \in Existing : Live(a) /\ rpc' = [rpc EXCEPT ![r] = "wait"]
                                         /\ attempt' = [attempt EXCEPT ![r] = a]
    BY <1>1, <2>1 DEF GetRestore, Existing
  <2>2. ASSUME NEW last \in 0 .. MaxAttempt - 1,
               last \in {0} \cup Existing, \A a \in Existing : a <= last,
               \A a \in Existing : ~Live(a),
               attempt' = [attempt EXCEPT ![r] = last + 1],
               rpc' = [rpc EXCEPT ![r] = "create"]
        PROVE  RestoreInv'
    <3>1. \A b \in Attempt : b < last + 1 => restores[b] \in Terminal
      BY <2>2 DEF Existing, Live
    <3> QED BY <1>1, <2>2, <3>1 DEF GetRestore
  <2> QED BY <1>1, <2>1, <2>2 DEF GetRestore
<1>2. ASSUME NEW r \in Restorer, CreateRestore(r) PROVE RestoreInv'
  <2>1. CASE restores[attempt[r]] # "absent"
    BY <1>2, <2>1 DEF CreateRestore, RunEnds
  <2>2. CASE restores[attempt[r]] = "absent"
    <3>1. /\ restores' = [restores EXCEPT ![attempt[r]] = "InProgress"]
          /\ rpc' = [rpc EXCEPT ![r] = "wait"] /\ attempt' = attempt
          /\ attempt[r] \in Attempt
      BY <1>2, <2>2 DEF CreateRestore
    <3>2. \A b \in Attempt : restores[b] \in Terminal => restores'[b] \in Terminal
      BY <2>2, <3>1
    <3>3. RestoreTypeOK'
      BY <3>1
    <3>4. \A a \in Attempt : restores'[a] # "absent" => FailedBelow(a)'
      <4> SUFFICES ASSUME NEW a \in Attempt, restores'[a] # "absent" PROVE FailedBelow(a)'
        OBVIOUS
      <4>1. FailedBelow(a)
        BY <1>2, <3>1 DEF CreateRestore
      <4> QED BY <3>2, <4>1
    <3> QED BY <3>1, <3>2, <3>3, <3>4
  <2> QED BY <2>1, <2>2
<1>3. ASSUME NEW r \in Restorer, WaitForRestore(r) PROVE RestoreInv'
  BY <1>3 DEF WaitForRestore, RunEnds
<1>4. ASSUME NEW r \in Restorer, RestoreFails(r) PROVE RestoreInv'
  <2>1. CASE UNCHANGED restores
    BY <1>4, <2>1 DEF RestoreFails, RunEnds
  <2>2. CASE /\ rpc[r] = "create" /\ restores[attempt[r]] = "absent"
             /\ restores' = [restores EXCEPT ![attempt[r]] = "InProgress"]
    <3>1. /\ rpc' = [rpc EXCEPT ![r] = "idle"] /\ attempt' = [attempt EXCEPT ![r] = 0]
          /\ attempt[r] \in Attempt
      BY <1>4, <2>2 DEF RestoreFails, RunEnds
    <3>2. \A b \in Attempt : restores[b] \in Terminal => restores'[b] \in Terminal
      BY <2>2, <3>1
    <3>3. RestoreTypeOK'
      BY <2>2, <3>1
    <3>4. \A a \in Attempt : restores'[a] # "absent" => FailedBelow(a)'
      <4> SUFFICES ASSUME NEW a \in Attempt, restores'[a] # "absent" PROVE FailedBelow(a)'
        OBVIOUS
      <4>1. FailedBelow(a)
        BY <2>2, <3>1
      <4> QED BY <3>2, <4>1
    <3> QED BY <3>1, <3>2, <3>3, <3>4
  <2> QED BY <1>4, <2>1, <2>2 DEF RestoreFails
<1>5. ASSUME NEW a \in Attempt, VeleroEnds(a) PROVE RestoreInv'
  BY <1>5 DEF VeleroEnds
<1>6. CASE Exhausted \/ UNCHANGED restoreVars
  BY <1>6 DEF Exhausted, restoreVars
<1> QED BY <1>1, <1>2, <1>3, <1>4, <1>5, <1>6 DEF RestoreNext

\* Two live Restores would each have all the attempts below them failed.
LEMMA RestoreInvOne == RestoreInv => OneRestore
BY DEF RestoreInv, FailedBelow, OneRestore, Live, Terminal, Attempt

\* The whole of `hcp restore` touches the Restores as VeleroRestore says.
LEMMA HcpRestoreStep == [HcpNext]_hcpVars => [RestoreNext]_restoreVars
BY DEF HcpNext, Recovery, Access, Upgrade, Rest, hcpVars, restoreHcpVars

\* Whoever runs `hcp restore create`, however often and at the same time, a
\* backup is never restored over a Restore of it that runs or has completed.
THEOREM AtMostOneRestore == HcpSpec => []OneRestore
<1>1. HcpInit => RestoreInv
  BY RestoreInitInv DEF HcpInit
<1>2. RestoreInv /\ [HcpNext]_hcpVars => RestoreInv'
  BY RestoreStepInv, HcpRestoreStep
<1> QED BY <1>1, <1>2, RestoreInvOne, PTL DEF HcpSpec
-----------------------------------------------------------------------------
(***************************************************************************)
(* ManifestWorkMove.  A plan is as old as its prompt, so the invariant has *)
(* to say what of it stays true while others edit, move and reassign: the  *)
(* copies it holds are paused, and a work of the old management cluster    *)
(* that has been paused is not started again.                              *)
(***************************************************************************)
MovePlan == [kind : {"none", "velero", "cluster"}, source : {"none", "old"},
             names : SUBSET Work, content : [Work -> Content \cup {None}],
             missing : SUBSET Work, unpaused : SUBSET Work]

MoveTypeOK ==
    /\ works \in [MC -> [Work -> Content \cup {None}]]
    /\ mpc \in [SRE -> {"idle", "planned", "pause", "create", "verify", "moved",
                        "previewed", "reassign", "confirm"}]
    /\ move \in [SRE -> MovePlan]

Moving(s) == mpc[s] \in {"planned", "pause", "create", "verify"}

\* What holds of a plan until its run ends.
PlanSound(s) ==
    /\ move[s].source = "old"
    /\ move[s].missing \subseteq move[s].names
    /\ \A w \in move[s].unpaused : w \in Reconciled /\ works["old"][w] # None
    /\ \A w \in move[s].names \cap Reconciled :
        /\ move[s].content[w].paused
        /\ w \notin move[s].unpaused => works["old"][w].paused

AllIsPaused(s) == move[s].unpaused = {} /\ move[s].missing # {}

MoveInv ==
    /\ MoveTypeOK
    /\ NeverBothActive
    /\ \A s \in SRE : Moving(s) => PlanSound(s)
    /\ \A s \in SRE : mpc[s] \in {"create", "verify"} => AllIsPaused(s)

\* The first of some works, in the order they are made in, is one of them.
LEMMA FirstIsOne == ASSUME NEW names \in SUBSET Work, names # {} PROVE First(names) \in names
<1>1. \E w \in names : \A u \in names : Rank[w] <= Rank[u]
  <2> USE DEF Work, Velero, Cluster, Reconciled, Rank
  <2>1. CASE "secret" \in names
    BY <2>1
  <2>2. CASE "secret" \notin names /\ "schedules" \in names
    BY <2>2
  <2>3. CASE names \subseteq {"namespaces", "hosted", "pool"} /\ "namespaces" \in names
    BY <2>3
  <2>4. CASE names \subseteq {"hosted", "pool"} /\ "hosted" \in names
    BY <2>4
  <2>5. CASE names = {"pool"}
    BY <2>5
  <2>6. \/ "secret" \in names \/ "schedules" \in names
        \/ names \subseteq {"namespaces", "hosted", "pool"}
    OBVIOUS
  <2>7. names \subseteq {"namespaces", "hosted", "pool"} =>
          "namespaces" \in names \/ names \subseteq {"hosted", "pool"}
    OBVIOUS
  <2>8. names \subseteq {"hosted", "pool"} => "hosted" \in names \/ names = {"pool"}
    OBVIOUS
  <2> QED BY <2>1, <2>2, <2>3, <2>4, <2>5, <2>6, <2>7, <2>8
<1> QED BY <1>1 DEF First

\* The invariant holds before the first run.
LEMMA MoveInitInv == MoveInit => MoveInv
BY DEF MoveInit, MoveInv, MoveTypeOK, MovePlan, NoMove, NeverBothActive, Moving, Content,
       None, Fresh, MC, Work, Velero, Cluster, Reconciled

\* A step that leaves the works alone leaves the plan of a run that goes on.
LEMMA MoveKeepsWorks ==
  ASSUME MoveInv, NEW s \in SRE, UNCHANGED works, MoveTypeOK',
         \A t \in SRE \ {s} : mpc'[t] = mpc[t] /\ move'[t] = move[t],
         Moving(s)' => PlanSound(s)',
         mpc'[s] \in {"create", "verify"} => AllIsPaused(s)'
  PROVE  MoveInv'
BY DEF MoveInv, NeverBothActive, Moving, PlanSound, AllIsPaused

\* A step that changes the works keeps what plans say of the old ones if it
\* starts none of them again.
LEMMA MoveKeepsPlans ==
  ASSUME MoveInv, MoveTypeOK', NeverBothActive',
         \A w \in Reconciled : works["old"][w].paused => works'["old"][w].paused,
         \A w \in Reconciled : works["old"][w] # None => works'["old"][w] # None,
         NEW s \in SRE,
         \A t \in SRE \ {s} : mpc'[t] = mpc[t] /\ move'[t] = move[t],
         Moving(s)' => PlanSound(s)',
         mpc'[s] \in {"create", "verify"} => AllIsPaused(s)'
  PROVE  MoveInv'
BY DEF MoveInv, Moving, PlanSound, AllIsPaused

LEMMA PrepareInv == ASSUME MoveInv, NEW s \in SRE, Prepare(s) PROVE MoveInv'
<1>1. PICK kind \in {"velero", "cluster"}, source \in {"old", assigned} \cap MC :
        LET names == Copied(kind, source)
            content == Destination(kind, works[source])
        IN /\ source # "new"
           /\ move' = [move EXCEPT ![s] =
                [kind |-> kind, source |-> source, names |-> names, content |-> content,
                 missing |-> Missing(names),
                 unpaused |-> IF kind = "cluster" THEN names \cap Reconciled ELSE {}]]
  BY DEF Prepare
<1> DEFINE names == Copied(kind, source)
           content == Destination(kind, works[source])
           entry == [kind |-> kind, source |-> source, names |-> names, content |-> content,
                     missing |-> Missing(names),
                     unpaused |-> IF kind = "cluster" THEN names \cap Reconciled ELSE {}]
<1>2. source = "old" /\ move' = [move EXCEPT ![s] = entry]
  BY <1>1 DEF MC
<1>3. names \in SUBSET Work /\ Missing(names) \subseteq names
  BY DEF Copied, Work, Cluster, Missing
<1>4. content \in [Work -> Content \cup {None}]
  <2>1. works[source] \in [Work -> Content \cup {None}]
    BY <1>2 DEF MoveInv, MoveTypeOK, MC
  <2>2. CASE kind = "cluster"
    <3>1. \A w \in Work : works[source][w] # None =>
            [works[source][w] EXCEPT !.paused = TRUE] \in Content
      BY <2>1 DEF Content
    <3> QED BY <2>1, <2>2, <3>1 DEF Destination
  <2>3. CASE kind # "cluster"
    BY <2>1, <2>3 DEF Destination
  <2> QED BY <2>2, <2>3
<1>5. entry \in MovePlan
  <2>1. (IF kind = "cluster" THEN names \cap Reconciled ELSE {}) \in SUBSET Work
    BY <1>3
  <2> QED BY <1>2, <1>3, <1>4, <2>1 DEF MovePlan
<1>6. \A w \in names \cap Reconciled : content[w].paused /\ w \in entry.unpaused
  <2> SUFFICES ASSUME NEW w \in names \cap Reconciled
               PROVE  content[w].paused /\ w \in entry.unpaused
    OBVIOUS
  <2>1. kind = "cluster" /\ works[source][w] # None /\ w \in Work
    BY <1>3 DEF Copied, Velero, Reconciled
  <2>2. works[source][w] \in Content
    BY <1>2, <2>1 DEF MoveInv, MoveTypeOK, MC
  <2>3. content[w] = [works[source][w] EXCEPT !.paused = TRUE]
    BY <2>1 DEF Destination
  <2> QED BY <2>1, <2>2, <2>3 DEF Content
<1>7. UNCHANGED works /\ mpc' = [mpc EXCEPT ![s] = "planned"]
  BY DEF Prepare, GoTo
<1>8. MoveTypeOK'
  BY <1>2, <1>5, <1>7 DEF MoveInv, MoveTypeOK
<1>9. move'[s] = entry
  BY <1>2 DEF MoveInv, MoveTypeOK
<1>10. PlanSound(s)'
  <2>1. \A w \in entry.unpaused : w \in Reconciled /\ works["old"][w] # None
    BY <1>2 DEF Copied
  <2>2. /\ entry.source = "old" /\ entry.names = names /\ entry.content = content
        /\ entry.missing = Missing(names)
    BY <1>2
  <2> HIDE DEF entry, names, content
  <2> QED BY <1>3, <1>6, <1>7, <1>9, <2>1, <2>2 DEF PlanSound
<1>11. \A t \in SRE \ {s} : mpc'[t] = mpc[t] /\ move'[t] = move[t]
  BY <1>2, <1>7 DEF MoveInv, MoveTypeOK
<1>12. mpc'[s] = "planned"
  BY <1>7 DEF MoveInv, MoveTypeOK
<1> QED BY <1>7, <1>8, <1>10, <1>11, <1>12, MoveKeepsWorks

\* A run that ends keeps no plan but that of a move that succeeded.
LEMMA MoveEndsInv ==
  ASSUME MoveInv, NEW s \in SRE, MoveEnds(s, "idle"), UNCHANGED works PROVE MoveInv'
<1>1. NoMove \in MovePlan
  BY DEF NoMove, MovePlan
<1>2. mpc' = [mpc EXCEPT ![s] = "idle"] /\ move' = [move EXCEPT ![s] = NoMove]
  BY DEF MoveEnds, GoTo
<1>3. MoveTypeOK'
  BY <1>1, <1>2 DEF MoveInv, MoveTypeOK
<1>4. mpc'[s] = "idle" /\ \A t \in SRE \ {s} : mpc'[t] = mpc[t] /\ move'[t] = move[t]
  BY <1>2 DEF MoveInv, MoveTypeOK
<1> QED BY <1>3, <1>4, MoveKeepsWorks DEF Moving

LEMMA ConfirmInv == ASSUME MoveInv, NEW s \in SRE, Confirm(s) PROVE MoveInv'
<1>1. CASE MoveEnds(s, "idle")
  BY <1>1, MoveEndsInv DEF Confirm
<1>2. CASE ~MoveEnds(s, "idle")
  <2>1. /\ move' = [move EXCEPT ![s].missing = Missing(@)]
        /\ mpc' = [mpc EXCEPT ![s] = "pause"] /\ UNCHANGED works
        /\ mpc[s] = "planned"
    BY <1>2 DEF Confirm, GoTo
  <2>2. move[s] \in MovePlan /\ Missing(move[s].missing) \subseteq move[s].missing
    BY DEF MoveInv, MoveTypeOK, Missing
  <2>3. move'[s] = [move[s] EXCEPT !.missing = Missing(@)]
    BY <2>1 DEF MoveInv, MoveTypeOK
  <2>4. move'[s] \in MovePlan
    BY <2>2, <2>3 DEF MovePlan
  <2>5. MoveTypeOK'
    BY <2>1, <2>3, <2>4 DEF MoveInv, MoveTypeOK
  <2>6. PlanSound(s)
    BY <2>1 DEF MoveInv, Moving
  <2>7. PlanSound(s)'
    BY <2>1, <2>2, <2>3, <2>6 DEF PlanSound, MovePlan
  <2>8. mpc'[s] = "pause" /\ \A t \in SRE \ {s} : mpc'[t] = mpc[t] /\ move'[t] = move[t]
    BY <2>1 DEF MoveInv, MoveTypeOK
  <2> QED BY <2>1, <2>5, <2>7, <2>8, MoveKeepsWorks
<1> QED BY <1>1, <1>2

\* Pausing works of the old management cluster starts none.
LEMMA PausedWorks ==
  ASSUME MoveInv, NEW w \in Reconciled, works' = Paused("old", w)
  PROVE  /\ works["old"][w] # None => works' \in [MC -> [Work -> Content \cup {None}]]
         /\ works'["old"][w].paused
         /\ \A u \in Reconciled : works["old"][u].paused => works'["old"][u].paused
         /\ \A u \in Reconciled : works["old"][u] # None => works'["old"][u] # None
         /\ works'["new"] = works["new"]
<1>1. works["old"][w] \in Content \cup {None} /\ w \in Work
  BY DEF MoveInv, MoveTypeOK, MC, Work, Cluster
<1>2. works' = [works EXCEPT !["old"][w].paused = TRUE]
  BY DEF Paused
<1>3. works'["old"] = [works["old"] EXCEPT ![w].paused = TRUE] /\ works'["new"] = works["new"]
  BY <1>2 DEF MoveInv, MoveTypeOK, MC
<1>4. works'["old"][w] = [works["old"][w] EXCEPT !.paused = TRUE]
      /\ \A u \in Work \ {w} : works'["old"][u] = works["old"][u]
  BY <1>1, <1>3 DEF MoveInv, MoveTypeOK, MC
<1>5. works'["old"][w].paused
  BY <1>1, <1>4 DEF Content, None
<1>6. works["old"][w] # None => works'["old"][w] \in Content
  BY <1>1, <1>4 DEF Content
<1>7. works["old"][w] # None => works'["old"] \in [Work -> Content \cup {None}]
  BY <1>1, <1>3, <1>4, <1>6 DEF MoveInv, MoveTypeOK, MC
<1>8. works["old"][w] # None => works' \in [MC -> [Work -> Content \cup {None}]]
  BY <1>2, <1>3, <1>7 DEF MoveInv, MoveTypeOK, MC
<1>9. works'["old"][w] # None
  BY <1>5 DEF None
<1> QED BY <1>3, <1>4, <1>5, <1>8, <1>9 DEF Reconciled, Work, Cluster

LEMMA PauseSourceInv == ASSUME MoveInv, NEW s \in SRE, PauseSource(s) PROVE MoveInv'
<1> DEFINE w == First(move[s].unpaused)
<1>1. mpc[s] = "pause" /\ move[s].unpaused # {} /\ works' = Paused(move[s].source, w)
      /\ move' = [move EXCEPT ![s].unpaused = @ \ {w}] /\ UNCHANGED mpc
  BY DEF PauseSource
<1>2. move[s] \in MovePlan /\ PlanSound(s)
  BY <1>1 DEF MoveInv, MoveTypeOK, Moving
<1>3. w \in move[s].unpaused /\ w \in Reconciled /\ works["old"][w] # None
  BY <1>1, <1>2, FirstIsOne DEF MovePlan, PlanSound
<1> HIDE DEF w
<1>4. /\ works' \in [MC -> [Work -> Content \cup {None}]]
      /\ works'["old"][w].paused
      /\ \A u \in Reconciled : works["old"][u].paused => works'["old"][u].paused
      /\ \A u \in Reconciled : works["old"][u] # None => works'["old"][u] # None
      /\ works'["new"] = works["new"]
  BY <1>1, <1>2, <1>3, PausedWorks DEF PlanSound
<1>5. move'[s] = [move[s] EXCEPT !.unpaused = @ \ {w}]
  BY <1>1 DEF MoveInv, MoveTypeOK
<1>6. move'[s] \in MovePlan
  BY <1>2, <1>5 DEF MovePlan
<1>7. MoveTypeOK'
  BY <1>1, <1>4, <1>5, <1>6 DEF MoveInv, MoveTypeOK
<1>8. NeverBothActive'
  BY <1>4 DEF MoveInv, NeverBothActive
<1>9. PlanSound(s)'
  BY <1>2, <1>4, <1>5 DEF PlanSound, MovePlan
<1>10. \A t \in SRE \ {s} : mpc'[t] = mpc[t] /\ move'[t] = move[t]
  BY <1>1 DEF MoveInv, MoveTypeOK
<1> QED BY <1>1, <1>4, <1>7, <1>8, <1>9, <1>10, MoveKeepsPlans

LEMMA AllPausedInv == ASSUME MoveInv, NEW s \in SRE, AllPaused(s) PROVE MoveInv'
<1>1. mpc[s] = "pause" /\ move[s].unpaused = {} /\ UNCHANGED <<works, move>>
  BY DEF AllPaused
<1>2. PICK next \in {"moved", "create"} : mpc' = [mpc EXCEPT ![s] = next]
  BY DEF AllPaused, GoTo
<1>3. MoveTypeOK'
  BY <1>1, <1>2 DEF MoveInv, MoveTypeOK
<1>4. \A t \in SRE \ {s} : mpc'[t] = mpc[t] /\ move'[t] = move[t]
  BY <1>1, <1>2 DEF MoveInv, MoveTypeOK
<1>5. PlanSound(s)'
  BY <1>1 DEF MoveInv, Moving, PlanSound
<1>6. mpc'[s] \in {"create", "verify"} => AllIsPaused(s)'
  BY <1>1 DEF AllPaused, GoTo, AllIsPaused, MoveInv, MoveTypeOK
<1> QED BY <1>1, <1>3, <1>4, <1>5, <1>6, MoveKeepsWorks

\* A copy is made of what the plan holds, which is paused, once all the plan
\* copies is paused in the old management cluster.
LEMMA CreatedWorks ==
  ASSUME MoveInv, NEW s \in SRE, mpc[s] = "create",
         works' = [works EXCEPT !["new"][NextWork(s)] = move[s].content[NextWork(s)]]
  PROVE  /\ works' \in [MC -> [Work -> Content \cup {None}]]
         /\ NeverBothActive'
         /\ works'["old"] = works["old"]
<1> DEFINE w == NextWork(s)
<1>1. move[s] \in MovePlan /\ PlanSound(s) /\ AllIsPaused(s)
  BY DEF MoveInv, MoveTypeOK, Moving
<1>2. w \in move[s].missing /\ w \in move[s].names /\ w \in Work
  BY <1>1, FirstIsOne DEF NextWork, MovePlan, PlanSound, AllIsPaused
<1>3. move[s].content[w] \in Content \cup {None}
  BY <1>1, <1>2 DEF MovePlan
<1>4. works' = [works EXCEPT !["new"] = [works["new"] EXCEPT ![w] = move[s].content[w]]]
  OBVIOUS
<1> HIDE DEF w
<1>5. works'["new"] = [works["new"] EXCEPT ![w] = move[s].content[w]]
      /\ works'["old"] = works["old"] /\ works'["new"] \in [Work -> Content \cup {None}]
  <2>1. works \in [MC -> [Work -> Content \cup {None}]] /\ "old" \in MC /\ "new" \in MC
    BY DEF MoveInv, MoveTypeOK, MC
  <2> DEFINE copies == [works["new"] EXCEPT ![w] = move[s].content[w]]
  <2>2. copies \in [Work -> Content \cup {None}]
    BY <1>3, <2>1
  <2>3. works' = [works EXCEPT !["new"] = copies]
    BY <1>4
  <2> HIDE DEF copies
  <2>4. works'["new"] = copies /\ works'["old"] = works["old"]
    BY <2>1, <2>3
  <2> QED BY <2>2, <2>4 DEF copies
<1>6. works' \in [MC -> [Work -> Content \cup {None}]]
  BY <1>4, <1>5 DEF MoveInv, MoveTypeOK, MC
<1>7. w \in Reconciled => move[s].content[w].paused /\ works["old"][w].paused
  BY <1>1, <1>2 DEF PlanSound, AllIsPaused
<1>8. NeverBothActive'
  <2> SUFFICES ASSUME NEW u \in Reconciled, works'["new"][u] # None
               PROVE  works'["new"][u].paused /\ works'["old"][u].paused
    BY DEF NeverBothActive
  <2>1. CASE u = w
    BY <1>2, <1>5, <1>7, <2>1 DEF MoveInv, MoveTypeOK, MC
  <2>2. CASE u # w
    BY <1>5, <2>2 DEF MoveInv, MoveTypeOK, MC, NeverBothActive, Reconciled, Work, Cluster
  <2> QED BY <2>1, <2>2
<1> QED BY <1>5, <1>6, <1>8

LEMMA CreateInv == ASSUME MoveInv, NEW s \in SRE, Create(s) PROVE MoveInv'
<1>1. /\ mpc[s] = "create" /\ mpc' = [mpc EXCEPT ![s] = "verify"] /\ UNCHANGED move
      /\ works' = [works EXCEPT !["new"][NextWork(s)] = move[s].content[NextWork(s)]]
  BY DEF Create, GoTo
<1>2. /\ works' \in [MC -> [Work -> Content \cup {None}]]
      /\ NeverBothActive' /\ works'["old"] = works["old"]
  BY <1>1, CreatedWorks
<1>3. MoveTypeOK'
  BY <1>1, <1>2 DEF MoveInv, MoveTypeOK
<1>4. PlanSound(s)' /\ AllIsPaused(s)'
  BY <1>1, <1>2 DEF MoveInv, Moving, PlanSound, AllIsPaused
<1>5. \A t \in SRE \ {s} : mpc'[t] = mpc[t] /\ move'[t] = move[t]
  BY <1>1 DEF MoveInv, MoveTypeOK
<1> QED BY <1>2, <1>3, <1>4, <1>5, MoveKeepsPlans

LEMMA VerifyInv == ASSUME MoveInv, NEW s \in SRE, Verify(s) PROVE MoveInv'
<1> DEFINE w == NextWork(s)
<1>1. mpc[s] = "verify" /\ move' = [move EXCEPT ![s].missing = @ \ {w}] /\ UNCHANGED works
      /\ mpc' = [mpc EXCEPT ![s] = IF move[s].missing = {w} THEN "moved" ELSE "create"]
  BY DEF Verify, GoTo
<1>2. move[s] \in MovePlan /\ PlanSound(s) /\ AllIsPaused(s)
  BY <1>1 DEF MoveInv, MoveTypeOK, Moving
<1> HIDE DEF w
<1>3. move'[s] = [move[s] EXCEPT !.missing = @ \ {w}]
  BY <1>1 DEF MoveInv, MoveTypeOK
<1>4. move'[s] \in MovePlan
  BY <1>2, <1>3 DEF MovePlan
<1>5. mpc'[s] = (IF move[s].missing = {w} THEN "moved" ELSE "create")
      /\ \A t \in SRE \ {s} : mpc'[t] = mpc[t] /\ move'[t] = move[t]
  BY <1>1 DEF MoveInv, MoveTypeOK
<1>6. MoveTypeOK'
  BY <1>1, <1>3, <1>4, <1>5 DEF MoveInv, MoveTypeOK
<1>7. PlanSound(s)'
  BY <1>1, <1>2, <1>3 DEF PlanSound, MovePlan
<1>8. mpc'[s] = "create" => AllIsPaused(s)'
  BY <1>2, <1>3, <1>5 DEF AllIsPaused, MovePlan
<1> QED BY <1>1, <1>5, <1>6, <1>7, <1>8, MoveKeepsWorks DEF Moving

LEMMA FailInv == ASSUME MoveInv, NEW s \in SRE, Fail(s) PROVE MoveInv'
<1>1. MoveEnds(s, "idle") /\ mpc[s] \notin Ended
  BY DEF Fail
<1>2. CASE UNCHANGED works
  BY <1>1, <1>2, MoveEndsInv
<1>3. NoMove \in MovePlan
  BY DEF NoMove, MovePlan
<1>4. mpc' = [mpc EXCEPT ![s] = "idle"] /\ move' = [move EXCEPT ![s] = NoMove]
  BY <1>1 DEF MoveEnds, GoTo
<1>5. mpc'[s] = "idle" /\ \A t \in SRE \ {s} : mpc'[t] = mpc[t] /\ move'[t] = move[t]
  BY <1>4 DEF MoveInv, MoveTypeOK
<1>6. works' \in [MC -> [Work -> Content \cup {None}]] => MoveTypeOK'
  BY <1>3, <1>4 DEF MoveInv, MoveTypeOK
<1>7. CASE /\ mpc[s] = "pause" /\ move[s].unpaused # {}
           /\ works' = Paused(move[s].source, First(move[s].unpaused))
  <2> DEFINE w == First(move[s].unpaused)
  <2>1. move[s] \in MovePlan /\ PlanSound(s)
    BY <1>7 DEF MoveInv, MoveTypeOK, Moving
  <2>2. w \in Reconciled /\ works["old"][w] # None /\ works' = Paused("old", w)
    BY <1>7, <2>1, FirstIsOne DEF MovePlan, PlanSound
  <2> HIDE DEF w
  <2>3. /\ works' \in [MC -> [Work -> Content \cup {None}]]
        /\ \A u \in Reconciled : works["old"][u].paused => works'["old"][u].paused
        /\ \A u \in Reconciled : works["old"][u] # None => works'["old"][u] # None
        /\ works'["new"] = works["new"]
    BY <2>2, PausedWorks
  <2>4. NeverBothActive'
    BY <2>3 DEF MoveInv, NeverBothActive
  <2> QED BY <1>5, <1>6, <2>3, <2>4, MoveKeepsPlans DEF Moving
<1>8. CASE /\ mpc[s] = "create"
           /\ works' = [works EXCEPT !["new"][NextWork(s)] = move[s].content[NextWork(s)]]
  <2>1. /\ works' \in [MC -> [Work -> Content \cup {None}]]
        /\ NeverBothActive' /\ works'["old"] = works["old"]
    BY <1>8, CreatedWorks
  <2> QED BY <1>5, <1>6, <2>1, MoveKeepsPlans DEF Moving
<1> QED BY <1>2, <1>7, <1>8 DEF Fail

\* A reassignment moves no work.
LEMMA ReassignInv ==
  ASSUME MoveInv, NEW s \in SRE,
         Preview(s) \/ CheckAssignment(s) \/ Reassign(s) \/ ReadBack(s)
  PROVE  MoveInv'
<1>1. CASE MoveEnds(s, "idle")
  BY <1>1, MoveEndsInv DEF Preview, CheckAssignment, Reassign, ReadBack
<1>2. CASE ~MoveEnds(s, "idle")
  <2>1. PICK next \in {"previewed", "reassign", "confirm"}, entry \in {NoMove, move[s]} :
          mpc' = [mpc EXCEPT ![s] = next] /\ move' = [move EXCEPT ![s] = entry]
          /\ UNCHANGED works
    BY <1>2 DEF MoveInv, MoveTypeOK, Preview, CheckAssignment, Reassign, ReadBack, GoTo
  <2>2. entry \in MovePlan
    BY DEF MoveInv, MoveTypeOK, NoMove, MovePlan
  <2>3. MoveTypeOK'
    BY <2>1, <2>2 DEF MoveInv, MoveTypeOK
  <2>4. mpc'[s] = next /\ \A t \in SRE \ {s} : mpc'[t] = mpc[t] /\ move'[t] = move[t]
    BY <2>1 DEF MoveInv, MoveTypeOK
  <2> QED BY <2>1, <2>3, <2>4, MoveKeepsWorks DEF Moving
<1> QED BY <1>1, <1>2

\* clusters-service leaves the pause of what it edits alone.
LEMMA EditWorkInv ==
  ASSUME MoveInv, NEW w \in {"schedules"} \cup Reconciled, EditWork(w) PROVE MoveInv'
<1>1. /\ assigned \in MC /\ works[assigned][w] # None /\ UNCHANGED <<mpc, move>>
      /\ works' = [works EXCEPT ![assigned][w].version = 1]
  BY DEF EditWork
<1>2. w \in Work /\ works \in [MC -> [Work -> Content \cup {None}]]
  BY DEF MoveInv, MoveTypeOK, Work, Velero, Cluster
<1> DEFINE content == [works[assigned][w] EXCEPT !.version = 1]
<1>3. content \in Content /\ content.paused = works[assigned][w].paused
  BY <1>1, <1>2 DEF Content
<1>4. content # None
  BY <1>3 DEF Content, None
<1>5. works' = [works EXCEPT ![assigned] = [works[assigned] EXCEPT ![w] = content]]
  BY <1>1
<1> HIDE DEF content
<1>6. works' \in [MC -> [Work -> Content \cup {None}]]
  BY <1>1, <1>2, <1>3, <1>5
<1>7. \A m \in MC, u \in Work :
        (works'[m][u].paused <=> works[m][u].paused) /\ (works'[m][u] # None <=> works[m][u] # None)
  BY <1>1, <1>2, <1>3, <1>4, <1>5
<1>8. MoveTypeOK'
  BY <1>1, <1>6 DEF MoveInv, MoveTypeOK
<1>9. "old" \in MC /\ "new" \in MC /\ Reconciled \subseteq Work
  BY DEF MC, Work, Cluster
<1>10. NeverBothActive'
  <2> SUFFICES ASSUME NEW u \in Reconciled, works'["new"][u] # None
               PROVE  works'["new"][u].paused /\ works'["old"][u].paused
    BY DEF NeverBothActive
  <2> u \in Work
    BY <1>9
  <2>1. (works'["new"][u].paused <=> works["new"][u].paused) /\ works["new"][u] # None
    BY <1>7, <1>9
  <2>2. works'["old"][u].paused <=> works["old"][u].paused
    BY <1>7, <1>9
  <2> QED BY <2>1, <2>2 DEF MoveInv, NeverBothActive
<1>11. \A s \in SRE : Moving(s)' => PlanSound(s)'
  BY <1>1, <1>7, <1>9 DEF MoveInv, Moving, PlanSound
<1> QED BY <1>1, <1>8, <1>10, <1>11 DEF MoveInv, AllIsPaused

\* A pool that is added was in no plan and has no copy.
LEMMA AddPoolInv == ASSUME MoveInv, AddPool PROVE MoveInv'
<1>1. /\ works["old"]["pool"] = None /\ UNCHANGED <<mpc, move>>
      /\ works' = [works EXCEPT !["old"]["pool"] = Fresh]
  BY DEF AddPool
<1>2. works \in [MC -> [Work -> Content \cup {None}]] /\ "old" \in MC /\ "new" \in MC
      /\ "pool" \in Work /\ Reconciled \subseteq Work
  BY DEF MoveInv, MoveTypeOK, MC, Work, Cluster, Reconciled
<1>3. Fresh \in Content /\ Fresh # None /\ ~Fresh.paused /\ ~None.paused
  BY DEF Fresh, Content, None
<1>4. works' = [works EXCEPT !["old"] = [works["old"] EXCEPT !["pool"] = Fresh]]
  BY <1>1
<1>5. works' \in [MC -> [Work -> Content \cup {None}]] /\ works'["new"] = works["new"]
      /\ works'["old"] = [works["old"] EXCEPT !["pool"] = Fresh]
  BY <1>2, <1>3, <1>4 DEF MC
<1>6. \A u \in Work \ {"pool"} : works'["old"][u] = works["old"][u]
  BY <1>2, <1>5
<1>7. ~works["old"]["pool"].paused
  BY <1>1, <1>3
<1>8. MoveTypeOK'
  BY <1>1, <1>5 DEF MoveInv, MoveTypeOK
<1>9. NeverBothActive'
  <2>1. works["new"]["pool"] = None
    BY <1>7 DEF MoveInv, NeverBothActive, Reconciled
  <2> SUFFICES ASSUME NEW u \in Reconciled, works'["new"][u] # None
               PROVE  works'["new"][u].paused /\ works'["old"][u].paused
    BY DEF NeverBothActive
  <2>2. u # "pool" /\ u \in Work
    BY <1>2, <1>5, <2>1
  <2> QED BY <1>5, <1>6, <2>2 DEF MoveInv, NeverBothActive
<1>10. \A s \in SRE : Moving(s)' => PlanSound(s)'
  BY <1>1, <1>2, <1>6, <1>7 DEF MoveInv, Moving, PlanSound
<1> QED BY <1>1, <1>8, <1>9, <1>10 DEF MoveInv, AllIsPaused

LEMMA MoveStepInv == MoveInv /\ [MoveNext]_moveVars => MoveInv'
<1> SUFFICES ASSUME MoveInv, [MoveNext]_moveVars PROVE MoveInv'
  OBVIOUS
<1>1. ASSUME NEW s \in SRE, Command(s) PROVE MoveInv'
  <2>1. CASE Refused(s)
    BY <2>1, MoveEndsInv DEF Refused
  <2> QED BY <1>1, <2>1, PrepareInv, ConfirmInv, PauseSourceInv, AllPausedInv, CreateInv,
             VerifyInv, ReassignInv DEF Command
<1>2. CASE UNCHANGED moveVars
  BY <1>2 DEF moveVars, MoveInv, MoveTypeOK, NeverBothActive, Moving, PlanSound, AllIsPaused
<1> QED BY <1>1, <1>2, FailInv, EditWorkInv, AddPoolInv DEF MoveNext

\* Whatever part of the recovery is at work, the works change as ManifestWorkMove
\* says.
LEMMA HcpMoveStep == [HcpNext]_hcpVars => [MoveNext]_moveVars
BY DEF HcpNext, Recovery, Access, Upgrade, Rest, hcpVars, restoreHcpVars

\* However many SREs move the works, reassign the cluster, fail and begin again,
\* no HostedCluster or NodePool is reconciled in both management clusters.
THEOREM NeverActiveTwice == HcpSpec => []NeverBothActive
<1>1. HcpInit => MoveInv
  BY MoveInitInv DEF HcpInit
<1>2. MoveInv /\ [HcpNext]_hcpVars => MoveInv'
  BY MoveStepInv, HcpMoveStep
<1>3. MoveInv => NeverBothActive
  BY DEF MoveInv
<1> QED BY <1>1, <1>2, <1>3, PTL DEF HcpSpec
-----------------------------------------------------------------------------
(***************************************************************************)
(* A move that says it is complete.  What a run found or made in the       *)
(* replacement nobody deletes, and what it paused nobody starts: so each   *)
(* work that its plan no longer misses is there when the run ends, however *)
(* long its prompt stood open.                                             *)
(***************************************************************************)
CopyInv(s) ==
    Moving(s) \/ mpc[s] = "moved" =>
        /\ move[s].source = "old"
        /\ \A w \in move[s].names : move[s].content[w] # None
        /\ \A w \in move[s].names \ move[s].missing : works["new"][w] # None
        /\ move[s].kind = "cluster" => \A w \in Velero : works["new"][w] # None
        /\ \A w \in move[s].names \cap Reconciled : w \notin move[s].unpaused => works["old"][w].paused
        /\ mpc[s] = "moved" => move[s].missing = {} /\ move[s].unpaused = {}

\* Works of the replacement stay, and so do the pauses of the old management cluster.
WorksKept ==
    /\ \A w \in Work : works["new"][w] # None => works'["new"][w] # None
    /\ \A w \in Reconciled : works["old"][w].paused => works'["old"][w].paused

LEMMA MoveKeepsCopies == ASSUME MoveInv, [MoveNext]_moveVars PROVE WorksKept
<1>a. works \in [MC -> [Work -> Content \cup {None}]] /\ "old" \in MC /\ "new" \in MC
      /\ Reconciled \subseteq Work
  BY DEF MoveInv, MoveTypeOK, MC, Work, Cluster
<1>1. ASSUME NEW s \in SRE, Moving(s), move[s].unpaused # {},
             works' = Paused(move[s].source, First(move[s].unpaused))
      PROVE  WorksKept
  <2>1. move[s] \in MovePlan /\ PlanSound(s)
    BY <1>1 DEF MoveInv, MoveTypeOK
  <2>2. First(move[s].unpaused) \in Reconciled /\ move[s].source = "old"
    BY <1>1, <2>1, FirstIsOne DEF MovePlan, PlanSound
  <2>3. works'["new"] = works["new"]
        /\ \A u \in Reconciled : works["old"][u].paused => works'["old"][u].paused
    BY <1>1, <2>2, PausedWorks
  <2> QED
    BY <2>3 DEF WorksKept
<1>2. ASSUME NEW s \in SRE, mpc[s] = "create", works["new"][NextWork(s)] = None,
             works' = [works EXCEPT !["new"][NextWork(s)] = move[s].content[NextWork(s)]]
      PROVE  WorksKept
  <2>1. works'["old"] = works["old"]
    BY <1>2, CreatedWorks
  <2>2. \A w \in Work : w # NextWork(s) => works'["new"][w] = works["new"][w]
    BY <1>2, <1>a
  <2> QED
    BY <1>2, <2>1, <2>2 DEF WorksKept
<1>3. ASSUME NEW w \in {"schedules"} \cup Reconciled, EditWork(w) PROVE WorksKept
  <2>1. assigned \in MC /\ works[assigned][w] # None /\ w \in Work
        /\ works' = [works EXCEPT ![assigned][w].version = 1]
    BY <1>3, <1>a DEF EditWork, Work, Velero
  <2> DEFINE content == [works[assigned][w] EXCEPT !.version = 1]
  <2>2. content # None /\ content.paused = works[assigned][w].paused
    BY <2>1, <1>a DEF Content, None
  <2>3. works' = [works EXCEPT ![assigned] = [works[assigned] EXCEPT ![w] = content]]
    BY <2>1
  <2> HIDE DEF content
  <2>4. \A m \in MC, u \in Work :
          (works'[m][u].paused <=> works[m][u].paused) /\ (works'[m][u] # None <=> works[m][u] # None)
    BY <2>1, <2>2, <2>3, <1>a
  <2> QED
    BY <2>4, <1>a DEF WorksKept
<1>4. CASE AddPool
  <2>1. works["old"]["pool"] = None /\ works' = [works EXCEPT !["old"]["pool"] = Fresh]
    BY <1>4 DEF AddPool
  <2>2. works'["new"] = works["new"] /\ \A u \in Work \ {"pool"} : works'["old"][u] = works["old"][u]
    BY <2>1, <1>a DEF MC
  <2>3. ~works["old"]["pool"].paused
    BY <2>1 DEF None
  <2> QED
    BY <2>2, <2>3, <1>a DEF WorksKept
<1>5. CASE UNCHANGED works
  BY <1>5 DEF WorksKept
<1>6. ASSUME NEW s \in SRE, Command(s) \/ Fail(s) PROVE WorksKept
  <2>1. CASE PauseSource(s)
    BY <2>1, <1>1 DEF PauseSource, Moving
  <2>2. CASE Create(s)
    BY <2>2, <1>2 DEF Create
  <2>3. CASE Fail(s)
    <3>1. \/ UNCHANGED works
          \/ mpc[s] = "pause" /\ move[s].unpaused # {} /\ works' = Paused(move[s].source, First(move[s].unpaused))
          \/ /\ mpc[s] = "create" /\ works["new"][NextWork(s)] = None
             /\ works' = [works EXCEPT !["new"][NextWork(s)] = move[s].content[NextWork(s)]]
      BY <2>3 DEF Fail
    <3> QED
      BY <3>1, <1>1, <1>2, <1>5 DEF Moving
  <2> QED
    BY <2>1, <2>2, <2>3, <1>5, <1>6
       DEF Command, Prepare, Confirm, AllPaused, Verify, Refused, Preview, CheckAssignment, Reassign, ReadBack
<1> QED
  BY <1>3, <1>4, <1>5, <1>6 DEF MoveNext, moveVars

\* What a plan holds stays true of it while others work.
LEMMA CopyOthers ==
    ASSUME MoveInv, WorksKept, NEW t \in SRE, CopyInv(t), mpc'[t] = mpc[t], move'[t] = move[t]
    PROVE  CopyInv(t)'
<1>1. move[t].names \subseteq Work /\ Velero \subseteq Work
  BY DEF MoveInv, MoveTypeOK, MovePlan, Work
<1> QED
  BY <1>1 DEF CopyInv, Moving, WorksKept

\* A run acts on its own plan.
LEMMA MoveOwnPlan ==
    ASSUME MoveInv, NEW s \in SRE, Command(s) \/ Fail(s)
    PROVE  \A t \in SRE : t # s => mpc'[t] = mpc[t] /\ move'[t] = move[t]
<1>1. \E next : mpc' = [mpc EXCEPT ![s] = next] \/ mpc' = mpc
  BY DEF Command, Prepare, Confirm, PauseSource, AllPaused, Create, Verify, Refused, Preview,
         CheckAssignment, Reassign, ReadBack, Fail, GoTo, MoveEnds
<1>2. \E p : move' = [move EXCEPT ![s] = p] \/ move' = move
  <2>1. CASE Prepare(s)
    BY <2>1 DEF Prepare
  <2>2. CASE Confirm(s) \/ PauseSource(s) \/ Verify(s)
    BY <2>2 DEF Confirm, PauseSource, Verify, MoveEnds
  <2>3. CASE AllPaused(s) \/ Create(s) \/ Refused(s)
    BY <2>3 DEF AllPaused, Create, Refused, MoveEnds
  <2>4. CASE Preview(s) \/ CheckAssignment(s) \/ Reassign(s) \/ ReadBack(s) \/ Fail(s)
    BY <2>4 DEF Preview, CheckAssignment, Reassign, ReadBack, Fail, MoveEnds
  <2> QED
    BY <2>1, <2>2, <2>3, <2>4 DEF Command
<1> QED
  BY <1>1, <1>2 DEF MoveInv, MoveTypeOK

\* The plan of a run is made of works that exist, and is left when nothing of it is missing.
LEMMA CopyOwn ==
    ASSUME MoveInv, WorksKept, NEW s \in SRE, CopyInv(s), Command(s) \/ Fail(s)
    PROVE  CopyInv(s)'
<1>a. /\ works \in [MC -> [Work -> Content \cup {None}]] /\ "old" \in MC /\ "new" \in MC
      /\ move[s] \in MovePlan /\ move \in [SRE -> MovePlan]
      /\ mpc = [t \in SRE |-> mpc[t]] /\ move = [t \in SRE |-> move[t]]
      /\ Reconciled \subseteq Work /\ Velero \subseteq Work
  BY DEF MoveInv, MoveTypeOK, MC, Work, Cluster
<1>b. Moving(s) => PlanSound(s)
  BY DEF MoveInv
<1>c. mpc[s] \in {"create", "verify"} => AllIsPaused(s)
  BY DEF MoveInv
<1>0. CASE mpc'[s] \in {"idle", "previewed", "reassign", "confirm"}
  BY <1>0 DEF CopyInv, Moving
<1>1. CASE Prepare(s)
  <2>1. PICK kind \in {"velero", "cluster"}, source \in {"old", assigned} \cap MC :
          LET names == Copied(kind, source)
              content == Destination(kind, works[source])
          IN /\ source # "new" /\ VeleroMoved(kind)
             /\ move' = [move EXCEPT ![s] =
                  [kind |-> kind, source |-> source, names |-> names, content |-> content,
                   missing |-> Missing(names),
                   unpaused |-> IF kind = "cluster" THEN names \cap Reconciled ELSE {}]]
    BY <1>1 DEF Prepare
  <2> DEFINE names == Copied(kind, source)
             content == Destination(kind, works[source])
             entry == [kind |-> kind, source |-> source, names |-> names, content |-> content,
                       missing |-> Missing(names),
                       unpaused |-> IF kind = "cluster" THEN names \cap Reconciled ELSE {}]
  <2>2. source = "old" /\ VeleroMoved(kind) /\ move' = [move EXCEPT ![s] = entry] /\ UNCHANGED works
    BY <2>1, <1>1 DEF MC, Prepare
  <2>3. move'[s] = entry /\ mpc'[s] = "planned"
    BY <2>2, <1>1, <1>a DEF Prepare, GoTo
  <2>4. \A w \in names : w \in Work /\ works["old"][w] # None
    BY <2>2 DEF Copied, Work, Cluster, Velero
  <2>5. \A w \in names : content[w] # None
    <3> SUFFICES ASSUME NEW w \in names PROVE content[w] # None
      OBVIOUS
    <3>1. w \in Work /\ works["old"][w] # None /\ works["old"][w] \in Content
      BY <2>4, <1>a
    <3>2. content[w] = works["old"][w] \/ content[w] = [works["old"][w] EXCEPT !.paused = TRUE]
      BY <2>2, <3>1 DEF Destination
    <3>3. [works["old"][w] EXCEPT !.paused = TRUE] # None
      BY <3>1 DEF Content, None
    <3> QED
      BY <3>1, <3>2, <3>3
  <2>6. \A w \in names \ Missing(names) : works["new"][w] # None
    BY DEF Missing
  <2>7. kind = "velero" => names \cap Reconciled = {}
    BY DEF Copied, Velero, Reconciled
  <2>8. kind = "cluster" => \A w \in Velero : works["new"][w] # None
    BY <2>2 DEF VeleroMoved
  <2>9. /\ entry.kind = kind /\ entry.source = source /\ entry.names = names /\ entry.content = content
        /\ entry.missing = Missing(names)
        /\ entry.unpaused = IF kind = "cluster" THEN names \cap Reconciled ELSE {}
    OBVIOUS
  <2> HIDE DEF names, content, entry
  <2> QED
    BY <2>2, <2>3, <2>5, <2>6, <2>7, <2>8, <2>9 DEF CopyInv
<1>2. CASE Confirm(s) /\ mpc'[s] # "idle"
  <2>1. /\ move'[s] = [move[s] EXCEPT !.missing = Missing(@)]
        /\ mpc'[s] = "pause" /\ UNCHANGED works /\ mpc[s] = "planned"
    BY <1>2, <1>a DEF Confirm, GoTo, MoveEnds
  <2>2. /\ move'[s].missing = Missing(move[s].missing) /\ move'[s].kind = move[s].kind
        /\ move'[s].source = move[s].source /\ move'[s].names = move[s].names
        /\ move'[s].content = move[s].content /\ move'[s].unpaused = move[s].unpaused
    BY <2>1, <1>a DEF MovePlan
  <2> QED
    BY <2>1, <2>2 DEF CopyInv, Moving, Missing
<1>3. CASE PauseSource(s)
  <2> DEFINE w == First(move[s].unpaused)
  <2>1. mpc[s] = "pause" /\ move[s].unpaused # {} /\ works' = Paused(move[s].source, w)
        /\ move'[s] = [move[s] EXCEPT !.unpaused = @ \ {w}] /\ UNCHANGED mpc
    BY <1>3, <1>a DEF PauseSource
  <2>2. PlanSound(s)
    BY <2>1, <1>b DEF Moving
  <2>3. w \in Reconciled /\ move[s].source = "old"
    BY <2>1, <2>2, <1>a, FirstIsOne DEF MovePlan, PlanSound
  <2> HIDE DEF w
  <2>4. works'["old"][w].paused /\ works'["new"] = works["new"]
    BY <2>1, <2>3, PausedWorks
  <2>5. /\ move'[s].missing = move[s].missing /\ move'[s].kind = move[s].kind
        /\ move'[s].source = move[s].source /\ move'[s].names = move[s].names
        /\ move'[s].content = move[s].content /\ move'[s].unpaused = move[s].unpaused \ {w}
    BY <2>1, <1>a DEF MovePlan
  <2> QED
    BY <2>1, <2>4, <2>5 DEF CopyInv, Moving, WorksKept
<1>4. CASE AllPaused(s)
  <2>1. /\ mpc[s] = "pause" /\ move[s].unpaused = {} /\ UNCHANGED <<works, move>>
        /\ mpc'[s] = IF move[s].missing = {} THEN "moved" ELSE "create"
    BY <1>4, <1>a DEF AllPaused, GoTo
  <2> QED
    BY <2>1 DEF CopyInv, Moving
<1>5. CASE Create(s)
  <2>1. mpc[s] = "create" /\ mpc'[s] = "verify" /\ UNCHANGED move
    BY <1>5, <1>a DEF Create, GoTo
  <2>2. move[s].names \subseteq Work
    BY <1>a DEF MovePlan
  <2> QED
    BY <2>1, <2>2, <1>a DEF CopyInv, Moving, WorksKept
<1>6. CASE Verify(s)
  <2> DEFINE w == NextWork(s)
  <2>1. /\ mpc[s] = "verify" /\ works["new"][w] = move[s].content[w] /\ UNCHANGED works
        /\ move'[s] = [move[s] EXCEPT !.missing = @ \ {w}]
        /\ mpc'[s] = IF move[s].missing = {w} THEN "moved" ELSE "create"
    BY <1>6, <1>a DEF Verify, GoTo
  <2>2. PlanSound(s) /\ AllIsPaused(s)
    BY <2>1, <1>b, <1>c DEF Moving
  <2>3. w \in move[s].names
    BY <2>2, <1>a, FirstIsOne DEF MovePlan, NextWork, AllIsPaused, PlanSound
  <2> HIDE DEF w
  <2>4. works["new"][w] # None
    BY <2>1, <2>3 DEF CopyInv, Moving
  <2>5. /\ move'[s].missing = move[s].missing \ {w} /\ move'[s].kind = move[s].kind
        /\ move'[s].source = move[s].source /\ move'[s].names = move[s].names
        /\ move'[s].content = move[s].content /\ move'[s].unpaused = move[s].unpaused
    BY <2>1, <1>a DEF MovePlan
  <2> QED
    BY <2>1, <2>2, <2>4, <2>5 DEF CopyInv, Moving, AllIsPaused
<1>7. CASE Refused(s) \/ Fail(s) \/ Preview(s) \/ CheckAssignment(s) \/ Reassign(s) \/ ReadBack(s)
  <2>1. mpc'[s] \in {"idle", "previewed", "reassign", "confirm"}
    BY <1>7, <1>a DEF Refused, Fail, Preview, CheckAssignment, Reassign, ReadBack, MoveEnds, GoTo
  <2> QED
    BY <2>1, <1>0
<1> QED
  BY <1>0, <1>1, <1>2, <1>3, <1>4, <1>5, <1>6, <1>7 DEF Command

LEMMA CopyStepInv ==
    MoveInv /\ (\A s \in SRE : CopyInv(s)) /\ [MoveNext]_moveVars => (\A s \in SRE : CopyInv(s))'
<1> SUFFICES ASSUME MoveInv, \A s \in SRE : CopyInv(s), [MoveNext]_moveVars, NEW t \in SRE
             PROVE  CopyInv(t)'
  OBVIOUS
<1>1. WorksKept
  BY MoveKeepsCopies
<1>2. CASE mpc'[t] = mpc[t] /\ move'[t] = move[t]
  BY <1>1, <1>2, CopyOthers
<1>3. ASSUME NEW s \in SRE, Command(s) \/ Fail(s) PROVE CopyInv(t)'
  BY <1>1, <1>2, <1>3, CopyOwn, MoveOwnPlan
<1>4. CASE (\E w \in {"schedules"} \cup Reconciled : EditWork(w)) \/ AddPool \/ UNCHANGED moveVars
  BY <1>2, <1>4 DEF EditWork, AddPool, moveVars
<1> QED
  BY <1>3, <1>4 DEF MoveNext
-----------------------------------------------------------------------------
(***************************************************************************)
(* HostReimport, with one replacement.  A deletion keeps what an add-on    *)
(* applied only if its work has the Orphan policy at that moment, and the  *)
(* policy is set in an earlier call.  What keeps it there is the order of  *)
(* the commands: when works are dealt with, no add-on is hosted at the old *)
(* cluster any more, so the add-on manager writes none of its works back.  *)
(***************************************************************************)
AddonWorks == [uid : Nat, orphan : BOOLEAN, deleting : BOOLEAN]
ImportPlan == [target : Replacement \cup {"none"}, host : Host \cup {"none"},
               addons : SUBSET (Addon \X Host), works : [Slot -> Int], now : SUBSET Slot]

ImportTypeOK ==
    /\ managed \in Host /\ hosting \in [Addon -> Host]
    /\ addonWork \in [Slot -> AddonWorks] /\ made \in [Slot -> Nat]
    /\ ipc = [i \in Importer |-> ipc[i]] /\ plan \in [Importer -> ImportPlan]

\* What holds of a plan until its run ends, and of the work that is about to be deleted.
ImportSound(i) ==
    /\ ipc[i] \notin {"idle", "done"} =>
        /\ plan[i].target = "new"
        /\ \A a \in Addon : hosting[a] = "old" => <<a, "old">> \in plan[i].addons
    /\ ipc[i] \in {"orphan", "delete"} => plan[i].addons = {}
    /\ \A s \in Slot : plan[i].works[s] # 0 => s[1] = "old"
    /\ ipc[i] # "delete" => plan[i].now = {}
    /\ \A s \in plan[i].now : s[1] = "old" /\ (Exists(s) => addonWork[s].orphan)

OrphanFirst == \A s \in Slot : addonWork[s].deleting => addonWork[s].orphan

ImportInv == ImportTypeOK /\ OrphanFirst /\ AddonsSurvive /\ \A i \in Importer : ImportSound(i)

\* There is one replacement.
OneReplacement == Replacement = {"new"}

\* What a run starts from is of the types.
LEMMA NoPlanType == NoPlan \in ImportPlan /\ NoWork \in AddonWorks
BY DEF NoPlan, NoWork, ImportPlan, AddonWorks

\* The invariant holds before the first run.
LEMMA ImportInitInv == ReimportInit => ImportInv
<1> SUFFICES ASSUME ReimportInit PROVE ImportInv
  OBVIOUS
<1>1. ImportTypeOK
  BY NoPlanType DEF ReimportInit, ImportTypeOK, Host, Slot, NoWork, AddonWorks
<1>2. OrphanFirst /\ AddonsSurvive
  BY DEF ReimportInit, OrphanFirst, AddonsSurvive, NoWork
<1>3. \A i \in Importer : ImportSound(i)
  BY DEF ReimportInit, ImportSound, NoPlan
<1> QED
  BY <1>1, <1>2, <1>3 DEF ImportInv

\* A step of a run that neither hosts an add-on at the old cluster nor takes the
\* policy off keeps what other runs rely on.
LEMMA ImportOthers ==
    ASSUME ImportInv, ImportTypeOK', OrphanFirst', UNCHANGED torn,
           NEW i \in Importer, ImportSound(i)',
           \A j \in Importer : j # i => ipc'[j] = ipc[j] /\ plan'[j] = plan[j],
           \A a \in Addon : hosting'[a] = "old" => hosting[a] = "old",
           \A s \in Slot : s[1] = "old" /\ addonWork'[s] # NoWork =>
               addonWork[s] # NoWork /\ (addonWork[s].orphan => addonWork'[s].orphan)
    PROVE  ImportInv'
<1>1. ASSUME NEW j \in Importer, j # i PROVE ImportSound(j)'
  <2>1. ImportSound(j) /\ ipc'[j] = ipc[j] /\ plan'[j] = plan[j] /\ plan[j].now \subseteq Slot
    BY <1>1 DEF ImportInv, ImportTypeOK, ImportPlan
  <2> QED
    BY <2>1 DEF ImportSound, Exists
<1> QED
  BY <1>1 DEF ImportInv, AddonsSurvive

\* A run that ends forgets its plan.
LEMMA ImportEndSound ==
    ASSUME ImportTypeOK, NEW i \in Importer, ImportEnds(i, "idle")
    PROVE  /\ ipc' = [j \in Importer |-> ipc'[j]] /\ plan' \in [Importer -> ImportPlan] /\ ImportSound(i)'
           /\ \A j \in Importer : j # i => ipc'[j] = ipc[j] /\ plan'[j] = plan[j]
<1>1. ipc' = [ipc EXCEPT ![i] = "idle"] /\ plan' = [plan EXCEPT ![i] = NoPlan]
  BY DEF ImportEnds, ImportGoTo
<1>2. ipc'[i] = "idle" /\ plan'[i] = NoPlan
  BY <1>1 DEF ImportTypeOK
<1>3. NoPlan.now = {} /\ \A s \in Slot : NoPlan.works[s] = 0
  BY DEF NoPlan
<1> QED
  BY <1>1, <1>2, <1>3, NoPlanType DEF ImportTypeOK, ImportSound

\* A plan names what is hosted at the old cluster, and only works of the old cluster.
LEMMA PrepareReimportInv ==
    ASSUME OneReplacement, ImportInv, NEW i \in Importer, PrepareReimport(i) PROVE ImportInv'
<1>a. ImportTypeOK /\ ImportSound(i) /\ OrphanFirst
  BY DEF ImportInv
<1> DEFINE left == {s \in Slot : s[1] # "new" /\ Exists(s)}
           p == [target |-> "new", host |-> managed,
                 addons |-> {<<a, hosting[a]>> : a \in {b \in Addon : hosting[b] # "new"}},
                 works |-> [s \in Slot |-> IF s \in left THEN addonWork[s].uid ELSE 0],
                 now |-> {}]
<1>1. /\ plan' = [plan EXCEPT ![i] = p] /\ ipc' = [ipc EXCEPT ![i] = "read"]
      /\ UNCHANGED <<managed, hosting, addonWork, made, torn>>
  BY DEF PrepareReimport, OneReplacement, ImportGoTo
<1>2. p \in ImportPlan
  <2>1. \A s \in Slot : addonWork[s].uid \in Int
    BY <1>a DEF ImportTypeOK, AddonWorks
  <2>2. {<<a, hosting[a]>> : a \in {b \in Addon : hosting[b] # "new"}} \in SUBSET (Addon \X Host)
    BY <1>a DEF ImportTypeOK
  <2> QED
    BY <1>a, <2>1, <2>2 DEF ImportPlan, ImportTypeOK, OneReplacement
<1>3. ImportTypeOK' /\ OrphanFirst'
  BY <1>a, <1>1, <1>2 DEF ImportTypeOK, OrphanFirst
<1>4. ipc'[i] = "read" /\ plan'[i] = p
  BY <1>a, <1>1 DEF ImportTypeOK
<1>5. ImportSound(i)'
  <2>1. \A a \in Addon : hosting[a] = "old" => <<a, "old">> \in p.addons
    OBVIOUS
  <2>2. \A s \in Slot : p.works[s] # 0 => s[1] = "old"
    BY DEF Slot, Host, OneReplacement
  <2> QED
    BY <1>1, <1>4, <2>1, <2>2 DEF ImportSound
<1>6. \A j \in Importer : j # i => ipc'[j] = ipc[j] /\ plan'[j] = plan[j]
  BY <1>a, <1>1 DEF ImportTypeOK
<1> QED
  BY <1>1, <1>3, <1>5, <1>6, ImportOthers

\* Moving the annotations, one by one: a run goes on to the works when none is left.
LEMMA MoveHostingInv ==
    ASSUME OneReplacement, ImportInv, NEW i \in Importer,
           ReadManaged(i) \/ MoveHost(i) \/ MoveAddon(i) \/ AddonsMoved(i) \/ WaitForWorks(i)
    PROVE  ImportInv'
<1>a. ImportTypeOK /\ ImportSound(i) /\ OrphanFirst /\ plan[i] \in ImportPlan
  BY DEF ImportInv, ImportTypeOK
<1>1. CASE ImportEnds(i, "idle")
  <2>1. UNCHANGED <<managed, hosting, addonWork, made, torn>>
    BY <1>1, <1>a DEF ReadManaged, MoveHost, MoveAddon, AddonsMoved, WaitForWorks, ImportEnds, ImportGoTo, ImportTypeOK
  <2>2. ImportTypeOK' /\ OrphanFirst'
    BY <1>1, <1>a, <2>1, ImportEndSound DEF ImportTypeOK, OrphanFirst
  <2> QED
    BY <1>1, <1>a, <2>1, <2>2, ImportEndSound, ImportOthers
<1>2. CASE ReadManaged(i) /\ ~ImportEnds(i, "idle")
  <2>1. /\ ipc[i] = "read" /\ plan' = [plan EXCEPT ![i].host = managed]
        /\ \E next \in {"addons", "host"} : ipc' = [ipc EXCEPT ![i] = next]
        /\ UNCHANGED <<managed, hosting, addonWork, made, torn>>
    BY <1>2 DEF ReadManaged, ImportGoTo
  <2>2. plan'[i] = [plan[i] EXCEPT !.host = managed] /\ ipc'[i] \in {"addons", "host"}
    BY <1>a, <2>1 DEF ImportTypeOK
  <2>3. plan'[i] \in ImportPlan /\ plan'[i].target = plan[i].target /\ plan'[i].addons = plan[i].addons
        /\ plan'[i].works = plan[i].works /\ plan'[i].now = plan[i].now
    BY <1>a, <2>2 DEF ImportTypeOK, ImportPlan
  <2>4. ImportTypeOK' /\ OrphanFirst'
    BY <1>a, <2>1, <2>2, <2>3 DEF ImportTypeOK, OrphanFirst
  <2>5. ImportSound(i)'
    BY <1>a, <2>1, <2>2, <2>3 DEF ImportSound
  <2>6. \A j \in Importer : j # i => ipc'[j] = ipc[j] /\ plan'[j] = plan[j]
    BY <1>a, <2>1 DEF ImportTypeOK
  <2> QED
    BY <2>1, <2>4, <2>5, <2>6, ImportOthers
<1>3. CASE MoveHost(i) /\ ~ImportEnds(i, "idle")
  <2>1. /\ ipc[i] = "host" /\ ipc' = [ipc EXCEPT ![i] = "addons"] /\ managed' = plan[i].target
        /\ UNCHANGED <<plan, hosting, addonWork, made, torn>>
    BY <1>3 DEF MoveHost, ImportGoTo
  <2>2. managed' \in Host
    BY <1>a, <2>1 DEF ImportSound, Host, OneReplacement
  <2>3. ImportTypeOK' /\ OrphanFirst' /\ ipc'[i] = "addons"
    BY <1>a, <2>1, <2>2 DEF ImportTypeOK, OrphanFirst
  <2>4. ImportSound(i)'
    BY <1>a, <2>1, <2>3 DEF ImportSound
  <2>5. \A j \in Importer : j # i => ipc'[j] = ipc[j] /\ plan'[j] = plan[j]
    BY <1>a, <2>1 DEF ImportTypeOK
  <2> QED
    BY <2>1, <2>3, <2>4, <2>5, ImportOthers
<1>4. CASE MoveAddon(i) /\ ~ImportEnds(i, "idle")
  <2>1. PICK entry \in plan[i].addons :
            /\ hosting' = [hosting EXCEPT ![entry[1]] = plan[i].target]
            /\ plan' = [plan EXCEPT ![i].addons = @ \ {entry}]
            /\ hosting[entry[1]] = entry[2]
    BY <1>4 DEF MoveAddon
  <2>2. ipc[i] = "addons" /\ UNCHANGED <<managed, addonWork, made, torn, ipc>>
    BY <1>4 DEF MoveAddon
  <2>3. entry \in Addon \X Host /\ plan[i].target = "new"
    BY <1>a, <2>1, <2>2 DEF ImportPlan, ImportSound
  <2>4. plan'[i] = [plan[i] EXCEPT !.addons = @ \ {entry}]
    BY <1>a, <2>1 DEF ImportTypeOK
  <2>5. /\ plan'[i] \in ImportPlan /\ plan'[i].target = plan[i].target
        /\ plan'[i].addons = plan[i].addons \ {entry}
        /\ plan'[i].works = plan[i].works /\ plan'[i].now = plan[i].now
    BY <1>a, <2>4 DEF ImportPlan
  <2>6. /\ hosting' \in [Addon -> Host] /\ hosting'[entry[1]] = "new"
        /\ \A a \in Addon : a # entry[1] => hosting'[a] = hosting[a]
    BY <1>a, <2>1, <2>3 DEF ImportTypeOK, Host, OneReplacement
  <2>7. \A a \in Addon : hosting'[a] = "old" => hosting[a] = "old" /\ a # entry[1]
    BY <2>6
  <2>8. ImportTypeOK' /\ OrphanFirst'
    BY <1>a, <2>1, <2>2, <2>5, <2>6 DEF ImportTypeOK, OrphanFirst
  <2>9. ImportSound(i)'
    <3>1. \A a \in Addon : hosting'[a] = "old" => <<a, "old">> \in plan'[i].addons
      BY <1>a, <2>2, <2>5, <2>7 DEF ImportSound
    <3> QED
      BY <1>a, <2>2, <2>3, <2>5, <3>1 DEF ImportSound, Exists
  <2>10. \A j \in Importer : j # i => ipc'[j] = ipc[j] /\ plan'[j] = plan[j]
    BY <1>a, <2>1, <2>2 DEF ImportTypeOK
  <2> QED
    BY <2>2, <2>7, <2>8, <2>9, <2>10, ImportOthers
<1>5. CASE AddonsMoved(i) \/ (WaitForWorks(i) /\ ~ImportEnds(i, "idle"))
  <2>1. /\ UNCHANGED <<managed, hosting, addonWork, made, torn, plan>>
        /\ ipc[i] \in {"addons", "orphan"}
        /\ \E next \in {"orphan", "done"} :
             ipc' = [ipc EXCEPT ![i] = next] /\ (next = "orphan" => plan[i].addons = {})
    BY <1>5 DEF AddonsMoved, WaitForWorks, ImportGoTo
  <2>2. ipc'[i] \in {"orphan", "done"} /\ (ipc'[i] = "orphan" => plan[i].addons = {})
    BY <1>a, <2>1 DEF ImportTypeOK
  <2>3. ImportTypeOK' /\ OrphanFirst'
    BY <1>a, <2>1 DEF ImportTypeOK, OrphanFirst
  <2>4. ImportSound(i)'
    BY <1>a, <2>1, <2>2 DEF ImportSound
  <2>5. \A j \in Importer : j # i => ipc'[j] = ipc[j] /\ plan'[j] = plan[j]
    BY <1>a, <2>1 DEF ImportTypeOK
  <2> QED
    BY <2>1, <2>3, <2>4, <2>5, ImportOthers
<1> QED
  BY <1>1, <1>2, <1>3, <1>4, <1>5

\* Setting the policy and the deletion with the uid: the work has the policy when it is deleted.
LEMMA DealWithWorkInv ==
    ASSUME OneReplacement, ImportInv, NEW i \in Importer, OrphanWork(i) \/ DeleteWork(i)
    PROVE  ImportInv'
<1>a. ImportTypeOK /\ ImportSound(i) /\ OrphanFirst /\ plan[i] \in ImportPlan
  BY DEF ImportInv, ImportTypeOK
<1>b. UNCHANGED <<managed, hosting, made, torn>>
  BY DEF OrphanWork, DeleteWork
<1>1. CASE ImportEnds(i, "idle") /\ UNCHANGED addonWork
  <2>1. ImportTypeOK' /\ OrphanFirst'
    BY <1>1, <1>a, <1>b, ImportEndSound DEF ImportTypeOK, OrphanFirst
  <2> QED
    BY <1>1, <1>a, <1>b, <2>1, ImportEndSound, ImportOthers
<1>2. ASSUME NEW s \in Slot, plan' = [plan EXCEPT ![i].works[s] = -@, ![i].now = {}],
             ipc' = [ipc EXCEPT ![i] = "orphan"], ipc[i] \in {"orphan", "delete"},
             \/ UNCHANGED addonWork
             \/ addonWork' = [addonWork EXCEPT ![s].deleting = Exists(s)] /\ s \in plan[i].now
      PROVE  ImportInv'
  <2>1. /\ addonWork' \in [Slot -> AddonWorks]
        /\ \A t \in Slot : addonWork'[t].orphan = addonWork[t].orphan
        /\ \A t \in Slot : addonWork'[t] # NoWork => addonWork[t] # NoWork
        /\ \A t \in Slot : addonWork'[t].deleting =>
              addonWork[t].deleting \/ (t \in plan[i].now /\ Exists(t))
    <3>1. CASE UNCHANGED addonWork
      BY <3>1, <1>a DEF ImportTypeOK
    <3>2. CASE addonWork' = [addonWork EXCEPT ![s].deleting = Exists(s)] /\ s \in plan[i].now
      <4>1. /\ addonWork'[s] = [addonWork[s] EXCEPT !.deleting = Exists(s)]
            /\ \A t \in Slot : t # s => addonWork'[t] = addonWork[t]
            /\ addonWork[s] \in AddonWorks /\ Exists(s) \in BOOLEAN
        BY <3>2, <1>a DEF ImportTypeOK, Exists
      <4>2. addonWork'[s] \in AddonWorks /\ addonWork'[s].orphan = addonWork[s].orphan
            /\ addonWork'[s].deleting = Exists(s)
        BY <4>1 DEF AddonWorks
      <4>3. ~Exists(s) => addonWork'[s] = NoWork
        <5>1. [NoWork EXCEPT !.deleting = FALSE] = NoWork
          <6>1. NoWork \in AddonWorks /\ NoWork.deleting = FALSE
            BY DEF NoWork, AddonWorks
          <6> QED
            BY <6>1 DEF AddonWorks
        <5> SUFFICES ASSUME ~Exists(s) PROVE addonWork'[s] = NoWork
          OBVIOUS
        <5>2. addonWork[s] = NoWork /\ Exists(s) = FALSE
          BY DEF Exists
        <5> QED
          BY <4>1, <5>1, <5>2
      <4>4. addonWork' \in [Slot -> AddonWorks]
        BY <4>2, <3>2, <1>a DEF ImportTypeOK
      <4> QED
        BY <4>1, <4>2, <4>3, <4>4, <3>2 DEF Exists
    <3> QED
      BY <3>1, <3>2, <1>2
  <2>2. plan'[i] = [plan[i] EXCEPT !.works[s] = -@, !.now = {}] /\ ipc'[i] = "orphan"
    BY <1>2, <1>a DEF ImportTypeOK
  <2>3. /\ plan'[i] \in ImportPlan /\ plan'[i].target = plan[i].target
        /\ plan'[i].addons = plan[i].addons /\ plan'[i].now = {}
        /\ plan'[i].works = [plan[i].works EXCEPT ![s] = -plan[i].works[s]]
    <3>1. [plan[i].works EXCEPT ![s] = -plan[i].works[s]] \in [Slot -> Int]
      BY <1>a DEF ImportPlan
    <3> QED
      BY <1>a, <2>2, <3>1 DEF ImportPlan
  <2>4. \A t \in Slot : plan'[i].works[t] # 0 => plan[i].works[t] # 0
    BY <2>3, <1>a DEF ImportPlan
  <2>5. ImportTypeOK'
    BY <1>2, <1>a, <1>b, <2>1, <2>3 DEF ImportTypeOK
  <2>6. OrphanFirst'
    BY <1>a, <2>1 DEF OrphanFirst, ImportSound
  <2>7. ImportSound(i)'
    BY <1>a, <1>b, <1>2, <2>2, <2>3, <2>4 DEF ImportSound
  <2>8. \A j \in Importer : j # i => ipc'[j] = ipc[j] /\ plan'[j] = plan[j]
    BY <1>a, <1>2 DEF ImportTypeOK
  <2> QED
    BY <1>b, <2>1, <2>5, <2>6, <2>7, <2>8, ImportOthers
<1>3. ASSUME NEW s \in Slot, plan[i].works[s] # 0, ipc[i] = "orphan",
             addonWork' = [addonWork EXCEPT ![s].orphan = TRUE],
             plan' = [plan EXCEPT ![i].now = {s}], ipc' = [ipc EXCEPT ![i] = "delete"], Exists(s)
      PROVE  ImportInv'
  <2>1. /\ addonWork'[s] = [addonWork[s] EXCEPT !.orphan = TRUE]
        /\ \A t \in Slot : t # s => addonWork'[t] = addonWork[t]
        /\ addonWork[s] \in AddonWorks
    BY <1>3, <1>a DEF ImportTypeOK
  <2>2. addonWork'[s] \in AddonWorks /\ addonWork'[s].orphan
        /\ addonWork'[s].deleting = addonWork[s].deleting
    BY <2>1 DEF AddonWorks
  <2>3. addonWork' \in [Slot -> AddonWorks]
    BY <2>2, <1>3, <1>a DEF ImportTypeOK
  <2>4. plan'[i] = [plan[i] EXCEPT !.now = {s}] /\ ipc'[i] = "delete"
    BY <1>3, <1>a DEF ImportTypeOK
  <2>5. /\ plan'[i] \in ImportPlan /\ plan'[i].target = plan[i].target
        /\ plan'[i].addons = plan[i].addons /\ plan'[i].now = {s}
        /\ plan'[i].works = plan[i].works
    BY <1>a, <2>4 DEF ImportPlan
  <2>6. ImportTypeOK' /\ OrphanFirst'
    BY <1>3, <1>a, <1>b, <2>1, <2>2, <2>3, <2>5 DEF ImportTypeOK, OrphanFirst
  <2>7. ImportSound(i)'
    BY <1>a, <1>b, <1>3, <2>2, <2>4, <2>5 DEF ImportSound
  <2>8. \A j \in Importer : j # i => ipc'[j] = ipc[j] /\ plan'[j] = plan[j]
    BY <1>a, <1>3 DEF ImportTypeOK
  <2>9. \A t \in Slot : addonWork'[t] # NoWork =>
            addonWork[t] # NoWork /\ (addonWork[t].orphan => addonWork'[t].orphan)
    BY <1>3, <2>1, <2>2 DEF Exists
  <2> QED
    BY <1>b, <2>6, <2>7, <2>8, <2>9, ImportOthers
<1>4. CASE OrphanWork(i)
  <2>1. PICK s \in Pending(i) :
            \/ Handled(i, s) /\ UNCHANGED <<addonWork, ipc>>
            \/ /\ Exists(s) /\ addonWork' = [addonWork EXCEPT ![s].orphan = TRUE]
               /\ plan' = [plan EXCEPT ![i].now = {s}] /\ ImportGoTo(i, "delete")
            \/ ImportEnds(i, "idle") /\ UNCHANGED addonWork
    BY <1>4 DEF OrphanWork
  <2>2. s \in Slot /\ plan[i].works[s] # 0 /\ ipc[i] = "orphan"
    BY <1>4 DEF OrphanWork, Pending
  <2>3. UNCHANGED ipc => ipc' = [ipc EXCEPT ![i] = "orphan"]
    BY <2>2, <1>a DEF ImportTypeOK
  <2> QED
    BY <1>1, <1>2, <1>3, <2>1, <2>2, <2>3 DEF Handled, ImportGoTo
<1>5. CASE DeleteWork(i)
  <2>1. PICK s \in plan[i].now :
            \/ ImportEnds(i, "idle") /\ UNCHANGED addonWork
            \/ /\ addonWork' = [addonWork EXCEPT ![s].deleting = Exists(s)]
               /\ Handled(i, s) /\ ImportGoTo(i, "orphan")
    BY <1>5 DEF DeleteWork
  <2>2. s \in Slot /\ ipc[i] = "delete"
    BY <1>5, <1>a DEF DeleteWork, ImportPlan
  <2> QED
    BY <1>1, <1>2, <2>1, <2>2 DEF Handled, ImportGoTo
<1> QED
  BY <1>4, <1>5

\* A run that fails may have moved an annotation or deleted a work that has the policy.
LEMMA ReimportFailsInv ==
    ASSUME OneReplacement, ImportInv, NEW i \in Importer, ReimportFails(i) PROVE ImportInv'
<1>a. ImportTypeOK /\ ImportSound(i) /\ OrphanFirst /\ plan[i] \in ImportPlan
  BY DEF ImportInv, ImportTypeOK
<1>b. ImportEnds(i, "idle") /\ UNCHANGED <<made, torn>> /\ ipc[i] \notin {"idle", "done"}
      /\ plan[i].target = "new"
  BY <1>a DEF ReimportFails, ImportSound
<1>1. /\ managed' \in Host /\ hosting' \in [Addon -> Host]
      /\ \A a \in Addon : hosting'[a] = "old" => hosting[a] = "old"
      /\ UNCHANGED addonWork \/ \E s \in plan[i].now :
            Exists(s) /\ addonWork' = [addonWork EXCEPT ![s].deleting = TRUE]
  <2>1. \A entry \in plan[i].addons : entry \in Addon \X Host
    BY <1>a DEF ImportPlan
  <2> QED
    BY <1>a, <1>b, <2>1 DEF ReimportFails, ImportTypeOK, Host, OneReplacement
<1>2. /\ addonWork' \in [Slot -> AddonWorks]
      /\ \A t \in Slot : addonWork'[t].orphan = addonWork[t].orphan
      /\ \A t \in Slot : addonWork'[t] # NoWork => addonWork[t] # NoWork
      /\ \A t \in Slot : addonWork'[t].deleting =>
            addonWork[t].deleting \/ (t \in plan[i].now /\ Exists(t))
  <2>1. CASE UNCHANGED addonWork
    BY <2>1, <1>a DEF ImportTypeOK
  <2>2. ASSUME NEW s \in plan[i].now, Exists(s), addonWork' = [addonWork EXCEPT ![s].deleting = TRUE]
        PROVE  <1>2!1 /\ <1>2!2 /\ <1>2!3 /\ <1>2!4
    <3>1. s \in Slot
      BY <1>a DEF ImportPlan
    <3>2. /\ addonWork'[s] = [addonWork[s] EXCEPT !.deleting = TRUE]
          /\ \A t \in Slot : t # s => addonWork'[t] = addonWork[t]
          /\ addonWork[s] \in AddonWorks
      BY <2>2, <3>1, <1>a DEF ImportTypeOK
    <3>3. addonWork'[s] \in AddonWorks /\ addonWork'[s].orphan = addonWork[s].orphan
      BY <3>2 DEF AddonWorks
    <3>4. addonWork' \in [Slot -> AddonWorks]
      BY <3>1, <3>3, <2>2, <1>a DEF ImportTypeOK
    <3> QED
      BY <2>2, <3>2, <3>3, <3>4 DEF Exists
  <2> QED
    BY <1>1, <2>1, <2>2
<1>3. ImportTypeOK'
  BY <1>1, <1>2, <1>a, <1>b, ImportEndSound DEF ImportTypeOK
<1>4. OrphanFirst'
  BY <1>a, <1>2 DEF OrphanFirst, ImportSound
<1> QED
  BY <1>a, <1>b, <1>1, <1>2, <1>3, <1>4, ImportEndSound, ImportOthers

\* The add-on manager writes where an add-on is hosted, which no run that deals
\* with works still has at the old cluster; the work agent tears nothing down.
LEMMA AgentsInv ==
    ASSUME ImportInv, (\E a \in Addon : ApplyAddon(a)) \/ (\E s \in Slot : Finalize(s))
    PROVE  ImportInv'
<1>a. ImportTypeOK /\ OrphanFirst /\ \A i \in Importer : ImportSound(i)
  BY DEF ImportInv
<1>1. ASSUME NEW a \in Addon, ApplyAddon(a) PROVE ImportInv'
  <2> DEFINE s == <<hosting[a], a>>
  <2>1. UNCHANGED <<managed, hosting, torn, ipc, plan>> /\ s \in Slot
    BY <1>1, <1>a DEF ApplyAddon, ImportTypeOK, Slot
  <2>2. made' \in [Slot -> Nat] /\ addonWork' \in [Slot -> AddonWorks]
        /\ ~addonWork'[s].deleting /\ \A t \in Slot : t # s => addonWork'[t] = addonWork[t]
    <3>1. CASE /\ made' = [made EXCEPT ![s] = @ + 1]
               /\ addonWork' = [addonWork EXCEPT ![s] = [NoWork EXCEPT !.uid = made[s] + 1]]
      <4>1. [NoWork EXCEPT !.uid = made[s] + 1] \in AddonWorks
            /\ ~[NoWork EXCEPT !.uid = made[s] + 1].deleting
        <5>1. made[s] + 1 \in Nat
          BY <2>1, <1>a DEF ImportTypeOK
        <5> QED
          BY <5>1 DEF NoWork, AddonWorks
      <4> QED
        BY <3>1, <4>1, <2>1, <1>a DEF ImportTypeOK
    <3>2. CASE /\ ~addonWork[s].deleting /\ UNCHANGED made
               /\ addonWork' = [addonWork EXCEPT ![s].orphan = FALSE]
      <4>1. /\ addonWork'[s] = [addonWork[s] EXCEPT !.orphan = FALSE]
            /\ \A t \in Slot : t # s => addonWork'[t] = addonWork[t]
            /\ addonWork[s] \in AddonWorks
        BY <3>2, <2>1, <1>a DEF ImportTypeOK
      <4>2. addonWork'[s] \in AddonWorks /\ ~addonWork'[s].deleting
        BY <4>1, <3>2 DEF AddonWorks
      <4> QED
        BY <3>2, <4>1, <4>2, <2>1, <1>a DEF ImportTypeOK
    <3> QED
      BY <1>1, <3>1, <3>2 DEF ApplyAddon
  <2>3. ImportTypeOK' /\ OrphanFirst'
    BY <1>a, <2>1, <2>2 DEF ImportTypeOK, OrphanFirst
  <2>4. ASSUME NEW i \in Importer PROVE ImportSound(i)'
    <3>1. plan[i] \in ImportPlan /\ ImportSound(i)
      BY <1>a DEF ImportTypeOK
    <3>2. ASSUME NEW t \in plan[i].now PROVE t # s /\ t \in Slot
      <4>1. t \in Slot /\ t[1] = "old" /\ ipc[i] = "delete" /\ plan[i].addons = {}
        BY <3>1 DEF ImportPlan, ImportSound
      <4>2. hosting[a] # "old"
        BY <4>1, <3>1 DEF ImportSound
      <4> QED
        BY <4>1, <4>2
    <3> QED
      BY <3>1, <3>2, <2>1, <2>2 DEF ImportSound, Exists
  <2> QED
    BY <2>1, <2>3, <2>4, <1>a DEF ImportInv, AddonsSurvive
<1>2. ASSUME NEW s \in Slot, Finalize(s) PROVE ImportInv'
  <2>1. /\ UNCHANGED <<managed, hosting, made, ipc, plan>>
        /\ addonWork' = [addonWork EXCEPT ![s] = NoWork] /\ torn' = torn
    BY <1>2, <1>a DEF Finalize, OrphanFirst
  <2>2. /\ addonWork' \in [Slot -> AddonWorks] /\ addonWork'[s] = NoWork /\ ~NoWork.deleting
        /\ \A t \in Slot : t # s => addonWork'[t] = addonWork[t]
    BY <2>1, <1>a, NoPlanType DEF ImportTypeOK, NoWork
  <2>3. ImportTypeOK' /\ OrphanFirst'
    BY <1>a, <2>1, <2>2 DEF ImportTypeOK, OrphanFirst
  <2>4. ASSUME NEW i \in Importer PROVE ImportSound(i)'
    <3>1. plan[i] \in ImportPlan /\ ImportSound(i) /\ plan[i].now \subseteq Slot
      BY <1>a DEF ImportTypeOK, ImportPlan
    <3> QED
      BY <3>1, <2>1, <2>2 DEF ImportSound, Exists
  <2> QED
    BY <2>1, <2>3, <2>4 DEF ImportInv, AddonsSurvive
<1> QED
  BY <1>1, <1>2

\* Every step of the reimport keeps the invariant.
LEMMA ImportStepInv == OneReplacement /\ ImportInv /\ [ReimportNext]_reimportVars => ImportInv'
<1> SUFFICES ASSUME OneReplacement, ImportInv, [ReimportNext]_reimportVars PROVE ImportInv'
  OBVIOUS
<1>1. CASE UNCHANGED reimportVars
  BY <1>1 DEF reimportVars, ImportInv, ImportTypeOK, ImportSound, OrphanFirst, AddonsSurvive, Exists
<1>2. CASE ReimportNext
  BY <1>2, PrepareReimportInv, MoveHostingInv, DealWithWorkInv, ReimportFailsInv, AgentsInv
     DEF ReimportNext
<1> QED
  BY <1>1, <1>2

\* A step of the command is a step of the reimport or leaves it alone.
LEMMA HcpReimportStep == [HcpNext]_hcpVars => [ReimportNext]_reimportVars
BY DEF HcpNext, Recovery, Access, Upgrade, Rest, hcpVars, restoreHcpVars

\* "It deletes old-host add-on ManifestWorks with the Orphan policy, preserving
\* their applied resources" (reimport.go): with one replacement, whatever the
\* SREs, the add-on manager and the work agent do, in any order and with any
\* failures, nothing an add-on applied is removed.
THEOREM AppliedResourcesKept == ASSUME OneReplacement PROVE HcpSpec => []AddonsSurvive
<1>1. HcpInit => ImportInv
  BY ImportInitInv DEF HcpInit
<1>2. ImportInv /\ [HcpNext]_hcpVars => ImportInv'
  BY ImportStepInv, HcpReimportStep
<1>3. ImportInv => AddonsSurvive
  BY DEF ImportInv
<1> QED
  BY <1>1, <1>2, <1>3, PTL DEF HcpSpec

-----------------------------------------------------------------------------
(***************************************************************************)
(* A re-import that reports success.  The works of an add-on on one host   *)
(* are numbered as they are made, so one that is made after the run looked *)
(* is none of those it announced.                                          *)
(***************************************************************************)
CountInv ==
    /\ \A s \in Slot : addonWork[s].uid <= made[s]
    /\ \A i \in Importer, s \in Slot : plan[i].works[s] <= made[s] /\ -plan[i].works[s] <= made[s]
    /\ WorksGone

LEMMA CountInitInv == ReimportInit => CountInv
BY DEF ReimportInit, CountInv, WorksGone, NoWork, NoPlan, Slot

\* A run that goes on is not done, and its plan numbers works that were made.
LEMMA CountOthers ==
    ASSUME ImportInv, CountInv, NEW i \in Importer,
           \A j \in Importer : j # i => ipc'[j] = ipc[j] /\ plan'[j] = plan[j],
           UNCHANGED made, \A s \in Slot : addonWork'[s].uid \in {addonWork[s].uid, 0},
           \A s \in Slot : plan'[i].works[s] \in {plan[i].works[s], -plan[i].works[s], 0, addonWork[s].uid},
           ipc'[i] = "done" => \A s \in Pending(i)' : addonWork'[s].uid # -plan'[i].works[s]
    PROVE  CountInv'
<1>1. /\ \A s \in Slot : made[s] \in Nat /\ addonWork[s].uid \in Nat
      /\ \A j \in Importer, s \in Slot : plan[j].works[s] \in Int
  BY DEF ImportInv, ImportTypeOK, ImportPlan, AddonWorks
<1>2. \A s \in Slot : addonWork'[s].uid <= made'[s]
  BY <1>1 DEF CountInv
<1>3. \A s \in Slot : plan'[i].works[s] <= made'[s] /\ -plan'[i].works[s] <= made'[s]
  <2> SUFFICES ASSUME NEW s \in Slot PROVE plan'[i].works[s] <= made'[s] /\ -plan'[i].works[s] <= made'[s]
    OBVIOUS
  <2>1. /\ made[s] \in Nat /\ addonWork[s].uid \in Nat /\ plan[i].works[s] \in Int /\ made'[s] = made[s]
        /\ addonWork[s].uid <= made[s] /\ plan[i].works[s] <= made[s] /\ -plan[i].works[s] <= made[s]
    BY <1>1 DEF CountInv
  <2>2. plan'[i].works[s] \in {plan[i].works[s], -plan[i].works[s], 0, addonWork[s].uid}
    OBVIOUS
  <2> QED
    BY <2>1, <2>2
<1>4. \A j \in Importer, s \in Slot : plan'[j].works[s] <= made'[s] /\ -plan'[j].works[s] <= made'[s]
  BY <1>3 DEF CountInv
<1>5. ASSUME NEW j \in Importer, j # i, ipc'[j] = "done", NEW s \in Pending(j)'
      PROVE  addonWork'[s].uid # -plan'[j].works[s]
  <2>1. s \in Slot /\ plan[j].works[s] # 0 /\ ipc[j] = "done" /\ plan'[j] = plan[j]
    BY <1>5 DEF Pending
  <2>2. addonWork[s].uid # -plan[j].works[s] /\ plan[j].works[s] \in Int
    BY <2>1, <1>1 DEF CountInv, WorksGone, Pending
  <2> QED
    BY <2>1, <2>2
<1> QED
  BY <1>2, <1>4, <1>5 DEF CountInv, WorksGone

LEMMA CountRunInv ==
    ASSUME OneReplacement, ImportInv, CountInv, NEW i \in Importer,
           \/ PrepareReimport(i) \/ ReadManaged(i) \/ MoveHost(i) \/ MoveAddon(i)
           \/ AddonsMoved(i) \/ OrphanWork(i) \/ DeleteWork(i) \/ WaitForWorks(i)
           \/ ReimportFails(i)
    PROVE  CountInv'
<1>a. ImportTypeOK /\ plan[i] \in ImportPlan
      /\ \A s \in Slot : addonWork[s] \in AddonWorks /\ plan[i].works[s] \in Int
  BY DEF ImportInv, ImportTypeOK, ImportPlan
<1>b. UNCHANGED made
  BY DEF PrepareReimport, ReadManaged, MoveHost, MoveAddon, AddonsMoved, OrphanWork, DeleteWork,
         WaitForWorks, ReimportFails
<1>1. CASE ImportEnds(i, "idle") /\ \A s \in Slot : addonWork'[s].uid = addonWork[s].uid
  <2>1. ipc' = [ipc EXCEPT ![i] = "idle"] /\ plan' = [plan EXCEPT ![i] = NoPlan]
    BY <1>1 DEF ImportEnds, ImportGoTo
  <2>2. ipc'[i] = "idle" /\ plan'[i] = NoPlan
        /\ \A j \in Importer : j # i => ipc'[j] = ipc[j] /\ plan'[j] = plan[j]
    BY <2>1, <1>a DEF ImportTypeOK
  <2>3. \A s \in Slot : plan'[i].works[s] = 0
    BY <2>2 DEF NoPlan
  <2> QED
    BY <1>1, <1>b, <2>2, <2>3, CountOthers
<1>2. CASE PrepareReimport(i)
  <2>1. PICK target \in Replacement :
          LET left == {s \in Slot : s[1] # target /\ Exists(s)}
          IN plan' = [plan EXCEPT ![i] =
               [target |-> target, host |-> managed,
                 addons |-> {<<a, hosting[a]>> : a \in {b \in Addon : hosting[b] # target}},
                 works |-> [s \in Slot |-> IF s \in left THEN addonWork[s].uid ELSE 0],
                 now |-> {}]]
    BY <1>2 DEF PrepareReimport
  <2>2. ipc' = [ipc EXCEPT ![i] = "read"] /\ UNCHANGED addonWork
    BY <1>2 DEF PrepareReimport, ImportGoTo
  <2>3. ipc'[i] = "read" /\ \A j \in Importer : j # i => ipc'[j] = ipc[j] /\ plan'[j] = plan[j]
    BY <2>1, <2>2, <1>a DEF ImportTypeOK
  <2>4. \A s \in Slot : plan'[i].works[s] \in {0, addonWork[s].uid}
    BY <2>1, <1>a DEF ImportTypeOK
  <2> QED
    BY <1>b, <2>2, <2>3, <2>4, CountOthers
<1>3. CASE (ReadManaged(i) \/ MoveHost(i) \/ MoveAddon(i) \/ AddonsMoved(i)) /\ ~ImportEnds(i, "idle")
  <2>1. UNCHANGED addonWork /\ \E next \in {"addons", "host", "orphan"} : ipc' = [ipc EXCEPT ![i] = next]
    <3>1. UNCHANGED addonWork
      BY <1>3 DEF ReadManaged, MoveHost, MoveAddon, AddonsMoved
    <3>2. CASE ReadManaged(i) \/ MoveHost(i) \/ AddonsMoved(i)
      BY <3>1, <3>2, <1>3 DEF ReadManaged, MoveHost, AddonsMoved, ImportGoTo
    <3>3. CASE MoveAddon(i)
      <4>1. ipc[i] = "addons" /\ UNCHANGED ipc
        BY <3>3, <1>3 DEF MoveAddon
      <4>2. ipc' = [ipc EXCEPT ![i] = "addons"]
        BY <4>1, <1>a DEF ImportTypeOK
      <4> QED
        BY <3>1, <4>2
    <3> QED
      BY <1>3, <3>2, <3>3
  <2>2. \/ UNCHANGED plan \/ plan' = [plan EXCEPT ![i].host = managed]
        \/ \E entry \in plan[i].addons : plan' = [plan EXCEPT ![i].addons = @ \ {entry}]
    BY <1>3 DEF ReadManaged, MoveHost, MoveAddon, AddonsMoved
  <2>3. plan'[i].works = plan[i].works
    BY <2>2, <1>a DEF ImportTypeOK, ImportPlan
  <2>4. ipc'[i] # "done" /\ \A j \in Importer : j # i => ipc'[j] = ipc[j] /\ plan'[j] = plan[j]
    BY <2>1, <2>2, <1>a DEF ImportTypeOK
  <2> QED
    BY <1>b, <2>1, <2>3, <2>4, CountOthers
<1>4. ASSUME NEW s \in Slot, Handled(i, s), ipc'[i] # "done", \A t \in Slot : addonWork'[t].uid \in {addonWork[t].uid, 0},
             \A j \in Importer : j # i => ipc'[j] = ipc[j]
      PROVE  CountInv'
  <2>1. plan'[i] = [plan[i] EXCEPT !.works[s] = -@, !.now = {}]
        /\ \A j \in Importer : j # i => plan'[j] = plan[j]
    BY <1>4, <1>a DEF ImportTypeOK, Handled
  <2>2. plan'[i].works = [plan[i].works EXCEPT ![s] = -plan[i].works[s]]
    BY <2>1, <1>a DEF ImportPlan
  <2>3. \A t \in Slot : plan'[i].works[t] \in {plan[i].works[t], -plan[i].works[t]}
    BY <2>2, <1>a DEF ImportPlan
  <2> QED
    BY <1>4, <1>b, <2>1, <2>3, CountOthers
<1>5. CASE OrphanWork(i)
  <2>1. ipc[i] = "orphan"
    BY <1>5 DEF OrphanWork
  <2>2. PICK s \in Pending(i) :
          \/ Handled(i, s) /\ UNCHANGED <<addonWork, ipc>>
          \/ /\ addonWork' = [addonWork EXCEPT ![s].orphan = TRUE]
             /\ plan' = [plan EXCEPT ![i].now = {s}] /\ ImportGoTo(i, "delete")
          \/ ImportEnds(i, "idle") /\ UNCHANGED addonWork
    BY <1>5 DEF OrphanWork
  <2>3. s \in Slot
    BY DEF Pending
  <2>4. CASE Handled(i, s) /\ UNCHANGED <<addonWork, ipc>>
    BY <2>1, <2>3, <2>4, <1>4
  <2>5. CASE /\ addonWork' = [addonWork EXCEPT ![s].orphan = TRUE]
             /\ plan' = [plan EXCEPT ![i].now = {s}] /\ ImportGoTo(i, "delete")
    <3>1. \A t \in Slot : addonWork'[t].uid = addonWork[t].uid
      BY <2>3, <2>5, <1>a DEF ImportTypeOK, AddonWorks
    <3>2. plan'[i].works = plan[i].works /\ ipc'[i] = "delete"
          /\ \A j \in Importer : j # i => ipc'[j] = ipc[j] /\ plan'[j] = plan[j]
      BY <2>5, <1>a DEF ImportTypeOK, ImportPlan, ImportGoTo
    <3> QED
      BY <1>b, <3>1, <3>2, CountOthers
  <2> QED
    BY <2>2, <2>4, <2>5, <1>1
<1>6. CASE DeleteWork(i)
  <2>1. PICK s \in plan[i].now :
          \/ ImportEnds(i, "idle") /\ UNCHANGED addonWork
          \/ /\ addonWork' = [addonWork EXCEPT ![s].deleting = Exists(s)]
             /\ Handled(i, s) /\ ImportGoTo(i, "orphan")
    BY <1>6 DEF DeleteWork
  <2>2. s \in Slot
    BY <1>a DEF ImportPlan
  <2>3. CASE /\ addonWork' = [addonWork EXCEPT ![s].deleting = Exists(s)]
             /\ Handled(i, s) /\ ImportGoTo(i, "orphan")
    <3>1. \A t \in Slot : addonWork'[t].uid = addonWork[t].uid
      BY <2>2, <2>3, <1>a DEF ImportTypeOK, AddonWorks
    <3>2. ipc'[i] = "orphan" /\ \A j \in Importer : j # i => ipc'[j] = ipc[j]
      BY <2>3, <1>a DEF ImportTypeOK, ImportGoTo
    <3> QED
      BY <2>2, <2>3, <3>1, <3>2, <1>4
  <2> QED
    BY <2>1, <2>3, <1>1
<1>7. CASE WaitForWorks(i) /\ ~ImportEnds(i, "idle")
  <2>1. /\ \A s \in Pending(i) : ~Exists(s)
        /\ ipc' = [ipc EXCEPT ![i] = "done"] /\ UNCHANGED <<plan, addonWork>>
    BY <1>7 DEF WaitForWorks, ImportGoTo
  <2>2. \A s \in Pending(i) : addonWork[s].uid # -plan[i].works[s]
    BY <2>1, <1>a DEF Exists, Pending, NoWork
  <2>3. Pending(i)' = Pending(i)
    BY <2>1 DEF Pending
  <2>4. \A j \in Importer : j # i => ipc'[j] = ipc[j] /\ plan'[j] = plan[j]
    BY <2>1, <1>a DEF ImportTypeOK
  <2> QED
    BY <1>b, <2>1, <2>2, <2>3, <2>4, CountOthers
<1>8. CASE ReimportFails(i)
  <2>1. ImportEnds(i, "idle")
    BY <1>8 DEF ReimportFails
  <2>2. \/ UNCHANGED addonWork
        \/ \E s \in plan[i].now : addonWork' = [addonWork EXCEPT ![s].deleting = TRUE]
    BY <1>8 DEF ReimportFails
  <2>3. \A t \in Slot : addonWork'[t].uid = addonWork[t].uid
    BY <2>2, <1>a DEF ImportTypeOK, ImportPlan, AddonWorks
  <2> QED
    BY <2>1, <2>3, <1>1
<1>9. ImportEnds(i, "idle") /\ (ReadManaged(i) \/ MoveHost(i) \/ MoveAddon(i) \/ AddonsMoved(i) \/ WaitForWorks(i))
        => UNCHANGED addonWork
  BY DEF ReadManaged, MoveHost, MoveAddon, AddonsMoved, WaitForWorks
<1> QED
  BY <1>1, <1>2, <1>3, <1>5, <1>6, <1>7, <1>8, <1>9

\* A work that is made has a number of its own.
LEMMA CountAgentsInv ==
    ASSUME ImportInv, CountInv, (\E a \in Addon : ApplyAddon(a)) \/ (\E s \in Slot : Finalize(s))
    PROVE  CountInv'
<1>a. ImportTypeOK /\ (\A s \in Slot : made[s] \in Nat /\ addonWork[s] \in AddonWorks)
      /\ \A j \in Importer, s \in Slot : plan[j].works[s] \in Int
  BY DEF ImportInv, ImportTypeOK, ImportPlan
<1>b. UNCHANGED <<ipc, plan>>
  BY DEF ApplyAddon, Finalize
<1>1. ASSUME NEW s \in Slot, \A t \in Slot : t # s => made'[t] = made[t] /\ addonWork'[t].uid = addonWork[t].uid,
             \/ made'[s] = made[s] + 1 /\ addonWork'[s].uid = made[s] + 1
             \/ made'[s] = made[s] /\ addonWork'[s].uid \in {addonWork[s].uid, 0}
      PROVE  CountInv'
  <2>1. \A t \in Slot : made[t] \in Nat /\ addonWork[t].uid \in Nat
    BY <1>a DEF AddonWorks
  <2>2. \A t \in Slot : addonWork'[t].uid <= made'[t] /\ made[t] <= made'[t] /\ made'[t] \in Nat
    BY <2>1, <1>1 DEF CountInv
  <2>3. \A j \in Importer, t \in Slot : plan'[j].works[t] <= made'[t] /\ -plan'[j].works[t] <= made'[t]
    <3> SUFFICES ASSUME NEW j \in Importer, NEW t \in Slot
                 PROVE  plan'[j].works[t] <= made'[t] /\ -plan'[j].works[t] <= made'[t]
      OBVIOUS
    <3>1. plan[j].works[t] \in Int /\ plan[j].works[t] <= made[t] /\ -plan[j].works[t] <= made[t]
          /\ plan'[j] = plan[j]
      BY <1>a, <1>b DEF CountInv
    <3> QED
      BY <3>1, <2>1, <2>2
  <2>4. ASSUME NEW j \in Importer, ipc'[j] = "done", NEW t \in Pending(j)'
        PROVE  addonWork'[t].uid # -plan'[j].works[t]
    <3>1. t \in Slot /\ plan[j].works[t] # 0 /\ plan'[j] = plan[j] /\ ipc[j] = "done"
      BY <1>b, <2>4 DEF Pending
    <3>2. /\ plan[j].works[t] \in Int /\ -plan[j].works[t] <= made[t] /\ made[t] \in Nat
          /\ addonWork[t].uid # -plan[j].works[t]
      BY <3>1, <1>a, <2>1 DEF CountInv, WorksGone, Pending
    <3>3. addonWork'[t].uid \in {addonWork[t].uid, 0, made[t] + 1}
      BY <3>1, <1>1
    <3> QED
      BY <3>1, <3>2, <3>3
  <2> QED
    BY <2>2, <2>3, <2>4 DEF CountInv, WorksGone
<1>2. ASSUME NEW a \in Addon, ApplyAddon(a) PROVE CountInv'
  <2> DEFINE s == <<hosting[a], a>>
  <2>1. s \in Slot
    BY <1>a DEF ImportTypeOK, Slot
  <2>2. CASE /\ made' = [made EXCEPT ![s] = @ + 1]
             /\ addonWork' = [addonWork EXCEPT ![s] = [NoWork EXCEPT !.uid = made[s] + 1]]
    <3>1. [NoWork EXCEPT !.uid = made[s] + 1].uid = made[s] + 1
      BY DEF NoWork
    <3>2. made'[s] = made[s] + 1 /\ addonWork'[s].uid = made[s] + 1
          /\ \A t \in Slot : t # s => made'[t] = made[t] /\ addonWork'[t] = addonWork[t]
      BY <2>1, <2>2, <3>1, <1>a DEF ImportTypeOK
    <3> QED
      BY <2>1, <3>2, <1>1
  <2>3. CASE UNCHANGED made /\ addonWork' = [addonWork EXCEPT ![s].orphan = FALSE]
    <3>1. \A t \in Slot : addonWork'[t].uid = addonWork[t].uid
      BY <2>1, <2>3, <1>a DEF ImportTypeOK, AddonWorks
    <3> QED
      BY <2>1, <2>3, <3>1, <1>1
  <2> QED
    BY <1>2, <2>2, <2>3 DEF ApplyAddon
<1>3. ASSUME NEW s \in Slot, Finalize(s) PROVE CountInv'
  <2>1. UNCHANGED made /\ addonWork' = [addonWork EXCEPT ![s] = NoWork]
    BY <1>3 DEF Finalize
  <2>2. addonWork'[s].uid = 0 /\ \A t \in Slot : t # s => addonWork'[t] = addonWork[t]
    BY <2>1, <1>a DEF ImportTypeOK, NoWork
  <2> QED
    BY <2>1, <2>2, <1>1
<1> QED
  BY <1>2, <1>3

LEMMA CountStepInv == OneReplacement /\ ImportInv /\ CountInv /\ [ReimportNext]_reimportVars => CountInv'
<1> SUFFICES ASSUME OneReplacement, ImportInv, CountInv, [ReimportNext]_reimportVars PROVE CountInv'
  OBVIOUS
<1>1. CASE UNCHANGED reimportVars
  BY <1>1 DEF reimportVars, CountInv, WorksGone, Pending
<1> QED
  BY <1>1, CountRunInv, CountAgentsInv DEF ReimportNext

-----------------------------------------------------------------------------
(***************************************************************************)
(* RecoveryAccess: the names.  A plan is as old as its prompt, but the     *)
(* source makes no record set any more, so what is left of the source's is *)
(* always in the plan of whoever is to delete it.                          *)
(***************************************************************************)
ZoneTypeOK ==
    /\ zone \in [Record -> {"absent", "old", "new", "other"}]
    /\ hpc = [h \in Helper |-> hpc[h]]
    /\ dnsPlan \in [Helper -> SUBSET (Record \X {"old", "new"})]
    /\ page \in [Helper -> 0 .. 2] /\ foreign \subseteq Record

OldIsPlanned(h) ==
    /\ hpc[h] = "list" =>
        /\ page[h] \in Endpoint
        /\ \A r \in Record : zone[r] = "old" /\ EndpointOf(r) < page[h] => <<r, "old">> \in dnsPlan[h]
    /\ hpc[h] = "prompt" =>
        /\ \A r \in Record : zone[r] = "old" => <<r, "old">> \in dnsPlan[h]
        /\ dnsPlan[h] \subseteq shownSets

ZoneInv ==
    /\ ZoneTypeOK
    /\ \A r \in Record : zone[r] = "other" => IsText(r)
    /\ \A h \in Helper : OldIsPlanned(h)
    /\ ReleaseIsSound

\* The part of the recovery at work is another one.
NoZone == zone = [r \in Record |-> "absent"] /\ foreign = {} /\ published = {}

LEMMA NoZoneIsSound == NoZone => ReleaseIsSound
BY DEF NoZone, ReleaseIsSound, Record

\* The endpoints of the records.
LEMMA Endpoints == \A r \in Record : EndpointOf(r) \in Endpoint
<1>1. EndpointOf(1) = 1 /\ EndpointOf(2) = 1 /\ EndpointOf(3) = 2 /\ EndpointOf(4) = 2
  BY DEF EndpointOf
<1>2. \A r \in Record : r = 1 \/ r = 2 \/ r = 3 \/ r = 4
  BY DEF Record
<1> QED
  BY <1>1, <1>2 DEF Endpoint

\* A step that makes no record set the source's, and none that others were not shown
\* anybody's but the replacement's.
LEMMA ZoneOthers ==
    ASSUME ZoneInv, ZoneTypeOK', UNCHANGED foreign, shownSets \subseteq shownSets',
           NEW h \in Helper, \A g \in Helper : g # h => hpc'[g] = hpc[g] /\ dnsPlan'[g] = dnsPlan[g] /\ page'[g] = page[g],
           \A r \in Record : zone'[r] = "old" => zone[r] = "old",
           \A r \in Record : zone'[r] = "other" <=> zone[r] = "other",
           \A r \in Record : EndpointOf(r) \in published' /\ <<r, "new">> \notin shownSets' => zone'[r] = "new",
           OldIsPlanned(h)',
           hpc'[h] \in {"released", "nothing"} => \A r \in Record : zone'[r] # "old"
    PROVE  ZoneInv'
<1>1. \A g \in Helper : g # h => OldIsPlanned(g)'
  BY DEF ZoneInv, OldIsPlanned
<1>2. \A g \in Helper : hpc'[g] \in {"released", "nothing"} => \A r \in Record : zone'[r] # "old"
  BY DEF ZoneInv, ReleaseIsSound
<1>3. \A r \in foreign' : zone'[r] = "other"
  <2> SUFFICES ASSUME NEW r \in foreign PROVE zone'[r] = "other"
    OBVIOUS
  <2>1. zone[r] = "other" /\ r \in Record
    BY DEF ZoneInv, ReleaseIsSound, ZoneTypeOK
  <2> QED
    BY <2>1
<1>4. \A r \in Record : zone'[r] = "other" => IsText(r)'
  BY DEF ZoneInv, IsText
<1> QED
  BY <1>1, <1>2, <1>3, <1>4 DEF ZoneInv, ReleaseIsSound

LEMMA ZoneInitInv == RecoveryInit => ZoneInv
<1> SUFFICES ASSUME RecoveryInit PROVE ZoneInv
  OBVIOUS
<1>1. zone \in [Record -> {"absent", "old", "new", "other"}] /\ hpc = [h \in Helper |-> "idle"]
      /\ foreign \subseteq Record /\ published = {} /\ \A r \in foreign : zone[r] = "other"
  BY DEF RecoveryInit
<1>2. ZoneTypeOK
  BY <1>1 DEF RecoveryInit, ZoneTypeOK
<1>3. \A h \in Helper : OldIsPlanned(h)
  BY <1>1 DEF OldIsPlanned
<1>4. ReleaseIsSound
  BY <1>1 DEF ReleaseIsSound
<1>5. \A r \in Record : zone[r] = "other" => IsText(r)
  BY DEF RecoveryInit
<1> QED
  BY <1>2, <1>3, <1>4, <1>5 DEF ZoneInv

\* Going through the pages, and the end of a run that has deleted nothing.
LEMMA ListRecordsInv ==
    ASSUME ZoneInv, NEW h \in Helper, StartRelease(h) \/ FindClusterRecords(h) \/ ReleaseEnds(h)
    PROVE  ZoneInv'
<1>a. ZoneTypeOK /\ OldIsPlanned(h) /\ dnsPlan[h] \in SUBSET (Record \X {"old", "new"})
  BY DEF ZoneInv, ZoneTypeOK
<1>b. UNCHANGED <<zone, foreign, published>>
  BY DEF StartRelease, FindClusterRecords, ReleaseEnds
<1>c. \A r \in Record : EndpointOf(r) \in published /\ <<r, "new">> \notin shownSets => zone[r] = "new"
  BY DEF ZoneInv, ReleaseIsSound
<1>1. CASE StartRelease(h) \/ ReleaseEnds(h)
  <2>1. /\ UNCHANGED shownSets /\ dnsPlan' = [dnsPlan EXCEPT ![h] = {}]
        /\ \E to \in {"list", "failed"} : /\ hpc' = [hpc EXCEPT ![h] = to]
                                          /\ page' = [page EXCEPT ![h] = IF to = "list" THEN 1 ELSE 0]
    BY <1>1 DEF StartRelease, ReleaseEnds, HelperEnds
  <2>2. /\ dnsPlan'[h] = {} /\ hpc'[h] \in {"list", "failed"} /\ (hpc'[h] = "list" => page'[h] = 1)
        /\ page'[h] \in 0 .. 2
        /\ \A g \in Helper : g # h => hpc'[g] = hpc[g] /\ dnsPlan'[g] = dnsPlan[g] /\ page'[g] = page[g]
    BY <2>1, <1>a DEF ZoneTypeOK
  <2>3. ZoneTypeOK'
    BY <2>1, <2>2, <1>a, <1>b DEF ZoneTypeOK
  <2>4. \A r \in Record : ~(EndpointOf(r) < 1)
    BY Endpoints DEF Endpoint
  <2>5. OldIsPlanned(h)'
    BY <2>2, <2>4, <1>b DEF OldIsPlanned, Endpoint
  <2> QED
    BY <2>1, <2>2, <2>3, <2>5, <1>b, <1>c, ZoneOthers
<1>2. CASE FindClusterRecords(h)
  <2> DEFINE found == dnsPlan[h] \cup
               {<<r, zone[r]>> : r \in {q \in Record : EndpointOf(q) = page[h] /\ IsClusterRecord(q)}}
             more == page[h] + 1 \in Endpoint
  <2>1. /\ hpc[h] = "list" /\ dnsPlan' = [dnsPlan EXCEPT ![h] = found]
        /\ page' = [page EXCEPT ![h] = IF more THEN page[h] + 1 ELSE 0]
        /\ hpc' = [hpc EXCEPT ![h] = IF more THEN "list" ELSE IF found = {} THEN "nothing" ELSE "prompt"]
        /\ shownSets' = IF more THEN shownSets ELSE shownSets \cup found
    BY <1>2 DEF FindClusterRecords, HelperEnds
  <2>2. found \in SUBSET (Record \X {"old", "new"})
    <3> SUFFICES ASSUME NEW q \in Record, IsClusterRecord(q) PROVE zone[q] \in {"old", "new"}
      BY <1>a
    <3>1. zone[q] \in {"absent", "old", "new", "other"} /\ zone[q] # "absent"
      BY <1>a DEF ZoneTypeOK, IsClusterRecord
    <3>2. zone[q] # "other"
      BY DEF ZoneInv, IsClusterRecord
    <3> QED
      BY <3>1, <3>2
  <2>3. page[h] \in Endpoint
        /\ \A r \in Record : zone[r] = "old" /\ EndpointOf(r) < page[h] => <<r, "old">> \in dnsPlan[h]
    BY <2>1, <1>a DEF OldIsPlanned
  <2>4. \A r \in Record : zone[r] = "old" /\ EndpointOf(r) <= page[h] => <<r, "old">> \in found
    <3> SUFFICES ASSUME NEW r \in Record, zone[r] = "old", EndpointOf(r) <= page[h]
                 PROVE  <<r, "old">> \in found
      OBVIOUS
    <3>1. CASE EndpointOf(r) < page[h]
      BY <3>1, <2>3
    <3>2. CASE EndpointOf(r) = page[h]
      <4>1. IsClusterRecord(r)
        BY DEF IsClusterRecord
      <4> QED
        BY <3>2, <4>1
    <3>3. EndpointOf(r) \in Int /\ page[h] \in Int
      BY <2>3, Endpoints DEF Endpoint
    <3> QED
      BY <3>1, <3>2, <3>3
  <2>5. (IF more THEN page[h] + 1 ELSE 0) \in 0 .. 2
    BY <2>3 DEF Endpoint
  <2> HIDE DEF found
  <2>6. /\ dnsPlan'[h] = found /\ page'[h] = (IF more THEN page[h] + 1 ELSE 0)
        /\ hpc'[h] = (IF more THEN "list" ELSE IF found = {} THEN "nothing" ELSE "prompt")
        /\ \A g \in Helper : g # h => hpc'[g] = hpc[g] /\ dnsPlan'[g] = dnsPlan[g] /\ page'[g] = page[g]
    BY <2>1, <1>a DEF ZoneTypeOK
  <2>7. ZoneTypeOK'
    BY <2>1, <2>2, <2>5, <1>a, <1>b DEF ZoneTypeOK
  <2>8. ~more => \A r \in Record : zone[r] = "old" => <<r, "old">> \in found
    <3>1. ~more => page[h] = 2
      BY <2>3 DEF Endpoint
    <3>2. \A r \in Record : EndpointOf(r) <= 2
      BY Endpoints DEF Endpoint
    <3> QED
      BY <2>4, <3>1, <3>2
  <2>9. OldIsPlanned(h)'
    <3>1. CASE more
      <4>1. \A r \in Record : EndpointOf(r) < page[h] + 1 => EndpointOf(r) <= page[h]
        BY <2>3, Endpoints DEF Endpoint
      <4> QED
        BY <3>1, <4>1, <2>4, <2>6, <1>b DEF OldIsPlanned
    <3>2. CASE ~more
      BY <3>2, <2>1, <2>6, <2>8, <1>b DEF OldIsPlanned
    <3> QED
      BY <3>1, <3>2
  <2>10. hpc'[h] \in {"released", "nothing"} => \A r \in Record : zone'[r] # "old"
    BY <2>6, <2>8, <1>b
  <2>11. shownSets \subseteq shownSets'
    BY <2>1
  <2> QED
    BY <2>6, <2>7, <2>9, <2>10, <2>11, <1>b, <1>c, ZoneOthers
<1> QED
  BY <1>1, <1>2

\* A batch that Route53 accepts deletes what it names; what the SRE was not shown is in none.
LEMMA ReleaseBatchInv == ASSUME ZoneInv, NEW h \in Helper, ReleaseDNS(h) PROVE ZoneInv'
<1>a. ZoneTypeOK /\ OldIsPlanned(h) /\ dnsPlan[h] \in SUBSET (Record \X {"old", "new"})
      /\ hpc[h] = "prompt"
  BY DEF ZoneInv, ZoneTypeOK, ReleaseDNS
<1>b. UNCHANGED <<foreign, published, page, shownSets>>
  BY DEF ReleaseDNS
<1>c. \A r \in Record : EndpointOf(r) \in published /\ <<r, "new">> \notin shownSets => zone[r] = "new"
  BY DEF ZoneInv, ReleaseIsSound
<1>d. (\A r \in Record : zone[r] = "old" => <<r, "old">> \in dnsPlan[h]) /\ dnsPlan[h] \subseteq shownSets
  BY <1>a DEF OldIsPlanned
<1>1. PICK batch \in SUBSET dnsPlan[h] :
        \/ /\ Deletable(batch) /\ zone' = Without(batch)
           /\ \/ /\ HelperEnds(h, IF dnsPlan[h] \ batch = {} THEN "released" ELSE "prompt")
                 /\ dnsPlan' = [dnsPlan EXCEPT ![h] = dnsPlan[h] \ batch]
              \/ HelperEnds(h, "failed") /\ dnsPlan' = [dnsPlan EXCEPT ![h] = {}]
        \/ HelperEnds(h, "failed") /\ dnsPlan' = [dnsPlan EXCEPT ![h] = {}] /\ UNCHANGED zone
  BY DEF ReleaseDNS
<1>2. PICK how \in {"released", "prompt", "failed"} : hpc' = [hpc EXCEPT ![h] = how]
  BY <1>1 DEF HelperEnds
<1>3. hpc'[h] = how /\ \A g \in Helper : g # h => hpc'[g] = hpc[g] /\ dnsPlan'[g] = dnsPlan[g] /\ page'[g] = page[g]
  BY <1>1, <1>2, <1>a, <1>b DEF ZoneTypeOK
<1>4. CASE HelperEnds(h, "failed") /\ UNCHANGED zone
  <2>1. hpc'[h] = "failed" /\ dnsPlan'[h] \in SUBSET (Record \X {"old", "new"})
    BY <1>1, <1>4, <1>a DEF HelperEnds, ZoneTypeOK
  <2>2. ZoneTypeOK'
    BY <1>1, <1>2, <1>4, <2>1, <1>a, <1>b DEF ZoneTypeOK
  <2>3. OldIsPlanned(h)'
    BY <2>1 DEF OldIsPlanned
  <2> QED
    BY <1>3, <1>4, <2>1, <2>2, <2>3, <1>b, <1>c, ZoneOthers
<1>5. CASE Deletable(batch) /\ zone' = Without(batch)
  <2>1. \A r \in Record : zone'[r] = IF \E p \in batch : p[1] = r THEN "absent" ELSE zone[r]
    BY <1>5 DEF Without
  <2>2. \A p \in batch : p \in Record \X {"old", "new"} /\ zone[p[1]] = p[2] /\ p = <<p[1], p[2]>>
    BY <1>5, <1>a DEF Deletable
  <2>3. \A r \in Record : zone'[r] # zone[r] => zone'[r] = "absent" /\ zone[r] \in {"old", "new"}
                                                   /\ <<r, zone[r]>> \in batch
    BY <2>1, <2>2
  <2>4. zone' \in [Record -> {"absent", "old", "new", "other"}]
    BY <2>1, <1>5, <1>a DEF Without, ZoneTypeOK
  <2>5. \A r \in Record : zone'[r] = "old" => zone[r] = "old" /\ <<r, "old">> \in dnsPlan[h] \ batch
    <3> SUFFICES ASSUME NEW r \in Record, zone'[r] = "old"
                 PROVE  zone[r] = "old" /\ <<r, "old">> \in dnsPlan[h] \ batch
      OBVIOUS
    <3>1. zone[r] = "old" /\ ~\E p \in batch : p[1] = r
      BY <2>1
    <3>2. <<r, "old">>[1] = r
      OBVIOUS
    <3> QED
      BY <3>1, <3>2, <1>d
  <2>6. \A r \in Record : EndpointOf(r) \in published /\ <<r, "new">> \notin shownSets => zone'[r] = "new"
    <3> SUFFICES ASSUME NEW r \in Record, EndpointOf(r) \in published, <<r, "new">> \notin shownSets
                 PROVE  zone'[r] = "new"
      OBVIOUS
    <3>1. zone[r] = "new"
      BY <1>c
    <3>2. <<r, "new">> \notin batch
      BY <1>d
    <3> QED
      BY <3>1, <3>2, <2>3
  <2>7. dnsPlan'[h] \subseteq dnsPlan[h]
        /\ (hpc'[h] # "failed" => dnsPlan'[h] = dnsPlan[h] \ batch)
        /\ (hpc'[h] = "released" => dnsPlan[h] \ batch = {})
    <3>1. CASE /\ HelperEnds(h, IF dnsPlan[h] \ batch = {} THEN "released" ELSE "prompt")
               /\ dnsPlan' = [dnsPlan EXCEPT ![h] = dnsPlan[h] \ batch]
      BY <3>1, <1>a DEF HelperEnds, ZoneTypeOK
    <3>2. CASE HelperEnds(h, "failed") /\ dnsPlan' = [dnsPlan EXCEPT ![h] = {}]
      BY <3>2, <1>a DEF HelperEnds, ZoneTypeOK
    <3> QED
      BY <1>1, <3>1, <3>2
  <2>8. ZoneTypeOK'
    BY <1>1, <1>2, <2>4, <2>7, <1>a, <1>b DEF ZoneTypeOK
  <2>9. OldIsPlanned(h)'
    BY <1>3, <2>5, <2>7, <1>b, <1>d DEF OldIsPlanned
  <2>10. hpc'[h] \in {"released", "nothing"} => \A r \in Record : zone'[r] # "old"
    BY <1>3, <2>5, <2>7
  <2>11. \A r \in Record : zone'[r] = "other" <=> zone[r] = "other"
    BY <2>3
  <2> QED
    BY <1>3, <2>5, <2>6, <2>8, <2>9, <2>10, <2>11, <1>b, ZoneOthers
<1> QED
  BY <1>1, <1>4, <1>5

\* External-dns publishes only where nothing is.
LEMMA PublishInv == ASSUME ZoneInv, NEW e \in Endpoint, Publish(e) PROVE ZoneInv'
<1>1. /\ \A r \in Record : EndpointOf(r) = e => zone[r] = "absent"
      /\ \A r \in Record : zone'[r] = IF EndpointOf(r) = e THEN "new" ELSE zone[r]
      /\ zone' = [r \in Record |-> zone'[r]]
      /\ published' = published \cup {e}
      /\ UNCHANGED <<hpc, foreign, dnsPlan, page, shownSets>>
  BY DEF Publish
<1>2. ZoneTypeOK'
  <2>1. \A r \in Record : zone'[r] \in {"absent", "old", "new", "other"}
    BY <1>1 DEF ZoneInv, ZoneTypeOK
  <2>2. zone' \in [Record -> {"absent", "old", "new", "other"}]
    BY <1>1, <2>1
  <2> QED
    BY <1>1, <2>2 DEF ZoneInv, ZoneTypeOK
<1>3. \A r \in Record : (zone'[r] = "old" <=> zone[r] = "old") /\ (zone'[r] = "other" <=> zone[r] = "other")
  BY <1>1
<1>4. \A g \in Helper : OldIsPlanned(g)'
  BY <1>1, <1>3 DEF ZoneInv, OldIsPlanned
<1>5. \A r \in Record : EndpointOf(r) \in published' /\ <<r, "new">> \notin shownSets' => zone'[r] = "new"
  BY <1>1 DEF ZoneInv, ReleaseIsSound
<1>6. (\A r \in foreign' : zone'[r] = "other") /\ \A r \in Record : zone'[r] = "other" => IsText(r)'
  BY <1>1, <1>3 DEF ZoneInv, ReleaseIsSound, ZoneTypeOK, IsText
<1>7. \A g \in Helper : hpc'[g] \in {"released", "nothing"} => \A r \in Record : zone'[r] # "old"
  BY <1>1, <1>3 DEF ZoneInv, ReleaseIsSound
<1> QED
  BY <1>2, <1>4, <1>5, <1>6, <1>7 DEF ZoneInv, ReleaseIsSound

LEMMA ZoneStepInv == ASSUME ZoneInv, DnsReleaseNext \/ UNCHANGED recoveryVars PROVE ZoneInv'
<1>1. CASE UNCHANGED recoveryVars
  BY <1>1 DEF recoveryVars, dnsAccessVars, ZoneInv, ZoneTypeOK, OldIsPlanned, ReleaseIsSound
<1> QED
  BY <1>1, ListRecordsInv, ReleaseBatchInv, PublishInv DEF DnsReleaseNext

-----------------------------------------------------------------------------
(***************************************************************************)
(* The trust.  An update has no precondition, so that of one SRE may write *)
(* over another's: it is safe because each policy that is about to be      *)
(* written has, like the role's, the source or one replacement where the   *)
(* role's policy first had the source.                                     *)
(***************************************************************************)
SoundFor(policy) ==
    /\ DOMAIN policy = DOMAIN trustBefore
    /\ \A i \in DOMAIN policy :
        LET before == Admitted(trustBefore[i])
        IN IF "old" \notin before THEN Admitted(policy[i]) = before
           ELSE \E m \in {"old"} \cup sameAccount : Admitted(policy[i]) = (before \ {"old"}) \cup {m}

SourceOut(policy) == \A i \in DOMAIN policy : "old" \notin Admitted(policy[i])

TrustInv ==
    /\ hpc = [h \in Helper |-> hpc[h]] /\ trustPlan = [h \in Helper |-> trustPlan[h]]
    /\ SoundFor(trust)
    /\ \A h \in Helper : hpc[h] = "write" => SoundFor(trustPlan[h]) /\ SourceOut(trustPlan[h])
    /\ \A h \in Helper : hpc[h] = "trusted" => SourceOut(trust)

\* The part of the recovery at work is another one.
NoTrust == trust = trustBefore /\ \A i \in DOMAIN trust : Admitted(trust[i]) = {}

LEMMA TrustIsSound == TrustInv \/ NoTrust => TrustIsMoved
<1>1. ASSUME TrustInv PROVE TrustIsMoved
  BY <1>1 DEF TrustInv, SoundFor, SourceOut, TrustIsMoved
<1>2. ASSUME NoTrust PROVE TrustIsMoved
  BY <1>2 DEF NoTrust, TrustIsMoved
<1> QED
  BY <1>1, <1>2

LEMMA TrustInitInv == RecoveryInit => TrustInv
<1> SUFFICES ASSUME RecoveryInit PROVE TrustInv
  OBVIOUS
<1>1. hpc = [h \in Helper |-> "idle"] /\ trustPlan = [h \in Helper |-> <<>>] /\ trustBefore = trust
  BY DEF RecoveryInit
<1>2. ASSUME NEW i \in DOMAIN trust, "old" \in Admitted(trust[i])
      PROVE  Admitted(trust[i]) = (Admitted(trust[i]) \ {"old"}) \cup {"old"}
  BY <1>2
<1>3. SoundFor(trust)
  BY <1>1, <1>2 DEF SoundFor
<1> QED
  BY <1>1, <1>3 DEF TrustInv

\* The statement that is moved admits the replacement in the place of the source.
LEMMA MovedAdmits ==
    ASSUME NEW s, NEW to, to # "old", "old" \in s.federated, Movable(s, to)
    PROVE  "old" \in Admitted(s) /\ Admitted(Moved(s, to)) = (Admitted(s) \ {"old"}) \cup {to}
<1>1. "old" \in s.subject /\ to \notin s.subject
  BY DEF Movable
<1>2. Moved(s, to).federated = (s.federated \ {"old"}) \cup {to}
      /\ Moved(s, to).subject = (s.subject \ {"old"}) \cup {to}
  BY <1>1 DEF Moved, MoveSet
<1> HIDE DEF Moved
<1> QED
  BY <1>1, <1>2 DEF Admitted

\* A plan made from a sound policy is sound and admits the source no more.
LEMMA PlanIsSound ==
    ASSUME SoundFor(trust), NEW to \in sameAccount, to # "old", NEW policy,
           policy = [i \in DOMAIN trust |-> IF "old" \in trust[i].federated THEN Moved(trust[i], to) ELSE trust[i]],
           \A i \in DOMAIN trust : "old" \in trust[i].federated => Movable(trust[i], to)
    PROVE  SoundFor(policy) /\ SourceOut(policy)
<1>1. DOMAIN policy = DOMAIN trust
  OBVIOUS
<1>2. ASSUME NEW i \in DOMAIN trust, "old" \notin trust[i].federated
      PROVE  Admitted(policy[i]) = Admitted(trust[i]) /\ "old" \notin Admitted(policy[i])
  BY <1>2 DEF Admitted
<1>3. ASSUME NEW i \in DOMAIN trust, "old" \in trust[i].federated
      PROVE  /\ "old" \in Admitted(trust[i]) /\ "old" \notin Admitted(policy[i])
             /\ Admitted(policy[i]) = (Admitted(trust[i]) \ {"old"}) \cup {to}
  <2>1. policy[i] = Moved(trust[i], to) /\ Movable(trust[i], to)
    BY <1>3
  <2>2. "old" \in Admitted(trust[i]) /\ Admitted(policy[i]) = (Admitted(trust[i]) \ {"old"}) \cup {to}
    BY <1>3, <2>1, MovedAdmits
  <2> QED
    BY <2>2
<1>4. SourceOut(policy)
  BY <1>1, <1>2, <1>3 DEF SourceOut
<1>5. ASSUME NEW i \in DOMAIN trust, "old" \notin Admitted(trustBefore[i])
      PROVE  Admitted(policy[i]) = Admitted(trustBefore[i])
  <2>1. Admitted(trust[i]) = Admitted(trustBefore[i])
    BY <1>5 DEF SoundFor
  <2> QED
    BY <2>1, <1>2, <1>3, <1>5
<1>6. ASSUME NEW i \in DOMAIN trust, "old" \in Admitted(trustBefore[i])
      PROVE  \E m \in {"old"} \cup sameAccount : Admitted(policy[i]) = (Admitted(trustBefore[i]) \ {"old"}) \cup {m}
  <2>1. PICK m \in {"old"} \cup sameAccount : Admitted(trust[i]) = (Admitted(trustBefore[i]) \ {"old"}) \cup {m}
    BY <1>6 DEF SoundFor
  <2>2. CASE "old" \notin trust[i].federated
    BY <2>1, <2>2, <1>2
  <2>3. CASE "old" \in trust[i].federated
    <3>1. m = "old"
      BY <2>1, <2>3, <1>3
    <3>2. Admitted(policy[i]) = (Admitted(trustBefore[i]) \ {"old"}) \cup {to}
      BY <2>1, <2>3, <3>1, <1>3
    <3> QED
      BY <3>2
  <2> QED
    BY <2>2, <2>3
<1> QED
  BY <1>1, <1>4, <1>5, <1>6 DEF SoundFor

LEMMA TrustStepInv == ASSUME TrustInv, TrustNext \/ UNCHANGED recoveryVars PROVE TrustInv'
<1>1. CASE UNCHANGED recoveryVars
  BY <1>1 DEF recoveryVars, trustVars, TrustInv, SoundFor, SourceOut
<1>2. ASSUME NEW h \in Helper, UNCHANGED <<trust, trustBefore, sameAccount>>,
             \/ HelperEnds(h, "failed") /\ (UNCHANGED trustPlan \/ trustPlan' = [trustPlan EXCEPT ![h] = <<>>])
             \/ \E policy : /\ HelperEnds(h, "write") /\ trustPlan' = [trustPlan EXCEPT ![h] = policy]
                            /\ SoundFor(policy) /\ SourceOut(policy)
      PROVE  TrustInv'
  <2>1. ASSUME NEW policy PROVE (SoundFor(policy) <=> SoundFor(policy)') /\ (SourceOut(policy) <=> SourceOut(policy)')
    BY <1>2 DEF SoundFor, SourceOut
  <2>2. /\ hpc' = [g \in Helper |-> hpc'[g]] /\ trustPlan' = [g \in Helper |-> trustPlan'[g]]
        /\ \A g \in Helper : g # h => hpc'[g] = hpc[g] /\ trustPlan'[g] = trustPlan[g]
        /\ \/ hpc'[h] = "failed"
           \/ hpc'[h] = "write" /\ SoundFor(trustPlan'[h]) /\ SourceOut(trustPlan'[h])
    BY <1>2 DEF TrustInv, HelperEnds
  <2>3. SoundFor(trust)'
    BY <1>2 DEF TrustInv, SoundFor
  <2>4. \A g \in Helper : hpc'[g] = "write" => SoundFor(trustPlan'[g]) /\ SourceOut(trustPlan'[g])
    BY <2>2 DEF TrustInv
  <2>5. \A g \in Helper : hpc'[g] = "write" => SoundFor(trustPlan[g])' /\ SourceOut(trustPlan[g])'
    BY <2>4, <1>2 DEF SoundFor, SourceOut
  <2>6. \A g \in Helper : hpc'[g] = "trusted" => SourceOut(trust)'
    BY <2>2, <1>2 DEF TrustInv, SourceOut
  <2> QED
    BY <2>2, <2>3, <2>5, <2>6 DEF TrustInv
<1>3. ASSUME NEW h \in Helper, PrepareTrustPolicyUpdate(h) PROVE TrustInv'
  <2>1. UNCHANGED <<trust, trustBefore, sameAccount>>
    BY <1>3 DEF PrepareTrustPolicyUpdate
  <2>2. PICK to \in {"new", "third"} :
          LET ofSource == {i \in DOMAIN trust : "old" \in trust[i].federated}
          IN IF SharesAccount(to) /\ ofSource # {} /\ \A i \in ofSource : Movable(trust[i], to)
             THEN /\ HelperEnds(h, "write")
                  /\ trustPlan' = [trustPlan EXCEPT ![h] =
                         [i \in DOMAIN trust |-> IF i \in ofSource THEN Moved(trust[i], to) ELSE trust[i]]]
             ELSE HelperEnds(h, "failed") /\ UNCHANGED trustPlan
    BY <1>3 DEF PrepareTrustPolicyUpdate
  <2> DEFINE ofSource == {i \in DOMAIN trust : "old" \in trust[i].federated}
             policy == [i \in DOMAIN trust |-> IF "old" \in trust[i].federated THEN Moved(trust[i], to) ELSE trust[i]]
  <2>3. CASE SharesAccount(to) /\ ofSource # {} /\ \A i \in ofSource : Movable(trust[i], to)
    <3>1. HelperEnds(h, "write")
          /\ trustPlan' = [trustPlan EXCEPT ![h] =
                 [i \in DOMAIN trust |-> IF i \in ofSource THEN Moved(trust[i], to) ELSE trust[i]]]
      BY <2>2, <2>3
    <3>2. [i \in DOMAIN trust |-> IF i \in ofSource THEN Moved(trust[i], to) ELSE trust[i]] = policy
      OBVIOUS
    <3>3. SoundFor(trust) /\ to \in sameAccount /\ to # "old"
      BY <2>3 DEF TrustInv, SharesAccount
    <3>4. \A i \in DOMAIN trust : "old" \in trust[i].federated => Movable(trust[i], to)
      BY <2>3
    <3>5. SoundFor(policy) /\ SourceOut(policy)
      BY <3>3, <3>4, PlanIsSound
    <3> HIDE DEF policy
    <3> QED
      BY <2>1, <3>1, <3>2, <3>5, <1>2
  <2>4. CASE ~(SharesAccount(to) /\ ofSource # {} /\ \A i \in ofSource : Movable(trust[i], to))
    <3>1. HelperEnds(h, "failed") /\ UNCHANGED trustPlan
      BY <2>2, <2>4
    <3> QED
      BY <2>1, <3>1, <1>2
  <2> QED
    BY <2>3, <2>4
<1>4. ASSUME NEW h \in Helper, UpdateTrustPolicy(h) PROVE TrustInv'
  <2>1. /\ hpc[h] = "write" /\ trust' = trustPlan[h] /\ UNCHANGED <<trustBefore, sameAccount>>
        /\ trustPlan' = [trustPlan EXCEPT ![h] = <<>>]
        /\ \E how \in {"trusted", "failed"} : hpc' = [hpc EXCEPT ![h] = how]
    BY <1>4 DEF UpdateTrustPolicy, HelperEnds
  <2>2. SoundFor(trust') /\ SourceOut(trust')
    BY <2>1 DEF TrustInv
  <2>3. SoundFor(trust)' /\ SourceOut(trust)'
    BY <2>1, <2>2 DEF SoundFor, SourceOut
  <2>4. /\ hpc' = [g \in Helper |-> hpc'[g]] /\ trustPlan' = [g \in Helper |-> trustPlan'[g]]
        /\ \A g \in Helper : g # h => hpc'[g] = hpc[g] /\ trustPlan'[g] = trustPlan[g]
        /\ hpc'[h] # "write"
    BY <2>1 DEF TrustInv
  <2>5. \A g \in Helper : hpc'[g] = "write" => SoundFor(trustPlan[g])' /\ SourceOut(trustPlan[g])'
    BY <2>1, <2>4 DEF TrustInv, SoundFor, SourceOut
  <2> QED
    BY <2>3, <2>4, <2>5 DEF TrustInv
<1>5. ASSUME NEW h \in Helper, TrustEnds(h) PROVE TrustInv'
  BY <1>5, <1>2 DEF TrustEnds
<1> QED
  BY <1>1, <1>3, <1>4, <1>5 DEF TrustNext

-----------------------------------------------------------------------------
(***************************************************************************)
(* The backups.  A listing goes up through their names, so that the last   *)
(* one found is the newest, and the names made since it began are newer    *)
(* than those it is measured by.                                           *)
(***************************************************************************)
BackupTypeOK ==
    /\ hpc = [h \in Helper |-> hpc[h]] /\ second \in Nat \ {0} /\ backups \subseteq Nat
    /\ backupId = [h \in Helper |-> backupId[h]] /\ listing = [h \in Helper |-> listing[h]]
    /\ atStart = [h \in Helper |-> atStart[h]]

\* What was found exists, and one of it is the newest.
Found(h) ==
    /\ listing[h] \subseteq backups /\ atStart[h] \subseteq backups
    /\ listing[h] # {} => \E d \in listing[h] : \A b \in listing[h] : b <= d

BackupInv == BackupTypeOK /\ (\A h \in Helper : Found(h)) /\ BackupsAreOwn

\* The part of the recovery at work is another one.
NoBackup ==
    /\ backups = {} /\ backupId = [h \in Helper |-> 0]
    /\ listing = [h \in Helper |-> {}] /\ atStart = [h \in Helper |-> {}]

LEMMA NoBackupIsOwn == NoBackup => BackupsAreOwn
BY DEF NoBackup, BackupsAreOwn

LEMMA BackupInitInv == RecoveryInit => BackupInv
BY DEF RecoveryInit, BackupInv, BackupTypeOK, Found, BackupsAreOwn

\* Some natural numbers have a smallest one.
LEMMA Smallest ==
    ASSUME NEW ns \in SUBSET Nat, ns # {}
    PROVE  \E n \in ns : \A m \in ns : n <= m
<1> DEFINE less == {p \in Nat \X Nat : p[1] < p[2]}
<1>1. OpToRel(<, Nat) = less
  BY DEF OpToRel
<1>2. IsWellFoundedOn(less, Nat)
  BY <1>1, NatLessThanWellFounded
<1> HIDE DEF less
<1>3. PICK n \in ns : \A m \in ns : <<m, n>> \notin less
  BY <1>2, WFMin
<1>4. \A m \in ns : ~(m < n)
  BY <1>3 DEF less
<1> QED
  BY <1>4

\* A step of a run that makes no backup.
LEMMA BackupRunStep ==
    ASSUME BackupInv, NEW h \in Helper, UNCHANGED <<backups, backupId, second>>,
           NEW to \in {"list", "exec", "failed", "discovered"}, HelperEnds(h, to),
           NEW found \in SUBSET backups, listing' = [listing EXCEPT ![h] = found],
           NEW start \in SUBSET backups, atStart' = [atStart EXCEPT ![h] = start],
           found # {} => \E d \in found : \A b \in found : b <= d,
           to = "discovered" => \A b \in start : \E d \in found : b <= d
    PROVE  BackupInv'
<1>1. /\ hpc' = [hpc EXCEPT ![h] = to]
      /\ hpc'[h] = to /\ listing'[h] = found /\ atStart'[h] = start
      /\ \A g \in Helper : g # h => hpc'[g] = hpc[g] /\ listing'[g] = listing[g] /\ atStart'[g] = atStart[g]
  BY DEF BackupInv, BackupTypeOK, HelperEnds
<1>2. BackupTypeOK'
  BY <1>1 DEF BackupInv, BackupTypeOK
<1>3. \A g \in Helper : Found(g)'
  BY <1>1 DEF BackupInv, Found
<1>4. BackupsAreOwn'
  BY <1>1 DEF BackupInv, BackupsAreOwn
<1> QED
  BY <1>2, <1>3, <1>4 DEF BackupInv

LEMMA ListBackupsInv == ASSUME BackupInv, NEW h \in Helper, ListBackups(h) PROVE BackupInv'
<1> DEFINE more == {b \in backups : \A c \in listing[h] : c < b}
<1>a. Found(h) /\ hpc[h] = "list" /\ UNCHANGED <<backups, backupId, second, atStart>>
      /\ backups \subseteq Nat /\ listing[h] \subseteq backups /\ atStart[h] \subseteq backups
  BY DEF BackupInv, BackupTypeOK, Found, ListBackups
<1>b. atStart' = [atStart EXCEPT ![h] = atStart[h]]
  BY <1>a DEF BackupInv, BackupTypeOK
<1>1. CASE more # {}
  <2> DEFINE next == CHOOSE b \in more : \A c \in more : b <= c
             found == listing[h] \cup {next}
  <2>1. next \in more
    <3>1. more \in SUBSET Nat
      BY <1>a
    <3> HIDE DEF more
    <3> QED
      BY <1>1, <3>1, Smallest
  <2>2. listing' = [listing EXCEPT ![h] = found] /\ UNCHANGED hpc
    BY <1>1 DEF ListBackups
  <2> HIDE DEF next
  <2>3. next \in backups /\ \A c \in listing[h] : c < next
    BY <2>1
  <2>4. found \subseteq backups /\ \A b \in found : b <= next
    <3>a. next \in Nat /\ \A c \in listing[h] : c \in Nat
      BY <2>3, <1>a
    <3>1. next \in Nat /\ \A c \in listing[h] : c <= next
      BY <2>3, <3>a
    <3>2. next <= next
      BY <3>1
    <3> QED
      BY <2>3, <3>1, <3>2, <1>a
  <2>5. HelperEnds(h, "list")
    BY <2>2, <1>a DEF HelperEnds, BackupInv, BackupTypeOK
  <2>6. found \in SUBSET backups /\ \E d \in found : \A b \in found : b <= d
    BY <2>4
  <2> HIDE DEF found
  <2> QED
    BY <2>2, <2>5, <2>6, <1>a, <1>b, BackupRunStep
<1>2. CASE more = {}
  <2>1. PICK told \in {listing[h], Newest(listing[h])} : listing' = [listing EXCEPT ![h] = told]
    BY <1>2 DEF ListBackups
  <2> DEFINE to == IF listing[h] = {} THEN "failed" ELSE "discovered"
  <2>2. HelperEnds(h, to)
    BY <1>2 DEF ListBackups
  <2>3. CASE listing[h] = {}
    <3>1. told = {} /\ to = "failed"
      BY <2>3 DEF Newest
    <3>2. listing' = [listing EXCEPT ![h] = {}] /\ HelperEnds(h, "failed") /\ {} \in SUBSET backups
      BY <2>1, <2>2, <3>1
    <3> QED
      BY <3>2, <1>a, <1>b, BackupRunStep
  <2>4. CASE listing[h] # {}
    <3>1. PICK d \in listing[h] : \A b \in listing[h] : b <= d
      BY <2>4, <1>a DEF Found
    <3>2. told \subseteq listing[h] /\ d \in told
      BY <3>1 DEF Newest
    <3>3. \A b \in backups : b <= d
      <4> SUFFICES ASSUME NEW b \in backups PROVE b <= d
        OBVIOUS
      <4>1. PICK c \in listing[h] : ~(c < b)
        BY <1>2
      <4>2. b \in Nat /\ c \in Nat /\ d \in Nat /\ c <= d
        BY <1>a, <3>1
      <4> QED
        BY <4>1, <4>2
    <3>4. (\A b \in told : b <= d) /\ (\A b \in atStart[h] : b <= d) /\ told \subseteq backups
      BY <3>2, <3>3, <1>a
    <3>5. /\ told \in SUBSET backups /\ atStart[h] \in SUBSET backups
          /\ \E e \in told : \A b \in told : b <= e
          /\ \A b \in atStart[h] : \E e \in told : b <= e
      BY <3>2, <3>4, <1>a
    <3>6. HelperEnds(h, "discovered")
      BY <2>2, <2>4
    <3> QED
      BY <2>1, <3>5, <3>6, <1>a, <1>b, BackupRunStep
  <2> QED
    BY <2>3, <2>4
<1> QED
  BY <1>1, <1>2

\* A backup is named after a second that has none yet, so nobody has been told of it.
LEMMA CreateBackupInv == ASSUME BackupInv, NEW h \in Helper, CreateVeleroBackup(h) PROVE BackupInv'
<1>a. UNCHANGED <<second, listing, atStart>> /\ BackupTypeOK /\ BackupsAreOwn
      /\ \A g \in Helper : Found(g)
  BY DEF CreateVeleroBackup, BackupInv
<1>1. PICK how \in {"backed up", "failed"} : hpc' = [hpc EXCEPT ![h] = how]
  BY DEF CreateVeleroBackup, HelperEnds
<1>2. \/ UNCHANGED <<backups, backupId>>
      \/ /\ second \notin backups /\ backups' = backups \cup {second}
         /\ UNCHANGED backupId \/ \E id \in {0, second} : backupId' = [backupId EXCEPT ![h] = id]
  BY DEF CreateVeleroBackup
<1>3. hpc'[h] = how /\ \A g \in Helper : g # h => hpc'[g] = hpc[g]
  BY <1>1, <1>a DEF BackupTypeOK
<1>4. BackupTypeOK'
  BY <1>1, <1>2, <1>a DEF BackupTypeOK
<1>5. backups \subseteq backups'
  BY <1>2
<1>6. \A g \in Helper : Found(g)'
  BY <1>5, <1>a DEF Found
<1>7. /\ \A g \in Helper : backupId'[g] \in backups' \cup {0}
      /\ \A f, g \in Helper : backupId'[f] = backupId'[g] /\ backupId'[g] # 0 => f = g
  <2>1. CASE UNCHANGED backupId
    BY <2>1, <1>5, <1>a DEF BackupsAreOwn
  <2>2. ASSUME NEW id \in {0, second}, backupId' = [backupId EXCEPT ![h] = id],
               second \notin backups, backups' = backups \cup {second}
        PROVE  <1>7!1 /\ <1>7!2
    <3>1. backupId'[h] = id /\ \A g \in Helper : g # h => backupId'[g] = backupId[g]
      BY <2>2, <1>a DEF BackupTypeOK
    <3>2. \A g \in Helper : backupId[g] \in backups \cup {0}
      BY <1>a DEF BackupsAreOwn
    <3>3. id = second \/ id = 0
      BY <2>2
    <3> QED
      BY <3>1, <3>2, <3>3, <2>2, <1>a DEF BackupsAreOwn
  <2> QED
    BY <1>2, <2>1, <2>2
<1>8. \A g \in Helper : hpc'[g] = "discovered" =>
        listing'[g] \subseteq backups' /\ \A b \in atStart'[g] : \E d \in listing'[g] : b <= d
  BY <1>3, <1>5, <1>a DEF BackupsAreOwn
<1> QED
  BY <1>4, <1>6, <1>7, <1>8 DEF BackupInv, BackupsAreOwn

LEMMA BackupStepInv == ASSUME BackupInv, BackupNext \/ UNCHANGED recoveryVars PROVE BackupInv'
<1>1. CASE UNCHANGED recoveryVars
  BY <1>1 DEF recoveryVars, backupVars, BackupInv, BackupTypeOK, Found, BackupsAreOwn
<1>2. CASE Second
  <2>1. second + 1 \in Nat \ {0} /\ second' = second + 1
    BY <1>2 DEF Second, BackupInv, BackupTypeOK
  <2> QED
    BY <1>2, <2>1 DEF Second, BackupInv, BackupTypeOK, Found, BackupsAreOwn
<1>3. ASSUME NEW h \in Helper, CheckSchedule(h) \/ BackupEnds(h) PROVE BackupInv'
  <2>1. UNCHANGED backupVars /\ \E to \in {"exec", "failed"} : HelperEnds(h, to)
    BY <1>3 DEF CheckSchedule, BackupEnds
  <2>2. listing' = [listing EXCEPT ![h] = listing[h]] /\ atStart' = [atStart EXCEPT ![h] = atStart[h]]
    BY <2>1 DEF backupVars, BackupInv, BackupTypeOK
  <2>3. /\ listing[h] \in SUBSET backups /\ atStart[h] \in SUBSET backups
        /\ listing[h] # {} => \E d \in listing[h] : \A b \in listing[h] : b <= d
    BY DEF BackupInv, Found
  <2>4. UNCHANGED <<backups, backupId, second>>
    BY <2>1 DEF backupVars
  <2> QED
    BY <2>1, <2>2, <2>3, <2>4, BackupRunStep
<1>4. ASSUME NEW h \in Helper, DiscoverBackups(h) PROVE BackupInv'
  <2>1. /\ HelperEnds(h, "list") /\ UNCHANGED <<backups, backupId, second>>
        /\ listing' = [listing EXCEPT ![h] = {}] /\ atStart' = [atStart EXCEPT ![h] = backups]
    BY <1>4 DEF DiscoverBackups
  <2>2. {} \in SUBSET backups /\ backups \in SUBSET backups
    OBVIOUS
  <2> QED
    BY <2>1, <2>2, BackupRunStep
<1> QED
  BY <1>1, <1>2, <1>3, <1>4, ListBackupsInv, CreateBackupInv DEF BackupNext

-----------------------------------------------------------------------------
(***************************************************************************)
(* The recovery as a whole: each of its parts keeps its own invariant, and *)
(* leaves what the others look at as it was.                               *)
(***************************************************************************)
RecoveryInv ==
    /\ MoveInv /\ (\A s \in SRE : CopyInv(s))
    /\ ImportInv /\ CountInv
    /\ IF phase = "release-dns" THEN ZoneInv ELSE NoZone
    /\ IF phase = "update-trust-policy" THEN TrustInv ELSE NoTrust
    /\ IF phase = "backup" THEN BackupInv ELSE NoBackup

LEMMA RecoveryInitInv == HcpInit => RecoveryInv
<1> SUFFICES ASSUME HcpInit PROVE RecoveryInv
  OBVIOUS
<1>1. MoveInv /\ ImportInv /\ CountInv
  BY MoveInitInv, ImportInitInv, CountInitInv DEF HcpInit
<1>2. \A s \in SRE : CopyInv(s)
  BY DEF HcpInit, MoveInit, CopyInv, Moving
<1>3. RecoveryInit
  BY DEF HcpInit
<1>4. IF phase = "release-dns" THEN ZoneInv ELSE NoZone
  <2>1. CASE phase = "release-dns"
    BY <2>1, <1>3, ZoneInitInv
  <2>2. CASE phase # "release-dns"
    <3>1. \A r \in Record : zone[r] # "other"
      BY <2>2 DEF HcpInit
    <3> QED
      BY <2>2, <3>1 DEF HcpInit, RecoveryInit, NoZone
  <2> QED
    BY <2>1, <2>2
<1>5. IF phase = "update-trust-policy" THEN TrustInv ELSE NoTrust
  <2>1. CASE phase = "update-trust-policy"
    BY <2>1, <1>3, TrustInitInv
  <2>2. CASE phase # "update-trust-policy"
    <3>1. trust = [i \in 1 .. 2 |-> [federated |-> {}, subject |-> {}]] /\ trustBefore = trust
      BY <2>2 DEF HcpInit, RecoveryInit
    <3> QED
      BY <2>2, <3>1 DEF NoTrust, Admitted
  <2> QED
    BY <2>1, <2>2
<1>6. IF phase = "backup" THEN BackupInv ELSE NoBackup
  BY <1>3, BackupInitInv DEF RecoveryInit, NoBackup
<1> QED
  BY <1>1, <1>2, <1>4, <1>5, <1>6 DEF RecoveryInv

LEMMA RecoveryStepInv == OneReplacement /\ RecoveryInv /\ [HcpNext]_hcpVars => RecoveryInv'
<1> SUFFICES ASSUME OneReplacement, RecoveryInv, [HcpNext]_hcpVars PROVE RecoveryInv'
  OBVIOUS
<1>1. MoveInv' /\ ImportInv'
  BY MoveStepInv, ImportStepInv, HcpMoveStep, HcpReimportStep DEF RecoveryInv
<1>2. (\A s \in SRE : CopyInv(s))' /\ CountInv'
  BY CopyStepInv, CountStepInv, HcpMoveStep, HcpReimportStep DEF RecoveryInv
<1>3. /\ phase' = phase
      /\ \/ UNCHANGED recoveryVars
         \/ phase = "release-dns" /\ DnsReleaseNext
         \/ phase = "update-trust-policy" /\ TrustNext
         \/ phase = "backup" /\ BackupNext
  BY DEF HcpNext, Recovery, Access, Upgrade, Rest, hcpVars, restoreHcpVars
<1>4. phase # "release-dns" => UNCHANGED dnsAccessVars
  BY <1>3 DEF recoveryVars, TrustNext, BackupNext
<1>5. phase # "update-trust-policy" => UNCHANGED trustVars
  BY <1>3 DEF recoveryVars, DnsReleaseNext, BackupNext
<1>6. phase # "backup" => UNCHANGED backupVars
  BY <1>3 DEF recoveryVars, DnsReleaseNext, TrustNext
<1>7. (IF phase = "release-dns" THEN ZoneInv ELSE NoZone)'
  <2>1. CASE phase = "release-dns"
    BY <2>1, <1>3, ZoneStepInv DEF RecoveryInv
  <2>2. CASE phase # "release-dns"
    BY <2>2, <1>3, <1>4 DEF RecoveryInv, NoZone, dnsAccessVars
  <2> QED
    BY <2>1, <2>2
<1>8. (IF phase = "update-trust-policy" THEN TrustInv ELSE NoTrust)'
  <2>1. CASE phase = "update-trust-policy"
    BY <2>1, <1>3, TrustStepInv DEF RecoveryInv
  <2>2. CASE phase # "update-trust-policy"
    BY <2>2, <1>3, <1>5 DEF RecoveryInv, NoTrust, trustVars
  <2> QED
    BY <2>1, <2>2
<1>9. (IF phase = "backup" THEN BackupInv ELSE NoBackup)'
  <2>1. CASE phase = "backup"
    BY <2>1, <1>3, BackupStepInv DEF RecoveryInv
  <2>2. CASE phase # "backup"
    BY <2>2, <1>3, <1>6 DEF RecoveryInv, NoBackup, backupVars
  <2> QED
    BY <2>1, <2>2
<1> QED
  BY <1>1, <1>2, <1>7, <1>8, <1>9 DEF RecoveryInv

\* What the parts promise follows from their invariants.
LEMMA RecoveryInvWhole == RecoveryInv => RecoveredWhole
<1> SUFFICES ASSUME RecoveryInv PROVE RecoveredWhole
  OBVIOUS
<1>1. MoveComplete
  <2> SUFFICES ASSUME NEW s \in SRE, mpc[s] = "moved", move[s].kind = "cluster"
               PROVE  /\ \A w \in move[s].names \cup Velero : works["new"][w] # None
                      /\ \A w \in move[s].names \cap Reconciled : works[move[s].source][w].paused
    BY DEF MoveComplete
  <2> QED
    BY DEF RecoveryInv, CopyInv
<1>2. AddonsSurvive /\ WorksGone
  BY DEF RecoveryInv, ImportInv, CountInv
<1>3. ReleaseIsSound
  BY NoZoneIsSound DEF RecoveryInv, ZoneInv
<1>4. TrustIsMoved
  BY TrustIsSound DEF RecoveryInv
<1>5. BackupsAreOwn
  BY NoBackupIsOwn DEF RecoveryInv, BackupInv
<1> QED
  BY <1>1, <1>2, <1>3, <1>4, <1>5 DEF RecoveredWhole

\* With one replacement, and any number of SREs, add-ons, batches, seconds and faults: a
\* move that says it is complete is, a re-import tears nothing down and leaves none of the
\* works it announced, names are released and trust is moved without harm to anyone else's,
\* and each SRE is told of a backup that is its own.
THEOREM RecoveryIsWhole == ASSUME OneReplacement PROVE HcpSpec => []RecoveredWhole
<1>1. HcpInit => RecoveryInv
  BY RecoveryInitInv
<1>2. RecoveryInv /\ [HcpNext]_hcpVars => RecoveryInv'
  BY RecoveryStepInv
<1> QED
  BY <1>1, <1>2, RecoveryInvWhole, PTL DEF HcpSpec
-----------------------------------------------------------------------------
(***************************************************************************)
(* UpgradePolicies.  What the customer is told is told after the run has   *)
(* left the cluster, and others may take the same cluster meanwhile; it    *)
(* stays true because nobody takes a channel back or an upgrade off the    *)
(* schedule.  What a run owes the cluster is known at each of its steps by *)
(* what it has deleted, made again and printed.                            *)
(***************************************************************************)
PolicyTypeOK ==
    /\ channel \in [Hosted -> {"stable", "eus"}] /\ scheduled \in [Hosted -> BOOLEAN]
    /\ upc = [u \in Upgrader |-> upc[u]] /\ forced = [u \in Upgrader |-> forced[u]]
    /\ clustersLeft \in [Upgrader -> SUBSET Hosted] /\ cluster = [u \in Upgrader |-> cluster[u]]
    /\ listed = [u \in Upgrader |-> listed[u]]
    /\ removed = [u \in Upgrader |-> removed[u]] /\ again = [u \in Upgrader |-> again[u]]
    /\ shown = [u \in Upgrader |-> shown[u]] /\ verified = [u \in Upgrader |-> verified[u]]
    /\ customerTold = [u \in Upgrader |-> customerTold[u]]

StageInv(u) ==
    /\ upc[u] \notin {"idle", "next"} => customerTold[u] = "nothing"
    /\ upc[u] \notin {"idle", "next"} \/ customerTold[u] # "nothing" => Now(u) \in Hosted
    /\ upc[u] = "list" => removed[u] = {}
    /\ upc[u] \in {"verify", "restore"} => ~forced[u]
    /\ upc[u] = "verify" => DOMAIN listed[u] = removed[u]
    /\ upc[u] = "restore" => verified[u] /\ channel[Now(u)] = "eus"
    /\ upc[u] = "done" /\ forced[u] => scheduled[Now(u)]
    /\ upc[u] = "done" /\ ~forced[u] => channel[Now(u)] = "eus" /\ removed[u] \subseteq again[u]

AccountedFor(u) ==
    /\ upc[u] = "failed" /\ ~forced[u] /\ ~verified[u] => Lost(u) = {}
    /\ customerTold[u] = "success" => channel[Now(u)] = "eus" /\ removed[u] \subseteq again[u]
    /\ customerTold[u] = "upgrade scheduled" => scheduled[Now(u)]

PolicyInv == PolicyTypeOK /\ \A u \in Upgrader : StageInv(u) /\ AccountedFor(u)

LEMMA PolicyInvAccounts == PolicyInv => PoliciesAccountedFor
BY DEF PolicyInv, AccountedFor, PoliciesAccountedFor

LEMMA PolicyInitInv == UpgradeInit => PolicyInv
<1> SUFFICES ASSUME UpgradeInit PROVE PolicyInv
  OBVIOUS
<1>1. PolicyTypeOK
  <2>1. forced = [u \in Upgrader |-> forced[u]]
    BY DEF UpgradeInit
  <2> QED
    BY <2>1 DEF UpgradeInit, PolicyTypeOK
<1>2. ASSUME NEW u \in Upgrader PROVE StageInv(u) /\ AccountedFor(u)
  <2>1. upc[u] = "idle" /\ customerTold[u] = "nothing"
    BY DEF UpgradeInit
  <2> QED
    BY <2>1 DEF StageInv, AccountedFor
<1> QED
  BY <1>1, <1>2 DEF PolicyInv

\* What a run has of its own; the rest of the state only grows.
PolicyOwn(v) == <<upc[v], forced[v], cluster[v], listed[v], removed[v], again[v], shown[v],
                  verified[v], customerTold[v]>>

LEMMA PolicyOthers ==
    ASSUME PolicyInv, PolicyTypeOK', NEW u \in Upgrader,
           \A v \in Upgrader : v # u => PolicyOwn(v)' = PolicyOwn(v),
           \A c \in Hosted : channel[c] = "eus" => channel'[c] = "eus",
           \A c \in Hosted : scheduled[c] => scheduled'[c],
           StageInv(u)', AccountedFor(u)'
    PROVE  PolicyInv'
<1>1. ASSUME NEW v \in Upgrader, v # u PROVE StageInv(v)' /\ AccountedFor(v)'
  <2>1. StageInv(v) /\ AccountedFor(v)
    BY DEF PolicyInv
  <2>2. /\ upc'[v] = upc[v] /\ forced'[v] = forced[v] /\ cluster'[v] = cluster[v] /\ listed'[v] = listed[v]
        /\ removed'[v] = removed[v] /\ again'[v] = again[v] /\ shown'[v] = shown[v]
        /\ verified'[v] = verified[v] /\ customerTold'[v] = customerTold[v]
    BY <1>1 DEF PolicyOwn
  <2>3. Now(v)' = Now(v)
    BY <2>2 DEF Now
  <2>4. Lost(v)' = Lost(v)
    BY <2>2 DEF Lost
  <2>5. Now(v) \in Hosted => /\ channel[Now(v)] = "eus" => channel'[Now(v)] = "eus"
                             /\ scheduled[Now(v)] => scheduled'[Now(v)]
    OBVIOUS
  <2>6. StageInv(v)'
    BY <2>1, <2>2, <2>3, <2>5 DEF StageInv
  <2>7. AccountedFor(v)'
    BY <2>1, <2>2, <2>3, <2>4, <2>5 DEF StageInv, AccountedFor
  <2> QED
    BY <2>6, <2>7
<1> QED
  BY <1>1 DEF PolicyInv

\* A step of a run at a cluster that leaves what it is of the cluster, and tells nobody.
LEMMA PolicyRunStep ==
    ASSUME PolicyInv, NEW u \in Upgrader, upc[u] \notin {"idle", "next"},
           NEW to \in {"delete", "verify", "restore", "restoreAfterFailure", "done", "failed"},
           upc' = [upc EXCEPT ![u] = to], UNCHANGED <<forced, clustersLeft, cluster, customerTold>>,
           PolicyTypeOK',
           \A v \in Upgrader : v # u => PolicyOwn(v)' = PolicyOwn(v),
           \A c \in Hosted : channel[c] = "eus" => channel'[c] = "eus",
           \A c \in Hosted : scheduled[c] => scheduled'[c],
           to \in {"verify", "restore"} => ~forced[u],
           to = "verify" => DOMAIN listed'[u] = removed'[u],
           to = "restore" => verified'[u] /\ channel'[Now(u)] = "eus",
           to = "done" /\ forced[u] => scheduled'[Now(u)],
           to = "done" /\ ~forced[u] => channel'[Now(u)] = "eus" /\ removed'[u] \subseteq again'[u],
           to = "failed" /\ ~forced[u] /\ ~verified'[u] => removed'[u] \subseteq again'[u] \cup shown'[u]
    PROVE  PolicyInv'
<1>1. StageInv(u) /\ customerTold[u] = "nothing" /\ Now(u) \in Hosted
  BY DEF PolicyInv, StageInv
<1>2. upc'[u] = to
  BY DEF PolicyInv, PolicyTypeOK
<1>3. Now(u)' = Now(u)
  BY DEF Now
<1>4. StageInv(u)'
  BY <1>1, <1>2, <1>3 DEF StageInv
<1>5. AccountedFor(u)'
  BY <1>1, <1>2, <1>3 DEF AccountedFor, Lost
<1> QED
  BY <1>4, <1>5, PolicyOthers

\* The clusters are taken one after the other.
LEMMA TakeClusterInv ==
    ASSUME PolicyInv, NEW u \in Upgrader, GetClusters(u) \/ NextCluster(u) PROVE PolicyInv'
<1>a. PolicyTypeOK /\ StageInv(u) /\ AccountedFor(u)
  BY DEF PolicyInv
<1>1. CASE GetClusters(u)
  <2>1. /\ upc[u] = "idle" /\ upc' = [upc EXCEPT ![u] = "next"]
        /\ UNCHANGED <<ocmState, forced, cluster, policyRun>>
    BY <1>1 DEF GetClusters, UpgradeStep
  <2>2. clustersLeft' \in [Upgrader -> SUBSET Hosted]
    <3>1. PICK named \in SUBSET Hosted \ {{}} :
            clustersLeft' = [clustersLeft EXCEPT ![u] = IF forced[u] THEN named ELSE {c \in named : channel[c] = "stable"}]
      BY <1>1 DEF GetClusters
    <3> QED
      BY <3>1, <1>a DEF PolicyTypeOK
  <2>3. PolicyTypeOK'
    BY <2>1, <2>2, <1>a DEF PolicyTypeOK, ocmState, policyRun
  <2>4. upc'[u] = "next" /\ \A v \in Upgrader : v # u => PolicyOwn(v)' = PolicyOwn(v)
    BY <2>1, <1>a DEF PolicyOwn, PolicyTypeOK, policyRun
  <2>5. Now(u)' = Now(u)
    BY <2>1 DEF Now
  <2>6. StageInv(u)' /\ AccountedFor(u)'
    BY <2>1, <2>4, <2>5, <1>a DEF StageInv, AccountedFor, ocmState, policyRun
  <2> QED
    BY <2>1, <2>3, <2>4, <2>6, PolicyOthers DEF ocmState
<1>2. CASE NextCluster(u)
  <2>1. PICK c \in clustersLeft[u] :
          /\ cluster' = [cluster EXCEPT ![u] = {c}] /\ clustersLeft' = [clustersLeft EXCEPT ![u] = @ \ {c}]
    BY <1>2 DEF NextCluster
  <2>2. /\ upc' = [upc EXCEPT ![u] = "list"]
        /\ listed' = [listed EXCEPT ![u] = <<>>] /\ removed' = [removed EXCEPT ![u] = {}]
        /\ again' = [again EXCEPT ![u] = {}] /\ shown' = [shown EXCEPT ![u] = {}]
        /\ verified' = [verified EXCEPT ![u] = FALSE]
        /\ customerTold' = [customerTold EXCEPT ![u] = "nothing"]
        /\ UNCHANGED <<channel, scheduled, forced>>
    BY <1>2 DEF NextCluster, UpgradeStep, ocmState
  <2>3. c \in Hosted /\ clustersLeft[u] \in SUBSET Hosted
    BY <2>1, <1>a DEF PolicyTypeOK
  <2>4. PolicyTypeOK'
    BY <2>1, <2>2, <2>3, <1>a DEF PolicyTypeOK
  <2>5. /\ upc'[u] = "list" /\ cluster'[u] = {c} /\ removed'[u] = {} /\ customerTold'[u] = "nothing"
        /\ \A v \in Upgrader : v # u => PolicyOwn(v)' = PolicyOwn(v)
    BY <2>1, <2>2, <1>a DEF PolicyOwn, PolicyTypeOK
  <2>6. Now(u)' \in Hosted
    BY <2>3, <2>5 DEF Now
  <2>7. StageInv(u)' /\ AccountedFor(u)'
    BY <2>5, <2>6 DEF StageInv, AccountedFor
  <2> QED
    BY <2>2, <2>4, <2>5, <2>7, PolicyOthers
<1> QED
  BY <1>1, <1>2

\* The policies are listed and deleted, and the upgrade scheduled or the channel changed.
LEMMA DeletePoliciesInv ==
    ASSUME PolicyInv, NEW u \in Upgrader,
           ListPolicies(u) \/ DeletePolicy(u) \/ DeletionFails(u) \/ ScheduleUpgrade(u) \/ ChangeChannel(u)
    PROVE  PolicyInv'
<1>a. PolicyTypeOK /\ StageInv(u)
  BY DEF PolicyInv
<1>b. UNCHANGED <<forced, clustersLeft, cluster, customerTold, again, shown, verified>>
  BY DEF ListPolicies, DeletePolicy, DeletionFails, ScheduleUpgrade, ChangeChannel, policyRun
<1>c. upc[u] \notin {"idle", "next"} => Now(u) \in Hosted
  BY <1>a DEF StageInv
<1>1. CASE ListPolicies(u)
  <2>1. /\ upc[u] = "list" /\ UNCHANGED <<channel, scheduled, removed>>
        /\ UNCHANGED listed \/ \E found : listed' = [listed EXCEPT ![u] = found]
    BY <1>1 DEF ListPolicies, ocmState
  <2>2. PICK to \in {"failed", "delete"} : upc' = [upc EXCEPT ![u] = to]
    BY <1>1 DEF ListPolicies, UpgradeStep
  <2>3. PolicyTypeOK' /\ \A v \in Upgrader : v # u => PolicyOwn(v)' = PolicyOwn(v)
    BY <2>1, <2>2, <1>a, <1>b DEF PolicyTypeOK, PolicyOwn
  <2>4. removed'[u] = {}
    BY <2>1, <1>a DEF StageInv
  <2> QED
    BY <2>1, <2>2, <2>3, <2>4, <1>b, PolicyRunStep
<1>2. CASE DeletePolicy(u) \/ DeletionFails(u)
  <2>1. /\ upc[u] = "delete" /\ UNCHANGED <<channel, scheduled, listed>>
        /\ \/ /\ \E p : removed' = [removed EXCEPT ![u] = @ \cup {p}]
              /\ upc' = [upc EXCEPT ![u] = "delete"]
           \/ /\ UNCHANGED removed
              /\ upc' = [upc EXCEPT ![u] = IF forced[u] \/ removed[u] = {} THEN "failed" ELSE "restoreAfterFailure"]
    BY <1>2 DEF DeletePolicy, DeletionFails, UpgradeStep, ocmState, policyRun
  <2>2. PolicyTypeOK' /\ \A v \in Upgrader : v # u => PolicyOwn(v)' = PolicyOwn(v)
    BY <2>1, <1>a, <1>b DEF PolicyTypeOK, PolicyOwn
  <2>3. PICK to \in {"delete", "failed", "restoreAfterFailure"} :
          upc' = [upc EXCEPT ![u] = to]
          /\ (to = "failed" => (forced[u] \/ removed[u] = {}) /\ UNCHANGED removed)
    BY <2>1
  <2>4. to = "failed" /\ ~forced[u] => removed'[u] = {}
    BY <2>3
  <2> QED
    BY <2>1, <2>2, <2>3, <2>4, <1>b, PolicyRunStep
<1>3. CASE ScheduleUpgrade(u)
  <2>1. /\ upc[u] = "delete" /\ forced[u] /\ UNCHANGED <<channel, listed, removed>>
        /\ \/ upc' = [upc EXCEPT ![u] = "done"] /\ scheduled' = [scheduled EXCEPT ![Now(u)] = TRUE]
           \/ upc' = [upc EXCEPT ![u] = "failed"] /\ UNCHANGED scheduled
    BY <1>3 DEF ScheduleUpgrade, UpgradeStep, policyRun
  <2>2. Now(u) \in Hosted
    BY <2>1, <1>c
  <2>3. PICK to \in {"done", "failed"} :
          upc' = [upc EXCEPT ![u] = to]
          /\ (to = "done" => scheduled' = [scheduled EXCEPT ![Now(u)] = TRUE])
          /\ (scheduled' = [scheduled EXCEPT ![Now(u)] = TRUE] \/ UNCHANGED scheduled)
    BY <2>1
  <2>4. /\ scheduled' \in [Hosted -> BOOLEAN] /\ \A c \in Hosted : scheduled[c] => scheduled'[c]
        /\ to = "done" => scheduled'[Now(u)]
    BY <2>2, <2>3, <1>a DEF PolicyTypeOK
  <2>5. PolicyTypeOK' /\ \A v \in Upgrader : v # u => PolicyOwn(v)' = PolicyOwn(v)
    BY <2>1, <2>3, <2>4, <1>a, <1>b DEF PolicyTypeOK, PolicyOwn
  <2> QED
    BY <2>1, <2>3, <2>4, <2>5, <1>b, PolicyRunStep
<1>4. CASE ChangeChannel(u)
  <2>1. /\ upc[u] = "delete" /\ ~forced[u] /\ DOMAIN listed[u] = removed[u]
        /\ UNCHANGED <<scheduled, listed, removed>>
        /\ \/ upc' = [upc EXCEPT ![u] = "verify"] /\ channel' = [channel EXCEPT ![Now(u)] = "eus"]
           \/ upc' = [upc EXCEPT ![u] = NotChanged(u)] /\ UNCHANGED channel
    BY <1>4 DEF ChangeChannel, UpgradeStep, policyRun
  <2>2. Now(u) \in Hosted
    BY <2>1, <1>c
  <2>3. PICK to \in {"verify", "failed", "restoreAfterFailure"} :
          upc' = [upc EXCEPT ![u] = to] /\ (to = "failed" => removed[u] = {})
    BY <2>1 DEF NotChanged
  <2>4. channel' \in [Hosted -> {"stable", "eus"}]
        /\ \A c \in Hosted : channel[c] = "eus" => channel'[c] = "eus"
    BY <2>1, <2>2, <1>a DEF PolicyTypeOK
  <2>5. PolicyTypeOK' /\ \A v \in Upgrader : v # u => PolicyOwn(v)' = PolicyOwn(v)
    BY <2>1, <2>3, <2>4, <1>a, <1>b DEF PolicyTypeOK, PolicyOwn
  <2> QED
    BY <2>1, <2>3, <2>4, <2>5, <1>b, PolicyRunStep
<1> QED
  BY <1>1, <1>2, <1>3, <1>4

\* The channel is looked at, and the policies are made again or printed.
LEMMA RestorePoliciesInv ==
    ASSUME PolicyInv, NEW u \in Upgrader,
           VerifyChannel(u) \/ RestorePolicy(u) \/ PoliciesNotRestored(u) \/ Restored(u)
    PROVE  PolicyInv'
<1>a. PolicyTypeOK /\ StageInv(u)
  BY DEF PolicyInv
<1>b. UNCHANGED <<forced, clustersLeft, cluster, customerTold, listed, removed, channel, scheduled>>
  BY DEF VerifyChannel, RestorePolicy, PoliciesNotRestored, Restored, policyRun, ocmState
<1>1. CASE VerifyChannel(u)
  <2>1. /\ upc[u] = "verify" /\ UNCHANGED <<again, shown>>
        /\ \/ /\ channel[Now(u)] = "eus" /\ upc' = [upc EXCEPT ![u] = Changed(u)]
              /\ verified' = [verified EXCEPT ![u] = TRUE]
           \/ upc' = [upc EXCEPT ![u] = NotChanged(u)] /\ UNCHANGED verified
    BY <1>1 DEF VerifyChannel, UpgradeStep
  <2>2. ~forced[u] /\ DOMAIN listed[u] = removed[u]
    BY <2>1, <1>a DEF StageInv
  <2>3. PICK to \in {"done", "restore", "failed", "restoreAfterFailure"} :
          /\ upc' = [upc EXCEPT ![u] = to]
          /\ to \in {"done", "failed"} => removed[u] = {}
          /\ to \in {"done", "restore"} => channel[Now(u)] = "eus" /\ verified' = [verified EXCEPT ![u] = TRUE]
    BY <2>1, <2>2 DEF Changed, NotChanged
  <2>4. PolicyTypeOK' /\ \A v \in Upgrader : v # u => PolicyOwn(v)' = PolicyOwn(v)
    BY <2>1, <2>3, <1>a, <1>b DEF PolicyTypeOK, PolicyOwn
  <2>5. to = "restore" => verified'[u]
    BY <2>3, <1>a DEF PolicyTypeOK
  <2> QED
    BY <2>1, <2>2, <2>3, <2>4, <2>5, <1>b, PolicyRunStep
<1>2. CASE RestorePolicy(u)
  <2>1. /\ upc[u] \in {"restore", "restoreAfterFailure"} /\ UNCHANGED <<shown, verified>>
        /\ upc' = [upc EXCEPT ![u] = upc[u]]
        /\ \E p : again' = [again EXCEPT ![u] = @ \cup {p}]
    BY <1>2 DEF RestorePolicy, UpgradeStep
  <2>2. PolicyTypeOK' /\ \A v \in Upgrader : v # u => PolicyOwn(v)' = PolicyOwn(v)
    BY <2>1, <1>a, <1>b DEF PolicyTypeOK, PolicyOwn
  <2>3. upc[u] = "restore" => ~forced[u] /\ verified'[u] /\ channel'[Now(u)] = "eus"
    BY <2>1, <1>a, <1>b DEF StageInv
  <2> QED
    BY <2>1, <2>2, <2>3, <1>b, PolicyRunStep
<1>3. CASE PoliciesNotRestored(u)
  <2>1. /\ upc[u] \in {"restore", "restoreAfterFailure"} /\ UNCHANGED verified
        /\ upc' = [upc EXCEPT ![u] = "failed"]
        /\ again' = [again EXCEPT ![u] = {}]
        /\ shown' = [shown EXCEPT ![u] = IF upc[u] = "restoreAfterFailure" THEN removed[u] ELSE {}]
    BY <1>3 DEF PoliciesNotRestored, UpgradeStep
  <2>2. PolicyTypeOK' /\ \A v \in Upgrader : v # u => PolicyOwn(v)' = PolicyOwn(v)
    BY <2>1, <1>a, <1>b DEF PolicyTypeOK, PolicyOwn
  <2>3. shown'[u] = IF upc[u] = "restoreAfterFailure" THEN removed[u] ELSE {}
    BY <2>1, <1>a DEF PolicyTypeOK
  <2>4. upc[u] = "restore" => verified'[u]
    BY <2>1, <1>a DEF StageInv
  <2>5. ~verified'[u] => removed'[u] \subseteq again'[u] \cup shown'[u]
    BY <2>1, <2>3, <2>4, <1>b
  <2> QED
    BY <2>1, <2>2, <2>5, <1>b, PolicyRunStep
<1>4. CASE Restored(u)
  <2>1. /\ removed[u] \subseteq again[u] /\ UNCHANGED <<again, shown, verified>>
        /\ \/ upc[u] = "restore" /\ upc' = [upc EXCEPT ![u] = "done"]
           \/ upc[u] = "restoreAfterFailure" /\ upc' = [upc EXCEPT ![u] = "failed"]
    BY <1>4 DEF Restored, ToRestore, UpgradeStep, policyRun
  <2>2. PolicyTypeOK' /\ \A v \in Upgrader : v # u => PolicyOwn(v)' = PolicyOwn(v)
    BY <2>1, <1>a, <1>b DEF PolicyTypeOK, PolicyOwn
  <2>3. upc[u] = "restore" => ~forced[u] /\ channel'[Now(u)] = "eus"
    BY <1>a, <1>b DEF StageInv
  <2> QED
    BY <2>1, <2>2, <2>3, <1>b, PolicyRunStep
<1> QED
  BY <1>1, <1>2, <1>3, <1>4

\* The customer is told what the run ended with.
LEMMA TellCustomerInv == ASSUME PolicyInv, NEW u \in Upgrader, TellCustomer(u) PROVE PolicyInv'
<1>a. PolicyTypeOK /\ StageInv(u)
  BY DEF PolicyInv
<1>1. /\ upc[u] \in {"done", "failed"} /\ upc' = [upc EXCEPT ![u] = "next"]
      /\ UNCHANGED <<channel, scheduled, forced, clustersLeft, cluster, listed, removed, again, shown, verified>>
  BY DEF TellCustomer, UpgradeStep, ocmState
<1>2. PICK told \in {"nothing", "upgrade scheduled", "success", "attempted"} :
        /\ customerTold' = [customerTold EXCEPT ![u] = told]
        /\ told = "success" => upc[u] = "done" /\ ~forced[u]
        /\ told = "upgrade scheduled" => upc[u] = "done" /\ forced[u]
  BY <1>1 DEF TellCustomer
<1>3. PolicyTypeOK' /\ \A v \in Upgrader : v # u => PolicyOwn(v)' = PolicyOwn(v)
  BY <1>1, <1>2, <1>a DEF PolicyTypeOK, PolicyOwn
<1>4. upc'[u] = "next" /\ customerTold'[u] = told
  BY <1>1, <1>2, <1>a DEF PolicyTypeOK
<1>5. Now(u)' = Now(u) /\ Now(u) \in Hosted
  BY <1>1, <1>a DEF Now, StageInv
<1>6. StageInv(u)'
  BY <1>4, <1>5 DEF StageInv
<1>7. AccountedFor(u)'
  BY <1>1, <1>2, <1>4, <1>5, <1>a DEF StageInv, AccountedFor
<1> QED
  BY <1>1, <1>3, <1>6, <1>7, PolicyOthers

LEMMA PolicyStepInv == PolicyInv /\ [UpgradeNext]_upgradeVars => PolicyInv'
<1> SUFFICES ASSUME PolicyInv, [UpgradeNext]_upgradeVars PROVE PolicyInv'
  OBVIOUS
<1>1. CASE UNCHANGED upgradeVars
  <2>1. UNCHANGED <<channel, scheduled, upc, forced, clustersLeft, cluster, listed, removed, again, shown,
                    verified, customerTold>>
    BY <1>1 DEF upgradeVars, ocmState, policyRun
  <2>2. \A u \in Upgrader : Now(u)' = Now(u) /\ Lost(u)' = Lost(u)
    BY <2>1 DEF Now, Lost
  <2>3. PolicyTypeOK'
    BY <2>1 DEF PolicyInv, PolicyTypeOK
  <2>4. \A u \in Upgrader : StageInv(u)'
    BY <2>1, <2>2 DEF PolicyInv, StageInv
  <2>5. \A u \in Upgrader : AccountedFor(u)'
    BY <2>1, <2>2 DEF PolicyInv, AccountedFor
  <2> QED
    BY <2>3, <2>4, <2>5 DEF PolicyInv
<1> QED
  BY <1>1, TakeClusterInv, DeletePoliciesInv, RestorePoliciesInv, TellCustomerInv DEF UpgradeNext, UpgradeRun

\* Whatever part of the work is done, the clusters change as UpgradePolicies says.
LEMMA HcpUpgradeStep == [HcpNext]_hcpVars => [UpgradeNext]_upgradeVars
BY DEF HcpNext, Recovery, Access, Upgrade, Rest, hcpVars, restoreHcpVars

\* Any number of SREs, clusters, policies and failures: a transition that does not come
\* off leaves every recurring policy it deleted in force or printed, and a customer is
\* told of success, or of an upgrade, only when it is so.
THEOREM PoliciesKept == HcpSpec => []PoliciesAccountedFor
<1>1. HcpInit => PolicyInv
  BY PolicyInitInv DEF HcpInit
<1>2. PolicyInv /\ [HcpNext]_hcpVars => PolicyInv'
  BY PolicyStepInv, HcpUpgradeStep
<1> QED
  BY <1>1, <1>2, PolicyInvAccounts, PTL DEF HcpSpec
===============================================================================
