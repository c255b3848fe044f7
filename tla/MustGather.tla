------------------------------ MODULE MustGather ------------------------------
(***************************************************************************)
(* `osdctl hcp must-gather`: a goroutine per target collects from the      *)
(* management or service cluster, which two targets share and which is     *)
(* logged in to once; that of a hosted cluster first exports logs with a   *)
(* goroutine per namespace.  Then what was collected is archived, unless   *)
(* all failed.                                                             *)
(***************************************************************************)
EXTENDS Naturals, FiniteSets

CONSTANTS LogNamespace     \* that logs are exported of: eight of each hosted control plane

GatherTarget == {"hcp", "mc", "sc", "sc_acm"}
ASSUME GatherAssumption == LogNamespace # {} /\ LogNamespace \cap GatherTarget = {}

Infra == {"management", "service"}

VARIABLES
    mgPc,                \* of Run
    hosted, targets,     \* what --cluster-id is; --gather
    gatherPc, result,    \* of each target: its goroutine's step, and its slot of results
    once, onceOwner,     \* of each infrastructure cluster: the sync.Once, and who is in it
    elevations,          \* how often it was logged in to
    tokenInits,          \* token providers made
    exported,            \* of each namespace: its worker
    collected,           \* artifacts that are complete
    interceptsSignals,   \* signal.Notify was called, after which SIGINT no longer ends the process
    archived             \* what is in the archive

mgWorld == <<hosted, targets>>
mustGatherVars == <<mgPc, mgWorld, gatherPc, result, once, onceOwner, elevations, tokenInits, exported, collected,
                    interceptsSignals, archived>>

MustGatherInit ==
    /\ mgPc = "start" /\ hosted \in BOOLEAN /\ targets \in SUBSET GatherTarget \ {{}}
    /\ gatherPc = [t \in GatherTarget |-> "none"] /\ result = [t \in GatherTarget |-> "none"]
    /\ once = [c \in Infra |-> "new"] /\ onceOwner = [c \in Infra |-> "none"] /\ elevations = [c \in Infra |-> 0]
    /\ tokenInits = 0 /\ exported = [n \in LogNamespace |-> "none"] /\ collected = {}
    /\ interceptsSignals = FALSE /\ archived = {}
-----------------------------------------------------------------------------
\* Of a hosted cluster only can "hcp" be gathered; OCM may be out of reach.
ValidateTargets ==
    /\ mgPc = "start"
    /\ \/ /\ ("hcp" \in targets => hosted) /\ mgPc' = "gather"
          /\ gatherPc' = [t \in GatherTarget |-> IF t = "hcp" THEN "namespaces" ELSE "resolve"]
       \/ mgPc' = "failed" /\ UNCHANGED gatherPc
    /\ UNCHANGED <<mgWorld, result, once, onceOwner, elevations, tokenInits, exported, collected,
                   interceptsSignals, archived>>

GatherStep(t, from, to) ==
    /\ mgPc = "gather" /\ t \in targets /\ gatherPc[t] = from /\ gatherPc' = [gatherPc EXCEPT ![t] = to]

LogsOK == \A n \in LogNamespace : exported[n] = "ok"
InfraOf(t) == IF t \in {"sc", "sc_acm"} THEN "service" ELSE "management"
ResultIs(t, r) == result' = [result EXCEPT ![t] = r]

\* Without the namespaces both parts fail.  The token provider is made before there are
\* workers to share it.
ResolveNamespaces ==
    /\ \/ /\ GatherStep("hcp", "namespaces", "logs") /\ UNCHANGED result
          /\ \/ tokenInits' = tokenInits + 1 /\ exported' = [n \in LogNamespace |-> "running"]
             \/ UNCHANGED tokenInits /\ exported' = [n \in LogNamespace |-> "error"]
       \/ GatherStep("hcp", "namespaces", "done") /\ ResultIs("hcp", "FAILED") /\ UNCHANGED <<tokenInits, exported>>
    /\ UNCHANGED <<mgPc, mgWorld, once, onceOwner, elevations, collected, interceptsSignals, archived>>

\* A line that cannot be written is only a warning: the file may lack it.
ExportNamespace(n) ==
    /\ mgPc = "gather" /\ exported[n] = "running"
    /\ \/ exported' = [exported EXCEPT ![n] = "ok"] /\ collected' = collected \cup {n}
       \/ exported' = [exported EXCEPT ![n] = "error"] /\ UNCHANGED collected
    /\ UNCHANGED <<mgPc, mgWorld, gatherPc, result, once, onceOwner, elevations, tokenInits,
                   interceptsSignals, archived>>

AwaitExports ==
    /\ GatherStep("hcp", "logs", "resolve") /\ \A n \in LogNamespace : exported[n] # "running"
    /\ UNCHANGED <<mgPc, mgWorld, result, once, onceOwner, elevations, tokenInits, exported,
                   collected, interceptsSignals, archived>>

\* What a target without its cluster, or whose command failed, comes to.
WithoutDump(t) == IF t = "hcp" /\ LogsOK THEN "PARTIAL" ELSE "FAILED"

\* Mutant: each target that finds no configuration yet logs in.
EnterUnguarded(t) ==
    /\ GatherStep(t, "resolve", "login") /\ once[InfraOf(t)] \in {"new", "running"}
    /\ once' = [once EXCEPT ![InfraOf(t)] = "running"] /\ onceOwner' = [onceOwner EXCEPT ![InfraOf(t)] = t]
    /\ UNCHANGED <<mgPc, mgWorld, result, elevations, tokenInits, exported, collected, interceptsSignals, archived>>

EnterOnce(t) ==
    /\ GatherStep(t, "resolve", "login") /\ once[InfraOf(t)] = "new"
    /\ once' = [once EXCEPT ![InfraOf(t)] = "running"] /\ onceOwner' = [onceOwner EXCEPT ![InfraOf(t)] = t]
    /\ UNCHANGED <<mgPc, mgWorld, result, elevations, tokenInits, exported, collected, interceptsSignals, archived>>

\* A login that failed is not tried again by the other target.
LogIn(t) ==
    /\ GatherStep(t, "login", "resolve") /\ elevations' = [elevations EXCEPT ![InfraOf(t)] = @ + 1]
    /\ \E outcome \in {"ok", "error"} : once' = [once EXCEPT ![InfraOf(t)] = outcome]
    /\ UNCHANGED <<mgPc, mgWorld, result, onceOwner, tokenInits, exported, collected, interceptsSignals, archived>>

AfterOnce(t) ==
    /\ \/ once[InfraOf(t)] = "ok" /\ GatherStep(t, "resolve", "oc") /\ interceptsSignals' = TRUE /\ UNCHANGED result
       \/ /\ once[InfraOf(t)] = "error" /\ GatherStep(t, "resolve", "done") /\ ResultIs(t, WithoutDump(t))
          /\ UNCHANGED interceptsSignals
    /\ UNCHANGED <<mgPc, mgWorld, once, onceOwner, elevations, tokenInits, exported, collected, archived>>

\* `oc adm must-gather`, into a directory of the target's own.
RunMustGather(t) ==
    /\ GatherStep(t, "oc", "done")
    /\ \/ /\ collected' = collected \cup {t}
          /\ ResultIs(t, IF t = "hcp" /\ ~LogsOK THEN "PARTIAL" ELSE "SUCCEEDED")
       \/ ResultIs(t, WithoutDump(t)) /\ UNCHANGED collected
    /\ UNCHANGED <<mgPc, mgWorld, once, onceOwner, elevations, tokenInits, exported, interceptsSignals, archived>>

\* Ctrl-C: before any oc it ends the process; afterwards it only ends those that run,
\* which then fail, and the logs go on.
InterruptGather ==
    /\ mgPc = "gather"
    /\ \/ ~interceptsSignals /\ mgPc' = "killed" /\ UNCHANGED <<gatherPc, result>>
       \/ /\ interceptsSignals /\ UNCHANGED mgPc
          /\ gatherPc' = [t \in GatherTarget |-> IF t \in targets /\ gatherPc[t] = "oc" THEN "done" ELSE gatherPc[t]]
          /\ result' = [t \in GatherTarget |-> IF t \in targets /\ gatherPc[t] = "oc" THEN WithoutDump(t) ELSE result[t]]
    /\ UNCHANGED <<mgWorld, once, onceOwner, elevations, tokenInits, exported, collected,
                   interceptsSignals, archived>>

AllGathered ==
    /\ mgPc = "gather" /\ \A t \in targets : gatherPc[t] = "done"
    /\ mgPc' = IF \A t \in targets : result[t] = "FAILED" THEN "failed" ELSE "archive"
    /\ UNCHANGED <<mgWorld, gatherPc, result, once, onceOwner, elevations, tokenInits, exported,
                   collected, interceptsSignals, archived>>

\* Errors of closing the archive are not looked at.
CreateTarball ==
    /\ mgPc = "archive"
    /\ \/ archived' = collected /\ mgPc' = IF \A t \in targets : result[t] = "SUCCEEDED" THEN "complete" ELSE "partial"
       \/ mgPc' = "failed" /\ UNCHANGED archived
    /\ UNCHANGED <<mgWorld, gatherPc, result, once, onceOwner, elevations, tokenInits, exported,
                   collected, interceptsSignals>>
-----------------------------------------------------------------------------
GatherWork ==
    \/ ValidateTargets \/ ResolveNamespaces \/ AwaitExports \/ AllGathered \/ CreateTarball
    \/ \E n \in LogNamespace : ExportNamespace(n)
    \/ \E t \in GatherTarget : EnterOnce(t) \/ LogIn(t) \/ AfterOnce(t) \/ RunMustGather(t)

MustGatherNext == GatherWork \/ InterruptGather

\* Goroutines and the calls they make go on.
MustGatherSpec == MustGatherInit /\ [][MustGatherNext]_mustGatherVars /\ WF_mustGatherVars(GatherWork)
-----------------------------------------------------------------------------
\* Targets that share a cluster elevate into it once, also if the login fails; what is
\* called complete has every artifact asked for, a partial archive some; and an archive
\* is never made of nothing.
GatherIsTrue ==
    /\ \A c \in Infra : elevations[c] <= 1
    /\ tokenInits <= 1
    /\ mgPc = "complete" => targets \cup (IF "hcp" \in targets THEN LogNamespace ELSE {}) \subseteq archived
    /\ mgPc = "partial" => archived # {} /\ archived \cap GatherTarget \subseteq targets

\* No target waits for another's login for ever.
GatherEnds == <>(mgPc \in {"complete", "partial", "failed", "killed"})
=============================================================================
