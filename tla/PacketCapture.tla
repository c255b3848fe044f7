---------------------------- MODULE PacketCapture ----------------------------
(***************************************************************************)
(* `osdctl network packet-capture`: a DaemonSet, or with --single-pod a    *)
(* Pod, captures on the nodes; the files are copied from every pod with    *)
(* the label of its name and the object is deleted.  An error ends the     *)
(* process where it is (log.Fatalf).  SREs may capture side by side.       *)
(***************************************************************************)
EXTENDS Integers, FiniteSets

CONSTANTS
    Capturer,
    CaptureNode,
    MaxCaptureFaults     \* bound: failed calls, time-outs and kills

CaptureKind == {"DaemonSet", "Pod"}

VARIABLES
    deployed,     \* of each kind: who made the object of the name, or {}
    capturePods,  \* pods with the label: of what kind, on what node, and their state
    cpc, kind,    \* of each SRE: step and object
    toCopy,       \* pods listed and not yet copied
    copied,       \* nodes whose file the run has
    captureFaults

captureVars == <<deployed, capturePods, cpc, kind, toCopy, copied, captureFaults>>

CaptureInit ==
    /\ deployed = [k \in CaptureKind |-> {}] /\ capturePods = <<>>
    /\ cpc = [c \in Capturer |-> "idle"] /\ kind \in [Capturer -> CaptureKind]
    /\ toCopy = [c \in Capturer |-> {}] /\ copied = [c \in Capturer |-> {}] /\ captureFaults = 0
-----------------------------------------------------------------------------
CaptureStep(c, from, to) == cpc[c] = from /\ cpc' = [cpc EXCEPT ![c] = to]

\* The interface comes from the network type; then whether the object exists.
LookForObject(c) ==
    /\ CaptureStep(c, "idle", IF deployed[kind[c]] = {} THEN "create" ELSE "failed")
    /\ UNCHANGED <<deployed, capturePods, kind, toCopy, copied, captureFaults>>

\* Mutant: an object that exists by now is taken for the run's own.
CreateOrAdopt(c) ==
    /\ CaptureStep(c, "create", "wait")
    /\ deployed' = IF deployed[kind[c]] = {} THEN [deployed EXCEPT ![kind[c]] = {c}] ELSE deployed
    /\ UNCHANGED <<capturePods, kind, toCopy, copied, captureFaults>>

CreateObject(c) ==
    /\ IF deployed[kind[c]] = {}
       THEN CaptureStep(c, "create", "wait") /\ deployed' = [deployed EXCEPT ![kind[c]] = {c}]
       ELSE CaptureStep(c, "create", "failed") /\ UNCHANGED deployed
    /\ UNCHANGED <<capturePods, kind, toCopy, copied, captureFaults>>

\* Scheduled pods are "capturing" (the init container) until they are "ready".
PodsOfKind(k) == {p \in DOMAIN capturePods : p[1] = k}
AwaitReady(c) ==
    /\ PodsOfKind(kind[c]) # {}
    /\ kind[c] = "DaemonSet" => PodsOfKind(kind[c]) = {kind[c]} \X CaptureNode
    /\ \A p \in PodsOfKind(kind[c]) : capturePods[p] = "ready"
    /\ CaptureStep(c, "wait", "list")
    /\ UNCHANGED <<deployed, capturePods, kind, toCopy, copied, captureFaults>>

\* Every pod with the label, those of the other kind included.
ListPodsToCopy(c) ==
    /\ CaptureStep(c, "list", "copy") /\ toCopy' = [toCopy EXCEPT ![c] = DOMAIN capturePods]
    /\ UNCHANGED <<deployed, capturePods, kind, copied, captureFaults>>

\* A pod without container statuses is passed over; another is waited for and its
\* file copied, under the name of its node; one that is gone ends the run.
CopyFile(c) ==
    /\ \E p \in toCopy[c] :
        /\ toCopy' = [toCopy EXCEPT ![c] = @ \ {p}]
        /\ IF p \notin DOMAIN capturePods THEN CaptureStep(c, "copy", "failed") /\ UNCHANGED copied
           ELSE /\ CaptureStep(c, "copy", "copy") /\ capturePods[p] = "ready"
                /\ copied' = [copied EXCEPT ![c] = @ \cup {p[2]}]
    /\ UNCHANGED <<deployed, capturePods, kind, captureFaults>>

CopiesMade(c) ==
    /\ toCopy[c] = {} /\ CaptureStep(c, "copy", "delete")
    /\ UNCHANGED <<deployed, capturePods, kind, toCopy, copied, captureFaults>>

DeleteObject(c) ==
    /\ IF deployed[kind[c]] = {} THEN CaptureStep(c, "delete", "failed")
       ELSE CaptureStep(c, "delete", "done")
    /\ deployed' = [deployed EXCEPT ![kind[c]] = {}]
    /\ capturePods' = [p \in DOMAIN capturePods \ PodsOfKind(kind[c]) |-> capturePods[p]]
    /\ UNCHANGED <<kind, toCopy, copied, captureFaults>>

\* A call fails, a wait times out, or a kill: the object stays.
CaptureFails(c) ==
    /\ cpc[c] \notin {"idle", "done", "failed"} /\ cpc' = [cpc EXCEPT ![c] = "failed"]
    /\ captureFaults < MaxCaptureFaults /\ captureFaults' = captureFaults + 1
    /\ UNCHANGED <<deployed, capturePods, kind, toCopy, copied>>

\* What a failed run left is deleted by hand, and the capture run again.
CaptureAgain(c) ==
    /\ CaptureStep(c, "failed", "idle")
    /\ deployed' = [k \in CaptureKind |-> deployed[k] \ {c}]
    /\ capturePods' = [p \in {q \in DOMAIN capturePods : c \notin deployed[q[1]]} |-> capturePods[p]]
    /\ toCopy' = [toCopy EXCEPT ![c] = {}] /\ copied' = [copied EXCEPT ![c] = {}]
    /\ UNCHANGED <<kind, captureFaults>>

\* The scheduler and the kubelets.
PodOn(n) ==
    /\ \E k \in CaptureKind :
        /\ deployed[k] # {} /\ <<k, n>> \notin DOMAIN capturePods /\ (k = "Pod" => PodsOfKind(k) = {})
        /\ capturePods' = [p \in DOMAIN capturePods \cup {<<k, n>>} |->
                            IF p = <<k, n>> THEN "capturing" ELSE capturePods[p]]
    /\ UNCHANGED <<deployed, cpc, kind, toCopy, copied, captureFaults>>

CaptureEnds ==
    /\ \E p \in DOMAIN capturePods : capturePods[p] = "capturing" /\ capturePods' = [capturePods EXCEPT ![p] = "ready"]
    /\ UNCHANGED <<deployed, cpc, kind, toCopy, copied, captureFaults>>

CaptureNext ==
    \/ \E c \in Capturer :
        \/ LookForObject(c) \/ CreateObject(c) \/ AwaitReady(c) \/ ListPodsToCopy(c) \/ CopyFile(c)
        \/ CopiesMade(c) \/ DeleteObject(c) \/ CaptureFails(c) \/ CaptureAgain(c)
    \/ (\E n \in CaptureNode : PodOn(n)) \/ CaptureEnds

CaptureSpec == CaptureInit /\ [][CaptureNext]_captureVars
-----------------------------------------------------------------------------
\* A run that ends well has deleted the object it made itself, after it had the
\* file of every node: a capture is not cut short by another's end.
CapturedThenDeleted ==
    [][\A c \in Capturer : cpc[c] = "delete" /\ cpc'[c] = "done" =>
            /\ deployed[kind[c]] = {c}
            /\ kind[c] = "DaemonSet" => copied[c] = CaptureNode]_captureVars
=============================================================================
