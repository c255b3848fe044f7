-------------------------- MODULE SnapshotMigration --------------------------
(***************************************************************************)
(* What `osdctl hcp restore migrate-storage` promises of the copies it     *)
(* makes, seen through its journal only: every snapshot goes from the      *)
(* source account through an intermediary copy to a destination copy; no   *)
(* intermediary is given up before every entry has a destination; and the  *)
(* temporary key lives exactly as long as there is something to copy with  *)
(* it.  Runs, crashes, goroutines and AWS are left out: SnapshotCopy is    *)
(* shown to implement this module.                                         *)
(***************************************************************************)
EXTENDS Naturals

CONSTANT Entry   \* the VolumeSnapshotContents of the hosted control plane

VARIABLES stage, \* how far each entry is
          key    \* the temporary KMS key

Stages == {"source", "intermediate", "destination", "cleaned"}

Init == /\ stage = [e \in Entry |-> "source"]
        /\ key = "none"

MakeKey == key = "none" /\ key' = "live" /\ UNCHANGED stage

\* Several workers' results may be recorded by one write of the journal.
Copy(S) ==
    /\ key = "live"
    /\ \A e \in S : stage[e] \in {"source", "intermediate"}
    /\ stage' = [e \in Entry |->
                    IF e \notin S THEN stage[e]
                    ELSE IF stage[e] = "source" THEN "intermediate"
                    ELSE "destination"]
    /\ UNCHANGED key

\* Giving up intermediaries starts when the last entry has its destination.
Clean(e) ==
    /\ key = "live"
    /\ \A other \in Entry : stage[other] \in {"destination", "cleaned"}
    /\ stage[e] = "destination"
    /\ stage' = [stage EXCEPT ![e] = "cleaned"]
    /\ UNCHANGED key

Retire ==
    /\ key = "live"
    /\ \A e \in Entry : stage[e] = "cleaned"
    /\ key' = "retired"
    /\ UNCHANGED stage

Next == \/ MakeKey \/ Retire
        \/ \E S \in SUBSET Entry : Copy(S)
        \/ \E e \in Entry : Clean(e)

Spec == Init /\ [][Next]_<<stage, key>>
=============================================================================
