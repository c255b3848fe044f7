------------------------------ MODULE NodeCommands ------------------------------
(***************************************************************************)
(* The commands that change the nodes of a cluster: infra nodes            *)
(* (MachinePoolDance), masters, workers and request-serving nodes          *)
(* (NodeSettings), etcd's members (EtcdReplace).  They work on separate    *)
(* objects; the SREs of a behaviour all give commands of one of the three. *)
(***************************************************************************)
EXTENDS MachinePoolDance, NodeSettings, EtcdReplace

VARIABLE command     \* the commands given

danceVars == vars
nodeCommandVars == <<command, danceVars, nodeVars, etcdVars>>

NodeCommandsInit == command \in {"dance", "settings", "etcd"} /\ Init /\ NodeInit /\ EtcdInit

Dance == command = "dance" /\ Next /\ UNCHANGED <<command, nodeVars, etcdVars>>
Settings == command = "settings" /\ NodeNext /\ UNCHANGED <<command, danceVars, etcdVars>>
Etcd == command = "etcd" /\ EtcdNext /\ UNCHANGED <<command, danceVars, nodeVars>>

\* Once the dances have ended nothing needs to happen.
Rest == (command # "dance" \/ \A r \in Runs : pc[r] \in Ended) /\ UNCHANGED nodeCommandVars

\* That of MachinePoolDance; nothing is assumed of the other commands.
DanceFairness ==
    /\ WF_nodeCommandVars(command = "dance" /\ Cluster /\ UNCHANGED <<command, nodeVars, etcdVars>>)
    /\ \A r \in Runs :
        WF_nodeCommandVars(command = "dance" /\ Step(r) /\ UNCHANGED <<command, nodeVars, etcdVars>>)

NodeCommandsSpec ==
    NodeCommandsInit /\ [][Dance \/ Settings \/ Etcd \/ Rest]_nodeCommandVars /\ DanceFairness
-----------------------------------------------------------------------------
\* While a dance runs, and whenever it is killed or times out, the nodes that carry the
\* load are enough, and when it reports success no old node is left (MachinePoolDance).
DanceIsSafe == TypeOK /\ EnoughInfra /\ DoneMeansReplaced

\* A dance completes unless something fails or a poll times out (MachinePoolDance).
DanceCompletes == command = "dance" => RunCompletes
=============================================================================
