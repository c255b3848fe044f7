------------------------- MODULE MCPullSecretCommands -------------------------
EXTENDS PullSecretCommands

CONSTANTS u1, u2, t1

\* u1's owner has an auth that u2's token, fetched earlier, has not.
MCCovers == [p \in Run |-> IF p = u1 THEN {"cloud", "quay"} ELSE {"cloud"}]

\* A comparison has ended, or all runs that write, or the clock.
Rest ==
    /\ command = "write" => now = MaxTime \/ \A p \in Run : pc[p] \in Ended
    /\ UNCHANGED <<command, writeVars, checkVars>>

MCSpec == CommandsInit /\ [][Writing \/ Comparing \/ Rest]_<<command, writeVars, checkVars>>
=============================================================================
