-------------------------- MODULE MCClusterConsole --------------------------
(* Two ports, a channel of two events, and the two states that decide what is  *)
(* drawn: a node is announced in one and created in the other.                *)
EXTENDS ClusterConsole, TLC

CONSTANTS p1, p2

MCPorts == {p1, p2}
MCStates == {"Follower", "Leader"}
PortSymmetry == Permutations(MCPorts)
=============================================================================
