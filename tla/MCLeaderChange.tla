--------------------------- MODULE MCLeaderChange ---------------------------
(* Instances of LeaderChange: three nodes, one change of leader.             *)
EXTENDS LeaderChange

CONSTANTS n0, n1, n2, s1, s2

Nodes == {n0, n1, n2}
One == {s1}
Two == {s1, s2}
OwnTx == [s \in Submission |-> s]
JoinOrder == [n \in Node |-> CASE n = n0 -> 0 [] n = n1 -> 1 [] n = n2 -> 2]
=============================================================================
