-------------------------- MODULE MCLeaderElection --------------------------
(* LeaderElection on nodes that joined in the order n0, n1, n2, n3, n4.       *)
EXTENDS LeaderElection, TLC

CONSTANTS n0, n1, n2, n3, n4

Three == {n0, n1, n2}
Four == Three \cup {n3}
Five == Four \cup {n4}
Joined == <<n0, n1, n2, n3, n4>>
JoinOrder == [n \in Node |-> CHOOSE i \in 0..4 : Joined[i + 1] = n]
Nobody == {}
FirstTwo == {n0, n1}
=============================================================================
