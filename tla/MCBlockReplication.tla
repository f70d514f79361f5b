------------------------- MODULE MCBlockReplication -------------------------
(* BlockReplication on three nodes: the leader n1 and two interchangeable      *)
(* followers.                                                                 *)
EXTENDS BlockReplication, TLC

CONSTANTS n1, n2, n3, s1, s2

Nodes == {n1, n2, n3}
Followers == {n2, n3}

\* A retry: both submissions carry the same transaction.
Pair == {s1, s2}
RetryTxOf == (s1 :> "a") @@ (s2 :> "a")

PairSymmetry == Permutations(Followers) \cup Permutations(Pair)
=============================================================================
