----------------------------- MODULE TotalOrder -----------------------------
(***************************************************************************)
(* What the ordering service promises its clients, with no node, message   *)
(* or acknowledgement in sight: accepted submissions wait in a pool, and   *)
(* now and then an admissible batch of them becomes the next block of one  *)
(* chain.  Ordering a transaction also discards every other waiting copy   *)
(* of it.  Nothing else ever leaves the pool, no block is ever changed,    *)
(* and no submission is ordered twice.                                     *)
(*                                                                         *)
(* BlockReplication implements this specification: its leader's TxPool is  *)
(* "pending" and its leader's OrderingBlock is "chain".                    *)
(***************************************************************************)
EXTENDS Sequences

CONSTANTS
  Submission,   \* the client submissions (one per call that hands in a tx)
  TxOf,         \* TxOf[s] is the transaction (Txid) that submission s carries
  Batch         \* the sets of submissions that may make one block

VARIABLES
  pending,      \* submissions accepted and not yet ordered
  chain         \* the sequence of ordered batches

vars == <<pending, chain>>

Ordered == UNION {chain[i] : i \in DOMAIN chain}

\* The waiting submissions that carry none of the transactions of batch B.
Without(S, B) == {s \in S : \A b \in B : TxOf[s] # TxOf[b]}

Init ==
  /\ pending = {}
  /\ chain = <<>>

Accept(s) ==
  /\ s \notin pending \cup Ordered
  /\ pending' = pending \cup {s}
  /\ UNCHANGED chain

Order(B) ==
  /\ B \in Batch
  /\ chain' = Append(chain, B)
  /\ pending' = Without(pending, B)

Next ==
  \/ \E s \in Submission : Accept(s)
  \/ \E B \in SUBSET pending : Order(B)

Spec == Init /\ [][Next]_vars
=============================================================================
