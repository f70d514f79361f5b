----------------------------- MODULE MCWasmPool -----------------------------
(* Executions may be exchanged for each other. *)
EXTENDS WasmPool, TLC

Symmetry == Permutations(Executions)
=============================================================================
