-------------------------- MODULE MCDeliverPipeline --------------------------
(* DeliverPipeline with two ordering nodes.                                   *)
EXTENDS DeliverPipeline, TLC

CONSTANTS o1, o2

Orderers == {o1, o2}
Symmetry == Permutations(Orderers)

NoneRefused == {}
ThirdRefused == {3}
=============================================================================
