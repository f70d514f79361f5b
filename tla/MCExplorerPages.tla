--------------------------- MODULE MCExplorerPages ---------------------------
(* One page on t1, two accounts, and a contract of each kind: one without a    *)
(* schema (a JSON editor), one that needs an account and has no field of its  *)
(* own, one whose schema names a common field.                                *)
EXTENDS ExplorerPages, TLC

CONSTANTS t1, t2, alice, bob, note, transfer, mint

MCTabs == {t1, t2}
MCUsers == {alice, bob}
MCContracts == {note, transfer, mint}
MCNeedsFrom == {transfer}
MCFields == (transfer :> {}) @@ (mint :> {"address", "text"})
MCRequired == {"text"}
MCRaw == {{"from", "to", "address"}}
Symmetry == Permutations(MCUsers)
=============================================================================
