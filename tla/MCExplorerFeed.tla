--------------------------- MODULE MCExplorerFeed ---------------------------
(* One account that signs in and out; up to two blocks; a stream that breaks  *)
(* or a load that fails, and enough loads for three to be under way at once.  *)
EXTENDS ExplorerFeed, TLC

CONSTANTS alice

MCUsers == {alice}
=============================================================================
