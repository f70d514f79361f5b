--------------------------- MODULE MCPayloadCodec ---------------------------
(* Bytes of eight values: a UINT8 is below 8, a UINT32 below 4096, a UINT64   *)
(* below 8^8, a string's length below 64.  The numbers lie on both sides of   *)
(* every limit and of the sign of 32 bits; one text does not fit its prefix,  *)
(* and one stops within an address.  Taken for a text, the first address      *)
(* announces what is left of it, 18 bytes, and so does the first large        *)
(* number, 6; the other address and -1 announce more than there is.           *)
EXTENDS PayloadCodec

MCNumbers == {-1, 0, 1, 7, 8, 2047, 2048, 4095, 4096, 6 * 8^6 + 5, 8^8 - 1, 8^8}
Address(x, y) == [i \in 1..20 |-> CASE i = 1 -> x [] i = 2 -> y [] OTHER -> i % 8]
MCTexts == {<<>>, <<1>>, <<0, 3, 5>>, Address(2, 2), Address(7, 4),
            [i \in 1..70 |-> i % 8]}
=============================================================================
