------------------------------- MODULE MCIsoCache -------------------------------
(* Model checking of IsoCache: d1 is a plain image and d2 a CISO image that leaves *)
(* out its first block, so that a block is not stored where its number says.       *)
EXTENDS IsoCache

CONSTANTS d1, d2

MCUsed == [d \in Ciso |-> {1, 2}]
=============================================================================
