--------------------------- MODULE MCBitcoindWait ---------------------------
(* Instances of BitcoindWait: three blocks, of which the chain holds some.   *)
EXTENDS BitcoindWait, TLC

CONSTANTS b1, b2, b3

Blocks == {b1, b2, b3}
=============================================================================
