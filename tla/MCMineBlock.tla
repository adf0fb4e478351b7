----------------------------- MODULE MCMineBlock -----------------------------
(* MineBlock with nonces of five bits; three solutions, of which two are far
   apart and one of them also reads as a solution backwards, and nonce 0. *)
EXTENDS MineBlock

MCSolutions == {0, 6, 20}
MCReversed == {0, 3, 20}
MCFalseHits == {7, 20, 29}
=============================================================================
