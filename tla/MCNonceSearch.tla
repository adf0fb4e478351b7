---------------------------- MODULE MCNonceSearch ----------------------------
(* NonceSearch with nonces of five bits; two solutions, far apart, of which
   one also reads as a solution backwards, and nonce 0. *)
EXTENDS NonceSearch

MCSolutions == {0, 6, 20}
MCReversed == {0, 3, 20}
=============================================================================
