-------------------------- MODULE MCMinerLifecycle --------------------------
(* MinerLifecycle with two concurrent requests. *)
EXTENDS MinerLifecycle
=============================================================================
