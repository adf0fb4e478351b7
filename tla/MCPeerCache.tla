------------------------------ MODULE MCPeerCache ------------------------------
(* PeerCache with three goroutines and three peers, of which it holds two. *)
EXTENDS PeerCache, TLC

Symmetry == Permutations(Peer) \cup Permutations(Updater)
=============================================================================
