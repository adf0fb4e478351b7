---------------------------- MODULE MCPeerNetwork ----------------------------
(* PeerNetwork with two peers, of which the pool has room for one. *)
EXTENDS PeerNetwork
=============================================================================
