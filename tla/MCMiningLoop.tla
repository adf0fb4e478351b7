---------------------------- MODULE MCMiningLoop -----------------------------
(* MiningLoop on two branches above A1, on each of which the miner can find a
   block: M2, that others build on, and M3.  M2 carries the minimum difficulty. *)
EXTENDS MiningLoop

CONSTANTS G, A1, M2, B3, B4, B5, N2, M3

MCBlock == {G, A1, M2, B3, B4, B5, N2, M3}
MCParent == [b \in Block |->
  CASE b = G -> NoBlock [] b = A1 -> G [] b \in {M2, N2} -> A1
    [] b = B3 -> M2 [] b = B4 -> B3 [] b = B5 -> B4 [] b = M3 -> N2]
MCHeight == [b \in Block |->
  CASE b = G -> 0 [] b = A1 -> 1 [] b \in {M2, N2} -> 2 [] b \in {B3, M3} -> 3
    [] b = B4 -> 4 [] b = B5 -> 5]
MCAncestors[b \in Block] == IF b = G THEN {G} ELSE {b} \cup MCAncestors[MCParent[b]]
MCBits == [b \in Block |->
  CASE b = M2 -> 1 [] b = G -> 2 [] b = A1 -> 3 [] b = N2 -> 4
    [] b \in {B3, M3} -> 5 [] b \in {B4, B5} -> 6]
MCMined == {M2, M3}
MCPowHash == [b \in MCMined |-> <<"scrypt", b>>]
=============================================================================
