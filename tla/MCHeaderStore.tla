---------------------------- MODULE MCHeaderStore ----------------------------
(* HeaderStore on a tree of two branches.  A2 and B2 carry the minimum
   difficulty, the other blocks a difficulty of their own. *)
EXTENDS HeaderStore

CONSTANTS G, A1, A2, A3, B2, B3

MCBlock == {G, A1, A2, A3, B2, B3}
MCParent == [b \in MCBlock |->
  CASE b = G -> NoBlock [] b = A1 -> G [] b \in {A2, B2} -> A1 [] b = A3 -> A2 [] b = B3 -> B2]
MCHeight == [b \in MCBlock |->
  CASE b = G -> 0 [] b = A1 -> 1 [] b \in {A2, B2} -> 2 [] OTHER -> 3]
MCAncestors[b \in MCBlock] == IF b = G THEN {G} ELSE {b} \cup MCAncestors[MCParent[b]]
MCBits == [b \in MCBlock |->
  CASE b \in {A2, B2} -> 1 [] b \in {G, A1} -> 2 [] b = A3 -> 3 [] b = B3 -> 4]
MCCheckpoints == {[block |-> A2, hex |-> "wire"]}
=============================================================================
