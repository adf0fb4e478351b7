---------------------------- MODULE MCHeaderSync -----------------------------
(* HeaderSync on a chain of three blocks and a branch that outgrows its last.
   B2 carries the minimum difficulty. *)
EXTENDS HeaderSync

CONSTANTS G, A1, A2, B2, B3

MCBlock == {G, A1, A2, B2, B3}
MCParent == [b \in MCBlock |->
  CASE b = G -> NoBlock [] b = A1 -> G [] b \in {A2, B2} -> A1 [] b = B3 -> B2]
MCHeight == [b \in MCBlock |->
  CASE b = G -> 0 [] b = A1 -> 1 [] b \in {A2, B2} -> 2 [] OTHER -> 3]
MCAncestors[b \in MCBlock] == IF b = G THEN {G} ELSE {b} \cup MCAncestors[MCParent[b]]
MCBits == [b \in MCBlock |->
  CASE b = B2 -> 1 [] b \in {G, A1} -> 2 [] b = A2 -> 3 [] b = B3 -> 4]
MCCheckpoint == {[block |-> A1, hex |-> "display"]}
=============================================================================
