------------------------------ MODULE BlockTree ------------------------------
(***************************************************************************)
(* The tree of block headers every node of the network draws its chain     *)
(* from.  It is the environment of the miner: the consensus rules that     *)
(* make it a tree live in the peers, not in src/.  A block stands for its   *)
(* 80-byte header and for its double-SHA256 hash, which names it.          *)
(***************************************************************************)
EXTENDS Integers, Sequences

CONSTANTS
  Block,      \* the headers that exist
  Genesis,    \* the root (genesisHashWire)
  NoBlock,    \* "no header": a nil *BlockHeader, an unset time
  Parent,     \* Parent[b]: the header named by b.PrevBlock
  Height,     \* Height[b]: distance from Genesis
  Ancestors,  \* Ancestors[b]: b and everything below it
  Bits,       \* Bits[b]: the header's compact difficulty
  PowLimit    \* dogecoinPowLimitCompact, the minimum difficulty

ASSUME BlockTreeAssumption ==
  /\ Genesis \in Block
  /\ NoBlock \notin Block
  /\ Parent \in [Block -> Block \cup {NoBlock}]
  /\ Parent[Genesis] = NoBlock
  /\ Height \in [Block -> Nat]
  /\ Height[Genesis] = 0
  /\ Ancestors \in [Block -> SUBSET Block]
  /\ Ancestors[Genesis] = {Genesis}
  /\ \A b \in Block \ {Genesis} :
        /\ Parent[b] \in Block
        /\ Height[b] = Height[Parent[b]] + 1
        /\ Ancestors[b] = Ancestors[Parent[b]] \cup {b}
  /\ Bits \in [Block -> Nat \ {0}]
  /\ PowLimit \in Nat \ {0}

OnChain(b, tip) == b \in Ancestors[tip]

(* The block of tip's chain at height n. *)
AtHeight(tip, n) == CHOOSE b \in Ancestors[tip] : Height[b] = n

(* The headers of tip's chain above `base`, oldest first. *)
PathAbove(base, tip) ==
  [i \in 1..(Height[tip] - Height[base]) |-> AtHeight(tip, Height[base] + i)]
=============================================================================
