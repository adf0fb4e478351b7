----------------------------- MODULE HeaderStore -----------------------------
(***************************************************************************)
(* What a P2PClient remembers of the header chain, and every operation     *)
(* that changes it: a "headers" message taken in header by header          *)
(* (processHeaders), the resets (ClearSyncState, SetStartCheckpoint) and    *)
(* the resume from a saved tip (SeedLastNonMinDifficultyBits).             *)
(*                                                                         *)
(* Nothing is assumed of the peers: the next header of a message is any    *)
(* header at all, so every invariant below holds against any peer.  The    *)
(* module HeaderSync puts the miner's control flow and peers around it.    *)
(***************************************************************************)
EXTENDS BlockTree, FiniteSets

CONSTANTS
  NoSuchHash,     \* a hash no header has
  Checkpoints,    \* the checkpoint table: blocks, and the byte order of their hex
  Garbled,        \* bytes that do not parse as a header
  HistoryCap,     \* 500 in processHeaders
  LocatorKeep,    \* 24 in prependLocatorHashesFromBatch
  OverlappingReset
    \* may the mining loop reset the client while a message is being taken in?
    \* Only after Stop and Start: the background loop of the first Start is
    \* still running then, and the resets take no lock.

ASSUME HeaderStoreAssumption ==
  /\ NoSuchHash \notin Block \cup {NoBlock}
  /\ Garbled \notin Block
  /\ Checkpoints \subseteq [block : Block, hex : {"display", "wire"}]
  /\ HistoryCap \in Nat \ {0}
  /\ LocatorKeep \in Nat \ {0}
  /\ OverlappingReset \in BOOLEAN

VARIABLES
  best,        \* bestHeader: the tip, or NoBlock
  bestHeight,  \* bestHeight
  lastNonMin,  \* lastNonMinDifficultyBits, 0 if none was seen
  tipParent,   \* the block whose nTime is tipParentTimestamp, NoBlock for 0
  locator,     \* locatorHashes, newest first
  start,       \* startLocatorHash and startHeight, NoStart if unset
  history,     \* tipHistory: height -> hash
  batch        \* the locals of the processHeaders call in progress

chain == <<best, bestHeight, lastNonMin, tipParent, locator>>
storeVars == <<best, bestHeight, lastNonMin, tipParent, locator, start, history, batch>>

NoStart == [hash |-> NoBlock, height |-> 0]

(* The start point a saved tip gives for block b. *)
PointOf(b) == [hash |-> b, height |-> Height[b]]

(* hexTo32Bytes reverses every hash it reads, as if it were in display order;
   a hash in wire order comes out as one no header has. *)
HexTo32Bytes(c) == IF c.hex = "display" THEN c.block ELSE NoSuchHash
CheckpointPoint(c) == [hash |-> HexTo32Bytes(c), height |-> Height[c.block]]

StartPoint == {PointOf(b) : b \in Block} \cup {CheckpointPoint(c) : c \in Checkpoints}

NoBatch == [phase |-> "none", height |-> 0, carry |-> 0, prev |-> NoBlock,
            parent |-> NoBlock, tipParent |-> NoBlock, hashes |-> <<>>]

-----------------------------------------------------------------------------
(* Faulty variants, each the slip a change of the definition after it could
   make, are marked "Mutant". *)

(* Mutant: a reset that leaves the locator ring. *)
FreshButLocator ==
  /\ best' = NoBlock /\ bestHeight' = 0 /\ lastNonMin' = 0
  /\ tipParent' = NoBlock /\ UNCHANGED locator

(* Mutant: -1 for "no tip". *)
FreshMinusOne ==
  /\ best' = NoBlock /\ bestHeight' = -1 /\ lastNonMin' = 0
  /\ tipParent' = NoBlock /\ locator' = <<>>

(* NewP2PClient: every field of the chain state has Go's zero value. *)
Fresh ==
  /\ best' = NoBlock /\ bestHeight' = 0 /\ lastNonMin' = 0
  /\ tipParent' = NoBlock /\ locator' = <<>>

StoreInit ==
  /\ best = NoBlock /\ bestHeight = 0 /\ lastNonMin = 0
  /\ tipParent = NoBlock /\ locator = <<>>
  /\ start = NoStart /\ history = <<>> /\ batch = NoBatch

(* Mutant: every message is taken from the start point. *)
ExpectedPrevAtStart == IF start # NoStart THEN start.hash ELSE Genesis

(* The hash the next header must name as its parent, and whose nTime is the
   parent time of that next header (unknown for a checkpoint). *)
ExpectedPrev ==
  IF best # NoBlock THEN best ELSE IF start # NoStart THEN start.hash ELSE Genesis

(* Mutant: a start point is given genesis' time. *)
KnownPrevTimeOfGenesis == IF best # NoBlock THEN best ELSE Genesis

KnownPrevTime ==
  IF best # NoBlock THEN best ELSE IF start # NoStart THEN NoBlock ELSE Genesis

-----------------------------------------------------------------------------
(* processHeaders.  The fields it starts from are read one after the other
   and without the lock the resets would need, so each read is a step. *)

(* Mutant: the start point's height is forgotten. *)
OpenBatchAtBestHeight ==
  /\ batch.phase = "none"
  /\ batch' = [NoBatch EXCEPT !.phase = "opened", !.height = bestHeight, !.carry = lastNonMin]
  /\ UNCHANGED <<chain, start, history>>

(* A non-empty "headers" message: height and the carried nBits are read. *)
OpenBatch ==
  /\ batch.phase = "none"
  /\ batch' = [NoBatch EXCEPT
       !.phase = "opened",
       !.height = IF best = NoBlock /\ start # NoStart THEN start.height ELSE bestHeight,
       !.carry = lastNonMin]
  /\ UNCHANGED <<chain, start, history>>

ReadExpectedPrev ==
  /\ batch.phase = "opened"
  /\ batch' = [batch EXCEPT !.phase = "located", !.prev = ExpectedPrev]
  /\ UNCHANGED <<chain, start, history>>

ReadParentTime ==
  /\ batch.phase = "located"
  /\ batch' = [batch EXCEPT !.phase = "linking", !.parent = KnownPrevTime]
  /\ UNCHANGED <<chain, start, history>>

(* Mutant: no check of PrevBlock. *)
LinksAlways(h) == h \in Block

Links(h) == h \in Block /\ Parent[h] = batch.prev

(* Mutant: a height once recorded is not overwritten. *)
RecordedOnce(height, hash) ==
  [n \in DOMAIN history \cup {height} |-> IF n \in DOMAIN history THEN history[n] ELSE hash]

(* tipHistory[height] = hash, then the entries far below it are pruned if the
   map has outgrown its cap. *)
Recorded(height, hash) ==
  LET grown == [n \in DOMAIN history \cup {height} |->
                  IF n = height THEN hash ELSE history[n]]
  IN IF Cardinality(DOMAIN grown) > HistoryCap
     THEN [n \in {m \in DOMAIN grown : m >= height - HistoryCap} |-> grown[n]]
     ELSE grown

(* One header of the message links: it is recorded at once, while the tip
   waits for the whole message. *)
AcceptHeader(h) ==
  /\ batch.phase = "linking"
  /\ Links(h)
  /\ batch' = [batch EXCEPT
       !.height = @ + 1,
       !.carry = IF Bits[h] # PowLimit THEN Bits[h] ELSE @,
       !.prev = h,
       !.tipParent = batch.parent,
       !.parent = h,
       !.hashes = <<h>> \o @]
  /\ history' = Recorded(batch.height + 1, h)
  /\ UNCHANGED <<chain, start>>

(* A header that does not parse or does not link fails the whole message:
   the tip stays, what was recorded stays too. *)
RejectHeader(h) ==
  /\ batch.phase = "linking"
  /\ ~Links(h)
  /\ batch' = NoBatch
  /\ UNCHANGED <<chain, start, history>>

(* The last header of the message was taken: the tip moves. *)
CommitBatch ==
  /\ batch.phase = "linking"
  /\ batch.hashes # <<>>
  /\ best' = batch.prev
  /\ bestHeight' = batch.height
  /\ lastNonMin' = batch.carry
  /\ tipParent' = batch.tipParent
  /\ LET ring == batch.hashes \o locator
     IN locator' = SubSeq(ring, 1, IF Len(ring) > LocatorKeep THEN LocatorKeep ELSE Len(ring))
  /\ batch' = NoBatch
  /\ UNCHANGED <<start, history>>

-----------------------------------------------------------------------------
(* The resets.  Called by the mining loop without the primary I/O lock. *)
MayReset == OverlappingReset \/ batch.phase = "none"

ClearSyncState ==
  /\ MayReset
  /\ Fresh
  /\ UNCHANGED <<start, history, batch>>

(* SetStartCheckpoint(""): forget the tip and the start point. *)
StartFromGenesis ==
  /\ MayReset
  /\ Fresh
  /\ start' = NoStart
  /\ UNCHANGED <<history, batch>>

(* SetStartCheckpoint(hash, height): the tip, if there is one, is kept. *)
StartFrom(s) ==
  /\ MayReset
  /\ start' = s
  /\ UNCHANGED <<chain, history, batch>>

(* Resume from the saved tip: its hash as the start point, its nBits as the
   last non-minimum difficulty unless they are 0. *)
Resume(s, bits) ==
  /\ MayReset
  /\ start' = s
  /\ lastNonMin' = IF bits # 0 THEN bits ELSE lastNonMin
  /\ UNCHANGED <<best, bestHeight, tipParent, locator, history, batch>>

(* The process is killed or the configuration replaced: a new client. *)
NewClient ==
  /\ Fresh
  /\ start' = NoStart /\ history' = <<>> /\ batch' = NoBatch

-----------------------------------------------------------------------------
StoreNext ==
  \/ OpenBatch \/ ReadExpectedPrev \/ ReadParentTime \/ CommitBatch
  \/ \E h \in Block : AcceptHeader(h)
  \/ \E h \in Block \cup {Garbled} : RejectHeader(h)
  \/ ClearSyncState \/ StartFromGenesis \/ NewClient
  \/ \E s \in StartPoint : StartFrom(s)
  \/ \E b \in Block, bits \in {Bits[c] : c \in Block} \cup {0} : Resume(PointOf(b), bits)

StoreSpec == StoreInit /\ [][StoreNext]_storeVars

-----------------------------------------------------------------------------
(* The fields have their types. *)
StoreTypeOK ==
  /\ best \in Block \cup {NoBlock}
  /\ bestHeight \in Nat
  /\ lastNonMin \in Nat
  /\ tipParent \in Block \cup {NoBlock}
  /\ locator \in Seq(Block)
  /\ start \in StartPoint \cup {NoStart}
  /\ DOMAIN history \subseteq Nat
  /\ history \in [DOMAIN history -> Block]
  /\ batch \in [phase : {"none", "opened", "located", "linking"},
                height : Nat, carry : Nat,
                prev : Block \cup {NoBlock, NoSuchHash},
                parent : Block \cup {NoBlock}, tipParent : Block \cup {NoBlock},
                hashes : Seq(Block)]

(* The locator sent in getheaders is the tip followed by its parents, newest
   first and without a gap, whatever peers sent and however resets fell
   between their headers: a peer that knows the tip answers from the tip. *)
LocatorIsChain ==
  /\ best = NoBlock <=> locator = <<>>
  /\ best # NoBlock => locator[1] = best
  /\ \A i \in 1..(Len(locator) - 1) : Parent[locator[i]] = locator[i + 1]

(* The height the miner builds on (template height = this + 1, and with it the
   coinbase) is the tip's real height, although processHeaders only counts
   from a start point.  Not so when resets may overlap a message. *)
TipHeightCorrect ==
  ~OverlappingReset /\ best # NoBlock => bestHeight = Height[best]

(* The parent time DigiShield is fed belongs to the tip's parent, and it is
   unknown only while the tip is the first header after a start point. *)
TipParentCorrect ==
  ~OverlappingReset /\ best # NoBlock =>
    \/ tipParent = Parent[best]
    \/ tipParent = NoBlock /\ Len(locator) = 1

(* Where the height -> hash map the payment monitor reads still has an entry
   for one of the newest blocks of the chain, it has that block, even after
   messages that failed half-way and after resyncs over old entries. *)
HistoryAgreesWithLocator ==
  ~OverlappingReset =>
    \A i \in 1..Len(locator) :
      bestHeight - i + 1 \in DOMAIN history => history[bestHeight - i + 1] = locator[i]

(* The tip never jumps to a competing branch: it is extended, or it is reset
   and built up again. *)
TipOnlyExtends ==
  [][best' = best \/ best' = NoBlock \/ best = NoBlock \/ OnChain(best, best')]_storeVars
=============================================================================
