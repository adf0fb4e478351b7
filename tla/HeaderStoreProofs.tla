-------------------------- MODULE HeaderStoreProofs --------------------------
(* Proofs about HeaderStore, for every tree of blocks, every table of
   checkpoints and every cap.                                               *)
EXTENDS HeaderStore, TLAPS

USE DEF chain, storeVars

-----------------------------------------------------------------------------
(* Facts about the tree and about linked sequences of headers. *)

(* Every block is on its own chain. *)
LEMMA SelfOnChain == \A b \in Block : b \in Ancestors[b]
<1> TAKE b \in Block
<1>1. CASE b = Genesis
  BY <1>1, BlockTreeAssumption
<1>2. CASE b # Genesis
  BY <1>2, BlockTreeAssumption
<1> QED
  BY <1>1, <1>2

(* A header that names a block as its parent extends that block's chain. *)
LEMMA ChildOnChain ==
  ASSUME NEW h \in Block, Parent[h] \in Block
  PROVE  /\ Ancestors[Parent[h]] \subseteq Ancestors[h]
         /\ Height[h] = Height[Parent[h]] + 1
  BY BlockTreeAssumption

Linked(s) == \A k \in 1..(Len(s) - 1) : Parent[s[k]] = s[k + 1]

(* Two linked sequences, newest first, join where the oldest of the first is
   a child of the newest of the second. *)
LEMMA JoinLinked ==
  ASSUME NEW s \in Seq(Block), NEW t \in Seq(Block), Linked(s), Linked(t),
         s # <<>> /\ t # <<>> => Parent[s[Len(s)]] = t[1]
  PROVE  Linked(s \o t)
<1> SUFFICES ASSUME NEW k \in 1..(Len(s \o t) - 1)
             PROVE  Parent[(s \o t)[k]] = (s \o t)[k + 1]
  BY DEF Linked
<1>1. Len(s \o t) = Len(s) + Len(t) /\ Len(s) \in Nat /\ Len(t) \in Nat
  OBVIOUS
<1>2. CASE k < Len(s)
  <2>1. (s \o t)[k] = s[k] /\ (s \o t)[k + 1] = s[k + 1]
    BY <1>1, <1>2
  <2>2. k \in 1..(Len(s) - 1)
    BY <1>1, <1>2
  <2> QED
    BY <2>1, <2>2 DEF Linked
<1>3. CASE k = Len(s)
  <2>1. s # <<>> /\ t # <<>>
    BY <1>1, <1>3
  <2>2. (s \o t)[k] = s[Len(s)] /\ (s \o t)[k + 1] = t[1]
    BY <1>1, <1>3
  <2> QED
    BY <2>1, <2>2
<1>4. CASE k > Len(s)
  <2>1. (s \o t)[k] = t[k - Len(s)] /\ (s \o t)[k + 1] = t[k - Len(s) + 1]
    BY <1>1, <1>4
  <2>2. k - Len(s) \in 1..(Len(t) - 1)
    BY <1>1, <1>4
  <2> QED
    BY <2>1, <2>2 DEF Linked
<1> QED
  BY <1>1, <1>2, <1>3, <1>4

(* What is left of a linked sequence when its tail is cut off is linked. *)
LEMMA TrimLinked ==
  ASSUME NEW s \in Seq(Block), Linked(s), NEW n \in 1..Len(s)
  PROVE  /\ SubSeq(s, 1, n) \in Seq(Block)
         /\ Len(SubSeq(s, 1, n)) = n
         /\ SubSeq(s, 1, n)[1] = s[1]
         /\ Linked(SubSeq(s, 1, n))
  BY DEF Linked

-----------------------------------------------------------------------------
(* Type correctness. *)

LEMMA StartPointType ==
  /\ \A s \in StartPoint : /\ s.hash \in Block \cup {NoSuchHash}
                           /\ s.height \in Nat
                           /\ s.hash \in Block => s.height = Height[s.hash]
  /\ \A b \in Block : PointOf(b) \in StartPoint
<1>1. \A b \in Block : PointOf(b) \in StartPoint /\ Height[b] \in Nat
  BY BlockTreeAssumption DEF StartPoint, PointOf
<1>2. ASSUME NEW s \in StartPoint
      PROVE  /\ s.hash \in Block \cup {NoSuchHash}
             /\ s.height \in Nat
             /\ s.hash \in Block => s.height = Height[s.hash]
  <2>1. CASE \E b \in Block : s = PointOf(b)
    BY <1>1, <2>1 DEF PointOf
  <2>2. CASE \E c \in Checkpoints : s = CheckpointPoint(c)
    <3>1. PICK c \in Checkpoints : s = CheckpointPoint(c)
      BY <2>2
    <3>2. c.block \in Block
      BY HeaderStoreAssumption
    <3> QED
      BY <1>1, <3>1, <3>2, HeaderStoreAssumption DEF CheckpointPoint, HexTo32Bytes
  <2> QED
    BY <2>1, <2>2 DEF StartPoint
<1> QED
  BY <1>1, <1>2

LEMMA NoBatchType ==
  NoBatch \in [phase : {"none", "opened", "located", "linking"},
               height : Nat, carry : Nat,
               prev : Block \cup {NoBlock, NoSuchHash},
               parent : Block \cup {NoBlock}, tipParent : Block \cup {NoBlock},
               hashes : Seq(Block)]
  BY DEF NoBatch

LEMMA StoreInitType == StoreInit => StoreTypeOK
  BY NoBatchType DEF StoreInit, StoreTypeOK

(* The operations of processHeaders keep the types. *)
LEMMA OpenBatchType == StoreTypeOK /\ OpenBatch => StoreTypeOK'
<1> SUFFICES ASSUME StoreTypeOK, OpenBatch PROVE StoreTypeOK'
  OBVIOUS
<1>1. start # NoStart => start.height \in Nat
  BY StartPointType DEF StoreTypeOK
<1>2. bestHeight \in Nat /\ lastNonMin \in Nat
  BY DEF StoreTypeOK
<1>3. (IF best = NoBlock /\ start # NoStart THEN start.height ELSE bestHeight) \in Nat
  BY <1>1, <1>2
<1> QED
  BY <1>2, <1>3, NoBatchType DEF OpenBatch, StoreTypeOK, NoBatch

LEMMA LocateType ==
  ASSUME StoreTypeOK
  PROVE  /\ ExpectedPrev \in Block \cup {NoSuchHash}
         /\ KnownPrevTime \in Block \cup {NoBlock}
  BY StartPointType, BlockTreeAssumption DEF StoreTypeOK, ExpectedPrev, KnownPrevTime

LEMMA ReadExpectedPrevType == StoreTypeOK /\ ReadExpectedPrev => StoreTypeOK'
<1> SUFFICES ASSUME StoreTypeOK, ReadExpectedPrev PROVE StoreTypeOK'
  OBVIOUS
<1>1. ExpectedPrev \in Block \cup {NoSuchHash}
  BY LocateType
<1>2. batch' = [batch EXCEPT !.phase = "located", !.prev = ExpectedPrev] /\ UNCHANGED <<chain, start, history>>
  BY DEF ReadExpectedPrev
<1> QED
  BY <1>1, <1>2 DEF StoreTypeOK

LEMMA ReadParentTimeType == StoreTypeOK /\ ReadParentTime => StoreTypeOK'
<1> SUFFICES ASSUME StoreTypeOK, ReadParentTime PROVE StoreTypeOK'
  OBVIOUS
<1>1. KnownPrevTime \in Block \cup {NoBlock}
  BY LocateType
<1>2. batch' = [batch EXCEPT !.phase = "linking", !.parent = KnownPrevTime] /\ UNCHANGED <<chain, start, history>>
  BY DEF ReadParentTime
<1> QED
  BY <1>1, <1>2 DEF StoreTypeOK

LEMMA RecordedType ==
  ASSUME StoreTypeOK, NEW n \in Nat, NEW h \in Block
  PROVE  /\ DOMAIN Recorded(n, h) \subseteq Nat
         /\ Recorded(n, h) \in [DOMAIN Recorded(n, h) -> Block]
<1> DEFINE grown == [m \in DOMAIN history \cup {n} |-> IF m = n THEN h ELSE history[m]]
<1>1. DOMAIN grown \subseteq Nat /\ \A m \in DOMAIN grown : grown[m] \in Block
  BY DEF StoreTypeOK
<1>2. Recorded(n, h) = grown
      \/ Recorded(n, h) = [m \in {k \in DOMAIN grown : k >= n - HistoryCap} |-> grown[m]]
  BY DEF Recorded
<1> QED
  BY <1>1, <1>2

LEMMA AcceptHeaderType ==
  ASSUME StoreTypeOK, NEW h \in Block, AcceptHeader(h)
  PROVE  StoreTypeOK'
<1>1. Bits[h] \in Nat
  BY BlockTreeAssumption
<1>2. batch.height \in Nat /\ batch.height + 1 \in Nat
  BY DEF StoreTypeOK
<1>3. DOMAIN history' \subseteq Nat /\ history' \in [DOMAIN history' -> Block]
  BY <1>2, RecordedType DEF AcceptHeader
<1>4. <<h>> \o batch.hashes \in Seq(Block)
  BY DEF StoreTypeOK
<1>5. batch' \in [phase : {"none", "opened", "located", "linking"},
                  height : Nat, carry : Nat,
                  prev : Block \cup {NoBlock, NoSuchHash},
                  parent : Block \cup {NoBlock}, tipParent : Block \cup {NoBlock},
                  hashes : Seq(Block)]
  BY <1>1, <1>2, <1>4 DEF StoreTypeOK, AcceptHeader
<1> QED
  BY <1>3, <1>5 DEF StoreTypeOK, AcceptHeader

(* The message in progress: the headers taken so far are linked, newest first,
   and the newest is the one the next must name.  It makes the type of the
   tip that CommitBatch sets, and the linkage of the ring, inductive. *)
Taking == batch.phase \in {"located", "linking"}

BatchChain ==
  /\ batch.phase # "linking" => batch.hashes = <<>>
  /\ Taking => batch.prev # NoBlock
  /\ batch.hashes # <<>> => batch.hashes[1] = batch.prev
  /\ Linked(batch.hashes)

LEMMA CommitBatchType ==
  ASSUME StoreTypeOK, BatchChain, CommitBatch
  PROVE  /\ StoreTypeOK'
         /\ best' = batch.hashes[1] /\ best' \in Block
         /\ locator' \in Seq(Block) /\ locator' # <<>>
         /\ locator'[1] = best'
         /\ Linked(batch.hashes \o locator) => Linked(locator')
<1> DEFINE ring == batch.hashes \o locator
           n == IF Len(ring) > LocatorKeep THEN LocatorKeep ELSE Len(ring)
<1>1. batch.hashes \in Seq(Block) /\ batch.hashes # <<>> /\ locator \in Seq(Block)
  BY DEF StoreTypeOK, CommitBatch
<1>2. /\ ring \in Seq(Block) /\ n \in 1..Len(ring)
      /\ ring[1] = batch.hashes[1]
  BY <1>1, HeaderStoreAssumption
<1>3. locator' = SubSeq(ring, 1, n)
  BY DEF CommitBatch
<1>4. /\ locator' \in Seq(Block) /\ locator' # <<>>
      /\ locator'[1] = batch.hashes[1]
  <2>1. SubSeq(ring, 1, n) \in Seq(Block) /\ Len(SubSeq(ring, 1, n)) = n
        /\ SubSeq(ring, 1, n)[1] = ring[1]
    BY <1>2
  <2> QED
    BY <1>2, <1>3, <2>1
<1>5. Linked(ring) => Linked(locator')
  <2> HIDE DEF ring, n
  <2> QED
    BY <1>2, <1>3, TrimLinked
<1>6. best' = batch.hashes[1] /\ best' \in Block
  BY <1>1 DEF BatchChain, CommitBatch
<1>7. StoreTypeOK'
  BY <1>4, <1>6, NoBatchType DEF StoreTypeOK, CommitBatch
<1> QED
  BY <1>4, <1>5, <1>6, <1>7

LEMMA ResetType ==
  ASSUME StoreTypeOK
  PROVE  /\ ClearSyncState => StoreTypeOK'
         /\ StartFromGenesis => StoreTypeOK'
         /\ NewClient => StoreTypeOK'
         /\ \A s \in StartPoint : StartFrom(s) => StoreTypeOK'
         /\ \A b \in Block, bits \in Nat : Resume(PointOf(b), bits) => StoreTypeOK'
<1>1. ASSUME Fresh, UNCHANGED <<start, history, batch>> PROVE StoreTypeOK'
  BY <1>1 DEF StoreTypeOK, Fresh
<1>2. ASSUME Fresh, start' = NoStart, UNCHANGED <<history, batch>> PROVE StoreTypeOK'
  BY <1>2 DEF StoreTypeOK, Fresh
<1>3. ASSUME NewClient PROVE StoreTypeOK'
  BY <1>3, NoBatchType DEF StoreTypeOK, Fresh, NewClient
<1>4. ASSUME NEW s \in StartPoint, StartFrom(s) PROVE StoreTypeOK'
  BY <1>4 DEF StoreTypeOK, StartFrom
<1>5. ASSUME NEW b \in Block, NEW bits \in Nat, Resume(PointOf(b), bits) PROVE StoreTypeOK'
  BY <1>5, StartPointType DEF StoreTypeOK, Resume
<1> QED
  BY <1>1, <1>2, <1>3, <1>4, <1>5 DEF ClearSyncState, StartFromGenesis

Bit == {Bits[c] : c \in Block} \cup {0}

LEMMA StoreTypeStep ==
  ASSUME StoreTypeOK, BatchChain, [StoreNext]_storeVars
  PROVE  StoreTypeOK' /\ BatchChain'
<1>1. CASE OpenBatch
  <2>1. BatchChain'
    BY <1>1 DEF BatchChain, OpenBatch, NoBatch, Linked, Taking
  <2> QED
    BY <1>1, <2>1, OpenBatchType
<1>2. CASE ReadExpectedPrev
  <2>1. BatchChain'
    BY <1>2, LocateType, BlockTreeAssumption, HeaderStoreAssumption
    DEF StoreTypeOK, BatchChain, ReadExpectedPrev, Linked, Taking
  <2> QED
    BY <1>2, <2>1, ReadExpectedPrevType
<1>3. CASE ReadParentTime
  <2>1. BatchChain'
    BY <1>3 DEF StoreTypeOK, BatchChain, ReadParentTime, Linked, Taking
  <2> QED
    BY <1>3, <2>1, ReadParentTimeType
<1>4. CASE CommitBatch
  <2>1. BatchChain'
    BY <1>4 DEF BatchChain, CommitBatch, NoBatch, Linked, Taking
  <2> QED
    BY <1>4, <2>1, CommitBatchType
<1>5. ASSUME NEW h \in Block, AcceptHeader(h)
      PROVE  StoreTypeOK' /\ BatchChain'
  <2>1. StoreTypeOK'
    BY <1>5, AcceptHeaderType
  <2>2. batch'.hashes = <<h>> \o batch.hashes /\ batch'.prev = h /\ batch'.phase = "linking"
    BY <1>5 DEF AcceptHeader, StoreTypeOK
  <2>3. /\ <<h>> \in Seq(Block) /\ batch.hashes \in Seq(Block)
        /\ Linked(<<h>>) /\ Linked(batch.hashes)
        /\ batch.hashes # <<>> => Parent[h] = batch.hashes[1]
    BY <1>5 DEF StoreTypeOK, BatchChain, AcceptHeader, Links, Linked
  <2>4. Linked(<<h>> \o batch.hashes)
    <3>1. Len(<<h>>) = 1 /\ <<h>>[1] = h
      OBVIOUS
    <3> QED
      BY <2>3, <3>1, JoinLinked
  <2>5. (<<h>> \o batch.hashes)[1] = h
    BY <2>3
  <2> QED
    BY <2>1, <2>2, <2>4, <2>5, BlockTreeAssumption DEF BatchChain
<1>6. ASSUME NEW h \in Block \cup {Garbled}, RejectHeader(h)
      PROVE  StoreTypeOK' /\ BatchChain'
  <2>1. BatchChain'
    BY <1>6 DEF BatchChain, RejectHeader, NoBatch, Linked, Taking
  <2>2. StoreTypeOK'
    BY <1>6, NoBatchType DEF StoreTypeOK, RejectHeader
  <2> QED
    BY <2>1, <2>2
<1>7. CASE ClearSyncState
  BY <1>7, ResetType DEF BatchChain, Taking, ClearSyncState
<1>8. CASE StartFromGenesis
  BY <1>8, ResetType DEF BatchChain, Taking, StartFromGenesis
<1>9. CASE NewClient
  <2>1. BatchChain'
    BY <1>9 DEF BatchChain, NewClient, NoBatch, Linked, Taking
  <2> QED
    BY <1>9, <2>1, ResetType
<1>10. ASSUME NEW s \in StartPoint, StartFrom(s)
       PROVE  StoreTypeOK' /\ BatchChain'
  BY <1>10, ResetType DEF BatchChain, Taking, StartFrom
<1>11. ASSUME NEW b \in Block, NEW bits \in Bit, Resume(PointOf(b), bits)
       PROVE  StoreTypeOK' /\ BatchChain'
  <2>1. bits \in Nat
    BY BlockTreeAssumption DEF Bit
  <2> QED
    BY <1>11, <2>1, ResetType DEF BatchChain, Taking, Resume
<1>12. CASE UNCHANGED storeVars
  BY <1>12 DEF StoreTypeOK, BatchChain, Taking
<1> QED
  BY <1>1, <1>2, <1>3, <1>4, <1>5, <1>6, <1>7, <1>8, <1>9, <1>10, <1>11, <1>12
  DEF StoreNext, Bit

(* The fields keep their types whatever peers send and whenever resets fall. *)
THEOREM StoreTypeCorrect == StoreSpec => []StoreTypeOK
<1>1. StoreInit => StoreTypeOK /\ BatchChain
  BY StoreInitType DEF StoreInit, BatchChain, NoBatch, Linked, Taking
<1>2. StoreTypeOK /\ BatchChain /\ [StoreNext]_storeVars => (StoreTypeOK /\ BatchChain)'
  BY StoreTypeStep
<1> QED
  BY <1>1, <1>2, PTL DEF StoreSpec

-----------------------------------------------------------------------------
(* The locator, and the tip that only extends. *)

(* While a message is taken in, what was taken continues the tip, unless the
   tip has been reset since: this is why CommitBatch may put it in front of
   the ring and why the tip it sets extends the old one. *)
BatchExtendsTip ==
  Taking /\ best # NoBlock =>
    /\ batch.prev \in Block
    /\ best \in Ancestors[batch.prev]
    /\ batch.hashes = <<>> => batch.prev = best
    /\ batch.hashes # <<>> => Parent[batch.hashes[Len(batch.hashes)]] = best

ChainInv == StoreTypeOK /\ BatchChain /\ LocatorIsChain /\ BatchExtendsTip

LEMMA LocatorLinked == LocatorIsChain => Linked(locator)
  BY DEF LocatorIsChain, Linked

(* A reset, or a step that leaves the tip and the ring alone. *)
LEMMA FreshLocator == Fresh => LocatorIsChain' /\ best' = NoBlock
  BY DEF Fresh, LocatorIsChain

LEMMA SameLocator ==
  ASSUME LocatorIsChain, best' = best, locator' = locator PROVE LocatorIsChain'
  BY DEF LocatorIsChain

LEMMA CommitLocator ==
  ASSUME ChainInv, CommitBatch
  PROVE  /\ LocatorIsChain' /\ BatchExtendsTip'
         /\ best # NoBlock => OnChain(best, best')
<1> USE DEF ChainInv
<1>1. /\ locator' \in Seq(Block) /\ locator' # <<>> /\ locator'[1] = best'
      /\ best' = batch.hashes[1] /\ best' \in Block
      /\ Linked(batch.hashes \o locator) => Linked(locator')
  BY CommitBatchType
<1>2. batch.hashes \in Seq(Block) /\ batch.hashes # <<>> /\ locator \in Seq(Block)
  BY DEF StoreTypeOK, CommitBatch
<1>3. Linked(batch.hashes \o locator)
  <2>1. locator # <<>> => best # NoBlock /\ best = locator[1]
    BY DEF LocatorIsChain
  <2>2. locator # <<>> => Parent[batch.hashes[Len(batch.hashes)]] = locator[1]
    BY <1>2, <2>1 DEF CommitBatch, BatchExtendsTip, Taking
  <2> QED
    BY <1>2, <2>2, LocatorLinked, JoinLinked DEF BatchChain
<1>4. LocatorIsChain'
  BY <1>1, <1>3, BlockTreeAssumption DEF LocatorIsChain, Linked
<1>5. BatchExtendsTip'
  BY DEF CommitBatch, NoBatch, BatchExtendsTip, Taking
<1>6. best # NoBlock => OnChain(best, best')
  BY <1>1, <1>2 DEF BatchChain, CommitBatch, BatchExtendsTip, Taking, OnChain
<1> QED
  BY <1>4, <1>5, <1>6

LEMMA AcceptExtendsTip ==
  ASSUME ChainInv, NEW h \in Block, AcceptHeader(h)
  PROVE  BatchExtendsTip'
<1> SUFFICES ASSUME best # NoBlock
             PROVE  /\ h \in Block
                    /\ best \in Ancestors[h]
                    /\ batch'.hashes # <<>>
                    /\ Parent[batch'.hashes[Len(batch'.hashes)]] = best
  BY DEF AcceptHeader, BatchExtendsTip, Taking, ChainInv, StoreTypeOK
<1>1. /\ batch.prev \in Block /\ best \in Ancestors[batch.prev]
      /\ batch.hashes = <<>> => batch.prev = best
      /\ batch.hashes # <<>> => Parent[batch.hashes[Len(batch.hashes)]] = best
      /\ Parent[h] = batch.prev
  BY DEF AcceptHeader, Links, ChainInv, BatchExtendsTip, Taking
<1>2. best \in Ancestors[h]
  BY <1>1, ChildOnChain
<1>3. batch.hashes \in Seq(Block) /\ batch'.hashes = <<h>> \o batch.hashes
  BY DEF AcceptHeader, ChainInv, StoreTypeOK
<1>4. CASE batch.hashes = <<>>
  <2>1. batch'.hashes # <<>> /\ batch'.hashes[Len(batch'.hashes)] = h
    BY <1>3, <1>4
  <2> QED
    BY <1>1, <1>2, <1>4, <2>1
<1>5. CASE batch.hashes # <<>>
  <2>1. /\ batch'.hashes # <<>>
        /\ batch'.hashes[Len(batch'.hashes)] = batch.hashes[Len(batch.hashes)]
    BY <1>3, <1>5
  <2> QED
    BY <1>1, <1>2, <1>5, <2>1
<1> QED
  BY <1>4, <1>5

LEMMA ChainStep ==
  ASSUME ChainInv, [StoreNext]_storeVars
  PROVE  ChainInv' /\ (best' = best \/ best' = NoBlock \/ best = NoBlock \/ OnChain(best, best'))
<1>t. StoreTypeOK' /\ BatchChain'
  BY StoreTypeStep DEF ChainInv
<1> SUFFICES /\ LocatorIsChain' /\ BatchExtendsTip'
             /\ best' = best \/ best' = NoBlock \/ best = NoBlock \/ OnChain(best, best')
  BY <1>t DEF ChainInv
<1>1. CASE OpenBatch
  BY <1>1, SameLocator DEF ChainInv, OpenBatch, BatchExtendsTip, Taking, NoBatch
<1>2. CASE ReadExpectedPrev
  <2>1. best # NoBlock => best \in Block /\ ExpectedPrev = best /\ best \in Ancestors[best]
    BY SelfOnChain DEF ChainInv, StoreTypeOK, ExpectedPrev
  <2>2. batch'.prev = ExpectedPrev /\ batch'.hashes = <<>>
    BY <1>2 DEF ChainInv, StoreTypeOK, BatchChain, ReadExpectedPrev
  <2> QED
    BY <1>2, <2>1, <2>2, SameLocator DEF ChainInv, ReadExpectedPrev, BatchExtendsTip
<1>3. CASE ReadParentTime
  <2>1. batch'.prev = batch.prev /\ batch'.hashes = batch.hashes /\ Taking
    BY <1>3 DEF ChainInv, StoreTypeOK, ReadParentTime, Taking
  <2> QED
    BY <1>3, <2>1, SameLocator DEF ChainInv, ReadParentTime, BatchExtendsTip
<1>4. CASE CommitBatch
  BY <1>4, CommitLocator
<1>5. ASSUME NEW h \in Block, AcceptHeader(h)
      PROVE  LocatorIsChain' /\ BatchExtendsTip' /\ best' = best
  BY <1>5, AcceptExtendsTip, SameLocator DEF ChainInv, AcceptHeader
<1>6. ASSUME NEW h \in Block \cup {Garbled}, RejectHeader(h)
      PROVE  LocatorIsChain' /\ BatchExtendsTip' /\ best' = best
  BY <1>6, SameLocator DEF ChainInv, RejectHeader, BatchExtendsTip, Taking, NoBatch
<1>7. ASSUME Fresh PROVE LocatorIsChain' /\ BatchExtendsTip' /\ best' = NoBlock
  BY <1>7, FreshLocator DEF BatchExtendsTip
<1>8. CASE ClearSyncState \/ StartFromGenesis \/ NewClient
  BY <1>7, <1>8 DEF ClearSyncState, StartFromGenesis, NewClient
<1>9. ASSUME UNCHANGED <<best, locator, batch>>
      PROVE  LocatorIsChain' /\ BatchExtendsTip' /\ best' = best
  BY <1>9, SameLocator DEF ChainInv, BatchExtendsTip, Taking
<1>10. ASSUME NEW s \in StartPoint, StartFrom(s) PROVE UNCHANGED <<best, locator, batch>>
  BY <1>10 DEF StartFrom
<1>11. ASSUME NEW b \in Block, NEW bits \in Bit, Resume(PointOf(b), bits)
       PROVE  UNCHANGED <<best, locator, batch>>
  BY <1>11 DEF Resume
<1>12. CASE UNCHANGED storeVars
  BY <1>9, <1>12
<1> QED
  BY <1>1, <1>2, <1>3, <1>4, <1>5, <1>6, <1>8, <1>9, <1>10, <1>11, <1>12
  DEF StoreNext, Bit

LEMMA ChainInit == StoreInit => ChainInv
<1> SUFFICES ASSUME StoreInit PROVE ChainInv
  OBVIOUS
<1>1. LocatorIsChain
  BY DEF StoreInit, LocatorIsChain
<1>2. BatchChain /\ BatchExtendsTip
  BY DEF StoreInit, NoBatch, BatchChain, Linked, BatchExtendsTip, Taking
<1> QED
  BY <1>1, <1>2, StoreInitType DEF ChainInv

(* The locator is the tip and its parents without a gap, at every moment: also
   when the client is reset between two headers of a message. *)
THEOREM LocatorAlwaysChain == StoreSpec => []LocatorIsChain
<1>1. StoreInit => ChainInv
  BY ChainInit
<1>2. ChainInv /\ [StoreNext]_storeVars => ChainInv'
  BY ChainStep
<1>3. ChainInv => LocatorIsChain
  BY DEF ChainInv
<1> QED
  BY <1>1, <1>2, <1>3, PTL DEF StoreSpec

(* No step takes the tip to a competing branch. *)
THEOREM TipAlwaysExtends == StoreSpec => TipOnlyExtends
<1>1. StoreInit => ChainInv
  BY ChainInit
<1>2. ChainInv /\ [StoreNext]_storeVars => ChainInv'
  BY ChainStep
<1>3. ChainInv /\ [StoreNext]_storeVars
        => [best' = best \/ best' = NoBlock \/ best = NoBlock \/ OnChain(best, best')]_storeVars
  BY ChainStep
<1> QED
  BY <1>1, <1>2, <1>3, PTL DEF StoreSpec, TipOnlyExtends

-----------------------------------------------------------------------------
(* What holds as long as no reset falls into the taking in of a message. *)

BaseHeight == IF best = NoBlock /\ start # NoStart THEN start.height ELSE bestHeight

(* The height counted along with a message is that of its newest header. *)
HeightInv ==
  /\ best = NoBlock => bestHeight = 0
  /\ best # NoBlock => bestHeight = Height[best]
  /\ batch.phase = "opened" => batch.height = BaseHeight
  /\ batch.phase = "located" => batch.prev = ExpectedPrev
  /\ Taking /\ batch.prev \in Block => batch.height = Height[batch.prev]
  /\ Taking /\ best # NoBlock => batch.height = bestHeight + Len(batch.hashes)

(* The time carried along is that of the newest header's parent, unknown only
   for the first header after a start point. *)
ParentInv ==
  /\ best # NoBlock => tipParent = Parent[best] \/ (tipParent = NoBlock /\ Len(locator) = 1)
  /\ batch.phase = "linking" /\ batch.hashes = <<>> =>
       batch.parent = batch.prev \/ (batch.parent = NoBlock /\ best = NoBlock)
  /\ batch.phase = "linking" /\ batch.hashes # <<>> =>
       /\ batch.parent = batch.prev
       /\ \/ batch.tipParent = Parent[batch.prev]
          \/ batch.tipParent = NoBlock /\ Len(batch.hashes) = 1 /\ best = NoBlock

(* `history` has s, newest first, at the heights from n down, where it has
   anything at all. *)
Agrees(s, n) ==
  \A k \in 1..Len(s) : n - k + 1 \in DOMAIN history => history[n - k + 1] = s[k]

(* What a message recorded so far agrees with it, as the ring does. *)
HistoryInv == Agrees(locator, bestHeight) /\ Agrees(batch.hashes, batch.height)

UndisturbedInv == ~OverlappingReset => HeightInv /\ ParentInv /\ HistoryInv

StoreInv == ChainInv /\ UndisturbedInv

LEMMA BaseHeightCorrect ==
  ASSUME StoreTypeOK, best # NoBlock => bestHeight = Height[best],
         best = NoBlock => bestHeight = 0, ExpectedPrev \in Block
  PROVE  BaseHeight = Height[ExpectedPrev]
<1>1. CASE best # NoBlock
  BY <1>1 DEF BaseHeight, ExpectedPrev
<1>2. CASE best = NoBlock /\ start # NoStart
  <2>1. start \in StartPoint
    BY <1>2 DEF StoreTypeOK
  <2>2. ExpectedPrev = start.hash /\ BaseHeight = start.height
    BY <1>2 DEF BaseHeight, ExpectedPrev
  <2> QED
    BY <2>1, <2>2, StartPointType
<1>3. CASE best = NoBlock /\ start = NoStart
  BY <1>3, BlockTreeAssumption DEF BaseHeight, ExpectedPrev
<1> QED
  BY <1>1, <1>2, <1>3

LEMMA OpenUndisturbed ==
  ASSUME StoreTypeOK, BatchChain, HeightInv, ParentInv, HistoryInv, OpenBatch
  PROVE  HeightInv' /\ ParentInv' /\ HistoryInv'
<1>1. /\ batch'.phase = "opened" /\ batch'.height = BaseHeight /\ batch'.hashes = <<>>
      /\ UNCHANGED <<chain, start, history>>
  BY DEF OpenBatch, NoBatch, BaseHeight
<1>2. HeightInv' /\ ParentInv'
  BY <1>1 DEF HeightInv, ParentInv, Taking, BaseHeight
<1>3. HistoryInv'
  BY <1>1 DEF HistoryInv, Agrees
<1> QED
  BY <1>2, <1>3

LEMMA LocateUndisturbed ==
  ASSUME ChainInv, HeightInv, ParentInv, HistoryInv, ReadExpectedPrev
  PROVE  HeightInv' /\ ParentInv' /\ HistoryInv'
<1>1. /\ batch.phase = "opened" /\ batch.hashes = <<>>
      /\ batch'.phase = "located" /\ batch'.prev = ExpectedPrev
      /\ batch'.height = batch.height /\ batch'.hashes = <<>>
      /\ UNCHANGED <<chain, start, history>>
  BY DEF ReadExpectedPrev, ChainInv, StoreTypeOK, BatchChain
<1>2. ExpectedPrev' = ExpectedPrev
  BY <1>1 DEF ExpectedPrev
<1>3. ExpectedPrev \in Block => batch.height = Height[ExpectedPrev]
  BY <1>1, BaseHeightCorrect DEF ChainInv, HeightInv
<1>4. best # NoBlock => batch.height = bestHeight
  BY <1>1 DEF HeightInv, BaseHeight
<1>5. HeightInv'
  BY <1>1, <1>2, <1>3, <1>4 DEF HeightInv, Taking, ChainInv, StoreTypeOK
<1>6. ParentInv'
  BY <1>1 DEF ParentInv
<1>7. HistoryInv'
  BY <1>1 DEF HistoryInv, Agrees
<1> QED
  BY <1>5, <1>6, <1>7

LEMMA ParentTimeUndisturbed ==
  ASSUME ChainInv, HeightInv, ParentInv, HistoryInv, ReadParentTime
  PROVE  HeightInv' /\ ParentInv' /\ HistoryInv'
<1>1. /\ batch.phase = "located" /\ batch.hashes = <<>> /\ batch.prev = ExpectedPrev
      /\ batch'.phase = "linking" /\ batch'.parent = KnownPrevTime
      /\ batch'.height = batch.height /\ batch'.hashes = <<>> /\ batch'.prev = batch.prev
      /\ UNCHANGED <<chain, start, history>>
  BY DEF ReadParentTime, ChainInv, StoreTypeOK, BatchChain, HeightInv
<1>2. HeightInv'
  BY <1>1 DEF HeightInv, Taking
<1>3. KnownPrevTime = ExpectedPrev \/ (KnownPrevTime = NoBlock /\ best = NoBlock)
  BY DEF KnownPrevTime, ExpectedPrev
<1>4. ParentInv'
  BY <1>1, <1>3 DEF ParentInv
<1>5. HistoryInv'
  BY <1>1 DEF HistoryInv, Agrees
<1> QED
  BY <1>2, <1>4, <1>5

(* Recording a block changes the map at its height only, or drops entries. *)
LEMMA RecordedAgrees ==
  ASSUME StoreTypeOK, NEW n \in Nat, NEW h \in Block, history' = Recorded(n, h),
         NEW k \in DOMAIN history'
  PROVE  IF k = n THEN history'[k] = h ELSE k \in DOMAIN history /\ history'[k] = history[k]
<1> DEFINE grown == [m \in DOMAIN history \cup {n} |-> IF m = n THEN h ELSE history[m]]
<1>1. Recorded(n, h) = grown
      \/ Recorded(n, h) = [m \in {j \in DOMAIN grown : j >= n - HistoryCap} |-> grown[m]]
  BY DEF Recorded
<1>2. k \in DOMAIN grown /\ history'[k] = grown[k]
  BY <1>1
<1> QED
  BY <1>2

LEMMA AcceptUndisturbed ==
  ASSUME ChainInv, HeightInv, ParentInv, HistoryInv, NEW h \in Block, AcceptHeader(h)
  PROVE  HeightInv' /\ ParentInv' /\ HistoryInv'
<1> DEFINE n == batch.height + 1
<1>1. /\ batch.phase = "linking" /\ Parent[h] = batch.prev
      /\ batch'.phase = "linking" /\ batch'.prev = h /\ batch'.height = n
      /\ batch'.parent = h /\ batch'.tipParent = batch.parent
      /\ batch'.hashes = <<h>> \o batch.hashes
      /\ history' = Recorded(n, h)
      /\ UNCHANGED <<chain, start>>
  BY DEF AcceptHeader, Links, ChainInv, StoreTypeOK
<1>2. /\ batch.hashes \in Seq(Block) /\ locator \in Seq(Block)
      /\ batch.height \in Nat /\ bestHeight \in Nat /\ n \in Nat
      /\ batch.prev \in Block \cup {NoBlock, NoSuchHash}
  BY DEF ChainInv, StoreTypeOK
<1>3. /\ batch'.hashes # <<>> /\ Len(batch'.hashes) = Len(batch.hashes) + 1
      /\ batch'.hashes[1] = h
      /\ \A k \in 2..Len(batch'.hashes) : /\ k - 1 \in 1..Len(batch.hashes)
                                          /\ batch'.hashes[k] = batch.hashes[k - 1]
      /\ Len(batch.hashes) \in Nat
  BY <1>1, <1>2
<1>4. batch.prev \in Block
  BY <1>1, BlockTreeAssumption DEF ChainInv, BatchChain, Taking
<1>5. HeightInv'
  <2>1. n = Height[h]
    BY <1>1, <1>4, ChildOnChain DEF HeightInv, Taking
  <2>2. best # NoBlock => n = bestHeight + Len(batch'.hashes)
    BY <1>1, <1>2, <1>3 DEF HeightInv, Taking
  <2> QED
    BY <1>1, <2>1, <2>2 DEF HeightInv
<1>6. ParentInv'
  <2>1. batch.hashes = <<>> => Len(batch'.hashes) = 1
    BY <1>3
  <2>2. \/ batch.parent = batch.prev
        \/ batch.parent = NoBlock /\ best = NoBlock /\ batch.hashes = <<>>
    BY <1>1 DEF ParentInv
  <2> QED
    BY <1>1, <1>3, <2>1, <2>2 DEF ParentInv
<1>7. HistoryInv'
  <2>1. ASSUME NEW k \in 1..Len(locator), bestHeight - k + 1 \in DOMAIN history'
        PROVE  history'[bestHeight - k + 1] = locator[k]
    <3>1. locator # <<>> /\ best # NoBlock
      BY <1>2, <2>1 DEF ChainInv, LocatorIsChain
    <3>2. bestHeight - k + 1 # n
      BY <1>1, <1>2, <1>3, <2>1, <3>1 DEF HeightInv, Taking
    <3>3. /\ bestHeight - k + 1 \in DOMAIN history
          /\ history'[bestHeight - k + 1] = history[bestHeight - k + 1]
      BY <1>1, <1>2, <2>1, <3>2, RecordedAgrees DEF ChainInv
    <3> QED
      BY <2>1, <3>3 DEF HistoryInv, Agrees
  <2>2. ASSUME NEW k \in 1..Len(batch'.hashes), n - k + 1 \in DOMAIN history'
        PROVE  history'[n - k + 1] = batch'.hashes[k]
    <3>1. CASE k = 1
      <4>1. n - k + 1 = n
        BY <1>2, <3>1
      <4> QED
        BY <1>1, <1>2, <1>3, <2>2, <3>1, <4>1, RecordedAgrees DEF ChainInv
    <3>2. CASE k # 1
      <4>0. k \in 2..Len(batch'.hashes)
        BY <3>2
      <4>1. k \in Int /\ n - k + 1 # n /\ n - k + 1 = batch.height - (k - 1) + 1
        BY <1>2, <4>0
      <4>2. n - k + 1 \in DOMAIN history /\ history'[n - k + 1] = history[n - k + 1]
        BY <1>1, <1>2, <2>2, <4>1, RecordedAgrees DEF ChainInv
      <4> QED
        BY <1>3, <2>2, <4>0, <4>1, <4>2 DEF HistoryInv, Agrees
    <3> QED
      BY <3>1, <3>2
  <2> QED
    BY <1>1, <2>1, <2>2 DEF HistoryInv, Agrees
<1> QED
  BY <1>5, <1>6, <1>7

LEMMA CommitUndisturbed ==
  ASSUME ChainInv, HeightInv, ParentInv, HistoryInv, CommitBatch
  PROVE  HeightInv' /\ ParentInv' /\ HistoryInv'
<1> DEFINE ring == batch.hashes \o locator
           n == IF Len(ring) > LocatorKeep THEN LocatorKeep ELSE Len(ring)
<1>1. /\ batch.phase = "linking" /\ batch.hashes # <<>>
      /\ best' = batch.prev /\ bestHeight' = batch.height
      /\ tipParent' = batch.tipParent
      /\ locator' = SubSeq(ring, 1, n)
      /\ batch'.phase = "none" /\ batch'.hashes = <<>>
      /\ UNCHANGED <<start, history>>
  BY DEF CommitBatch, NoBatch
<1>2. /\ batch.hashes \in Seq(Block) /\ locator \in Seq(Block)
      /\ batch.height \in Nat /\ bestHeight \in Nat
      /\ batch.prev \in Block
  BY <1>1 DEF ChainInv, StoreTypeOK, BatchChain
<1>3. /\ Len(ring) = Len(batch.hashes) + Len(locator)
      /\ Len(batch.hashes) \in Nat \ {0} /\ Len(locator) \in Nat
      /\ n \in 1..Len(ring)
  BY <1>1, <1>2, HeaderStoreAssumption
<1>4. Len(locator') = n /\ \A k \in 1..n : locator'[k] = ring[k]
  <2> ring \in Seq(Block)
    BY <1>2
  <2> HIDE DEF ring, n
  <2> QED
    BY <1>1, <1>3
<1>5. best = NoBlock => locator = <<>>
  BY DEF ChainInv, LocatorIsChain
<1>6. HeightInv'
  BY <1>1, <1>2, BlockTreeAssumption DEF HeightInv, Taking
<1>7. ParentInv'
  <2>1. CASE batch.tipParent = Parent[batch.prev]
    BY <1>1, <2>1 DEF ParentInv
  <2>2. CASE batch.tipParent = NoBlock /\ Len(batch.hashes) = 1 /\ best = NoBlock
    <3>1. Len(ring) = 1
      BY <1>3, <1>5, <2>2
    <3>2. Len(locator') = 1
      BY <1>3, <1>4, <3>1
    <3> QED
      BY <1>1, <2>2, <3>2 DEF ParentInv
  <2> QED
    BY <1>1, <2>1, <2>2 DEF ParentInv
<1>8. HistoryInv'
  <2>1. ASSUME NEW k \in 1..n, batch.height - k + 1 \in DOMAIN history
        PROVE  history[batch.height - k + 1] = ring[k]
    <3>1. CASE k <= Len(batch.hashes)
      <4>1. k \in 1..Len(batch.hashes) /\ ring[k] = batch.hashes[k]
        BY <1>2, <1>3, <3>1
      <4> QED
        BY <2>1, <4>1 DEF HistoryInv, Agrees
    <3>2. CASE k > Len(batch.hashes)
      <4>1. /\ k - Len(batch.hashes) \in 1..Len(locator)
            /\ ring[k] = locator[k - Len(batch.hashes)]
        BY <1>2, <1>3, <3>2
      <4>2. best # NoBlock
        BY <1>2, <1>5, <4>1
      <4>3. batch.height = bestHeight + Len(batch.hashes)
        BY <1>1, <4>2 DEF HeightInv, Taking
      <4>4. batch.height - k + 1 = bestHeight - (k - Len(batch.hashes)) + 1
        BY <1>2, <1>3, <4>3
      <4> QED
        BY <2>1, <4>1, <4>4 DEF HistoryInv, Agrees
    <3> QED
      BY <1>3, <3>1, <3>2
  <2> HIDE DEF ring, n
  <2>2. Agrees(locator, bestHeight)'
    BY <1>1, <1>4, <2>1 DEF Agrees
  <2>3. Agrees(batch.hashes, batch.height)'
    BY <1>1 DEF Agrees
  <2> QED
    BY <2>2, <2>3 DEF HistoryInv
<1> QED
  BY <1>6, <1>7, <1>8

LEMMA IdleUndisturbed ==
  ASSUME ChainInv, HeightInv, ParentInv, HistoryInv, batch'.phase = "none", batch'.hashes = <<>>
  PROVE  /\ Fresh => HeightInv' /\ ParentInv' /\ HistoryInv'
         /\ UNCHANGED <<best, bestHeight, tipParent, locator, history>>
              => HeightInv' /\ ParentInv' /\ HistoryInv'
<1>1. ASSUME Fresh PROVE HeightInv' /\ ParentInv' /\ HistoryInv'
  BY <1>1 DEF Fresh, HeightInv, ParentInv, HistoryInv, Agrees, Taking
<1>2. ASSUME UNCHANGED <<best, bestHeight, tipParent, locator, history>>
      PROVE  HeightInv' /\ ParentInv' /\ HistoryInv'
  BY <1>2 DEF HeightInv, ParentInv, HistoryInv, Agrees, Taking
<1> QED
  BY <1>1, <1>2

LEMMA UndisturbedStep ==
  ASSUME ChainInv, ~OverlappingReset, HeightInv, ParentInv, HistoryInv, [StoreNext]_storeVars
  PROVE  HeightInv' /\ ParentInv' /\ HistoryInv'
<1>1. CASE OpenBatch
  BY <1>1, OpenUndisturbed DEF ChainInv
<1>2. CASE ReadExpectedPrev
  BY <1>2, LocateUndisturbed
<1>3. CASE ReadParentTime
  BY <1>3, ParentTimeUndisturbed
<1>4. CASE CommitBatch
  BY <1>4, CommitUndisturbed
<1>5. ASSUME NEW h \in Block, AcceptHeader(h) PROVE HeightInv' /\ ParentInv' /\ HistoryInv'
  BY <1>5, AcceptUndisturbed
<1>6. ASSUME NEW h \in Block \cup {Garbled}, RejectHeader(h)
      PROVE  HeightInv' /\ ParentInv' /\ HistoryInv'
  BY <1>6, IdleUndisturbed DEF RejectHeader, NoBatch
<1>7. MayReset /\ batch' = batch => batch'.phase = "none" /\ batch'.hashes = <<>>
  BY DEF MayReset, ChainInv, BatchChain
<1>8. CASE ClearSyncState \/ StartFromGenesis \/ NewClient
  BY <1>7, <1>8, IdleUndisturbed DEF ClearSyncState, StartFromGenesis, NewClient, NoBatch
<1>9. ASSUME NEW s \in StartPoint, StartFrom(s) PROVE HeightInv' /\ ParentInv' /\ HistoryInv'
  BY <1>7, <1>9, IdleUndisturbed DEF StartFrom
<1>10. ASSUME NEW b \in Block, NEW bits \in Bit, Resume(PointOf(b), bits)
       PROVE  HeightInv' /\ ParentInv' /\ HistoryInv'
  BY <1>7, <1>10, IdleUndisturbed DEF Resume
<1>11. CASE UNCHANGED storeVars
  BY <1>11 DEF HeightInv, ParentInv, HistoryInv, Agrees, Taking, BaseHeight, ExpectedPrev
<1> QED
  BY <1>1, <1>2, <1>3, <1>4, <1>5, <1>6, <1>8, <1>9, <1>10, <1>11 DEF StoreNext, Bit

LEMMA StoreInvInductive ==
  /\ StoreInit => StoreInv
  /\ StoreInv /\ [StoreNext]_storeVars => StoreInv'
<1>1. StoreInit => StoreInv
  BY ChainInit DEF StoreInit, StoreInv, UndisturbedInv, NoBatch,
     HeightInv, ParentInv, HistoryInv, Agrees, Taking
<1>2. StoreInv /\ [StoreNext]_storeVars => StoreInv'
  BY ChainStep, UndisturbedStep DEF StoreInv, UndisturbedInv
<1> QED
  BY <1>1, <1>2

(* The height the miner builds on is its tip's. *)
THEOREM TipHeightAlwaysCorrect == StoreSpec => []TipHeightCorrect
<1>1. StoreInv => TipHeightCorrect
  BY DEF StoreInv, UndisturbedInv, HeightInv, TipHeightCorrect
<1> QED
  BY <1>1, StoreInvInductive, PTL DEF StoreSpec

(* The parent time DigiShield is fed is that of the tip's parent. *)
THEOREM TipParentAlwaysCorrect == StoreSpec => []TipParentCorrect
<1>1. StoreInv => TipParentCorrect
  BY DEF StoreInv, UndisturbedInv, ParentInv, TipParentCorrect
<1> QED
  BY <1>1, StoreInvInductive, PTL DEF StoreSpec

(* The height -> hash map never contradicts the newest blocks of the chain. *)
THEOREM HistoryAlwaysAgrees == StoreSpec => []HistoryAgreesWithLocator
<1>1. StoreInv => HistoryAgreesWithLocator
  BY DEF StoreInv, UndisturbedInv, HistoryInv, Agrees, HistoryAgreesWithLocator
<1> QED
  BY <1>1, StoreInvInductive, PTL DEF StoreSpec
=============================================================================
