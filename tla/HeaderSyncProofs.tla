--------------------------- MODULE HeaderSyncProofs ---------------------------
(* Proofs about HeaderSync: the goroutines change the chain state only as      *)
(* HeaderStore says, so that its theorems hold of them, the tip file stays on  *)
(* the tip's chain, and what peers are asked and answer is made of hashes and  *)
(* headers.  For every tree, table, bound and cap.                             *)
EXTENDS HeaderSync, HeaderStoreProofs, SequenceTheorems, WellFoundedInduction

USE DEF chain, storeVars, network, wire, lock, miner, syncVars

-----------------------------------------------------------------------------
(* The inductive invariant. *)

(* What a resume puts into the store has come from the store: the tip file
   holds a block and a difficulty that was seen. *)
FileInv ==
  /\ config \in Checkpoints \cup {NoCheckpoint}
  /\ lastNonMin \in Bit /\ batch.carry \in Bit
  /\ saved # NoTipFile => saved.point \in {PointOf(b) : b \in Block} /\ saved.bits \in Bit
  /\ loop = "save" => held \in Block

(* Who may hold the lock while the mining loop is where it is: a message is
   taken in without a tip only by the initialisation itself, and nothing is
   reset while one is taken in. *)
ControlInv ==
  /\ io = "free" <=> step = "idle"
  /\ step = "take" <=> batch.phase # "none"
  /\ io \in {"free", "init", "refresh", "bg", "switch"}
  /\ io = "init" => loop = "try" /\ outcome = "none"
  /\ io \in {"refresh", "bg", "switch"} => loop \in {"run", "save"}
  /\ bg => loop \in {"run", "save"}
  /\ loop \in {"run", "save"} => best # NoBlock
  /\ step = "probe" => io = "bg"
  /\ force => loop = "start" /\ saved = NoTipFile

(* Block b is on the tip's chain, and will be after the message in progress. *)
Below(b) ==
  /\ best # NoBlock => b \in Ancestors[best]
  /\ Taking => b \in Ancestors[batch.prev]

(* The saved block is below the tip, or a first tip is being built on it. *)
SavedInv ==
  config = NoCheckpoint /\ saved # NoTipFile =>
    /\ Below(saved.point.hash)
    /\ best = NoBlock /\ loop = "try" => start = saved.point

(* So is the tip header the mining loop is about to save. *)
HeldInv == loop = "save" => Below(held)

SyncInv == ChainInv /\ FileInv /\ ControlInv /\ SavedInv /\ HeldInv

-----------------------------------------------------------------------------
(* Every step is a step of the store, or leaves it alone. *)

(* Steps that do not touch the chain state at all. *)
QuietStep ==
  \/ NetworkExtends \/ NetworkReorganises \/ PeerFollows \/ PeerAnswers \/ PeerDrops
  \/ \E who \in {"init", "refresh", "bg"} : Acquire(who)
  \/ Connect \/ ConnectFails \/ Throttled \/ SendGetHeaders \/ ReadEmpty \/ ReadFails
  \/ ProbeKeeps \/ ProbeSwitches
  \/ InitDone \/ InitEmpty \/ InitLost \/ InitFailed \/ InitGarbled \/ HoldTip \/ SaveTip

LEMMA SyncCases ==
  SyncNext =>
    \/ QuietStep \/ ReadHeaders \/ PrepareBatch \/ TakeHeader \/ RefuseHeader
    \/ FinishMessage \/ ChooseStart \/ InitUnlinked \/ InitRecover \/ Crash
  BY DEF SyncNext, PeerStep, HolderStep, LoopStep, QuietStep

LEMMA QuietLeavesStore == QuietStep => UNCHANGED storeVars
  BY DEF QuietStep, NetworkExtends, NetworkReorganises, PeerFollows, PeerAnswers, PeerDrops,
         Acquire, Connect, ConnectFails, Throttled, SendGetHeaders, ReadEmpty, ReadFails,
         ProbeKeeps, ProbeSwitches, InitDone, InitEmpty, InitLost, InitFailed, InitGarbled,
         HoldTip, SaveTip

(* A header that does not link is refused as one that does not parse is. *)
LEMMA RefusedAsGarbled == \A h : RejectHeader(h) => RejectHeader(Garbled)
  BY HeaderStoreAssumption DEF RejectHeader, Links

LEMMA CheckpointStarts ==
  \A c \in Checkpoints : CheckpointPoint(c) \in StartPoint
  BY DEF StartPoint

LEMMA SyncStepsStore ==
  ASSUME FileInv, [SyncNext]_syncVars
  PROVE  [StoreNext]_storeVars
<1>1. CASE QuietStep
  BY <1>1, QuietLeavesStore
<1>2. CASE ReadHeaders
  BY <1>2 DEF ReadHeaders, StoreNext
<1>3. CASE PrepareBatch
  BY <1>3 DEF PrepareBatch, StoreNext
<1>4. CASE TakeHeader
  <2>1. AcceptHeader(Head(incoming)) /\ Head(incoming) \in Block
    BY <1>4 DEF TakeHeader, AcceptHeader, Links
  <2> QED
    BY <2>1 DEF StoreNext
<1>5. CASE RefuseHeader
  BY <1>5, RefusedAsGarbled DEF RefuseHeader, StoreNext
<1>6. CASE FinishMessage
  BY <1>6 DEF FinishMessage, StoreNext
<1>7. CASE ChooseStart
  <2>1. ASSUME config # NoCheckpoint, StartFrom(CheckpointPoint(config)) PROVE StoreNext
    BY <2>1, CheckpointStarts DEF FileInv, StoreNext
  <2>2. ASSUME saved # NoTipFile, Resume(saved.point, saved.bits) PROVE StoreNext
    <3>1. PICK b \in Block : saved.point = PointOf(b)
      BY <2>2 DEF FileInv
    <3>2. saved.bits \in Bit /\ Resume(PointOf(b), saved.bits)
      BY <2>2, <3>1 DEF FileInv
    <3> QED
      BY <3>2 DEF StoreNext, Bit
  <2> QED
    BY <1>7, <2>1, <2>2 DEF ChooseStart, StoreNext
<1>8. CASE InitUnlinked
  BY <1>8 DEF InitUnlinked, StoreNext
<1>9. CASE InitRecover
  <2>1. ASSUME config # NoCheckpoint, StartFrom(CheckpointPoint(config)) PROVE StoreNext
    BY <2>1, CheckpointStarts DEF FileInv, StoreNext
  <2> QED
    BY <1>9, <2>1 DEF InitRecover, StoreNext
<1>10. CASE Crash
  BY <1>10 DEF Crash, StoreNext
<1>11. CASE UNCHANGED syncVars
  BY <1>11
<1> QED
  BY <1>1, <1>2, <1>3, <1>4, <1>5, <1>6, <1>7, <1>8, <1>9, <1>10, <1>11, SyncCases

(* What quiet steps leave alone, besides. *)
LEMMA QuietFrame ==
  QuietStep =>
    \/ HoldTip \/ SaveTip
    \/ /\ UNCHANGED <<config, held, saved, force>>
       /\ loop' \in {loop, "start"} \/ (loop' = "run" /\ best # NoBlock)
  BY DEF QuietStep, NetworkExtends, NetworkReorganises, PeerFollows, PeerAnswers, PeerDrops,
         Acquire, Connect, ConnectFails, Throttled, SendGetHeaders, ReadEmpty, ReadFails,
         ProbeKeeps, ProbeSwitches, InitDone, InitEmpty, InitLost, InitFailed, InitGarbled,
         Return

-----------------------------------------------------------------------------
(* The control invariant. *)

LEMMA QuietControl ==
  ASSUME ControlInv, QuietStep
  PROVE  ControlInv'
<1> USE QuietLeavesStore DEF ControlInv
<1>1. CASE NetworkExtends \/ NetworkReorganises \/ PeerFollows \/ PeerAnswers \/ PeerDrops
  <2>1. UNCHANGED <<storeVars, lock, miner>>
    BY <1>1 DEF NetworkExtends, NetworkReorganises, PeerFollows, PeerAnswers, PeerDrops
  <2> QED
    BY <2>1
<1>2. ASSUME NEW who \in {"init", "refresh", "bg"}, Acquire(who) PROVE ControlInv'
  BY <1>2 DEF Acquire, Wants
<1>3. CASE Connect \/ SendGetHeaders \/ ProbeKeeps \/ ProbeSwitches
  BY <1>3 DEF Connect, SendGetHeaders, ProbeKeeps, ProbeSwitches
<1>4. CASE ConnectFails \/ Throttled \/ ReadEmpty \/ ReadFails
  BY <1>4 DEF ConnectFails, Throttled, ReadEmpty, ReadFails, Return
<1>5. CASE InitDone \/ InitEmpty \/ InitLost \/ InitFailed \/ InitGarbled
  BY <1>5 DEF InitDone, InitEmpty, InitLost, InitFailed, InitGarbled, Tried
<1>6. CASE HoldTip
  BY <1>6 DEF HoldTip
<1>7. CASE SaveTip
  BY <1>7 DEF SaveTip
<1> QED
  BY <1>1, <1>2, <1>3, <1>4, <1>5, <1>6, <1>7 DEF QuietStep

LEMMA ControlStep ==
  ASSUME SyncInv, [SyncNext]_syncVars
  PROVE  ControlInv'
<1> USE DEF SyncInv, ControlInv
<1>1. CASE QuietStep
  BY <1>1, QuietControl
<1>2. CASE ReadHeaders
  BY <1>2 DEF ReadHeaders, OpenBatch, NoBatch
<1>3. CASE PrepareBatch
  BY <1>3 DEF PrepareBatch, ReadExpectedPrev, ReadParentTime, ChainInv, StoreTypeOK
<1>4. CASE TakeHeader
  BY <1>4 DEF TakeHeader, AcceptHeader, ChainInv, StoreTypeOK
<1>5. CASE RefuseHeader
  BY <1>5 DEF RefuseHeader, RejectHeader, NoBatch, Return
<1>6. CASE FinishMessage
  <2>1. best' \in Block /\ best' # NoBlock
    BY <1>6, CommitBatchType, BlockTreeAssumption DEF FinishMessage, ChainInv
  <2> QED
    BY <1>6, <2>1 DEF FinishMessage, CommitBatch, NoBatch, Return
<1>7. CASE ChooseStart
  BY <1>7 DEF ChooseStart, StartFromGenesis, StartFrom, Resume, NoTipFile
<1>8. CASE InitUnlinked
  BY <1>8 DEF InitUnlinked, ClearSyncState, Tried
<1>9. CASE InitRecover
  BY <1>9 DEF InitRecover, StartFrom, StartFromGenesis
<1>10. CASE Crash
  BY <1>10 DEF Crash, NewClient, NoBatch
<1>11. CASE UNCHANGED syncVars
  BY <1>11
<1> QED
  BY <1>1, <1>2, <1>3, <1>4, <1>5, <1>6, <1>7, <1>8, <1>9, <1>10, <1>11, SyncCases

-----------------------------------------------------------------------------
(* The file invariant. *)

LEMMA ZeroIsBit == 0 \in Bit
  BY DEF Bit

LEMMA FileStep ==
  ASSUME SyncInv, [SyncNext]_syncVars
  PROVE  FileInv'
<1> USE ZeroIsBit DEF SyncInv, FileInv
<1>1. CASE QuietStep
  <2>1. CASE HoldTip
    BY <2>1 DEF HoldTip, ChainInv, StoreTypeOK
  <2>2. CASE SaveTip
    BY <2>2 DEF SaveTip
  <2> QED
    BY <1>1, <2>1, <2>2, QuietFrame, QuietLeavesStore
<1>2. CASE ReadHeaders
  BY <1>2 DEF ReadHeaders, OpenBatch, NoBatch
<1>3. CASE PrepareBatch
  BY <1>3 DEF PrepareBatch, ReadExpectedPrev, ReadParentTime, ChainInv, StoreTypeOK
<1>4. CASE TakeHeader
  <2>1. Head(incoming) \in Block /\ Bits[Head(incoming)] \in Bit
    BY <1>4 DEF TakeHeader, AcceptHeader, Links, Bit
  <2> QED
    BY <1>4, <2>1 DEF TakeHeader, AcceptHeader, ChainInv, StoreTypeOK
<1>5. CASE RefuseHeader
  BY <1>5 DEF RefuseHeader, RejectHeader, NoBatch, Return
<1>6. CASE FinishMessage
  BY <1>6 DEF FinishMessage, CommitBatch, NoBatch, Return
<1>7. CASE ChooseStart
  BY <1>7 DEF ChooseStart, StartFromGenesis, StartFrom, Resume, Fresh
<1>8. CASE InitUnlinked
  BY <1>8 DEF InitUnlinked, ClearSyncState, Fresh
<1>9. CASE InitRecover
  BY <1>9 DEF InitRecover, StartFrom, StartFromGenesis, Fresh
<1>10. CASE Crash
  BY <1>10 DEF Crash, NewClient, Fresh, NoBatch
<1>11. CASE UNCHANGED syncVars
  BY <1>11
<1> QED
  BY <1>1, <1>2, <1>3, <1>4, <1>5, <1>6, <1>7, <1>8, <1>9, <1>10, <1>11, SyncCases

-----------------------------------------------------------------------------
(* The saved block and the held header stay below the tip. *)

(* The operations of the store that continue the tip: what was below stays
   below, and a block the first tip is built on comes to be below it. *)
LEMMA ReadKeepsBelow ==
  ASSUME ChainInv, NEW b \in Block, Below(b), ReadExpectedPrev \/ ReadParentTime,
         best = NoBlock /\ ReadExpectedPrev => start = PointOf(b)
  PROVE  Below(b)'
<1>1. CASE ReadExpectedPrev
  <2>1. best = NoBlock => start = PointOf(b) /\ start # NoStart /\ start.hash = b
    BY <1>1, BlockTreeAssumption DEF PointOf, NoStart
  <2>2. b \in Ancestors[ExpectedPrev]
    BY <2>1, SelfOnChain DEF Below, ExpectedPrev
  <2>3. batch'.prev = ExpectedPrev /\ best' = best
    BY <1>1 DEF ReadExpectedPrev, ChainInv, StoreTypeOK
  <2> QED
    BY <2>2, <2>3 DEF Below
<1>2. CASE ReadParentTime
  BY <1>2 DEF ReadParentTime, Below, Taking, ChainInv, StoreTypeOK
<1> QED
  BY <1>1, <1>2

LEMMA AcceptKeepsBelow ==
  ASSUME ChainInv, NEW b \in Block, Below(b), NEW h \in Block, AcceptHeader(h)
  PROVE  Below(b)'
<1>1. Parent[h] = batch.prev /\ Parent[h] \in Block /\ b \in Ancestors[batch.prev]
  BY BlockTreeAssumption
  DEF AcceptHeader, Links, Below, Taking, ChainInv, BatchChain
<1>2. b \in Ancestors[h]
  BY <1>1, ChildOnChain
<1> QED
  BY <1>2 DEF AcceptHeader, Below, ChainInv, StoreTypeOK

LEMMA CommitKeepsBelow ==
  ASSUME NEW b \in Block, Below(b), CommitBatch
  PROVE  Below(b)'
  BY DEF Below, Taking, CommitBatch, NoBatch

(* A batch that only opens, or is dropped, and a start point, leave it below. *)
LEMMA IdleKeepsBelow ==
  ASSUME NEW b \in Block, Below(b), best' = best,
         batch' = batch \/ batch'.phase \in {"none", "opened"}
  PROVE  Below(b)'
  BY DEF Below, Taking

LEMMA ResetLeavesNothingAbove ==
  ASSUME NEW b, best' = NoBlock, batch'.phase = "none"
  PROVE  Below(b)'
  BY DEF Below, Taking

(* The header held is saved from where the mining loop runs: with a tip. *)
LEMMA HeldStep ==
  ASSUME SyncInv, [SyncNext]_syncVars
  PROVE  HeldInv'
<1> USE DEF SyncInv, HeldInv
<1>1. CASE HoldTip
  <2>1. best \in Block /\ best \in Ancestors[best]
    BY <1>1, SelfOnChain DEF HoldTip, ChainInv, StoreTypeOK
  <2> QED
    BY <1>1, <2>1 DEF HoldTip, Below, Taking, ChainInv, BatchExtendsTip
<1>2. CASE SaveTip
  BY <1>2 DEF SaveTip
<1>3. CASE QuietStep /\ ~HoldTip /\ ~SaveTip
  <2>1. UNCHANGED <<storeVars, held>> /\ loop' \in {loop, "start", "run"}
    BY <1>3, QuietFrame, QuietLeavesStore
  <2> QED
    BY <2>1 DEF Below, Taking
<1> SUFFICES ASSUME loop' = "save", ~QuietStep PROVE Below(held)'
  BY <1>1, <1>2, <1>3
<1>4. ASSUME loop = "save", held' = held
      PROVE  held' = held /\ held \in Block /\ Below(held) /\ best # NoBlock
  BY <1>4 DEF FileInv, ControlInv
<1>5. CASE ReadHeaders
  <2>1. loop = "save" /\ held' = held /\ best' = best /\ batch'.phase = "opened"
    BY <1>5 DEF ReadHeaders, OpenBatch, NoBatch
  <2> QED
    BY <1>4, <2>1, IdleKeepsBelow DEF Below
<1>6. CASE PrepareBatch
  <2>1. loop = "save" /\ held' = held /\ (ReadExpectedPrev \/ ReadParentTime)
    BY <1>6 DEF PrepareBatch
  <2> QED
    BY <1>4, <2>1, ReadKeepsBelow DEF Below
<1>7. CASE TakeHeader
  <2>1. loop = "save" /\ held' = held /\ AcceptHeader(Head(incoming)) /\ Head(incoming) \in Block
    BY <1>7 DEF TakeHeader, AcceptHeader, Links
  <2> QED
    BY <1>4, <2>1, AcceptKeepsBelow DEF Below
<1>8. CASE RefuseHeader
  <2>1. loop = "save" /\ held' = held /\ best' = best /\ batch'.phase = "none"
    BY <1>8 DEF RefuseHeader, RejectHeader, NoBatch, Return
  <2> QED
    BY <1>4, <2>1, IdleKeepsBelow DEF Below
<1>9. CASE FinishMessage
  <2>1. loop = "save" /\ held' = held /\ CommitBatch
    BY <1>9 DEF FinishMessage, Return
  <2> QED
    BY <1>4, <2>1, CommitKeepsBelow DEF Below
<1>10. CASE ChooseStart \/ InitUnlinked \/ InitRecover \/ Crash
  BY <1>10 DEF ChooseStart, InitUnlinked, InitRecover, Crash
<1>11. CASE UNCHANGED syncVars
  BY <1>11 DEF Below, Taking
<1> QED
  BY <1>5, <1>6, <1>7, <1>8, <1>9, <1>10, <1>11, SyncCases

LEMMA SavedStep ==
  ASSUME SyncInv, [SyncNext]_syncVars
  PROVE  SavedInv'
<1> USE DEF SyncInv
<1> SUFFICES ASSUME config' = NoCheckpoint, saved' # NoTipFile
             PROVE  /\ Below(saved.point.hash)'
                    /\ best' = NoBlock /\ loop' = "try" => start' = saved'.point
  BY DEF SavedInv
<1>1. CASE SaveTip
  <2>1. loop = "save" /\ loop' = "run" /\ UNCHANGED storeVars /\ config = NoCheckpoint
    BY <1>1 DEF SaveTip
  <2>2. CASE saved' = saved
    BY <2>1, <2>2 DEF SavedInv, Below, Taking
  <2>3. CASE saved'.point = PointOf(held)
    BY <2>1, <2>3 DEF PointOf, HeldInv, Below, Taking
  <2> QED
    BY <1>1, <2>1, <2>2, <2>3 DEF SaveTip
<1>2. CASE QuietStep /\ ~SaveTip
  <2>1. UNCHANGED <<storeVars, config, saved>> /\ (loop' = "try" => loop = "try")
    BY <1>2, QuietFrame, QuietLeavesStore DEF HoldTip
  <2> QED
    BY <2>1 DEF SavedInv, Below, Taking
<1>3. ASSUME config = NoCheckpoint, saved # NoTipFile
      PROVE  \E b \in Block :
               /\ saved.point = PointOf(b) /\ saved.point.hash = b /\ Below(b)
               /\ best = NoBlock /\ loop = "try" => start = PointOf(b)
  BY <1>3 DEF FileInv, SavedInv, PointOf
(* A message is taken in: by the initialisation, or on a tip. *)
<1>4. ASSUME UNCHANGED <<config, saved, start, loop>>, best' = best \/ best' # NoBlock,
             \A b \in Block :
               Below(b) /\ (best = NoBlock /\ loop = "try" => start = PointOf(b)) => Below(b)'
      PROVE  /\ Below(saved.point.hash)'
             /\ best' = NoBlock /\ loop' = "try" => start' = saved'.point
  <2>1. PICK b \in Block :
               /\ saved.point = PointOf(b) /\ saved.point.hash = b /\ Below(b)
               /\ best = NoBlock /\ loop = "try" => start = PointOf(b)
    BY <1>3, <1>4
  <2> QED
    BY <1>4, <2>1 DEF Below
<1>5. CASE ReadHeaders
  <2>1. UNCHANGED <<config, saved, start, loop, best>> /\ batch'.phase = "opened"
    BY <1>5 DEF ReadHeaders, OpenBatch, NoBatch
  <2> QED
    BY <1>4, <2>1, IdleKeepsBelow
<1>6. CASE PrepareBatch
  <2>1. /\ UNCHANGED <<config, saved, start, loop, best>>
        /\ ReadExpectedPrev \/ ReadParentTime
    BY <1>6 DEF PrepareBatch, ReadExpectedPrev, ReadParentTime
  <2>2. best = NoBlock => loop = "try"
    BY <1>6 DEF PrepareBatch, ReadExpectedPrev, ReadParentTime, ControlInv
  <2> QED
    BY <1>4, <2>1, <2>2, ReadKeepsBelow
<1>7. CASE TakeHeader
  <2>1. /\ UNCHANGED <<config, saved, start, loop, best>>
        /\ AcceptHeader(Head(incoming)) /\ Head(incoming) \in Block
    BY <1>7 DEF TakeHeader, AcceptHeader, Links
  <2> QED
    BY <1>4, <2>1, AcceptKeepsBelow
<1>8. CASE RefuseHeader
  <2>1. UNCHANGED <<config, saved, start, loop, best>> /\ batch'.phase = "none"
    BY <1>8 DEF RefuseHeader, RejectHeader, NoBatch, Return
  <2> QED
    BY <1>4, <2>1, IdleKeepsBelow
<1>9. CASE FinishMessage
  <2>1. /\ UNCHANGED <<config, saved, start, loop>> /\ CommitBatch
        /\ best' # NoBlock
    BY <1>9, CommitBatchType, BlockTreeAssumption DEF FinishMessage, CommitBatch, Return, ChainInv
  <2> QED
    BY <1>4, <2>1, CommitKeepsBelow
<1>10. CASE ChooseStart
  <2>1. /\ config = NoCheckpoint /\ saved # NoTipFile /\ saved' = saved
        /\ Resume(saved.point, saved.bits)
    BY <1>10 DEF ChooseStart
  <2>2. start' = saved.point /\ UNCHANGED <<best, batch>>
    BY <2>1 DEF Resume
  <2> QED
    BY <2>1, <2>2 DEF SavedInv, Below, Taking
<1>11. CASE InitUnlinked
  <2>1. best' = NoBlock /\ loop' = "recover" /\ batch' = batch /\ loop = "try" /\ outcome # "none"
    BY <1>11 DEF InitUnlinked, ClearSyncState, Fresh, Tried
  <2>2. batch.phase = "none"
    BY <2>1 DEF ControlInv
  <2> QED
    BY <2>1, <2>2, ResetLeavesNothingAbove DEF Below, Taking
<1>12. CASE InitRecover
  BY <1>12 DEF InitRecover
<1>13. CASE Crash
  BY <1>13 DEF Crash, NewClient, Fresh, NoBatch, Below, Taking
<1>14. CASE UNCHANGED syncVars
  BY <1>14 DEF SavedInv, Below, Taking
<1> QED
  BY <1>1, <1>2, <1>5, <1>6, <1>7, <1>8, <1>9, <1>10, <1>11, <1>12, <1>13, <1>14, SyncCases

-----------------------------------------------------------------------------
LEMMA SyncInvInit == SyncInit => SyncInv
<1> SUFFICES ASSUME SyncInit PROVE SyncInv
  OBVIOUS
<1>1. ChainInv
  BY ChainInit DEF SyncInit
<1>2. FileInv
  BY DEF SyncInit, StoreInit, FileInv, NoBatch, Bit
<1>3. ControlInv
  BY DEF SyncInit, StoreInit, ControlInv, NoBatch
<1>4. SavedInv /\ HeldInv
  BY DEF SyncInit, SavedInv, HeldInv
<1> QED
  BY <1>1, <1>2, <1>3, <1>4 DEF SyncInv

LEMMA SyncInvStep == SyncInv /\ [SyncNext]_syncVars => SyncInv'
<1> SUFFICES ASSUME SyncInv, [SyncNext]_syncVars PROVE SyncInv'
  OBVIOUS
<1>1. [StoreNext]_storeVars
  BY SyncStepsStore DEF SyncInv
<1>2. ChainInv'
  BY <1>1, ChainStep DEF SyncInv
<1> QED
  BY <1>2, FileStep, ControlStep, SavedStep, HeldStep DEF SyncInv

(* The mining loop, the background loop, the refreshes, a kill and a restart
   change the chain state only by the operations of HeaderStore, at moments at
   which HeaderStore allows them: its theorems hold of the whole program. *)
THEOREM SyncImplementsStore == SyncSpec => StoreSpec
<1>1. SyncInit => StoreInit
  BY DEF SyncInit
<1>2. SyncInv /\ [SyncNext]_syncVars => [StoreNext]_storeVars
  BY SyncStepsStore DEF SyncInv
<1> QED
  BY <1>1, <1>2, SyncInvInit, SyncInvStep, PTL DEF SyncSpec, StoreSpec

(* Whatever the goroutines and peers do, the tip, its height, the parent time,
   the locator and the recent history the miner mines from describe one chain. *)
THEOREM SyncKeepsOneChain ==
  SyncSpec => [](LocatorIsChain /\ TipHeightCorrect /\ TipParentCorrect
                  /\ HistoryAgreesWithLocator)
  BY SyncImplementsStore, LocatorAlwaysChain, TipHeightAlwaysCorrect, TipParentAlwaysCorrect,
     HistoryAlwaysAgrees, PTL

(* The tip file never names a block off the tip's chain, however recoveries,
   kills, retries and saves of tips already left behind interleave. *)
THEOREM SavedTipAlwaysOnChain == SyncSpec => []SavedTipOnChain
<1>1. SyncInv => SavedTipOnChain
  BY DEF SyncInv, SavedInv, Below, SavedTipOnChain, OnChain
<1> QED
  BY <1>1, SyncInvInit, SyncInvStep, PTL DEF SyncSpec

-----------------------------------------------------------------------------
(* The tree, by induction on the heights: a chain has one block at least at every
   height below its tip. *)

LEMMA Smallest ==
  ASSUME NEW T, T \subseteq Nat, T # {}
  PROVE  \E n \in T : \A m \in T : n <= m
<1> DEFINE Less == {p \in Nat \X Nat : p[1] < p[2]}
<1>1. IsWellFoundedOn(Less, Nat)
  BY NatLessThanWellFounded DEF OpToRel
<1>2. PICK n \in T : \A m \in T : <<m, n>> \notin Less
  <2> HIDE DEF Less
  <2> QED
    BY <1>1, WFMin
<1>3. ASSUME NEW m \in T PROVE n <= m
  <2>1. m \in Nat /\ n \in Nat
    OBVIOUS
  <2>2. <<m, n>> \in Nat \X Nat /\ <<m, n>>[1] = m /\ <<m, n>>[2] = n
    BY <2>1
  <2>3. ~(<<m, n>>[1] < <<m, n>>[2])
    BY <1>2, <2>2, Zenon
  <2> QED
    BY <2>1, <2>2, <2>3
<1> QED
  BY <1>3

LEMMA HeightInduction ==
  ASSUME NEW S, 0 \in S, \A n \in Nat : n \in S => n + 1 \in S
  PROVE  Nat \subseteq S
<1> SUFFICES ASSUME Nat \ S # {} PROVE FALSE
  OBVIOUS
<1>1. PICK n \in Nat \ S : \A m \in Nat \ S : n <= m
  BY Smallest
<1>2. n - 1 \in Nat /\ n - 1 \in S
  BY <1>1
<1>3. (n - 1) + 1 \in S
  BY <1>2
<1> QED
  BY <1>1, <1>3

Whole(b) ==
  /\ Genesis \in Ancestors[b]
  /\ \A a \in Ancestors[b] : a \in Block /\ Height[a] <= Height[b]
  /\ \A k \in 0..Height[b] : \E a \in Ancestors[b] : Height[a] = k

LEMMA ChainsAreWhole == \A b \in Block : Whole(b)
<1> DEFINE S == {n \in Nat : \A b \in Block : Height[b] = n => Whole(b)}
<1>1. 0 \in S
  <2> SUFFICES ASSUME NEW b \in Block, Height[b] = 0 PROVE Whole(b)
    OBVIOUS
  <2>1. b = Genesis
    BY BlockTreeAssumption
  <2> QED
    BY <2>1, BlockTreeAssumption DEF Whole
<1>2. ASSUME NEW n \in Nat, n \in S PROVE n + 1 \in S
  <2> SUFFICES ASSUME NEW b \in Block, Height[b] = n + 1 PROVE Whole(b)
    OBVIOUS
  <2>1. /\ Parent[b] \in Block /\ Height[b] = Height[Parent[b]] + 1
        /\ Ancestors[b] = Ancestors[Parent[b]] \cup {b}
        /\ Height[Parent[b]] \in Nat
    BY BlockTreeAssumption
  <2>2. Whole(Parent[b]) /\ Height[Parent[b]] = n
    BY <1>2, <2>1
  <2>3. \A a \in Ancestors[b] : a \in Block /\ Height[a] \in Nat /\ Height[a] <= Height[b]
    BY <2>1, <2>2, BlockTreeAssumption DEF Whole
  <2>4. \A k \in 0..n : \E a \in Ancestors[b] : Height[a] = k
    BY <2>1, <2>2 DEF Whole
  <2>5. \E a \in Ancestors[b] : Height[a] = n + 1
    BY <2>1
  <2>6. \A k \in 0..(n + 1) : k \in 0..n \/ k = n + 1
    OBVIOUS
  <2> QED
    BY <2>1, <2>2, <2>3, <2>4, <2>5, <2>6 DEF Whole
<1> HIDE DEF S
<1>3. Nat \subseteq S
  BY <1>1, <1>2, HeightInduction
<1> QED
  BY <1>3, BlockTreeAssumption DEF S

LEMMA AncestorTypes ==
  ASSUME NEW b \in Block
  PROVE  /\ Ancestors[b] \subseteq Block /\ Genesis \in Ancestors[b] /\ Height[b] \in Nat
         /\ \A a \in Ancestors[b] : Height[a] \in 0..Height[b]
  BY ChainsAreWhole, BlockTreeAssumption DEF Whole

(* The headers above a block are headers, however far up the tip is. *)
LEMMA PathType ==
  ASSUME NEW base \in Block, NEW tip \in Block
  PROVE  PathAbove(base, tip) \in Seq(Block)
<1>1. PICK h, l : h = Height[base] /\ l = Height[tip] - Height[base]
  OBVIOUS
<1>2. h \in Nat /\ l \in Int /\ Height[tip] = h + l
  BY <1>1, BlockTreeAssumption
<1>3. \A i \in 1..l : AtHeight(tip, h + i) \in Block
  <2> TAKE i \in 1..l
  <2>1. h + i \in 0..Height[tip]
    BY <1>2
  <2>2. \E a \in Ancestors[tip] : Height[a] = h + i
    BY <2>1, ChainsAreWhole DEF Whole
  <2>3. AtHeight(tip, h + i) \in Ancestors[tip]
    BY <2>2 DEF AtHeight
  <2> QED
    BY <2>3, AncestorTypes
<1>4. PathAbove(base, tip) = [i \in 1..l |-> AtHeight(tip, h + i)]
  BY <1>1 DEF PathAbove
<1>5. PICK n \in Nat : 1..n = 1..l
  <2>1. CASE l \in Nat
    BY <2>1
  <2>2. CASE l \notin Nat
    <3>1. 1..0 = 1..l
      BY <1>2, <2>2
    <3> QED
      BY <3>1
  <2> QED
    BY <2>1, <2>2
<1>6. PathAbove(base, tip) \in [1..n -> Block]
  BY <1>3, <1>4, <1>5
<1> QED
  BY <1>6, SeqDef

(* Two chains have a last block in common. *)
LEMMA ForkType ==
  ASSUME NEW a \in Block, NEW b \in Block
  PROVE  Fork(a, b) \in Block
<1>1. PICK C : C = Ancestors[a] \cap Ancestors[b]
  OBVIOUS
<1>2. Genesis \in C /\ C \subseteq Block /\ \A c \in C : Height[c] \in 0..Height[a]
  BY <1>1, AncestorTypes
<1>3. Height[a] \in Nat
  BY BlockTreeAssumption
<1>4. PICK D : D = {Height[a] - Height[c] : c \in C}
  OBVIOUS
<1>5. D \subseteq Nat /\ D # {}
  BY <1>2, <1>3, <1>4
<1>6. PICK d \in D : \A m \in D : d <= m
  BY <1>5, Smallest
<1>7. PICK f \in C : d = Height[a] - Height[f]
  BY <1>4, <1>6
<1>8. \A g \in C : Height[g] <= Height[f]
  <2> TAKE g \in C
  <2>1. Height[a] - Height[f] <= Height[a] - Height[g]
    BY <1>4, <1>6, <1>7
  <2> QED
    BY <1>2, <1>3, <2>1
<1>9. Fork(a, b) \in C
  BY <1>1, <1>8 DEF Fork
<1> QED
  BY <1>2, <1>9

-----------------------------------------------------------------------------
(* The types. *)

Hashes == Seq(Block \cup {NoSuchHash})
Message == Seq(Block \cup {Garbled})

(* A locator is answered from a block on the peer's chain. *)
LEMMA AnswerType ==
  ASSUME view \in Block, NEW s \in Hashes
  PROVE  Answer(s) \in Seq(Block)
<1> DEFINE known == {i \in 1..Len(s) : s[i] \in Ancestors[view]}
           first == CHOOSE i \in known : \A j \in known : i <= j
           base == IF known = {} THEN Genesis ELSE s[first]
           Count(a) == IF Len(a) > MaxHeaders THEN MaxHeaders ELSE Len(a)
           Reply(a) == SubSeq(a, 1, Count(a))
<1>1. Answer(s) = Reply(PathAbove(base, view))
  BY DEF Answer
<1>2. base \in Block
  <2>1. CASE known = {}
    BY <2>1, BlockTreeAssumption
  <2>2. CASE known # {}
    <3>1. known \subseteq Nat
      BY LenProperties DEF Hashes
    <3> DEFINE Least(i) == i \in known /\ \A j \in known : i <= j
    <3>2. \E i : Least(i)
      <4> HIDE DEF known
      <4> QED
        BY <2>2, <3>1, Smallest
    <3>3. Least(CHOOSE i : Least(i))
      <4> HIDE DEF Least
      <4> QED
        BY <3>2
    <3>4. first \in known
      BY <3>2
    <3>5. s[first] \in Ancestors[view]
      <4> HIDE DEF first
      <4> QED
        BY <3>4
    <3>6. Ancestors[view] \subseteq Block
      BY AncestorTypes
    <3> HIDE DEF known, first
    <3> QED
      BY <2>2, <3>5, <3>6
  <2> QED
    BY <2>1, <2>2
<1>3. ASSUME NEW a \in Seq(Block) PROVE Reply(a) \in Seq(Block)
  <2>1. Count(a) \in 0..Len(a)
    BY LenProperties, HeaderSyncAssumption
  <2> HIDE DEF Count
  <2>2. \A i \in 1..Count(a) : a[i] \in Block
    BY <2>1, ElementOfSeq, LenProperties
  <2> QED
    BY <2>1, <2>2, SubSeqProperties
<1> HIDE DEF base, Reply
<1>4. PathAbove(base, view) \in Seq(Block)
  BY <1>2, PathType
<1> QED
  BY <1>1, <1>3, <1>4

LEMMA LocatorType == StoreTypeOK => Locator \in Hashes
<1> SUFFICES ASSUME StoreTypeOK PROVE Locator \in Hashes
  OBVIOUS
<1>1. PICK n, recent : /\ n = IF Len(locator) > LocatorSend THEN LocatorSend ELSE Len(locator)
                       /\ recent = SubSeq(locator, 1, n)
  OBVIOUS
<1>2. locator \in Seq(Block) /\ n \in 0..Len(locator)
  BY <1>1, LenProperties, HeaderSyncAssumption DEF StoreTypeOK
<1>3. \A i \in 1..n : locator[i] \in Block \cup {NoSuchHash}
  BY <1>2, ElementOfSeq
<1>4. recent \in Hashes
  BY <1>1, <1>2, <1>3, SubSeqProperties DEF Hashes
<1>5. start # NoStart => start.hash \in Block \cup {NoSuchHash}
  BY StartPointType DEF StoreTypeOK
<1>6. start # NoStart => Append(recent, start.hash) \in Hashes
  BY <1>4, <1>5, AppendProperties DEF Hashes
<1> QED
  BY <1>1, <1>4, <1>6 DEF Locator

(* The network and the peer's end of the connection. *)
LinkTypes ==
  /\ config \in Checkpoints \cup {NoCheckpoint}
  /\ net \in Block /\ view \in Block \cup {NoBlock}
  /\ reorgs \in 0..MaxReorgs /\ faults \in 0..MaxFaults /\ crashes \in 0..MaxCrashes
  /\ conn \in BOOLEAN

LEMMA LinkStep ==
  ASSUME LinkTypes, [SyncNext]_syncVars
  PROVE  LinkTypes'
<1> USE HeaderSyncAssumption DEF LinkTypes
<1>1. CASE NetworkExtends \/ NetworkReorganises
  BY <1>1 DEF NetworkExtends, NetworkReorganises
<1>2. CASE PeerFollows \/ PeerAnswers \/ PeerDrops
  <2>1. /\ view' \in {view, net, NoBlock} /\ UNCHANGED <<network, crashes, conn>>
        /\ faults' = faults \/ (faults < MaxFaults /\ faults' = faults + 1)
    BY <1>2 DEF PeerFollows, PeerAnswers, PeerDrops
  <2>2. faults' \in 0..MaxFaults
    BY <2>1
  <2> QED
    BY <2>1, <2>2
<1>3. CASE Connect
  BY <1>3, AncestorTypes DEF Connect
<1>4. CASE ReadFails \/ ProbeSwitches \/ InitLost \/ InitGarbled \/ InitUnlinked
  <2>1. view' = NoBlock /\ conn' = FALSE /\ UNCHANGED <<network, faults, crashes>>
    BY <1>4 DEF ReadFails, ProbeSwitches, InitLost, InitGarbled, InitUnlinked, Disconnected
  <2> QED
    BY <2>1
<1>5. CASE Crash
  <2>1. /\ view' = NoBlock /\ conn' = FALSE /\ UNCHANGED <<network, faults>>
        /\ crashes < MaxCrashes /\ crashes' = crashes + 1
    BY <1>5 DEF Crash, Disconnected
  <2>2. crashes' \in 0..MaxCrashes
    BY <2>1
  <2> QED
    BY <2>1, <2>2
<1>6. CASE \/ \E who \in {"init", "refresh", "bg"} : Acquire(who)
           \/ ConnectFails \/ Throttled \/ SendGetHeaders \/ ReadEmpty \/ ReadHeaders
           \/ PrepareBatch \/ TakeHeader \/ RefuseHeader \/ FinishMessage \/ ProbeKeeps
           \/ ChooseStart \/ InitDone \/ InitEmpty \/ InitFailed \/ InitRecover \/ HoldTip \/ SaveTip
           \/ UNCHANGED syncVars
  <2>1. UNCHANGED <<network, faults, crashes, view, conn>>
    BY <1>6 DEF Acquire, ConnectFails, Throttled, SendGetHeaders, ReadEmpty, ReadHeaders,
                PrepareBatch, TakeHeader, RefuseHeader, FinishMessage, ProbeKeeps, ChooseStart,
                InitDone, InitEmpty, InitFailed, InitRecover, HoldTip, SaveTip
  <2> QED
    BY <2>1
<1> QED
  BY <1>1, <1>2, <1>3, <1>4, <1>5, <1>6 DEF SyncNext, PeerStep, HolderStep, LoopStep

(* What travels on it, and is being read. *)
MessageTypes == reqs \in Seq(Hashes) /\ inbox \in Seq(Message) /\ incoming \in Message

LEMMA MessageStep ==
  ASSUME LinkTypes, StoreTypeOK, MessageTypes, [SyncNext]_syncVars
  PROVE  MessageTypes'
<1> USE DEF MessageTypes
<1>1. <<>> \in Seq(Hashes) /\ <<>> \in Seq(Message) /\ <<>> \in Message
  BY EmptySeq DEF Message
<1>2. \A m \in Seq(Block) : m \in Message
  BY SeqMonotonic DEF Message
<1>3. CASE PeerFollows
  <2>1. view \in Block /\ net \in Block /\ UNCHANGED <<reqs, incoming>>
    BY <1>3 DEF PeerFollows, LinkTypes
  <2>2. PathAbove(Fork(view, net), net) \in Message
    BY <1>2, <2>1, ForkType, PathType
  <2>3. Append(inbox, PathAbove(Fork(view, net), net)) \in Seq(Message)
    BY <2>2, AppendProperties
  <2> QED
    BY <1>3, <2>1, <2>3 DEF PeerFollows
<1>4. CASE PeerAnswers
  <2>1. view \in Block /\ reqs # <<>> /\ reqs' = Tail(reqs) /\ UNCHANGED incoming
    BY <1>4 DEF PeerAnswers, LinkTypes
  <2>2. Head(reqs) \in Hashes /\ Tail(reqs) \in Seq(Hashes)
    BY <2>1, HeadTailProperties
  <2>3. PICK m : m = Answer(Head(reqs))
    OBVIOUS
  <2>4. m \in Seq(Block) /\ m \in Message
    BY <1>2, <2>1, <2>2, <2>3, AnswerType
  <2>5. m # <<>> => [m EXCEPT ![Len(m)] = Garbled] \in Message
    <3>1. m # <<>> => Len(m) \in 1..Len(m)
      BY <2>4, EmptySeq
    <3> QED
      BY <2>4, <3>1, ExceptSeq DEF Message
  <2>6. \/ inbox' = Append(inbox, m)
        \/ m # <<>> /\ inbox' = Append(inbox, [m EXCEPT ![Len(m)] = Garbled])
    BY <1>4, <2>3 DEF PeerAnswers
  <2>7. ASSUME NEW e \in Message PROVE Append(inbox, e) \in Seq(Message)
    BY AppendProperties
  <2>8. inbox' \in Seq(Message)
    BY <2>4, <2>5, <2>6, <2>7, Zenon
  <2> QED
    BY <2>1, <2>2, <2>8
<1>5. CASE SendGetHeaders
  <2>1. Append(reqs, Locator) \in Seq(Hashes)
    BY LocatorType, AppendProperties
  <2> QED
    BY <1>5, <2>1 DEF SendGetHeaders
<1>6. CASE ReadEmpty \/ ReadHeaders
  <2>1. inbox # <<>> /\ inbox' = Tail(inbox) /\ reqs' = reqs /\ (incoming' = <<>> \/ incoming' = Head(inbox))
    BY <1>6 DEF ReadEmpty, ReadHeaders, Return
  <2>2. Head(inbox) \in Message /\ Tail(inbox) \in Seq(Message)
    BY <2>1, HeadTailProperties
  <2> QED
    BY <1>1, <2>1, <2>2
<1>7. CASE TakeHeader
  <2>1. incoming # <<>> /\ incoming' = Tail(incoming) /\ UNCHANGED <<reqs, inbox>>
    BY <1>7 DEF TakeHeader
  <2>2. Tail(incoming) \in Message
    BY <2>1, HeadTailProperties DEF Message
  <2> QED
    BY <2>1, <2>2
<1>8. CASE RefuseHeader \/ FinishMessage \/ ConnectFails \/ Throttled
  <2>1. UNCHANGED <<reqs, inbox>> /\ incoming' \in {incoming, <<>>}
    BY <1>8 DEF RefuseHeader, FinishMessage, ConnectFails, Throttled, Return
  <2> QED
    BY <1>1, <2>1
<1>9. CASE ReadFails \/ ProbeSwitches \/ InitLost \/ InitGarbled \/ InitUnlinked \/ Crash \/ PeerDrops
  <2>1. reqs' = <<>> /\ inbox' \in {inbox, <<>>} /\ incoming' \in {incoming, <<>>}
    BY <1>9 DEF ReadFails, ProbeSwitches, InitLost, InitGarbled, InitUnlinked, Crash, PeerDrops,
                Disconnected, Return
  <2> QED
    BY <1>1, <2>1
<1>10. CASE \/ \E who \in {"init", "refresh", "bg"} : Acquire(who)
            \/ NetworkExtends \/ NetworkReorganises \/ Connect \/ PrepareBatch \/ ProbeKeeps
            \/ ChooseStart \/ InitDone \/ InitEmpty \/ InitFailed \/ InitRecover \/ HoldTip \/ SaveTip
            \/ UNCHANGED syncVars
  <2>1. UNCHANGED <<reqs, inbox, incoming>>
    BY <1>10 DEF Acquire, NetworkExtends, NetworkReorganises, Connect, PrepareBatch, ProbeKeeps,
                 ChooseStart, InitDone, InitEmpty, InitFailed, InitRecover, HoldTip, SaveTip
  <2> QED
    BY <2>1
<1> QED
  BY <1>3, <1>4, <1>5, <1>6, <1>7, <1>8, <1>9, <1>10 DEF SyncNext, PeerStep, HolderStep, LoopStep

(* Where the lock's holder and the mining loop are, and what they keep. *)
PlaceTypes ==
  /\ bg \in BOOLEAN /\ force \in BOOLEAN
  /\ io \in {"free", "init", "refresh", "bg", "switch"}
  /\ step \in {"idle", "connect", "send", "await", "take", "probe"}
  /\ loop \in {"start", "try", "recover", "run", "save"}
  /\ attempt \in 0..TipRetries
  /\ outcome \in {"none", "ok", "lost", "failed", "garbled", "unlinked"}
  /\ held \in Block \cup {NoBlock}
  /\ saved \in [point : {PointOf(b) : b \in Block} \cup {NoStart}, bits : Nat]

LEMMA PlaceStep ==
  ASSUME FileInv, StoreTypeOK, PlaceTypes, [SyncNext]_syncVars
  PROVE  PlaceTypes'
<1> USE DEF PlaceTypes
<1>1. NoTipFile \in [point : {PointOf(b) : b \in Block} \cup {NoStart}, bits : Nat]
  BY DEF NoTipFile
<1>2. CASE \/ NetworkExtends \/ NetworkReorganises \/ PeerFollows \/ PeerAnswers \/ PeerDrops
           \/ PrepareBatch \/ TakeHeader \/ UNCHANGED syncVars
  <2>1. UNCHANGED <<io, step, miner>>
    BY <1>2 DEF NetworkExtends, NetworkReorganises, PeerFollows, PeerAnswers, PeerDrops,
                PrepareBatch, TakeHeader
  <2> QED
    BY <2>1
<1>3. ASSUME NEW who \in {"init", "refresh", "bg"}, Acquire(who) PROVE PlaceTypes'
  <2>1. io' = who /\ step' \in {"send", "connect"} /\ UNCHANGED miner
    BY <1>3 DEF Acquire
  <2> QED
    BY <2>1
<1>4. CASE Connect \/ SendGetHeaders \/ ReadHeaders \/ ProbeKeeps \/ ProbeSwitches
  <2>1. /\ io' \in {io, "free", "switch"} /\ step' \in {"send", "await", "take", "idle", "connect"}
        /\ UNCHANGED miner
    BY <1>4 DEF Connect, SendGetHeaders, ReadHeaders, ProbeKeeps, ProbeSwitches
  <2> QED
    BY <2>1
<1>5. CASE ConnectFails \/ Throttled \/ ReadEmpty \/ ReadFails \/ RefuseHeader \/ FinishMessage
  <2>1. ASSUME NEW r \in {"ok", "lost", "failed", "garbled", "unlinked"}, Return(r) PROVE PlaceTypes'
    <3>1. /\ io' \in {io, "free"} /\ step' \in {"probe", "idle"} /\ outcome' \in {r, outcome}
          /\ UNCHANGED <<loop, attempt, held, bg, saved, force>>
      BY <2>1 DEF Return
    <3> QED
      BY <3>1
  <2>2. ASSUME step' = "send", UNCHANGED <<io, miner>> PROVE PlaceTypes'
    BY <2>2
  <2> QED
    BY <1>5, <2>1, <2>2 DEF ConnectFails, Throttled, ReadEmpty, ReadFails, RefuseHeader, FinishMessage
<1>6. CASE ChooseStart
  <2>1. /\ loop' = "try" /\ attempt' = 1 /\ outcome' = "none" /\ force' \in {force, FALSE}
        /\ saved' \in {saved, NoTipFile} /\ UNCHANGED <<io, step, held, bg>>
    BY <1>6 DEF ChooseStart
  <2>2. 1 \in 0..TipRetries
    BY HeaderSyncAssumption
  <2> QED
    BY <1>1, <2>1, <2>2
<1>7. CASE InitDone \/ InitEmpty \/ InitFailed \/ InitGarbled \/ InitUnlinked
  <2>1. /\ loop' \in {"run", "start", "recover"} /\ outcome' = "none" /\ bg' \in {bg, TRUE}
        /\ UNCHANGED <<io, step, attempt, held, saved, force>>
    BY <1>7 DEF InitDone, InitEmpty, InitFailed, InitGarbled, InitUnlinked
  <2>2. bg' \in BOOLEAN
    BY <2>1, Zenon
  <2> QED
    BY <2>1, <2>2
<1>8. CASE InitLost
  <2>1. /\ loop' \in {loop, "start"} /\ outcome' = "none" /\ UNCHANGED <<io, step, held, bg, saved, force>>
        /\ attempt' = attempt \/ (attempt < TipRetries /\ attempt' = attempt + 1)
    BY <1>8 DEF InitLost
  <2>2. attempt' \in 0..TipRetries
    BY <2>1, HeaderSyncAssumption
  <2> QED
    BY <2>1, <2>2
<1>9. CASE InitRecover
  <2>1. /\ loop' = "start" /\ saved' = NoTipFile /\ force' \in {force, TRUE}
        /\ UNCHANGED <<io, step, attempt, outcome, held, bg>>
    BY <1>9 DEF InitRecover
  <2>2. force' \in BOOLEAN
    BY <2>1, Zenon
  <2> QED
    BY <1>1, <2>1, <2>2
<1>10. CASE HoldTip
  <2>1. /\ held' = best /\ loop' = "save" /\ best \in Block \cup {NoBlock}
        /\ UNCHANGED <<io, step, attempt, outcome, bg, saved, force>>
    BY <1>10 DEF HoldTip, StoreTypeOK
  <2> QED
    BY <2>1
<1>11. CASE SaveTip
  <2>1. /\ held \in Block /\ held' = NoBlock /\ loop' = "run"
        /\ saved' = saved \/ saved' = [point |-> PointOf(held), bits |-> lastNonMin]
        /\ UNCHANGED <<io, step, attempt, outcome, bg, force>>
    BY <1>11 DEF SaveTip, FileInv
  <2>2. [point |-> PointOf(held), bits |-> lastNonMin]
          \in [point : {PointOf(b) : b \in Block} \cup {NoStart}, bits : Nat]
    BY <2>1 DEF StoreTypeOK
  <2> QED
    BY <2>1, <2>2
<1>12. CASE Crash
  <2>1. /\ io' = "free" /\ step' = "idle" /\ loop' = "start" /\ attempt' = 0 /\ outcome' = "none"
        /\ held' = NoBlock /\ bg' = FALSE /\ force' = FALSE /\ saved' = saved
    BY <1>12 DEF Crash
  <2>2. 0 \in 0..TipRetries
    BY HeaderSyncAssumption
  <2> QED
    BY <2>1, <2>2
<1> QED
  BY <1>2, <1>3, <1>4, <1>5, <1>6, <1>7, <1>8, <1>9, <1>10, <1>11, <1>12
  DEF SyncNext, PeerStep, HolderStep, LoopStep

(* What peers are asked is hashes, what they send and the client reads is headers or
   what does not parse as one, and a saved tip is a block; every retry, fault and
   restart is counted within its bound.  This holds of every tree: a locator always
   has an answer, and two chains always a last block in common. *)
THEOREM SyncTypeCorrect == SyncSpec => []SyncTypeOK
<1> DEFINE Types == LinkTypes /\ MessageTypes /\ PlaceTypes
<1>1. SyncInit => Types
  <2> SUFFICES ASSUME SyncInit PROVE Types
    OBVIOUS
  <2>1. LinkTypes
    <3>1. net \in Block
      BY HeaderStoreAssumption, BlockTreeAssumption DEF SyncInit
    <3>2. \A m \in {MaxReorgs, MaxFaults, MaxCrashes} : 0 \in 0..m
      BY HeaderSyncAssumption
    <3> QED
      BY <3>1, <3>2 DEF SyncInit, LinkTypes
  <2>2. MessageTypes
    BY EmptySeq DEF SyncInit, MessageTypes, Message
  <2>3. PlaceTypes
    <3>1. 0 \in 0..TipRetries
      BY HeaderSyncAssumption
    <3>2. NoTipFile \in [point : {PointOf(b) : b \in Block} \cup {NoStart}, bits : Nat]
      BY DEF NoTipFile
    <3> QED
      BY <3>1, <3>2 DEF SyncInit, PlaceTypes
  <2> QED
    BY <2>1, <2>2, <2>3
<1>2. SyncInv /\ Types /\ [SyncNext]_syncVars => Types'
  BY LinkStep, MessageStep, PlaceStep DEF SyncInv, ChainInv
<1>3. Types => SyncTypeOK
  BY DEF LinkTypes, MessageTypes, PlaceTypes, SyncTypeOK, Hashes, Message
<1> QED
  BY <1>1, <1>2, <1>3, SyncInvInit, SyncInvStep, PTL DEF SyncSpec
=============================================================================
