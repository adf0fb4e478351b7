--------------------------- MODULE MiningLoopProofs ---------------------------
(* Proofs about MiningLoop: a commit of five assignments implements the one    *)
(* step HeaderStore takes for it, and the miner works on its tip's branch.     *)
(* For every tree, cap, set of checkers and set of blocks the miner can find.  *)
EXTENDS MiningLoop, HeaderStoreProofs, SequenceTheorems

USE DEF chain, storeVars, readers, loopVars, mineVars, Idle

-----------------------------------------------------------------------------
(* The inductive invariant. *)

(* A commit in progress has already written its tip. *)
CommitInv ==
  /\ commit \in {"none", "height", "bits", "parent", "locator"}
  /\ commit # "none" =>
       batch.phase = "linking" /\ batch.hashes # <<>> /\ best = batch.prev

Locating == batch.phase \in {"located", "linking"}

(* What a message builds on is the tip or a block above it. *)
BranchInv ==
  /\ best \in Block \cup {NoBlock}
  /\ batch.hashes # <<>> => batch.phase = "linking" /\ batch.prev \in Block
  /\ best # NoBlock /\ Locating => batch.prev \in Block /\ best \in Ancestors[batch.prev]

(* Past its initialisation the mining loop has a tip. *)
TipInv ==
  /\ after # "init" => best # NoBlock
  /\ pc # "refresh" => after # "init"

(* The mining loop's block is below the tip, and will be after the message in
   progress. *)
WorkInv ==
  work.prev # NoBlock =>
    /\ best # NoBlock /\ work.prev \in Ancestors[best]
    /\ Locating => work.prev \in Ancestors[batch.prev]

(* work has its six fields. *)
WorkShape ==
  work = [prev |-> work.prev, bits |-> work.bits, parent |-> work.parent,
          block |-> work.block, stale |-> work.stale, ok |-> work.ok]

MineInv == CommitInv /\ BranchInv /\ TipInv /\ WorkInv /\ WorkShape

-----------------------------------------------------------------------------
(* Every step is a step of the store on the committed chain state, or leaves
   it alone. *)

(* Steps that touch neither the chain state nor a commit. *)
ReaderStep ==
  \/ \E who \in {"bg", "loop"} : TakeLock(who)
  \/ ReleaseLock
  \/ ReadTip \/ ReadLastNonMin \/ ReadTipParent \/ CheckTemplate \/ RoundEnds \/ RoundFinds
  \/ KeepOrDiscard \/ JudgeStale \/ RefuseSubmit \/ StartBroadcast \/ EndBroadcast \/ RecordBlock \/ TrackBlock
  \/ \E c \in Checker : ReadMonitorTip(c) \/ CheckForPayments(c)

LEMMA MineCases ==
  MineNext =>
    \/ ReaderStep
    \/ TakeMessage \/ ReadBase \/ AcceptNext \/ FailMessage
    \/ WriteBest \/ WriteHeight \/ WriteBits \/ WriteParentTime \/ WriteLocator
  BY DEF MineNext, HolderStep, LoopStep, ReaderStep

LEMMA ReaderLeavesStore == ReaderStep => UNCHANGED <<storeVars, commit>>
  BY DEF ReaderStep, TakeLock, ReleaseLock, ReadTip, ReadLastNonMin, ReadTipParent,
         CheckTemplate, RoundEnds, RoundFinds, KeepOrDiscard, JudgeStale, RefuseSubmit, StartBroadcast,
         EndBroadcast, RecordBlock, TrackBlock, ReadMonitorTip, CheckForPayments

(* The invariant of the commit. *)
LEMMA CommitStep ==
  ASSUME CommitInv, [MineNext]_mineVars
  PROVE  CommitInv'
<1>1. CASE ReaderStep
  BY <1>1, ReaderLeavesStore DEF CommitInv
<1>2. CASE TakeMessage
  BY <1>2 DEF TakeMessage, CommitInv
<1>3. CASE ReadBase
  BY <1>3 DEF ReadBase, ReadExpectedPrev, ReadParentTime, CommitInv
<1>4. CASE AcceptNext
  BY <1>4 DEF AcceptNext, CommitInv
<1>5. CASE FailMessage
  BY <1>5 DEF FailMessage, CommitInv
<1>6. CASE WriteBest
  BY <1>6 DEF WriteBest, CommitInv
<1>7. CASE WriteHeight \/ WriteBits \/ WriteParentTime \/ WriteLocator
  BY <1>7 DEF WriteHeight, WriteBits, WriteParentTime, WriteLocator, CommitInv
<1>8. CASE UNCHANGED mineVars
  BY <1>8 DEF CommitInv
<1> QED
  BY <1>1, <1>2, <1>3, <1>4, <1>5, <1>6, <1>7, <1>8, MineCases

LEMMA MineStepsStore ==
  ASSUME CommitInv, [MineNext]_mineVars
  PROVE  [Committed!StoreNext]_(Committed!storeVars)
<1> USE DEF Committed!chain, Committed!storeVars, CommittedBits, CommittedParent
<1>1. CASE ReaderStep
  BY <1>1, ReaderLeavesStore
<1>2. CASE TakeMessage
  <2>1. commit = "none" /\ commit' = "none"
    BY <1>2 DEF TakeMessage
  <2>2. Committed!OpenBatch
    BY <1>2, <2>1 DEF TakeMessage, OpenBatch, Committed!OpenBatch, NoBatch, Committed!NoBatch,
                      NoStart, Committed!NoStart
  <2> QED
    BY <2>2 DEF Committed!StoreNext
<1>3. CASE ReadBase
  <2>1. commit = "none" /\ commit' = "none"
    BY <1>3 DEF ReadBase, ReadExpectedPrev, ReadParentTime, CommitInv
  <2>2. Committed!ReadExpectedPrev \/ Committed!ReadParentTime
    BY <1>3, <2>1 DEF ReadBase, ReadExpectedPrev, ReadParentTime, Committed!ReadExpectedPrev,
                      Committed!ReadParentTime, ExpectedPrev, Committed!ExpectedPrev,
                      KnownPrevTime, Committed!KnownPrevTime, NoStart, Committed!NoStart
  <2> QED
    BY <2>2 DEF Committed!StoreNext
<1>4. CASE AcceptNext
  <2>1. commit = "none" /\ commit' = "none"
    BY <1>4 DEF AcceptNext
  <2>2. PICK h \in Block : AcceptHeader(h)
    BY <1>4 DEF AcceptNext
  <2>3. \A n, b : Committed!Recorded(n, b) = Recorded(n, b)
    BY DEF Recorded, Committed!Recorded, Cardinality, Committed!Cardinality
  <2>4. Committed!AcceptHeader(h)
    BY <2>1, <2>2, <2>3 DEF AcceptHeader, Committed!AcceptHeader, Links, Committed!Links
  <2> QED
    BY <2>4 DEF Committed!StoreNext
<1>5. CASE FailMessage
  <2>1. commit = "none" /\ commit' = "none"
    BY <1>5 DEF FailMessage
  <2>2. PICK h \in Block \cup {Garbled} : RejectHeader(h)
    BY <1>5 DEF FailMessage
  <2>3. Committed!RejectHeader(h)
    BY <2>1, <2>2 DEF RejectHeader, Committed!RejectHeader, Links, Committed!Links,
                      NoBatch, Committed!NoBatch
  <2> QED
    BY <2>3 DEF Committed!StoreNext
<1>6. CASE WriteBest
  <2>1. commit = "none" /\ commit' = "height" /\ batch' = batch /\ locator' = locator
    BY <1>6 DEF WriteBest
  <2>2. Committed!CommitBatch
    BY <1>6, <2>1 DEF WriteBest, Committed!CommitBatch, Trimmed, NoBatch, Committed!NoBatch
  <2> QED
    BY <2>2 DEF Committed!StoreNext
<1>7. CASE WriteHeight
  BY <1>7 DEF WriteHeight
<1>8. CASE WriteBits
  BY <1>8 DEF WriteBits
<1>9. CASE WriteParentTime
  BY <1>9 DEF WriteParentTime
<1>10. CASE WriteLocator
  BY <1>10 DEF WriteLocator
<1>11. CASE UNCHANGED mineVars
  BY <1>11
<1> QED
  BY <1>1, <1>2, <1>3, <1>4, <1>5, <1>6, <1>7, <1>8, <1>9, <1>10, <1>11, MineCases

(* HeaderStore's one-step commit is a sound abstraction of the code's unlocked
   assignments: what HeaderStoreProofs shows of StoreSpec holds of the running
   miner's chain state, a commit in progress counting as done. *)
THEOREM CommitsImplementStore == MineSpec => CommitsAtOnce
<1> USE DEF Committed!chain, Committed!storeVars, CommittedBits, CommittedParent
<1>1. MineInit => CommitInv
  BY DEF MineInit, CommitInv
<1>2. MineInit => Committed!StoreInit
  BY DEF MineInit, StoreInit, Committed!StoreInit, NoStart, Committed!NoStart,
         NoBatch, Committed!NoBatch
<1>3. CommitInv /\ [MineNext]_mineVars => CommitInv'
  BY CommitStep
<1>4. CommitInv /\ [MineNext]_mineVars => [Committed!StoreNext]_(Committed!storeVars)
  BY MineStepsStore
<1> QED
  BY <1>1, <1>2, <1>3, <1>4, PTL DEF MineSpec, CommitsAtOnce, Committed!StoreSpec

-----------------------------------------------------------------------------
(* The miner's branch. *)

LEMMA BranchStep ==
  ASSUME CommitInv, BranchInv, [MineNext]_mineVars
  PROVE  BranchInv'
<1>1. CASE ReaderStep
  BY <1>1, ReaderLeavesStore DEF BranchInv, Locating
<1>2. CASE TakeMessage
  BY <1>2 DEF TakeMessage, OpenBatch, NoBatch, BranchInv, Locating
<1>3. CASE ReadBase
  <2>1. CASE ReadExpectedPrev
    BY <1>3, <2>1, SelfOnChain DEF ReadBase, ReadExpectedPrev, ExpectedPrev, BranchInv, Locating
  <2>2. CASE ReadParentTime
    BY <1>3, <2>2 DEF ReadBase, ReadParentTime, BranchInv, Locating
  <2> QED
    BY <1>3, <2>1, <2>2 DEF ReadBase
<1>4. CASE AcceptNext
  <2>1. PICK h \in Block : AcceptHeader(h)
    BY <1>4 DEF AcceptNext
  <2>2. /\ batch'.phase = "linking" /\ batch.phase = "linking"
        /\ batch'.prev = h /\ Parent[h] = batch.prev /\ best' = best
    BY <2>1 DEF AcceptHeader, Links
  <2>3. best # NoBlock => best \in Ancestors[h]
    BY <2>2, ChildOnChain DEF BranchInv, Locating
  <2> QED
    BY <2>2, <2>3 DEF BranchInv, Locating
<1>5. CASE FailMessage
  BY <1>5 DEF FailMessage, RejectHeader, NoBatch, BranchInv, Locating
<1>6. CASE WriteBest
  BY <1>6, SelfOnChain DEF WriteBest, BranchInv, Locating
<1>7. CASE WriteHeight \/ WriteBits \/ WriteParentTime
  BY <1>7 DEF WriteHeight, WriteBits, WriteParentTime, BranchInv, Locating
<1>8. CASE WriteLocator
  BY <1>8 DEF WriteLocator, NoBatch, BranchInv, Locating
<1>9. CASE UNCHANGED mineVars
  BY <1>9 DEF BranchInv, Locating
<1> QED
  BY <1>1, <1>2, <1>3, <1>4, <1>5, <1>6, <1>7, <1>8, <1>9, MineCases

(* The tip is written by one assignment only, and never erased. *)
LEMMA TipWritten ==
  ASSUME BranchInv, [MineNext]_mineVars
  PROVE  \/ best' = best
         \/ WriteBest /\ best' = batch.prev /\ batch.phase = "linking" /\ best' # NoBlock
<1>1. CASE WriteBest
  BY <1>1, BlockTreeAssumption DEF WriteBest, BranchInv
<1>2. CASE ReaderStep
  BY <1>2, ReaderLeavesStore
<1>3. CASE TakeMessage \/ ReadBase
  BY <1>3 DEF TakeMessage, OpenBatch, ReadBase, ReadExpectedPrev, ReadParentTime
<1>4. CASE AcceptNext \/ FailMessage
  BY <1>4 DEF AcceptNext, AcceptHeader, FailMessage, RejectHeader
<1>5. CASE WriteHeight \/ WriteBits \/ WriteParentTime \/ WriteLocator
  BY <1>5 DEF WriteHeight, WriteBits, WriteParentTime, WriteLocator
<1>6. CASE UNCHANGED mineVars
  BY <1>6
<1> QED
  BY <1>1, <1>2, <1>3, <1>4, <1>5, <1>6, MineCases

(* What becomes of the block mined on, where the mining loop goes. *)
WorkKept == work'.prev \in {work.prev, NoBlock} /\ WorkShape'
Onward == pc # "refresh" /\ after' \in {after, "top", "record", "tip"}

LEMMA LoopControl ==
  ASSUME WorkShape, [MineNext]_mineVars
  PROVE  \/ ReadTip /\ WorkShape'
         \/ WorkKept /\ (UNCHANGED <<pc, after>> \/ ReleaseLock \/ Onward)
<1> USE DEF WorkShape, WorkKept, Onward
<1>1. CASE ReadTip
  BY <1>1 DEF ReadTip, NoWork
<1>2. CASE ReadLastNonMin
  BY <1>2 DEF ReadLastNonMin
<1>3. CASE ReadTipParent
  BY <1>3 DEF ReadTipParent
<1>4. CASE CheckTemplate \/ KeepOrDiscard
  BY <1>4 DEF CheckTemplate, KeepOrDiscard, NoWork
<1>5. CASE RoundEnds
  BY <1>5 DEF RoundEnds, NoWork
<1>6. CASE RoundFinds
  BY <1>6 DEF RoundFinds
<1>7. CASE JudgeStale \/ RefuseSubmit
  BY <1>7 DEF JudgeStale, RefuseSubmit
<1>8. CASE StartBroadcast
  BY <1>8 DEF StartBroadcast
<1>9. CASE EndBroadcast
  <2>1. work' = work \/ work' = [work EXCEPT !.ok = TRUE]
    BY <1>9 DEF EndBroadcast
  <2>2. WorkKept
    BY <2>1
  <2>3. Onward
    BY <1>9 DEF EndBroadcast
  <2> QED
    BY <2>2, <2>3
<1>10. CASE RecordBlock \/ TrackBlock
  BY <1>10 DEF RecordBlock, TrackBlock, NoWork
<1>11. CASE ReleaseLock
  BY <1>11 DEF ReleaseLock
<1>12. CASE \/ \E who \in {"bg", "loop"} : TakeLock(who)
            \/ \E c \in Checker : ReadMonitorTip(c) \/ CheckForPayments(c)
  BY <1>12 DEF TakeLock, ReadMonitorTip, CheckForPayments
<1>13. CASE \/ TakeMessage \/ ReadBase \/ AcceptNext \/ FailMessage
            \/ WriteBest \/ WriteHeight \/ WriteBits \/ WriteParentTime \/ WriteLocator
  BY <1>13 DEF TakeMessage, ReadBase, AcceptNext, FailMessage,
     WriteBest, WriteHeight, WriteBits, WriteParentTime, WriteLocator
<1>14. CASE UNCHANGED mineVars
  BY <1>14
<1> QED
  BY <1>1, <1>2, <1>3, <1>4, <1>5, <1>6, <1>7, <1>8, <1>9, <1>10, <1>11, <1>12, <1>13, <1>14,
     MineCases DEF ReaderStep

LEMMA TipStep ==
  ASSUME BranchInv, TipInv, WorkShape, [MineNext]_mineVars
  PROVE  TipInv'
<1>1. best # NoBlock => best' # NoBlock
  BY TipWritten
<1>2. CASE ReleaseLock
  BY <1>1, <1>2 DEF ReleaseLock, TipInv
<1>3. CASE ReadTip
  BY <1>1, <1>3 DEF ReadTip, TipInv
<1>4. CASE UNCHANGED <<pc, after>>
  BY <1>1, <1>4 DEF TipInv
<1>5. CASE Onward
  BY <1>1, <1>5 DEF Onward, TipInv
<1> QED
  BY <1>2, <1>3, <1>4, <1>5, LoopControl

LEMMA WorkStep ==
  ASSUME MineInv, [MineNext]_mineVars
  PROVE  WorkInv' /\ WorkShape'
<1> USE DEF MineInv
<1>1. CASE ReadTip
  <2>1. WorkInv'
    BY <1>1, SelfOnChain DEF ReadTip, NoWork, BranchInv, TipInv, WorkInv, Locating
  <2> QED
    BY <1>1, <2>1 DEF ReadTip, NoWork, WorkShape
<1>2. CASE WorkKept
  <2> SUFFICES ASSUME work'.prev # NoBlock
               PROVE  /\ best' # NoBlock /\ work.prev \in Ancestors[best']
                      /\ Locating' => work.prev \in Ancestors[batch'.prev]
    BY <1>2 DEF WorkInv, WorkKept
  <2>1. /\ best # NoBlock /\ work.prev \in Ancestors[best]
        /\ Locating => work.prev \in Ancestors[batch.prev]
    BY <1>2 DEF WorkInv, WorkKept
  <2>2. best' # NoBlock /\ work.prev \in Ancestors[best']
    BY <2>1, TipWritten DEF Locating
  <2>3. CASE ReadBase
    <3>1. CASE ReadExpectedPrev
      BY <2>1, <2>2, <3>1 DEF ReadExpectedPrev, ExpectedPrev
    <3>2. CASE ReadParentTime
      <4>1. batch'.prev = batch.prev /\ batch.phase = "located"
        BY <3>2 DEF ReadParentTime
      <4> QED
        BY <2>1, <2>2, <4>1 DEF Locating
    <3> QED
      BY <2>3, <3>1, <3>2 DEF ReadBase
  <2>4. CASE AcceptNext
    <3>1. PICK h \in Block : AcceptHeader(h)
      BY <2>4 DEF AcceptNext
    <3>2. batch.phase = "linking" /\ batch'.prev = h /\ Parent[h] = batch.prev
      BY <3>1 DEF AcceptHeader, Links
    <3>3. work.prev \in Ancestors[h]
      BY <2>1, <3>2, ChildOnChain DEF BranchInv, Locating
    <3> QED
      BY <2>2, <3>2, <3>3
  <2>5. CASE TakeMessage \/ FailMessage \/ WriteLocator
    <3>1. batch'.phase \in {"none", "opened"}
      <4>1. CASE TakeMessage
        BY <4>1 DEF TakeMessage, OpenBatch, NoBatch
      <4>2. CASE FailMessage
        BY <4>2 DEF FailMessage, RejectHeader, NoBatch
      <4>3. CASE WriteLocator
        BY <4>3 DEF WriteLocator, NoBatch
      <4> QED
        BY <2>5, <4>1, <4>2, <4>3
    <3> QED
      BY <2>2, <3>1 DEF Locating
  <2>6. CASE WriteBest \/ WriteHeight \/ WriteBits \/ WriteParentTime
    BY <2>1, <2>2, <2>6 DEF WriteBest, WriteHeight, WriteBits, WriteParentTime, Locating
  <2>7. CASE ReaderStep \/ UNCHANGED mineVars
    BY <2>1, <2>2, <2>7, ReaderLeavesStore DEF Locating
  <2> QED
    BY <2>3, <2>4, <2>5, <2>6, <2>7, MineCases
<1> QED
  BY <1>1, <1>2, LoopControl

LEMMA MineInvInit == MineInit => MineInv
  BY DEF MineInit, StoreInit, NoBatch, NoWork, MineInv, CommitInv, BranchInv, TipInv, WorkInv,
         WorkShape, Locating

(* The miner works on, judges and submits blocks of the branch its tip is on,
   however far the background loop is ahead. *)
THEOREM WorkAlwaysOnOwnChain == MineSpec => []WorkOnOwnChain
<1>1. MineInit => MineInv
  BY MineInvInit
<1>2. MineInv /\ [MineNext]_mineVars => MineInv'
  BY CommitStep, BranchStep, TipStep, WorkStep DEF MineInv
<1>3. MineInv => WorkOnOwnChain
  BY DEF MineInv, WorkInv, WorkOnOwnChain, OnChain
<1> QED
  BY <1>1, <1>2, <1>3, PTL DEF MineSpec

-----------------------------------------------------------------------------
(* The two lists of submitted blocks. *)

IsLog(s) == Len(s) \in Nat /\ s = [i \in 1..Len(s) |-> s[i]]

(* A list of which only the newest entries are kept grows at its end, and loses an
   entry at its front once it is full. *)
Pushed(s, e, k) ==
  /\ IsLog(k)
  /\ Len(k) = IF Len(s) + 1 > SubmittedCap THEN SubmittedCap ELSE Len(s) + 1
  /\ \A i \in 1..Len(k) : k[i] = IF i = Len(k) THEN e ELSE s[i + Len(s) + 1 - Len(k)]

LEMMA AppendNewest ==
  ASSUME NEW s, IsLog(s), NEW e, NEW k, k = KeepNewest(Append(s, e))
  PROVE  Pushed(s, e, k)
<1> USE DEF Pushed
<1> DEFINE S == {s[i] : i \in 1..Len(s)} \cup {e}
           a == Append(s, e)
           n == Len(s) + 1
<1>1. s \in Seq(S)
  <2>1. Len(s) \in Nat /\ \A i \in 1..Len(s) : s[i] \in S
    BY DEF IsLog
  <2>2. [i \in 1..Len(s) |-> s[i]] \in Seq(S)
    BY <2>1
  <2> QED
    BY <2>2 DEF IsLog
<1>2. /\ a \in Seq(S) /\ Len(a) = n
      /\ \A i \in 1..Len(s) : a[i] = s[i]
      /\ a[n] = e
  BY <1>1, AppendProperties
<1>3. SubmittedCap \in Nat /\ SubmittedCap > 0 /\ n \in Nat
  BY MiningLoopAssumption DEF IsLog
<1>4. ASSUME k \in Seq(S) PROVE IsLog(k)
  BY <1>4, LenProperties DEF IsLog
<1>5. CASE n > SubmittedCap
  <2> DEFINE m == n - SubmittedCap + 1
  <2>1. k = SubSeq(a, m, n)
    BY <1>2, <1>5 DEF KeepNewest
  <2>2. m \in Int /\ n \in Int /\ m <= n /\ m > 1 /\ n - m + 1 = SubmittedCap
    BY <1>3, <1>5
  <2>3. \A i \in m..n : a[i] \in S
    BY <1>2, <1>3, <2>2, ElementOfSeq
  <2> HIDE DEF m, n, a, S
  <2>4. /\ k \in Seq(S) /\ Len(k) = n - m + 1
        /\ \A i \in 1..(n - m + 1) : k[i] = a[m + i - 1]
    BY <2>1, <2>2, <2>3, SubSeqProperties
  <2>5. ASSUME NEW i \in 1..Len(k)
        PROVE  k[i] = IF i = Len(k) THEN e ELSE s[i + Len(s) + 1 - Len(k)]
    <3>1. k[i] = a[m + i - 1] /\ Len(k) = SubmittedCap
      BY <2>2, <2>4
    <3>2. CASE i = Len(k)
      <4>1. m + i - 1 = n
        BY <1>3, <2>2, <3>1, <3>2 DEF m
      <4> QED
        BY <1>2, <3>1, <3>2, <4>1
    <3>3. CASE i # Len(k)
      <4>1. m + i - 1 = i + Len(s) + 1 - Len(k) /\ m + i - 1 \in 1..Len(s)
        <5>1. i \in 1..SubmittedCap /\ i # SubmittedCap /\ Len(s) \in Nat
          BY <3>1, <3>3 DEF IsLog
        <5> QED
          BY <1>3, <2>2, <3>1, <5>1 DEF m, n
      <4> QED
        BY <1>2, <3>1, <3>3, <4>1
    <3> QED
      BY <3>2, <3>3
  <2> QED
    BY <1>4, <1>5, <2>2, <2>4, <2>5 DEF n
<1>6. CASE ~(n > SubmittedCap)
  <2>1. k = a
    BY <1>2, <1>6 DEF KeepNewest
  <2>2. ASSUME NEW i \in 1..Len(k)
        PROVE  k[i] = IF i = Len(k) THEN e ELSE s[i + Len(s) + 1 - Len(k)]
    BY <1>2, <1>3, <2>1 DEF IsLog
  <2> QED
    BY <1>2, <1>4, <1>6, <2>1, <2>2
<1> QED
  BY <1>5, <1>6

(* The numbers behind the two lists: a has n entries more than b, both are at most c,
   and each grows by one or stays at c. *)
Longer(a, c) == IF a + 1 > c THEN c ELSE a + 1
Fewer(n, a, c) == IF n > 0 /\ a = c THEN n - 1 ELSE n
Aligned(n, a, b, m, p, q) ==
  /\ p \in Nat /\ q \in Nat /\ m \in Nat /\ p = m + q
  /\ \A i \in 1..q :
       /\ m + i \in 1..p
       /\ i = q => m + i = p
       /\ i # q => /\ m + i # p /\ i + b + 1 - q \in 1..b
                  /\ (m + i) + a + 1 - p = n + (i + b + 1 - q)

LEMMA ListLengths ==
  ASSUME NEW c \in Nat \ {0}, NEW a \in Nat, NEW b \in Nat, NEW n \in Nat, a = n + b, a <= c
  PROVE  Aligned(n, a, b, Fewer(n, a, c), Longer(a, c), Longer(b, c))
<1>1. CASE a < c
  BY <1>1 DEF Aligned, Fewer, Longer
<1>2. CASE a = c /\ n > 0
  BY <1>2 DEF Aligned, Fewer, Longer
<1>3. CASE a = c /\ n = 0
  BY <1>3 DEF Aligned, Fewer, Longer
<1>4. a < c \/ (a = c /\ n > 0) \/ (a = c /\ n = 0)
  OBVIOUS
<1> QED
  BY <1>1, <1>2, <1>3, <1>4

(* The entries of t are the entries of s after the first n. *)
Match(s, n, t) ==
  /\ Len(s) = n + Len(t)
  /\ \A i \in 1..Len(t) : t[i].hash = s[n + i].hash /\ t[i].height = s[n + i].height

(* One more entry for both lists: of s one of the first n is dropped, if there are
   any, before t loses its own. *)
LEMMA MatchGrows ==
  ASSUME NEW s, NEW t, IsLog(s), IsLog(t), NEW n \in Nat, Match(s, n, t), Len(s) <= SubmittedCap,
         NEW d, NEW e, d.hash = e.hash, d.height = e.height
  PROVE  Match(KeepNewest(Append(s, d)), IF n > 0 /\ Len(s) = SubmittedCap THEN n - 1 ELSE n,
               KeepNewest(Append(t, e)))
<1> DEFINE j == KeepNewest(Append(s, d))
           k == KeepNewest(Append(t, e))
           m == IF n > 0 /\ Len(s) = SubmittedCap THEN n - 1 ELSE n
<1>1. Pushed(s, d, j) /\ Pushed(t, e, k)
  BY AppendNewest
<1> HIDE DEF j, k
<1>2. Len(j) = Longer(Len(s), SubmittedCap) /\ Len(k) = Longer(Len(t), SubmittedCap)
  BY <1>1 DEF Pushed, Longer
<1>3. Len(s) = n + Len(t) /\ Len(t) \in Nat /\ Len(s) \in Nat /\ SubmittedCap \in Nat \ {0}
  BY MiningLoopAssumption DEF Match, IsLog
<1>4. Aligned(n, Len(s), Len(t), m, Len(j), Len(k))
  <2>1. m = Fewer(n, Len(s), SubmittedCap)
    BY DEF Fewer
  <2> HIDE DEF m
  <2> QED
    BY <1>2, <1>3, <2>1, ListLengths
<1> HIDE DEF m
<1>5. ASSUME NEW i \in 1..Len(k)
      PROVE  k[i].hash = j[m + i].hash /\ k[i].height = j[m + i].height
  <2>1. CASE i = Len(k)
    BY <1>1, <1>4, <2>1 DEF Pushed, Aligned
  <2>2. CASE i # Len(k)
    <3> DEFINE o == i + Len(t) + 1 - Len(k)
    <3>1. o \in 1..Len(t) /\ (m + i) + Len(s) + 1 - Len(j) = n + o
      BY <1>4, <2>2 DEF Aligned
    <3>2. k[i] = t[o] /\ j[m + i] = s[n + o]
      <4>1. k[i] = t[o]
        BY <1>1, <2>2 DEF Pushed
      <4>2. j[m + i] = s[(m + i) + Len(s) + 1 - Len(j)]
        BY <1>1, <1>4, <2>2 DEF Pushed, Aligned
      <4> QED
        BY <3>1, <4>1, <4>2
    <3> HIDE DEF o
    <3> QED
      BY <3>1, <3>2 DEF Match
  <2> QED
    BY <2>1, <2>2
<1> QED
  BY <1>4, <1>5 DEF Match, Aligned, j, k, m

(* An entry of the monitor's list has its four fields. *)
EntryShape(x) ==
  x = [block |-> x.block, height |-> x.height, hash |-> x.hash, verdict |-> x.verdict]

(* While it holds primaryIOMux the mining loop does nothing else. *)
LoopWaits == io = "loop" => pc = "refresh"

LEMMA LoopWaitsStep ==
  ASSUME LoopWaits, [MineNext]_mineVars
  PROVE  LoopWaits'
<1> USE DEF LoopWaits
<1>1. CASE \E who \in {"bg", "loop"} : TakeLock(who)
  BY <1>1 DEF TakeLock
<1>2. CASE ReleaseLock
  BY <1>2 DEF ReleaseLock
<1>3. CASE StartBroadcast \/ EndBroadcast
  BY <1>3 DEF StartBroadcast, EndBroadcast
<1>4. CASE \/ ReadTip \/ ReadLastNonMin \/ ReadTipParent \/ CheckTemplate \/ RoundEnds \/ RoundFinds
           \/ KeepOrDiscard \/ JudgeStale \/ RefuseSubmit \/ RecordBlock \/ TrackBlock
  <2>1. pc # "refresh" /\ UNCHANGED io
    BY <1>4 DEF ReadTip, ReadLastNonMin, ReadTipParent, CheckTemplate, RoundEnds, RoundFinds,
                KeepOrDiscard, JudgeStale, RefuseSubmit, RecordBlock, TrackBlock
  <2> QED
    BY <2>1
<1>5. CASE \/ \E c \in Checker : ReadMonitorTip(c) \/ CheckForPayments(c)
           \/ TakeMessage \/ ReadBase \/ AcceptNext \/ FailMessage
           \/ WriteBest \/ WriteHeight \/ WriteBits \/ WriteParentTime \/ WriteLocator
           \/ UNCHANGED mineVars
  <2>1. UNCHANGED <<io, pc>>
    BY <1>5 DEF ReadMonitorTip, CheckForPayments, TakeMessage, ReadBase, AcceptNext, FailMessage,
                WriteBest, WriteHeight, WriteBits, WriteParentTime, WriteLocator
  <2> QED
    BY <2>1
<1> QED
  BY <1>1, <1>2, <1>3, <1>4, <1>5, MineCases DEF ReaderStep

(* With a monitor the lists match, but for the blocks of earlier runs and the one
   that is being recorded. *)
TrackInv ==
  /\ IsLog(submitted) /\ IsLog(tracked)
  /\ \A i \in 1..Len(tracked) : EntryShape(tracked[i])
  /\ Len(submitted) <= SubmittedCap /\ early \in 0..Len(submitted)
  /\ monitor /\ pc # "track" => Match(submitted, early, tracked)
  /\ monitor /\ pc = "track" =>
       \E s, d, n : /\ IsLog(s) /\ n \in Nat /\ Match(s, n, tracked) /\ Len(s) <= SubmittedCap
                    /\ d.hash = PowHash[work.block] /\ d.height = Height[work.prev] + 1
                    /\ submitted = KeepNewest(Append(s, d))
                    /\ early = IF n > 0 /\ Len(s) = SubmittedCap THEN n - 1 ELSE n

LEMMA TrackStep ==
  ASSUME TrackInv, LoopWaits, [MineNext]_mineVars
  PROVE  TrackInv'
<1>1. CASE RecordBlock
  <2> DEFINE d == [height |-> Height[work.prev] + 1, hash |-> PowHash[work.block],
                   stale |-> work.stale, ok |-> work.ok]
  <2>1. /\ pc = "record" /\ pc' = "track" /\ UNCHANGED <<work, tracked, monitor>>
        /\ submitted' = KeepNewest(Append(submitted, d))
        /\ early' = IF early > 0 /\ Len(submitted) = SubmittedCap THEN early - 1 ELSE early
    BY <1>1 DEF RecordBlock
  <2>2. d.hash = PowHash[work.block] /\ d.height = Height[work.prev] + 1
    OBVIOUS
  <2> HIDE DEF d
  <2>3. /\ IsLog(submitted') /\ IsLog(submitted) /\ early \in Nat /\ Len(submitted) <= SubmittedCap
        /\ Len(submitted') = IF Len(submitted) + 1 > SubmittedCap THEN SubmittedCap
                             ELSE Len(submitted) + 1
    BY <2>1, AppendNewest DEF TrackInv, IsLog, Pushed
  <2>4. Len(submitted') <= SubmittedCap /\ early' \in 0..Len(submitted')
    BY <2>1, <2>3, MiningLoopAssumption DEF TrackInv, IsLog
  <2>5. monitor => Match(submitted, early, tracked)
    BY <2>1 DEF TrackInv
  <2> QED
    BY <2>1, <2>2, <2>3, <2>4, <2>5 DEF TrackInv
<1>2. CASE TrackBlock
  <2> DEFINE e == [block |-> work.block, height |-> Height[work.prev] + 1,
                   hash |-> PowHash[work.block], verdict |-> "pending"]
  <2>1. /\ pc = "track" /\ pc' = "refresh" /\ UNCHANGED <<submitted, early, monitor>>
        /\ tracked' = IF ~monitor THEN tracked ELSE KeepNewest(Append(tracked, e))
    BY <1>2 DEF TrackBlock
  <2>a. CASE ~monitor
    BY <2>1, <2>a DEF TrackInv
  <2>b. CASE monitor
    <3>1. tracked' = KeepNewest(Append(tracked, e))
      BY <2>1, <2>b
    <3>2. PICK s, d, n : /\ IsLog(s) /\ n \in Nat /\ Match(s, n, tracked)
                         /\ Len(s) <= SubmittedCap
                         /\ d.hash = PowHash[work.block] /\ d.height = Height[work.prev] + 1
                         /\ submitted = KeepNewest(Append(s, d))
                         /\ early = IF n > 0 /\ Len(s) = SubmittedCap THEN n - 1 ELSE n
      BY <2>1, <2>b DEF TrackInv
    <3>3. e.hash = d.hash /\ e.height = d.height /\ EntryShape(e)
      BY <3>2 DEF EntryShape
    <3> HIDE DEF e
    <3>4. IsLog(tracked)
      BY DEF TrackInv
    <3>5. Match(submitted', early', tracked')
      BY <2>1, <3>1, <3>2, <3>3, <3>4, MatchGrows
    <3>6. Pushed(tracked, e, tracked')
      BY <3>1, <3>4, AppendNewest
    <3>7. ASSUME NEW i \in 1..Len(tracked')
          PROVE  EntryShape(tracked'[i])
      <4>1. CASE i = Len(tracked')
        BY <3>3, <3>6, <4>1 DEF Pushed
      <4>2. CASE i # Len(tracked')
        <5>1. i + Len(tracked) + 1 - Len(tracked') \in 1..Len(tracked)
          BY <3>6, <4>2, MiningLoopAssumption DEF TrackInv, IsLog, Pushed
        <5> QED
          BY <3>6, <4>2, <5>1 DEF TrackInv, Pushed
      <4> QED
        BY <4>1, <4>2
    <3> QED
      BY <2>1, <3>5, <3>6, <3>7 DEF TrackInv, Pushed
  <2> QED
    BY <2>a, <2>b
<1>3. ASSUME NEW c \in Checker, CheckForPayments(c)
      PROVE  TrackInv'
  <2>1. DOMAIN tracked = 1..Len(tracked) /\ Len(tracked) \in Nat
    BY DEF TrackInv, IsLog
  <2>2. /\ tracked' = [i \in 1..Len(tracked) |->
                        [tracked[i] EXCEPT !.verdict = Verdict(tracked[i], check[c])]]
        /\ UNCHANGED <<pc, work, submitted, early, monitor>>
    BY <1>3, <2>1 DEF CheckForPayments
  <2>3. Len(tracked') = Len(tracked) /\ IsLog(tracked')
    BY <2>1, <2>2 DEF IsLog
  <2>4. ASSUME NEW i \in 1..Len(tracked)
        PROVE  /\ EntryShape(tracked'[i])
               /\ tracked'[i].hash = tracked[i].hash /\ tracked'[i].height = tracked[i].height
    <3>1. tracked'[i] = [tracked[i] EXCEPT !.verdict = Verdict(tracked[i], check[c])]
      BY <2>2
    <3> QED
      BY <3>1 DEF TrackInv, EntryShape
  <2>5. \A s, n : Match(s, n, tracked) => Match(s, n, tracked')
    BY <2>3, <2>4 DEF Match
  <2> QED
    BY <2>2, <2>3, <2>4, <2>5 DEF TrackInv
<1>4. CASE /\ UNCHANGED <<submitted, early, tracked, monitor>>
           /\ UNCHANGED <<pc, work>> \/ (pc # "track" /\ pc' # "track")
  BY <1>4 DEF TrackInv
<1>5. CASE \/ ReadTip \/ ReadLastNonMin \/ ReadTipParent \/ CheckTemplate \/ RoundEnds \/ RoundFinds
           \/ KeepOrDiscard \/ JudgeStale \/ RefuseSubmit \/ StartBroadcast
  <2>1. UNCHANGED <<submitted, early, tracked, monitor>> /\ pc # "track" /\ pc' # "track"
    BY <1>5 DEF ReadTip, ReadLastNonMin, ReadTipParent, CheckTemplate, RoundEnds, RoundFinds,
                KeepOrDiscard, JudgeStale, RefuseSubmit, StartBroadcast
  <2> QED
    BY <2>1, <1>4
<1>6. CASE EndBroadcast
  BY <1>6, <1>4 DEF EndBroadcast
<1>8. CASE ReleaseLock
  <2>1. /\ UNCHANGED <<submitted, early, tracked, monitor>>
        /\ UNCHANGED <<pc, work>> \/ (pc # "track" /\ pc' # "track")
    BY <1>8 DEF ReleaseLock, LoopWaits
  <2> QED
    BY <2>1, <1>4
<1>7. CASE \/ \E who \in {"bg", "loop"} : TakeLock(who)
           \/ \E c \in Checker : ReadMonitorTip(c)
           \/ TakeMessage \/ ReadBase \/ AcceptNext \/ FailMessage
           \/ WriteBest \/ WriteHeight \/ WriteBits \/ WriteParentTime \/ WriteLocator
           \/ UNCHANGED mineVars
  <2>1. UNCHANGED <<submitted, early, tracked, monitor, pc, work>>
    BY <1>7 DEF TakeLock, ReadMonitorTip, TakeMessage, ReadBase, AcceptNext, FailMessage,
                WriteBest, WriteHeight, WriteBits, WriteParentTime, WriteLocator
  <2> QED
    BY <2>1, <1>4
<1> QED
  BY <1>1, <1>2, <1>3, <1>5, <1>6, <1>7, <1>8, MineCases DEF ReaderStep

LEMMA TrackInit == MineInit => TrackInv /\ LoopWaits
<1> SUFFICES ASSUME MineInit PROVE TrackInv /\ LoopWaits
  OBVIOUS
<1>1. early \in 0..SubmittedCap /\ submitted = [i \in 1..early |-> Earlier] /\ SubmittedCap \in Nat
  BY MiningLoopAssumption DEF MineInit
<1>2. Len(submitted) = early /\ IsLog(submitted)
  BY <1>1 DEF IsLog
<1>3. tracked = <<>> /\ pc = "refresh" /\ io = "free"
  BY DEF MineInit
<1> QED
  BY <1>1, <1>2, <1>3 DEF TrackInv, LoopWaits, IsLog, Match

(* Where there is a payment monitor it watches the blocks of this run the miner lists
   as submitted, in the same order, when a round begins: with the caps of both lists,
   of which one may hold blocks of earlier runs, and however payment checks run into
   the recording of a block. *)
THEOREM SubmittedAlwaysTracked == MineSpec => []SubmittedAreTracked
<1>1. MineInit => TrackInv /\ LoopWaits
  BY TrackInit
<1>2. ASSUME TrackInv PROVE SubmittedAreTracked
  <2>1. DOMAIN tracked = 1..Len(tracked)
    BY <1>2 DEF TrackInv, IsLog
  <2> QED
    BY <1>2, <2>1 DEF TrackInv, Match, SubmittedAreTracked, IsLog
<1> QED
  BY <1>1, <1>2, TrackStep, LoopWaitsStep, PTL DEF MineSpec

-----------------------------------------------------------------------------
(* Type correctness.  The store's fields first: the assignments of a commit keep
   their types one by one. *)

PriorType == prior \in [bits : Nat, parent : Block \cup {NoBlock}]

LEMMA TrimmedType == \A ring \in Seq(Block) : Trimmed(ring) \in Seq(Block)
<1> TAKE ring \in Seq(Block)
<1> DEFINE n == IF Len(ring) > LocatorKeep THEN LocatorKeep ELSE Len(ring)
<1>1. n \in 0..Len(ring)
  BY HeaderStoreAssumption
<1>2. SubSeq(ring, 1, n) \in Seq(Block)
  BY <1>1
<1> QED
  BY <1>2 DEF Trimmed

LEMMA WritesKeepTypes ==
  ASSUME StoreTypeOK, BranchInv
  PROVE  /\ WriteBest => StoreTypeOK' /\ PriorType'
         /\ WriteHeight \/ WriteBits \/ WriteParentTime \/ WriteLocator => StoreTypeOK'
<1>1. batch.height \in Nat /\ batch.carry \in Nat /\ batch.tipParent \in Block \cup {NoBlock}
  BY DEF StoreTypeOK
<1>2. ASSUME WriteBest PROVE StoreTypeOK' /\ PriorType'
  <2>1. batch.prev \in Block
    BY <1>2 DEF WriteBest, BranchInv
  <2>2. StoreTypeOK'
    BY <1>2, <2>1 DEF WriteBest, StoreTypeOK
  <2>3. lastNonMin \in Nat /\ tipParent \in Block \cup {NoBlock}
    BY DEF StoreTypeOK
  <2> QED
    BY <1>2, <2>2, <2>3 DEF WriteBest, PriorType
<1>3. ASSUME WriteHeight PROVE StoreTypeOK'
  BY <1>1, <1>3 DEF WriteHeight, StoreTypeOK
<1>4. ASSUME WriteBits PROVE StoreTypeOK'
  BY <1>1, <1>4 DEF WriteBits, StoreTypeOK
<1>5. ASSUME WriteParentTime PROVE StoreTypeOK'
  BY <1>1, <1>5 DEF WriteParentTime, StoreTypeOK
<1>6. ASSUME WriteLocator PROVE StoreTypeOK'
  <2>1. batch.hashes \o locator \in Seq(Block)
    BY DEF StoreTypeOK
  <2>2. locator' \in Seq(Block)
    BY <1>6, <2>1, TrimmedType DEF WriteLocator
  <2> QED
    BY <1>6, <2>2, NoBatchType DEF WriteLocator, StoreTypeOK
<1> QED
  BY <1>2, <1>3, <1>4, <1>5, <1>6

LEMMA StoreTypeKept ==
  ASSUME StoreTypeOK, PriorType, BranchInv, [MineNext]_mineVars
  PROVE  StoreTypeOK' /\ PriorType'
<1>1. CASE WriteBest
  BY <1>1, WritesKeepTypes
<1>2. CASE ~WriteBest
  <2>1. prior' = prior
    <3>1. CASE ReaderStep
      BY <3>1 DEF ReaderStep, TakeLock, ReleaseLock, ReadTip, ReadLastNonMin, ReadTipParent,
         CheckTemplate, RoundEnds, RoundFinds, KeepOrDiscard, JudgeStale, RefuseSubmit, StartBroadcast,
         EndBroadcast, RecordBlock, TrackBlock, ReadMonitorTip, CheckForPayments
    <3>2. CASE TakeMessage \/ ReadBase \/ AcceptNext \/ FailMessage
      BY <3>2 DEF TakeMessage, ReadBase, AcceptNext, FailMessage
    <3>3. CASE WriteHeight \/ WriteBits \/ WriteParentTime \/ WriteLocator
      BY <3>3 DEF WriteHeight, WriteBits, WriteParentTime, WriteLocator
    <3>4. CASE UNCHANGED mineVars
      BY <3>4
    <3> QED
      BY <1>2, <3>1, <3>2, <3>3, <3>4, MineCases
  <2> SUFFICES StoreTypeOK'
    BY <2>1 DEF PriorType
  <2>2. ASSUME UNCHANGED storeVars PROVE StoreTypeOK'
    BY <2>2 DEF StoreTypeOK
  <2>3. CASE ReaderStep \/ UNCHANGED mineVars
    BY <2>2, <2>3, ReaderLeavesStore
  <2>4. CASE TakeMessage
    BY <2>4, OpenBatchType DEF TakeMessage
  <2>5. CASE ReadBase
    BY <2>5, ReadExpectedPrevType, ReadParentTimeType DEF ReadBase
  <2>6. CASE AcceptNext
    BY <2>6, AcceptHeaderType DEF AcceptNext
  <2>7. CASE FailMessage
    <3>1. batch' = NoBatch /\ UNCHANGED <<chain, start, history>>
      BY <2>7 DEF FailMessage, RejectHeader
    <3> QED
      BY <3>1, NoBatchType DEF StoreTypeOK
  <2>8. CASE WriteHeight \/ WriteBits \/ WriteParentTime \/ WriteLocator
    BY <2>8, WritesKeepTypes
  <2> QED
    BY <1>2, <2>3, <2>4, <2>5, <2>6, <2>7, <2>8, MineCases
<1> QED
  BY <1>1, <1>2

(* The locks, and the tips the payment checks have read. *)
SharedType ==
  /\ network \in {"mainnet", "testnet"} /\ monitor \in BOOLEAN
  /\ io \in {"free", "bg", "loop", "send"} /\ asking \in BOOLEAN
  /\ check \in [Checker -> Block \cup {NoBlock}]

LEMMA SharedTypeStep ==
  ASSUME SharedType, BranchInv, [MineNext]_mineVars
  PROVE  SharedType'
<1> USE DEF SharedType
<1>1. CASE \E who \in {"bg", "loop"} : TakeLock(who)
  BY <1>1 DEF TakeLock
<1>2. CASE ReleaseLock
  BY <1>2 DEF ReleaseLock
<1>3. CASE StartBroadcast \/ EndBroadcast
  BY <1>3 DEF StartBroadcast, EndBroadcast
<1>4. CASE FailMessage
  BY <1>4 DEF FailMessage
<1>5. ASSUME NEW c \in Checker, ReadMonitorTip(c) \/ CheckForPayments(c)
      PROVE  SharedType'
  BY <1>5 DEF ReadMonitorTip, CheckForPayments, BranchInv
<1>6. CASE \/ ReadTip \/ ReadLastNonMin \/ ReadTipParent \/ CheckTemplate \/ RoundEnds \/ RoundFinds
           \/ KeepOrDiscard \/ JudgeStale \/ RefuseSubmit \/ RecordBlock \/ TrackBlock
  <2>1. UNCHANGED <<network, monitor, io, asking, check>>
    BY <1>6 DEF ReadTip, ReadLastNonMin, ReadTipParent, CheckTemplate, RoundEnds, RoundFinds,
                KeepOrDiscard, JudgeStale, RefuseSubmit, RecordBlock, TrackBlock
  <2> QED
    BY <2>1
<1>7. CASE \/ TakeMessage \/ ReadBase \/ AcceptNext
           \/ WriteBest \/ WriteHeight \/ WriteBits \/ WriteParentTime \/ WriteLocator
           \/ UNCHANGED mineVars
  <2>1. UNCHANGED <<network, monitor, io, asking, check>>
    BY <1>7 DEF TakeMessage, ReadBase, AcceptNext,
                WriteBest, WriteHeight, WriteBits, WriteParentTime, WriteLocator
  <2> QED
    BY <2>1
<1> QED
  BY <1>1, <1>2, <1>3, <1>4, <1>5, <1>6, <1>7, MineCases DEF ReaderStep

(* The mining loop.  From the round that finds a block to its tracking, the
   refresh in between included, that block and its parent are at hand. *)
WorkType ==
  work \in [prev : Block \cup {NoBlock}, bits : Nat, parent : Block \cup {NoBlock},
            block : Mined \cup {NoBlock}, stale : BOOLEAN, ok : BOOLEAN]
Placed ==
  /\ pc \in {"refresh", "tip", "bits", "parent", "check", "mine", "found", "stale",
             "submit", "sending", "record", "track"}
  /\ after \in {"init", "tip", "top", "record"}
Held == work.block \in Mined /\ work.prev \in Block
HeldInv ==
  /\ after = "record" => pc \in {"refresh", "record", "track"}
  /\ after = "record" \/ pc \in {"found", "stale", "submit", "sending", "record", "track"} => Held
LoopInv == WorkType /\ Placed /\ sent \subseteq Mined /\ HeldInv

LEMMA NoWorkType ==
  /\ NoWork \in [prev : Block \cup {NoBlock}, bits : Nat, parent : Block \cup {NoBlock},
                 block : Mined \cup {NoBlock}, stale : BOOLEAN, ok : BOOLEAN]
  /\ \A b \in Block \cup {NoBlock} :
       [NoWork EXCEPT !.prev = b] \in
         [prev : Block \cup {NoBlock}, bits : Nat, parent : Block \cup {NoBlock},
          block : Mined \cup {NoBlock}, stale : BOOLEAN, ok : BOOLEAN]
  BY DEF NoWork

(* What a field written does to the others. *)
LEMMA WorkWritten ==
  ASSUME WorkType
  PROVE  /\ \A n \in Nat : work' = [work EXCEPT !.bits = n] => WorkType'
         /\ \A b \in Block \cup {NoBlock} : work' = [work EXCEPT !.parent = b] => WorkType'
         /\ \A b \in Mined : work' = [work EXCEPT !.block = b]
              => WorkType' /\ work'.block = b /\ work'.prev = work.prev
         /\ \A t \in BOOLEAN : work' = [work EXCEPT !.stale = t]
              => WorkType' /\ work'.block = work.block /\ work'.prev = work.prev
         /\ work' = [work EXCEPT !.ok = TRUE]
              => WorkType' /\ work'.block = work.block /\ work'.prev = work.prev
<1> USE DEF WorkType
<1>1. ASSUME NEW n \in Nat, work' = [work EXCEPT !.bits = n] PROVE WorkType'
  BY <1>1
<1>2. ASSUME NEW b \in Block \cup {NoBlock}, work' = [work EXCEPT !.parent = b]
      PROVE  WorkType'
  BY <1>2
<1>3. ASSUME NEW b \in Mined, work' = [work EXCEPT !.block = b]
      PROVE  WorkType' /\ work'.block = b /\ work'.prev = work.prev
  BY <1>3
<1>4. ASSUME NEW t \in BOOLEAN, work' = [work EXCEPT !.stale = t]
      PROVE  WorkType' /\ work'.block = work.block /\ work'.prev = work.prev
  BY <1>4
<1>5. ASSUME work' = [work EXCEPT !.ok = TRUE]
      PROVE  WorkType' /\ work'.block = work.block /\ work'.prev = work.prev
  BY <1>5
<1> QED
  BY <1>1, <1>2, <1>3, <1>4, <1>5

LEMMA LoopInvStep ==
  ASSUME LoopInv, LoopWaits, StoreTypeOK, [MineNext]_mineVars
  PROVE  LoopInv'
<1> USE DEF LoopInv, Placed
<1>1. CASE ReadTip
  <2>1. work' = [NoWork EXCEPT !.prev = best] /\ best \in Block \cup {NoBlock}
    BY <1>1 DEF ReadTip, StoreTypeOK
  <2>2. WorkType'
    BY <2>1, NoWorkType DEF WorkType
  <2> QED
    BY <1>1, <2>2 DEF ReadTip, HeldInv
<1>2. CASE ReadLastNonMin
  <2>1. work' = [work EXCEPT !.bits = lastNonMin] /\ lastNonMin \in Nat
    BY <1>2 DEF ReadLastNonMin, StoreTypeOK
  <2>2. WorkType'
    BY <2>1, WorkWritten
  <2> QED
    BY <1>2, <2>2 DEF ReadLastNonMin, HeldInv
<1>3. CASE ReadTipParent
  <2>1. work' = [work EXCEPT !.parent = tipParent] /\ tipParent \in Block \cup {NoBlock}
    BY <1>3 DEF ReadTipParent, StoreTypeOK
  <2>2. WorkType'
    BY <2>1, WorkWritten
  <2> QED
    BY <1>3, <2>2 DEF ReadTipParent, HeldInv
<1>4. CASE CheckTemplate \/ RoundEnds
  <2>1. work' = work \/ work' = NoWork
    BY <1>4 DEF CheckTemplate, RoundEnds
  <2>2. WorkType'
    BY <2>1, NoWorkType DEF WorkType
  <2>3. sent' = sent /\ Placed' /\ HeldInv'
    BY <1>4 DEF CheckTemplate, RoundEnds, HeldInv
  <2> QED
    BY <2>2, <2>3
<1>5. CASE RoundFinds
  <2>1. PICK b \in Mined : Parent[b] = work.prev /\ work' = [work EXCEPT !.block = b]
    BY <1>5 DEF RoundFinds
  <2>2. WorkType' /\ work'.block = b /\ work'.prev = work.prev
    BY <2>1, WorkWritten
  <2>3. work.prev \in Block
    BY <2>1, MiningLoopAssumption, BlockTreeAssumption
  <2>4. Held'
    BY <2>2, <2>3 DEF Held
  <2> QED
    BY <1>5, <2>2, <2>4 DEF RoundFinds, HeldInv
<1>6. CASE KeepOrDiscard
  <2>1. pc = "found" /\ sent' = sent
    BY <1>6 DEF KeepOrDiscard
  <2>2. CASE pc' = "refresh" /\ after' = "top" /\ work' = NoWork
    BY <2>1, <2>2, NoWorkType DEF WorkType, HeldInv
  <2>3. CASE pc' = "stale" /\ UNCHANGED <<after, work>>
    BY <2>1, <2>3 DEF WorkType, HeldInv, Held
  <2> QED
    BY <1>6, <2>2, <2>3 DEF KeepOrDiscard
<1>7. CASE JudgeStale
  <2>1. WorkType' /\ work'.block = work.block /\ work'.prev = work.prev
    BY <1>7, WorkWritten DEF JudgeStale
  <2> QED
    BY <1>7, <2>1 DEF JudgeStale, HeldInv, Held
<1>8. CASE StartBroadcast \/ RefuseSubmit
  BY <1>8 DEF StartBroadcast, RefuseSubmit, WorkType, HeldInv, Held
<1>9. CASE EndBroadcast
  <2>1. work' = work \/ work' = [work EXCEPT !.ok = TRUE]
    BY <1>9 DEF EndBroadcast
  <2>2. WorkType' /\ work'.block = work.block /\ work'.prev = work.prev
    BY <2>1, WorkWritten DEF WorkType
  <2> QED
    BY <1>9, <2>2 DEF EndBroadcast, HeldInv, Held
<1>10. CASE RecordBlock
  BY <1>10 DEF RecordBlock, WorkType, HeldInv, Held
<1>11. CASE TrackBlock
  <2>1. WorkType'
    BY <1>11, NoWorkType DEF TrackBlock, WorkType
  <2> QED
    BY <1>11, <2>1 DEF TrackBlock, HeldInv
<1>12. CASE ReleaseLock
  <2>1. UNCHANGED <<work, sent>>
    BY <1>12 DEF ReleaseLock
  <2>2. Placed' /\ HeldInv'
    BY <1>12 DEF ReleaseLock, LoopWaits, HeldInv, Held
  <2> QED
    BY <2>1, <2>2 DEF WorkType
<1>13. CASE \/ \E who \in {"bg", "loop"} : TakeLock(who)
            \/ \E c \in Checker : ReadMonitorTip(c) \/ CheckForPayments(c)
            \/ TakeMessage \/ ReadBase \/ AcceptNext \/ FailMessage
            \/ WriteBest \/ WriteHeight \/ WriteBits \/ WriteParentTime \/ WriteLocator
            \/ UNCHANGED mineVars
  <2>1. UNCHANGED <<pc, after, work, sent>>
    BY <1>13 DEF TakeLock, ReadMonitorTip, CheckForPayments, TakeMessage, ReadBase, AcceptNext,
                 FailMessage, WriteBest, WriteHeight, WriteBits, WriteParentTime, WriteLocator
  <2> QED
    BY <2>1 DEF WorkType, HeldInv, Held
<1> QED
  BY <1>1, <1>2, <1>3, <1>4, <1>5, <1>6, <1>7, <1>8, <1>9, <1>10, <1>11, <1>12, <1>13,
     MineCases DEF ReaderStep

(* The two lists. *)
Entry == [block : Mined, height : Nat, hash : {PowHash[b] : b \in Mined},
          verdict : {"pending", "confirmed", "orphaned"}]
ListsType ==
  /\ Len(submitted) <= SubmittedCap /\ Len(tracked) <= SubmittedCap
  /\ \A i \in DOMAIN tracked : tracked[i] \in Entry

LEMMA ListsTypeStep ==
  ASSUME ListsType, TrackInv, LoopInv, [MineNext]_mineVars
  PROVE  ListsType'
<1>1. /\ IsLog(submitted) /\ IsLog(tracked) /\ DOMAIN tracked = 1..Len(tracked)
      /\ SubmittedCap \in Nat /\ Len(tracked) \in Nat /\ Len(submitted) \in Nat
  BY MiningLoopAssumption DEF TrackInv, IsLog
<1>2. CASE RecordBlock
  <2> DEFINE d == [height |-> Height[work.prev] + 1, hash |-> PowHash[work.block],
                   stale |-> work.stale, ok |-> work.ok]
  <2>1. tracked' = tracked /\ submitted' = KeepNewest(Append(submitted, d))
    BY <1>2 DEF RecordBlock
  <2> HIDE DEF d
  <2>2. Len(submitted') = IF Len(submitted) + 1 > SubmittedCap THEN SubmittedCap
                          ELSE Len(submitted) + 1
    BY <1>1, <2>1, AppendNewest DEF Pushed
  <2>3. Len(submitted') <= SubmittedCap
    BY <1>1, <2>2
  <2> QED
    BY <2>1, <2>3 DEF ListsType
<1>3. CASE TrackBlock /\ monitor
  <2> DEFINE e == [block |-> work.block, height |-> Height[work.prev] + 1,
                   hash |-> PowHash[work.block], verdict |-> "pending"]
  <2>1. /\ pc = "track" /\ submitted' = submitted
        /\ tracked' = KeepNewest(Append(tracked, e))
    BY <1>3 DEF TrackBlock
  <2>2. work.block \in Mined /\ Height[work.prev] + 1 \in Nat
    BY <2>1, BlockTreeAssumption DEF LoopInv, HeldInv, Held
  <2>3. e \in Entry
    BY <2>2 DEF Entry
  <2> HIDE DEF e
  <2>4. Pushed(tracked, e, tracked')
    <3>1. IsLog(tracked) /\ tracked' = KeepNewest(Append(tracked, e))
      BY <1>1, <2>1
    <3> QED
      BY <3>1, AppendNewest
  <2>5. Len(tracked') <= SubmittedCap /\ DOMAIN tracked' = 1..Len(tracked') /\ Len(tracked') \in Nat
    BY <1>1, <2>4 DEF IsLog, Pushed
  <2>6. ASSUME NEW i \in 1..Len(tracked')
        PROVE  tracked'[i] \in Entry
    <3>1. CASE i = Len(tracked')
      BY <2>3, <2>4, <3>1 DEF Pushed
    <3>2. CASE i # Len(tracked')
      <4>1. i + Len(tracked) + 1 - Len(tracked') \in 1..Len(tracked)
        BY <1>1, <2>4, <2>5, <3>2 DEF Pushed
      <4> QED
        BY <1>1, <2>4, <3>2, <4>1 DEF ListsType, Pushed
    <3> QED
      BY <3>1, <3>2
  <2> QED
    BY <2>1, <2>5, <2>6 DEF ListsType
<1>4. ASSUME NEW c \in Checker, CheckForPayments(c)
      PROVE  ListsType'
  <2>1. /\ tracked' = [i \in 1..Len(tracked) |->
                        [tracked[i] EXCEPT !.verdict = Verdict(tracked[i], check[c])]]
        /\ submitted' = submitted
    BY <1>1, <1>4 DEF CheckForPayments
  <2>2. Len(tracked') = Len(tracked)
    BY <1>1, <2>1
  <2>3. ASSUME NEW i \in 1..Len(tracked)
        PROVE  tracked'[i] \in Entry
    <3> DEFINE e == tracked[i]
               v == Verdict(e, check[c])
    <3>1. e \in Entry
      BY <1>1 DEF ListsType
    <3> HIDE DEF e
    <3>2. v \in {"pending", "confirmed", "orphaned"}
      BY <3>1 DEF Verdict, Entry
    <3> HIDE DEF v
    <3>3. [e EXCEPT !.verdict = v] \in Entry
      BY <3>1, <3>2 DEF Entry
    <3> QED
      BY <2>1, <3>3 DEF e, v
  <2> QED
    BY <2>1, <2>2, <2>3 DEF ListsType
<1>5. CASE UNCHANGED <<submitted, early, tracked>>
  BY <1>5 DEF ListsType
<1>8. CASE TrackBlock /\ ~monitor
  BY <1>5, <1>8 DEF TrackBlock
<1>6. CASE \/ ReadTip \/ ReadLastNonMin \/ ReadTipParent \/ CheckTemplate \/ RoundEnds \/ RoundFinds
           \/ KeepOrDiscard \/ JudgeStale \/ RefuseSubmit \/ StartBroadcast \/ EndBroadcast \/ ReleaseLock
  <2>1. UNCHANGED <<submitted, early, tracked>>
    BY <1>6 DEF ReadTip, ReadLastNonMin, ReadTipParent, CheckTemplate, RoundEnds, RoundFinds,
                KeepOrDiscard, JudgeStale, RefuseSubmit, StartBroadcast, EndBroadcast, ReleaseLock
  <2> QED
    BY <2>1, <1>5
<1>7. CASE \/ \E who \in {"bg", "loop"} : TakeLock(who)
           \/ \E c \in Checker : ReadMonitorTip(c)
           \/ TakeMessage \/ ReadBase \/ AcceptNext \/ FailMessage
           \/ WriteBest \/ WriteHeight \/ WriteBits \/ WriteParentTime \/ WriteLocator
           \/ UNCHANGED mineVars
  <2>1. UNCHANGED <<submitted, early, tracked>>
    BY <1>7 DEF TakeLock, ReadMonitorTip, TakeMessage, ReadBase, AcceptNext, FailMessage,
                WriteBest, WriteHeight, WriteBits, WriteParentTime, WriteLocator
  <2> QED
    BY <2>1, <1>5
<1> QED
  BY <1>2, <1>3, <1>4, <1>6, <1>7, <1>8, MineCases DEF ReaderStep

(* The invariants so far, with every part the type invariant needs. *)
TypeInv ==
  /\ MineInv /\ TrackInv /\ LoopWaits
  /\ StoreTypeOK /\ PriorType /\ SharedType /\ LoopInv /\ ListsType

LEMMA TypeInvInductive ==
  /\ MineInit => TypeInv
  /\ TypeInv /\ [MineNext]_mineVars => TypeInv'
<1>1. ASSUME MineInit PROVE TypeInv
  <2>1. TrackInv /\ LoopWaits
    BY <1>1, TrackInit
  <2>2. StoreTypeOK /\ PriorType /\ SharedType
    BY <1>1, StoreInitType DEF MineInit, PriorType, SharedType
  <2>3. LoopInv
    BY <1>1, NoWorkType DEF MineInit, LoopInv, WorkType, Placed, HeldInv
  <2>4. ListsType
    <3>1. tracked = <<>>
      BY <1>1 DEF MineInit
    <3> QED
      BY <2>1, <3>1, MiningLoopAssumption DEF ListsType, TrackInv
  <2> QED
    BY <1>1, <2>1, <2>2, <2>3, <2>4, MineInvInit DEF TypeInv
<1>2. ASSUME TypeInv, [MineNext]_mineVars PROVE TypeInv'
  <2>1. MineInv'
    BY <1>2, CommitStep, BranchStep, TipStep, WorkStep DEF TypeInv, MineInv
  <2>2. TrackInv' /\ LoopWaits'
    BY <1>2, TrackStep, LoopWaitsStep DEF TypeInv
  <2>3. StoreTypeOK' /\ PriorType' /\ SharedType'
    BY <1>2, StoreTypeKept, SharedTypeStep DEF TypeInv, MineInv
  <2>4. LoopInv' /\ ListsType'
    BY <1>2, LoopInvStep, ListsTypeStep DEF TypeInv
  <2> QED
    BY <2>1, <2>2, <2>3, <2>4 DEF TypeInv
<1> QED
  BY <1>1, <1>2

(* Whatever the holder of the lock writes under the readers: a template is made of
   fields that have their types, a block that is recorded, submitted or tracked is one
   that was found, and the two lists stay within their cap. *)
THEOREM MineTypeCorrect == MineSpec => []MineTypeOK
<1>1. TypeInv => MineTypeOK
  BY DEF TypeInv, MineInv, CommitInv, PriorType, SharedType, LoopInv, WorkType, Placed,
         ListsType, Entry, TrackInv, MineTypeOK
<1> QED
  BY <1>1, TypeInvInductive, PTL DEF MineSpec

-----------------------------------------------------------------------------
(* How torn a template can be.  A commit replaces the tip by a block above it, so
   a tip that has been left does not come back: a template that is still on the
   tip at the check was read during one commit at most. *)

AboveInv ==
  /\ best # NoBlock /\ Locating =>
       /\ Height[best] <= Height[batch.prev]
       /\ batch.hashes # <<>> /\ commit = "none" => Height[best] < Height[batch.prev]
  /\ work.prev # NoBlock => Height[work.prev] <= Height[best]

(* While a field is still to be written it has the value before the commit. *)
PriorInv ==
  /\ commit \in {"height", "bits"} => lastNonMin = prior.bits
  /\ commit \in {"height", "bits", "parent"} => tipParent = prior.parent

TornInv ==
  work.prev = best =>
    /\ pc \in {"parent", "check"} => work.bits \in {prior.bits, CommittedBits}
    /\ pc = "check" => work.parent \in {prior.parent, CommittedParent}

LEMMA NewTip ==
  ASSUME MineInv, AboveInv, WriteBest
  PROVE  /\ best' \in Block
         /\ best # NoBlock => Height[best] < Height[best']
         /\ work.prev # best'
<1>1. /\ best' = batch.prev /\ best' \in Block /\ batch.hashes # <<>>
      /\ commit = "none" /\ Locating
  BY DEF WriteBest, MineInv, BranchInv, Locating
<1>2. best # NoBlock => Height[best] < Height[best']
  BY <1>1 DEF AboveInv
<1>3. ASSUME work.prev # NoBlock PROVE work.prev # best'
  <2>1. best \in Block /\ Height[work.prev] <= Height[best]
    BY <1>3 DEF MineInv, WorkInv, BranchInv, AboveInv
  <2>2. Height[best] \in Nat /\ Height[best'] \in Nat
    BY <1>1, <2>1, BlockTreeAssumption
  <2>3. ASSUME work.prev = best' PROVE FALSE
    BY <1>2, <2>1, <2>2, <2>3, BlockTreeAssumption
  <2> QED
    BY <2>3
<1> QED
  BY <1>1, <1>2, <1>3, BlockTreeAssumption

LEMMA BatchAbove ==
  ASSUME MineInv, AboveInv, StoreTypeOK, [MineNext]_mineVars
  PROVE  best' # NoBlock /\ Locating' =>
           /\ Height[best'] <= Height[batch'.prev]
           /\ batch'.hashes # <<>> /\ commit' = "none" => Height[best'] < Height[batch'.prev]
<1> SUFFICES ASSUME best' # NoBlock, Locating'
             PROVE  /\ Height[best'] <= Height[batch'.prev]
                    /\ batch'.hashes # <<>> /\ commit' = "none"
                         => Height[best'] < Height[batch'.prev]
  OBVIOUS
<1>1. CASE ReadExpectedPrev /\ ReadBase
  <2>1. /\ batch.phase = "opened" /\ best' = best
        /\ batch' = [batch EXCEPT !.phase = "located", !.prev = ExpectedPrev]
    BY <1>1 DEF ReadExpectedPrev
  <2>2. batch'.prev = best /\ batch'.hashes = batch.hashes
    BY <2>1 DEF ExpectedPrev, StoreTypeOK
  <2>3. batch.hashes = <<>> /\ best \in Block
    BY <2>1 DEF MineInv, BranchInv
  <2> QED
    BY <2>1, <2>2, <2>3, BlockTreeAssumption
<1>2. CASE ReadParentTime /\ ReadBase
  <2>1. /\ batch.phase = "located" /\ best' = best
        /\ batch' = [batch EXCEPT !.phase = "linking", !.parent = KnownPrevTime]
    BY <1>2 DEF ReadParentTime
  <2>2. batch'.prev = batch.prev /\ batch'.hashes = batch.hashes
    BY <2>1 DEF StoreTypeOK
  <2>3. batch.hashes = <<>>
    BY <2>1 DEF MineInv, BranchInv
  <2> QED
    BY <2>1, <2>2, <2>3 DEF AboveInv, Locating
<1>3. CASE AcceptNext
  <2>1. PICK h \in Block : AcceptHeader(h)
    BY <1>3 DEF AcceptNext
  <2>2. /\ batch.phase = "linking" /\ Parent[h] = batch.prev
        /\ batch'.prev = h /\ best' = best
    BY <2>1 DEF AcceptHeader, Links, StoreTypeOK
  <2>3. batch.prev \in Block /\ best \in Block /\ Height[best] <= Height[batch.prev]
    BY <2>2 DEF MineInv, BranchInv, AboveInv, Locating
  <2>4. Height[h] = Height[batch.prev] + 1
    BY <2>2, <2>3, ChildOnChain
  <2>5. Height[best] \in Nat /\ Height[batch.prev] \in Nat
    BY <2>3, BlockTreeAssumption
  <2> QED
    BY <2>2, <2>3, <2>4, <2>5
<1>4. CASE TakeMessage \/ FailMessage \/ WriteLocator
  <2>1. batch'.phase \in {"none", "opened"}
    <3>1. CASE TakeMessage
      BY <3>1 DEF TakeMessage, OpenBatch, NoBatch
    <3>2. CASE FailMessage
      BY <3>2 DEF FailMessage, RejectHeader, NoBatch
    <3>3. CASE WriteLocator
      BY <3>3 DEF WriteLocator, NoBatch
    <3> QED
      BY <1>4, <3>1, <3>2, <3>3
  <2> QED
    BY <2>1 DEF Locating
<1>5. CASE WriteBest
  <2>1. best' \in Block /\ batch'.prev = best' /\ commit' # "none"
    BY <1>5, NewTip DEF WriteBest
  <2> QED
    BY <2>1, BlockTreeAssumption
<1>6. CASE WriteHeight \/ WriteBits \/ WriteParentTime
  <2>1. batch' = batch /\ best' = best /\ commit' # "none"
    BY <1>6 DEF WriteHeight, WriteBits, WriteParentTime
  <2> QED
    BY <2>1 DEF AboveInv, Locating
<1>7. CASE ReaderStep \/ UNCHANGED mineVars
  <2>1. batch' = batch /\ best' = best /\ commit' = commit
    BY <1>7, ReaderLeavesStore
  <2> QED
    BY <2>1 DEF AboveInv, Locating
<1> QED
  BY <1>1, <1>2, <1>3, <1>4, <1>5, <1>6, <1>7, MineCases DEF ReadBase

LEMMA AboveStep ==
  ASSUME MineInv, AboveInv, StoreTypeOK, [MineNext]_mineVars
  PROVE  AboveInv'
<1>1. ASSUME work'.prev # NoBlock PROVE Height[work'.prev] <= Height[best']
  <2>1. CASE ReadTip
    <3>1. work'.prev = best /\ best' = best
      BY <2>1 DEF ReadTip, NoWork
    <3>2. best \in Block
      BY <1>1, <3>1 DEF MineInv, BranchInv
    <3> QED
      BY <3>1, <3>2, BlockTreeAssumption
  <2>2. CASE WorkKept
    <3>1. work'.prev = work.prev
      BY <1>1, <2>2 DEF WorkKept
    <3>2. best \in Block /\ Height[work.prev] <= Height[best] /\ work.prev \in Ancestors[best]
      BY <1>1, <3>1 DEF MineInv, WorkInv, BranchInv, AboveInv
    <3>3. CASE best' = best
      BY <3>1, <3>2, <3>3
    <3>4. CASE WriteBest
      <4>1. Height[best] < Height[best'] /\ best' \in Block
        BY <3>2, <3>4, NewTip, BlockTreeAssumption
      <4>2. Height[work.prev] \in Nat /\ Height[best] \in Nat /\ Height[best'] \in Nat
        BY <3>2, <4>1, BlockTreeAssumption
      <4> QED
        BY <3>1, <3>2, <4>1, <4>2
    <3> QED
      BY <3>3, <3>4, TipWritten DEF MineInv
  <2> QED
    BY <2>1, <2>2, LoopControl DEF MineInv
<1> QED
  BY <1>1, BatchAbove DEF AboveInv

(* Only the commit changes what the loop may read. *)
LEMMA CommitKept ==
  ASSUME MineInv, [MineNext]_mineVars, ~WriteBest
  PROVE  /\ prior' = prior /\ best' = best
         /\ CommittedBits' = CommittedBits /\ CommittedParent' = CommittedParent
<1> USE DEF CommittedBits, CommittedParent
<1>1. CASE ReaderStep
  <2>1. prior' = prior
    BY <1>1 DEF ReaderStep, TakeLock, ReleaseLock, ReadTip, ReadLastNonMin, ReadTipParent,
       CheckTemplate, RoundEnds, RoundFinds, KeepOrDiscard, JudgeStale, RefuseSubmit, StartBroadcast,
       EndBroadcast, RecordBlock, TrackBlock, ReadMonitorTip, CheckForPayments
  <2> QED
    BY <1>1, <2>1, ReaderLeavesStore
<1>2. CASE TakeMessage
  BY <1>2 DEF TakeMessage, OpenBatch
<1>3. CASE ReadBase
  BY <1>3 DEF ReadBase, ReadExpectedPrev, ReadParentTime, MineInv, CommitInv
<1>4. CASE AcceptNext
  BY <1>4 DEF AcceptNext, AcceptHeader
<1>5. CASE FailMessage
  BY <1>5 DEF FailMessage, RejectHeader
<1>6. CASE WriteHeight
  BY <1>6 DEF WriteHeight
<1>7. CASE WriteBits
  BY <1>7 DEF WriteBits
<1>8. CASE WriteParentTime
  BY <1>8 DEF WriteParentTime
<1>9. CASE WriteLocator
  BY <1>9 DEF WriteLocator
<1>10. CASE UNCHANGED mineVars
  BY <1>10
<1> QED
  BY <1>1, <1>2, <1>3, <1>4, <1>5, <1>6, <1>7, <1>8, <1>9, <1>10, MineCases

LEMMA PriorStep ==
  ASSUME MineInv, PriorInv, [MineNext]_mineVars
  PROVE  PriorInv'
<1>1. CASE WriteBest
  BY <1>1 DEF WriteBest, PriorInv
<1>2. CASE ReaderStep \/ UNCHANGED mineVars
  <2>1. UNCHANGED <<storeVars, commit>> /\ prior' = prior
    <3>1. ~WriteBest
      BY <1>2, ReaderLeavesStore DEF WriteBest
    <3> QED
      BY <1>2, <3>1, ReaderLeavesStore, CommitKept
  <2> QED
    BY <2>1 DEF PriorInv
<1>3. CASE TakeMessage \/ ReadBase \/ AcceptNext \/ FailMessage
  <2>1. commit' = "none"
    BY <1>3 DEF TakeMessage, ReadBase, ReadExpectedPrev, ReadParentTime, AcceptNext, FailMessage,
       MineInv, CommitInv
  <2> QED
    BY <2>1 DEF PriorInv
<1>4. CASE WriteHeight \/ WriteBits \/ WriteParentTime \/ WriteLocator
  BY <1>4 DEF WriteHeight, WriteBits, WriteParentTime, WriteLocator, PriorInv
<1> QED
  BY <1>1, <1>2, <1>3, <1>4, MineCases

(* Where the mining loop may stand after a step, and with which fields read. *)
LEMMA FieldsRead ==
  ASSUME WorkShape, [MineNext]_mineVars
  PROVE  \/ pc' \notin {"parent", "check"}
         \/ ReadLastNonMin /\ pc' = "parent" /\ work'.bits = lastNonMin
         \/ /\ ReadTipParent /\ pc = "parent" /\ work'.parent = tipParent
            /\ work'.bits = work.bits /\ work'.prev = work.prev
         \/ UNCHANGED <<pc, work>>
<1>1. CASE ReadLastNonMin
  <2>1. pc' = "parent" /\ work' = [work EXCEPT !.bits = lastNonMin]
    BY <1>1 DEF ReadLastNonMin
  <2>2. work'.bits = lastNonMin
    BY <2>1 DEF WorkShape
  <2> QED
    BY <1>1, <2>1, <2>2
<1>2. CASE ReadTipParent
  <2>1. pc = "parent" /\ work' = [work EXCEPT !.parent = tipParent]
    BY <1>2 DEF ReadTipParent
  <2>2. work'.parent = tipParent /\ work'.bits = work.bits /\ work'.prev = work.prev
    BY <2>1 DEF WorkShape
  <2> QED
    BY <1>2, <2>1, <2>2
<1>3. CASE \/ ReadTip \/ CheckTemplate \/ RoundEnds \/ RoundFinds
           \/ KeepOrDiscard \/ JudgeStale \/ RefuseSubmit \/ StartBroadcast \/ EndBroadcast \/ RecordBlock
           \/ TrackBlock
  <2>1. pc' \notin {"parent", "check"}
    BY <1>3 DEF ReadTip, CheckTemplate, RoundEnds, RoundFinds,
                KeepOrDiscard, JudgeStale, RefuseSubmit, StartBroadcast, EndBroadcast, RecordBlock, TrackBlock
  <2> QED
    BY <2>1
<1>4. CASE ReleaseLock
  <2>1. UNCHANGED <<pc, work>> \/ pc' \in {"tip", "record"}
    BY <1>4 DEF ReleaseLock
  <2> QED
    BY <2>1
<1>5. CASE \/ \E who \in {"bg", "loop"} : TakeLock(who)
           \/ \E c \in Checker : ReadMonitorTip(c) \/ CheckForPayments(c)
           \/ TakeMessage \/ ReadBase \/ AcceptNext \/ FailMessage
           \/ WriteBest \/ WriteHeight \/ WriteBits \/ WriteParentTime \/ WriteLocator
           \/ UNCHANGED mineVars
  <2>1. UNCHANGED <<pc, work>>
    BY <1>5 DEF TakeLock, ReadMonitorTip, CheckForPayments, TakeMessage, ReadBase, AcceptNext,
                FailMessage, WriteBest, WriteHeight, WriteBits, WriteParentTime, WriteLocator
  <2> QED
    BY <2>1
<1> QED
  BY <1>1, <1>2, <1>3, <1>4, <1>5, MineCases DEF ReaderStep

LEMMA TornStep ==
  ASSUME MineInv, AboveInv, PriorInv, TornInv, [MineNext]_mineVars
  PROVE  TornInv'
<1>1. CASE WriteBest
  <2>1. work' = work /\ work.prev # best'
    BY <1>1, NewTip DEF WriteBest
  <2> QED
    BY <2>1 DEF TornInv
<1>2. CASE ~WriteBest
  <2>1. /\ prior' = prior /\ best' = best
        /\ CommittedBits' = CommittedBits /\ CommittedParent' = CommittedParent
    BY <1>2, CommitKept
  <2>2. /\ lastNonMin \in {prior.bits, CommittedBits}
        /\ tipParent \in {prior.parent, CommittedParent}
    BY DEF PriorInv, CommittedBits, CommittedParent
  <2>3. CASE pc' \notin {"parent", "check"}
    BY <2>3 DEF TornInv
  <2>4. CASE pc' = "parent" /\ work'.bits = lastNonMin
    BY <2>1, <2>2, <2>4 DEF TornInv
  <2>5. CASE /\ pc = "parent" /\ work'.parent = tipParent
             /\ work'.bits = work.bits /\ work'.prev = work.prev
    BY <2>1, <2>2, <2>5 DEF TornInv
  <2>6. CASE UNCHANGED <<pc, work>>
    BY <2>1, <2>6 DEF TornInv
  <2> QED
    BY <2>3, <2>4, <2>5, <2>6, FieldsRead DEF MineInv
<1> QED
  BY <1>1, <1>2

LEMMA OnlyCheckStarts ==
  ASSUME [MineNext]_mineVars, pc = "check", pc' = "mine"
  PROVE  CheckTemplate
<1>1. CASE ReaderStep
  BY <1>1 DEF ReaderStep, TakeLock, ReleaseLock, ReadTip, ReadLastNonMin, ReadTipParent,
     RoundEnds, RoundFinds, KeepOrDiscard, JudgeStale, RefuseSubmit, StartBroadcast,
     EndBroadcast, RecordBlock, TrackBlock, ReadMonitorTip, CheckForPayments
<1>2. CASE \/ TakeMessage \/ ReadBase \/ AcceptNext \/ FailMessage
           \/ WriteBest \/ WriteHeight \/ WriteBits \/ WriteParentTime \/ WriteLocator
  BY <1>2 DEF TakeMessage, ReadBase, AcceptNext, FailMessage,
     WriteBest, WriteHeight, WriteBits, WriteParentTime, WriteLocator
<1>3. CASE UNCHANGED mineVars
  BY <1>3
<1> QED
  BY <1>1, <1>2, <1>3, MineCases

(* A round that starts on testnet starts on the tip, with nBits and a parent time of
   that tip or of the tip the last message replaced, whatever was committed while
   the fields were read. *)
THEOREM TornAlwaysByOneCommit == MineSpec => TornByOneCommit
<1> DEFINE Inv == TypeInv /\ AboveInv /\ PriorInv /\ TornInv
<1>1. ASSUME MineInit PROVE Inv
  <2>1. best = NoBlock /\ work.prev = NoBlock /\ pc = "refresh" /\ commit = "none"
    BY <1>1 DEF MineInit, StoreInit, NoWork
  <2> QED
    BY <1>1, <2>1, TypeInvInductive DEF AboveInv, PriorInv, TornInv
<1>2. Inv /\ [MineNext]_mineVars => Inv'
  <2> SUFFICES ASSUME Inv, [MineNext]_mineVars PROVE Inv'
    OBVIOUS
  <2>1. MineInv /\ StoreTypeOK
    BY DEF TypeInv
  <2> QED
    BY <2>1, TypeInvInductive, AboveStep, PriorStep, TornStep
<1>3. ASSUME Inv, pc = "check", pc' = "mine", network = "testnet", [MineNext]_mineVars
      PROVE  /\ work.prev = best
             /\ work.bits \in {prior.bits, CommittedBits}
             /\ work.parent \in {prior.parent, CommittedParent}
  <2>1. CheckTemplate
    BY <1>3, OnlyCheckStarts
  <2>2. work.prev = best
    BY <1>3, <2>1 DEF CheckTemplate
  <2> QED
    BY <1>3, <2>2 DEF TornInv
<1> QED
  BY <1>1, <1>2, <1>3, PTL DEF MineSpec, TornByOneCommit

-----------------------------------------------------------------------------
(* What HeaderStoreProofs shows of the store, said of the chain state the running
   miner has committed. *)

CommittedStore == INSTANCE HeaderStoreProofs WITH
  bestHeight <- IF commit = "height" THEN batch.height ELSE bestHeight,
  lastNonMin <- CommittedBits,
  tipParent <- CommittedParent,
  locator <- IF commit # "none" THEN Trimmed(batch.hashes \o locator) ELSE locator,
  batch <- IF commit # "none" THEN NoBatch ELSE batch

(* The steps the two instances speak of are the same. *)
LEMMA SameStore ==
  /\ MineInit => CommittedStore!StoreInit
  /\ [Committed!StoreNext]_(Committed!storeVars)
       => [CommittedStore!StoreNext]_(CommittedStore!storeVars)
<1>1. MineInit => CommittedStore!StoreInit
  BY DEF MineInit, StoreInit, CommittedStore!StoreInit, NoStart, CommittedStore!NoStart,
         NoBatch, CommittedStore!NoBatch, CommittedBits, CommittedParent
<1> USE DEF Committed!chain, CommittedStore!chain
<1>2. Committed!storeVars = CommittedStore!storeVars
  BY DEF Committed!storeVars, CommittedStore!storeVars
<1>3. Committed!OpenBatch => CommittedStore!OpenBatch
  BY DEF Committed!OpenBatch, CommittedStore!OpenBatch, Committed!NoBatch,
         CommittedStore!NoBatch, Committed!NoStart, CommittedStore!NoStart
<1>4. Committed!ReadExpectedPrev => CommittedStore!ReadExpectedPrev
  BY DEF Committed!ReadExpectedPrev, CommittedStore!ReadExpectedPrev,
         Committed!ExpectedPrev, CommittedStore!ExpectedPrev, Committed!NoStart,
         CommittedStore!NoStart
<1>5. Committed!ReadParentTime => CommittedStore!ReadParentTime
  BY DEF Committed!ReadParentTime, CommittedStore!ReadParentTime, Committed!KnownPrevTime,
         CommittedStore!KnownPrevTime, Committed!NoStart, CommittedStore!NoStart
<1>6. Committed!CommitBatch => CommittedStore!CommitBatch
  BY DEF Committed!CommitBatch, CommittedStore!CommitBatch, Committed!NoBatch,
         CommittedStore!NoBatch
<1>7. \A h \in Block : Committed!AcceptHeader(h) => CommittedStore!AcceptHeader(h)
  BY DEF Committed!AcceptHeader, CommittedStore!AcceptHeader, Committed!Links,
         CommittedStore!Links, Committed!Recorded, CommittedStore!Recorded,
         Committed!Cardinality, CommittedStore!Cardinality
<1>8. \A h : Committed!RejectHeader(h) => CommittedStore!RejectHeader(h)
  BY DEF Committed!RejectHeader, CommittedStore!RejectHeader, Committed!Links,
         CommittedStore!Links, Committed!NoBatch, CommittedStore!NoBatch
<1>9. /\ Committed!ClearSyncState => CommittedStore!ClearSyncState
      /\ Committed!StartFromGenesis => CommittedStore!StartFromGenesis
      /\ Committed!NewClient => CommittedStore!NewClient
  BY DEF Committed!ClearSyncState, CommittedStore!ClearSyncState,
         Committed!StartFromGenesis, CommittedStore!StartFromGenesis, Committed!NewClient,
         CommittedStore!NewClient, Committed!Fresh, CommittedStore!Fresh,
         Committed!MayReset, CommittedStore!MayReset, Committed!NoStart,
         CommittedStore!NoStart, Committed!NoBatch, CommittedStore!NoBatch
<1>10. /\ Committed!StartPoint = CommittedStore!StartPoint
       /\ \A b : Committed!PointOf(b) = CommittedStore!PointOf(b)
  BY DEF Committed!StartPoint, CommittedStore!StartPoint, Committed!PointOf,
         CommittedStore!PointOf, Committed!CheckpointPoint, CommittedStore!CheckpointPoint,
         Committed!HexTo32Bytes, CommittedStore!HexTo32Bytes
<1>11. /\ \A s : Committed!StartFrom(s) => CommittedStore!StartFrom(s)
       /\ \A s, bits : Committed!Resume(s, bits) => CommittedStore!Resume(s, bits)
  BY DEF Committed!StartFrom, CommittedStore!StartFrom, Committed!Resume,
         CommittedStore!Resume, Committed!MayReset, CommittedStore!MayReset
<1>12. Committed!StoreNext => CommittedStore!StoreNext
  BY <1>3, <1>4, <1>5, <1>6, <1>7, <1>8, <1>9, <1>10, <1>11
  DEF Committed!StoreNext, CommittedStore!StoreNext
<1> QED
  BY <1>1, <1>2, <1>12 DEF Committed!storeVars, CommittedStore!storeVars

(* Between two commits the fields that the rounds, the record of a block and the
   payment monitor read without a lock describe one chain: the tip, its height, its
   parent's time, the locator and the recent history. *)
THEOREM RunningMinerKeepsOneChain ==
  MineSpec => [](commit = "none" => LocatorIsChain /\ TipHeightCorrect /\ TipParentCorrect
                                      /\ HistoryAgreesWithLocator)
<1> DEFINE Inv == CommitInv /\ CommittedStore!StoreInv
<1>1. MineInit => Inv
  BY SameStore, CommittedStore!StoreInvInductive, BlockTreeAssumption, HeaderStoreAssumption
  DEF MineInit, CommitInv
<1>2. Inv /\ [MineNext]_mineVars => Inv'
  BY CommitStep, MineStepsStore, SameStore,
     CommittedStore!StoreInvInductive, BlockTreeAssumption, HeaderStoreAssumption
<1>3. ASSUME CommittedStore!StoreInv, commit = "none"
      PROVE  LocatorIsChain /\ TipHeightCorrect /\ TipParentCorrect /\ HistoryAgreesWithLocator
  <2>1. CommittedParent = tipParent
    BY <1>3 DEF CommittedParent
  <2>2. LocatorIsChain
    BY <1>3 DEF CommittedStore!StoreInv, CommittedStore!ChainInv,
                CommittedStore!LocatorIsChain, LocatorIsChain
  <2>3. TipHeightCorrect
    BY <1>3 DEF CommittedStore!StoreInv, CommittedStore!UndisturbedInv,
                CommittedStore!HeightInv, TipHeightCorrect
  <2>4. TipParentCorrect
    BY <1>3, <2>1 DEF CommittedStore!StoreInv, CommittedStore!UndisturbedInv,
                      CommittedStore!ParentInv, TipParentCorrect
  <2>5. HistoryAgreesWithLocator
    BY <1>3 DEF CommittedStore!StoreInv, CommittedStore!UndisturbedInv,
                CommittedStore!HistoryInv, CommittedStore!Agrees, HistoryAgreesWithLocator
  <2> QED
    BY <2>2, <2>3, <2>4, <2>5
<1> QED
  BY <1>1, <1>2, <1>3, PTL DEF MineSpec

(* The running miner's tip never jumps to another branch, nor is it lost. *)
THEOREM RunningTipOnlyExtends ==
  MineSpec => TipOnlyExtends /\ [][best # NoBlock => best' # NoBlock]_mineVars
<1>1. ASSUME MineInv, [MineNext]_mineVars
      PROVE  /\ [best' = best \/ best' = NoBlock \/ best = NoBlock \/ OnChain(best, best')]_storeVars
             /\ best # NoBlock => best' # NoBlock
  <2>1. CASE best' = best
    BY <2>1
  <2>2. CASE best' = batch.prev /\ batch.phase = "linking" /\ best' # NoBlock
    BY <1>1, <2>2 DEF MineInv, BranchInv, Locating, OnChain
  <2> QED
    BY <1>1, <2>1, <2>2, TipWritten DEF MineInv
<1>2. MineInv /\ [MineNext]_mineVars => MineInv'
  BY CommitStep, BranchStep, TipStep, WorkStep DEF MineInv
<1> QED
  BY <1>1, <1>2, MineInvInit, PTL DEF MineSpec, TipOnlyExtends
=============================================================================
