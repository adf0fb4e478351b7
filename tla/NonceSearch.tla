----------------------------- MODULE NonceSearch -----------------------------
(***************************************************************************)
(* One CPU mining round: ScryptMiner.mineParallel.  The threads divide the  *)
(* 2^Width nonces, hash until somebody finds a block or their share of the  *)
(* round is used up, and the caller reads the result from a channel that a  *)
(* closer goroutine closes behind the last thread.  Nonces are uint32 in    *)
(* the code and wrap around; so they do here, at Width bits.                *)
(***************************************************************************)
EXTENDS Integers, Sequences, FiniteSets

CONSTANTS
  Width,               \* 32
  ThreadCount,
  MaxHashes,           \* the configured hashes of a round ...
  MaxHashesThisRound,  \* ... unless this cap of the mining loop is set
  BatchSize,           \* 1000
  MinPerThread,        \* 1000: a thread's share when the division gives 0
  StartBase,           \* values of the clock at the start of a round (bound)
  Solutions,           \* nonces whose scrypt hash meets the target
  ReversedSolutions    \* nonces whose hash would meet it read backwards

MaxNonce == 2^Width - 1      \* 0xFFFFFFFF
Nonce == 0..MaxNonce
Thread == 0..(ThreadCount - 1)
Sweep == ThreadCount          \* a search without threads (MineBlock)

ASSUME NonceSearchAssumption ==
  /\ Width \in Nat \ {0}
  /\ {ThreadCount, BatchSize, MinPerThread} \subseteq Nat \ {0}
  /\ MaxHashes \in Nat \ {0} /\ MaxHashesThisRound \in Nat
  /\ ThreadCount <= MaxNonce /\ BatchSize <= MaxNonce
  /\ {StartBase, Solutions, ReversedSolutions} \subseteq SUBSET Nonce

VARIABLES
  mode,       \* NonceSearchMode: "backward", or "forward" for anything else
  useStride,  \* UseStride
  startBase,  \* startNonceBase, the low 32 bits of the clock
  pc,         \* where each thread is
  current,    \* currentNonce; threadStartNonce, which moves, in stride mode
  i,          \* how far the thread is into its batch
  local,      \* localHashCount
  tried,      \* history: the nonces each thread, or the sweep, has hashed
  found,      \* the atomic flag
  total,      \* totalHashes
  results,    \* the channel, with room for every thread
  closed,     \* it is closed
  ret         \* what mineParallel returned

config == <<mode, useStride, startBase>>
threads == <<pc, current, i, local, tried>>
vars == <<config, threads, found, total, results, closed, ret>>

Uint32(n) == n % 2^Width

EffectiveMaxHashes == IF MaxHashesThisRound > 0 THEN MaxHashesThisRound ELSE MaxHashes
HashesPerThread ==
  IF EffectiveMaxHashes < ThreadCount THEN MinPerThread ELSE EffectiveMaxHashes \div ThreadCount
NonceRange == MaxNonce \div ThreadCount

ThreadStart(t) ==
  IF useStride THEN Uint32(startBase + t) % MaxNonce
  ELSE Uint32(startBase + t * NonceRange)

ThreadEnd(t) ==
  IF useStride \/ t = ThreadCount - 1 THEN MaxNonce
  ELSE Uint32(startBase + (t + 1) * NonceRange)

Striding == useStride /\ mode # "backward"
Running == [returned |-> FALSE, found |-> FALSE, nonce |-> 0, hashes |-> 0]

Init ==
  /\ mode \in {"forward", "backward"}
  /\ useStride \in BOOLEAN
  /\ startBase \in StartBase
  /\ pc = [t \in Thread |-> "loop"]
  /\ current = [t \in Thread |-> ThreadStart(t)]
  /\ i = [t \in Thread |-> 0]
  /\ local = [t \in Thread |-> 0]
  /\ tried = [t \in Thread \cup {Sweep} |-> {}]
  /\ found = FALSE /\ total = 0 /\ results = <<>> /\ closed = FALSE
  /\ ret = Running

-----------------------------------------------------------------------------
(* The end of the batch that begins at `current`.  Forward, the addition may
   wrap, and then so does the batch: it is empty. *)
BatchEnd(t) ==
  IF mode = "backward"
  THEN IF current[t] > BatchSize THEN current[t] - BatchSize ELSE 0
  ELSE LET end == Uint32(current[t] + BatchSize)
       IN IF end > ThreadEnd(t) THEN ThreadEnd(t) ELSE end

Candidate(t) ==
  IF Striding THEN Uint32(current[t] + i[t] * ThreadCount) % MaxNonce
  ELSE IF mode = "backward" THEN current[t] - i[t] ELSE current[t] + i[t]

(* Mutant: the batch takes its end in. *)
InBatchInclusive(t) ==
  IF Striding THEN i[t] < BatchSize
  ELSE IF mode = "backward" THEN Candidate(t) >= BatchEnd(t) ELSE Candidate(t) <= BatchEnd(t)

InBatch(t) ==
  IF Striding THEN i[t] < BatchSize
  ELSE IF mode = "backward" THEN Candidate(t) > BatchEnd(t) ELSE Candidate(t) < BatchEnd(t)

(* Where the next batch begins, with the wrap-around at the end of a range. *)
NextCurrent(t) ==
  IF Striding THEN Uint32(current[t] + BatchSize * ThreadCount) % MaxNonce
  ELSE IF local[t] >= HashesPerThread THEN BatchEnd(t)
  ELSE IF mode = "backward"
  THEN IF BatchEnd(t) = 0 THEN MaxNonce ELSE BatchEnd(t)
  ELSE IF BatchEnd(t) >= ThreadEnd(t) THEN ThreadStart(t) ELSE BatchEnd(t)

(* Mutant: one hash too many. *)
GoesOnOnceMore(t) == local[t] <= HashesPerThread /\ ~found

(* A thread looks at its share and at the flag before every batch and hash. *)
GoesOn(t) == local[t] < HashesPerThread /\ ~found

StartBatch(t) ==
  /\ pc[t] = "loop" /\ GoesOn(t) /\ (mode = "backward" => current[t] > 0)
  /\ pc' = [pc EXCEPT ![t] = "batch"] /\ i' = [i EXCEPT ![t] = 0]
  /\ UNCHANGED <<config, current, local, tried, found, total, results, closed, ret>>

HashNonce(t) ==
  /\ pc[t] = "batch" /\ InBatch(t) /\ GoesOn(t)
  /\ local' = [local EXCEPT ![t] = @ + 1]
  /\ tried' = [tried EXCEPT ![t] = @ \cup {Candidate(t)}]
  /\ IF Candidate(t) \in Solutions
     THEN pc' = [pc EXCEPT ![t] = "hit"] /\ UNCHANGED i
     ELSE i' = [i EXCEPT ![t] = @ + 1] /\ UNCHANGED pc
  /\ UNCHANGED <<config, current, found, total, results, closed, ret>>

EndBatch(t) ==
  /\ pc[t] = "batch" /\ ~(InBatch(t) /\ GoesOn(t))
  /\ pc' = [pc EXCEPT ![t] = "loop"]
  /\ current' = [current EXCEPT ![t] = NextCurrent(t)]
  /\ UNCHANGED <<config, i, local, tried, found, total, results, closed, ret>>

(* Mutant: every hit is sent. *)
ClaimAlways(t) ==
  /\ pc[t] = "hit"
  /\ found' = TRUE
  /\ pc' = [pc EXCEPT ![t] = "send"]
  /\ UNCHANGED <<config, current, i, local, tried, total, results, closed, ret>>

(* found.Swap(true): who finds it false sends, everybody else just leaves. *)
Claim(t) ==
  /\ pc[t] = "hit"
  /\ found' = TRUE
  /\ pc' = [pc EXCEPT ![t] = IF found THEN "done" ELSE "send"]
  /\ UNCHANGED <<config, current, i, local, tried, total, results, closed, ret>>

Send(t) ==
  /\ pc[t] = "send"
  /\ results' = Append(results, Candidate(t))
  /\ pc' = [pc EXCEPT ![t] = "done"]
  /\ UNCHANGED <<config, current, i, local, tried, found, total, closed, ret>>

(* A thread that leaves the loop without a block adds its hashes up. *)
Count(t) ==
  /\ pc[t] = "loop" /\ ~(GoesOn(t) /\ (mode = "backward" => current[t] > 0))
  /\ total' = total + local[t]
  /\ pc' = [pc EXCEPT ![t] = "done"]
  /\ UNCHANGED <<config, current, i, local, tried, found, results, closed, ret>>

Close ==
  /\ ~closed /\ \A t \in Thread : pc[t] = "done"
  /\ closed' = TRUE
  /\ UNCHANGED <<config, threads, found, total, results, ret>>

-----------------------------------------------------------------------------
(* The caller checks the hash it received once more.  It comes in display
   order and is read as little-endian, that is, backwards. *)
Receive ==
  /\ ~ret.returned /\ results # <<>>
  /\ results' = Tail(results)
  /\ LET n == Head(results) IN
     ret' = IF n # 0 /\ n \in ReversedSolutions
            THEN [returned |-> TRUE, found |-> TRUE, nonce |-> n, hashes |-> total]
            ELSE ret
  /\ UNCHANGED <<config, threads, found, total, closed>>

(* Mutant: once a block was found its result is waited for. *)
ReturnNothingUnlessFound ==
  /\ ~ret.returned /\ closed /\ results = <<>> /\ ~found
  /\ ret' = [returned |-> TRUE, found |-> FALSE, nonce |-> 0, hashes |-> total]
  /\ UNCHANGED <<config, threads, found, total, results, closed>>

ReturnNothing ==
  /\ ~ret.returned /\ closed /\ results = <<>>
  /\ ret' = [returned |-> TRUE, found |-> FALSE, nonce |-> 0, hashes |-> total]
  /\ UNCHANGED <<config, threads, found, total, results, closed>>

ThreadStep(t) ==
  StartBatch(t) \/ HashNonce(t) \/ EndBatch(t) \/ Claim(t) \/ Send(t) \/ Count(t)

Next == (\E t \in Thread : ThreadStep(t)) \/ Close \/ Receive \/ ReturnNothing

Spec ==
  /\ Init /\ [][Next]_vars
  /\ \A t \in Thread : WF_vars(ThreadStep(t))
  /\ WF_vars(Close) /\ WF_vars(Receive) /\ WF_vars(ReturnNothing)

-----------------------------------------------------------------------------
TypeOK ==
  /\ mode \in {"forward", "backward"} /\ useStride \in BOOLEAN /\ startBase \in Nonce
  /\ pc \in [Thread -> {"loop", "batch", "hit", "send", "done"}]
  /\ current \in [Thread -> Nonce]
  /\ i \in [Thread -> 0..BatchSize]
  /\ local \in [Thread -> 0..HashesPerThread]
  /\ tried \in [Thread \cup {Sweep} -> SUBSET Nonce]
  /\ found \in BOOLEAN /\ closed \in BOOLEAN
  /\ total \in 0..(ThreadCount * HashesPerThread)
  /\ results \in Seq(Nonce)
  /\ ret \in [returned : BOOLEAN, found : BOOLEAN, nonce : Nonce, hashes : Nat]

(* However many threads hit a block in the same instant, one of them reports
   it: the channel never holds two results, nor gets one behind the return. *)
OneWinner ==
  Cardinality({t \in Thread : pc[t] = "send"}) + Len(results) + (IF ret.found THEN 1 ELSE 0) <= 1

(* A nonce that is returned was hashed in this round and meets the target. *)
ReturnedNonceSolves ==
  ret.found => ret.nonce \in Solutions /\ \E t \in Thread \cup {Sweep} : ret.nonce \in tried[t]

(* No nonce is hashed twice in a round, by one thread or by two, as long as the
   shares fit in the ranges, whose wrap-around does no harm then.  But the last
   range ends at MaxNonce and is short if it begins near there; strides are
   disjoint only until they wrap, and not at all when searched backward. *)
RoundFits ==
  /\ HashesPerThread + BatchSize <= NonceRange
  /\ IF mode = "backward" THEN ~useStride
     ELSE IF useStride THEN startBase + ThreadCount * (HashesPerThread + BatchSize) < MaxNonce
     ELSE ThreadStart(ThreadCount - 1) + HashesPerThread <= MaxNonce

NoNonceTwice ==
  RoundFits =>
    /\ \A t \in Thread : Cardinality(tried[t]) = local[t]
    /\ \A s, t \in Thread : s # t => tried[s] \cap tried[t] = {}

(* The forward range of a thread other than the last wraps around: its end
   lies below its start, and every batch of it is empty. *)
EmptyRange(t) == mode = "forward" /\ ~useStride /\ ThreadEnd(t) < ThreadStart(t)

(* Every round ends, unless a thread has such an empty range. *)
RoundEndsUnlessWrapped == (\E t \in Thread : EmptyRange(t)) \/ <>ret.returned

(* "Double-check the hash meets the target" (scrypt.go:444): the check confirms
   a block that a thread found, so the caller gets it (nonce 0 apart). *)
FoundBlockIsReturned ==
  ret.returned /\ ~ret.found => \A t \in Thread : tried[t] \cap Solutions \subseteq {0}
=============================================================================
