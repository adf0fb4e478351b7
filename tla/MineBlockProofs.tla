--------------------------- MODULE MineBlockProofs ---------------------------
(***************************************************************************)
(* What a round does and returns, on every device and for every number of    *)
(* threads, in three parts.  Results: at most one thread reports a block, and *)
(* a nonce that is returned was hashed in the round and meets the target.     *)
(* Nonces: where each thread is in its share, whichever sums of 32 bits wrap, *)
(* and so that no nonce is hashed twice.  Counting: what each thread has       *)
(* added to the total, and so that a round without a block spends its budget. *)
(***************************************************************************)
EXTENDS MineBlock, TLAPS, FiniteSetTheorems

Threaded == {"threads", "fallback", "gpu threads"}
Sending(t) == pc[t] = "send"
Hashed(n) == \E s \in Thread \cup {Sweep} : n \in tried[s]

Shape ==
  /\ device \in Threaded \cup {"single", "kernel"}
  /\ pc \in [Thread -> {"loop", "batch", "hit", "send", "done"}]
  /\ DOMAIN current = Thread /\ DOMAIN i = Thread /\ DOMAIN tried = Thread \cup {Sweep}

(* A thread that has hit a block or is about to send it stays at the nonce that
   it hashed, and so does what was sent. *)
HitsSolve ==
  /\ \A t \in Thread : pc[t] \in {"hit", "send"} => Candidate(t) \in Solutions \cap tried[t]
  /\ results = <<>> \/ \E n \in Solutions : results = <<n>> /\ Hashed(n)
  /\ ret.found => ret.returned /\ ret.nonce \in Solutions /\ Hashed(ret.nonce)

(* The flag is taken by the one that sends, and stays so; without threads, where
   nobody looks at it, nobody sends. *)
FlagTaken ==
  /\ \A s, t \in Thread : Sending(s) /\ Sending(t) => s = t
  /\ (\E t \in Thread : Sending(t)) => results = <<>>
  /\ (\E t \in Thread : Sending(t)) \/ results # <<>> => found /\ ~ret.found
  /\ ret.found => found \/ device \notin Threaded
  /\ device \notin Threaded => results = <<>> /\ \A t \in Thread : pc[t] = "loop"

RoundInv == Shape /\ HitsSolve /\ FlagTaken

LEMMA RoundInit == MineInit => RoundInv
<1> SUFFICES ASSUME MineInit PROVE RoundInv
  OBVIOUS
<1>1. /\ Init /\ device \in Threaded \cup {"single", "kernel"}
  BY DEF MineInit, Threaded
<1>2. pc = [t \in Thread |-> "loop"] /\ results = <<>> /\ ret.found = FALSE
  BY <1>1 DEF Init, Running
<1>3. Shape
  BY <1>1, <1>2 DEF Init, Shape
<1>4. HitsSolve
  BY <1>2 DEF HitsSolve
<1>5. FlagTaken
  BY <1>2 DEF FlagTaken, Sending
<1> QED
  BY <1>3, <1>4, <1>5 DEF RoundInv

-----------------------------------------------------------------------------
(* Threads. *)

AnyThreadStep(t) ==
  \/ ThreadStep(t)
  \/ HashAndReport(t) \/ CountRest(t)

(* Whichever step a thread takes, the other threads stay where they are. *)
LEMMA HashingKeeps ==
  ASSUME RoundInv, device \in Threaded, NEW t \in Thread, HashNonce(t) \/ HashAndReport(t),
         UNCHANGED device
  PROVE  RoundInv'
<1> USE DEF RoundInv, Shape
<1>1. /\ UNCHANGED <<mode, useStride, current, found, results, ret>>
      /\ tried' = [tried EXCEPT ![t] = @ \cup {Candidate(t)}]
  BY DEF HashNonce, HashAndReport, config
<1>2. \/ pc' = [pc EXCEPT ![t] = "done"] /\ i' = i
      \/ pc' = [pc EXCEPT ![t] = "hit"] /\ i' = i /\ Candidate(t) \in Solutions
      \/ pc' = pc /\ i' = [i EXCEPT ![t] = @ + 1] /\ pc[t] = "batch"
  BY DEF HashNonce, HashAndReport
<1>3. Shape'
  BY <1>1, <1>2
<1>4. \A s \in Thread \cup {Sweep} : tried[s] \subseteq tried'[s]
  BY <1>1
<1>5. \A s \in Thread : s # t => Candidate(s)' = Candidate(s) /\ pc'[s] = pc[s]
  BY <1>1, <1>2 DEF Candidate, Striding
<1>6. pc'[t] \in {"done", "batch"} \/ (pc'[t] = "hit" /\ Candidate(t)' = Candidate(t) /\ Candidate(t) \in Solutions)
  BY <1>1, <1>2 DEF Candidate, Striding
<1>7. Candidate(t) \in tried'[t]
  BY <1>1
<1>8. HitsSolve'
  BY <1>1, <1>4, <1>5, <1>6, <1>7 DEF HitsSolve, Hashed
<1>9. FlagTaken'
  BY <1>1, <1>5, <1>6 DEF FlagTaken, Sending
<1> QED
  BY <1>3, <1>8, <1>9

LEMMA SearchingKeeps ==
  ASSUME RoundInv, device \in Threaded, NEW t \in Thread,
         StartBatch(t) \/ EndBatch(t) \/ Count(t) \/ CountRest(t), UNCHANGED device
  PROVE  RoundInv'
<1> USE DEF RoundInv, Shape
<1>1. UNCHANGED <<mode, useStride, tried, found, results, ret>>
  BY DEF StartBatch, EndBatch, Count, CountRest, config
<1>2. /\ \E q \in {"batch", "loop", "done"} : pc' = [pc EXCEPT ![t] = q]
      /\ i' = i \/ i' = [i EXCEPT ![t] = 0]
      /\ current' = current \/ current' = [current EXCEPT ![t] = NextCurrent(t)]
  BY DEF StartBatch, EndBatch, Count, CountRest
<1>3. Shape'
  BY <1>1, <1>2
<1>4. \A s \in Thread : s # t => Candidate(s)' = Candidate(s) /\ pc'[s] = pc[s]
  BY <1>1, <1>2 DEF Candidate, Striding
<1>5. pc'[t] \in {"batch", "loop", "done"}
  BY <1>2
<1>6. HitsSolve'
  BY <1>1, <1>4, <1>5 DEF HitsSolve, Hashed
<1>7. FlagTaken'
  BY <1>1, <1>4, <1>5 DEF FlagTaken, Sending
<1> QED
  BY <1>3, <1>6, <1>7

LEMMA ClaimKeeps ==
  ASSUME RoundInv, device \in Threaded, NEW t \in Thread, Claim(t), UNCHANGED device
  PROVE  RoundInv'
<1> USE DEF RoundInv, Shape
<1>1. /\ UNCHANGED <<mode, useStride, current, i, tried, results, ret>>
      /\ pc[t] = "hit" /\ found' = TRUE
      /\ pc' = [pc EXCEPT ![t] = IF found THEN "done" ELSE "send"]
  BY DEF Claim, config
<1>2. Shape'
  BY <1>1
<1>3. \A s \in Thread : Candidate(s)' = Candidate(s) /\ (s # t => pc'[s] = pc[s])
  BY <1>1 DEF Candidate, Striding
<1>4. HitsSolve'
  BY <1>1, <1>3 DEF HitsSolve, Hashed
<1>5. FlagTaken'
  <2>1. CASE found
    BY <1>1, <1>3, <2>1 DEF FlagTaken, Sending
  <2>2. CASE ~found
    <3>1. results = <<>> /\ ~ret.found /\ \A s \in Thread : ~Sending(s)
      BY <2>2 DEF FlagTaken
    <3> QED
      BY <1>1, <1>3, <3>1 DEF FlagTaken, Sending
  <2> QED
    BY <2>1, <2>2
<1> QED
  BY <1>2, <1>4, <1>5

LEMMA SendKeeps ==
  ASSUME RoundInv, device \in Threaded, NEW t \in Thread, Send(t), UNCHANGED device
  PROVE  RoundInv'
<1> USE DEF RoundInv, Shape
<1>1. /\ UNCHANGED <<mode, useStride, current, i, tried, found, ret>>
      /\ pc[t] = "send" /\ pc' = [pc EXCEPT ![t] = "done"]
      /\ results' = Append(results, Candidate(t))
  BY DEF Send, config
<1>2. results = <<>> /\ found /\ ~ret.found
  BY <1>1 DEF FlagTaken, Sending
<1>3. results' = <<Candidate(t)>>
  BY <1>1, <1>2
<1>4. Candidate(t) \in Solutions /\ Hashed(Candidate(t))
  BY <1>1 DEF HitsSolve, Hashed
<1>5. Shape'
  BY <1>1
<1>6. \A s \in Thread : Candidate(s)' = Candidate(s) /\ (s # t => pc'[s] = pc[s])
  BY <1>1 DEF Candidate, Striding
<1>7. HitsSolve'
  BY <1>1, <1>2, <1>3, <1>4, <1>6 DEF HitsSolve, Hashed
<1>8. \A s \in Thread : ~Sending(s)'
  BY <1>1, <1>6 DEF FlagTaken, Sending
<1>9. FlagTaken'
  BY <1>1, <1>2, <1>8 DEF FlagTaken
<1> QED
  BY <1>5, <1>7, <1>9

LEMMA ThreadKeeps ==
  ASSUME RoundInv, device \in Threaded, NEW t \in Thread, AnyThreadStep(t), UNCHANGED device
  PROVE  RoundInv'
BY HashingKeeps, SearchingKeeps, ClaimKeeps, SendKeeps DEF AnyThreadStep, ThreadStep
-----------------------------------------------------------------------------
(* The caller. *)

LEMMA CallerKeeps ==
  ASSUME RoundInv, Close \/ Receive \/ ReturnNothing, UNCHANGED device
  PROVE  RoundInv'
<1> USE DEF RoundInv, Shape
<1>1. /\ UNCHANGED <<mode, useStride, pc, current, i, tried, found>>
      /\ \/ UNCHANGED <<results, ret>>
         \/ results # <<>> /\ results' = Tail(results) /\ (ret' = ret \/
              /\ ret'.returned /\ ret'.nonce = Head(results))
         \/ results' = results /\ ret'.found = FALSE
  BY DEF Close, Receive, ReturnNothing, config, threads
<1>2. Shape'
  BY <1>1
<1>3. \A t \in Thread : Candidate(t)' = Candidate(t)
  BY <1>1 DEF Candidate, Striding
<1>4. results = <<>> \/ \E n \in Solutions : results = <<n>> /\ Hashed(n) /\ Head(results) = n /\ Tail(results) = <<>>
  <2>1. \A n : Head(<<n>>) = n /\ Tail(<<n>>) = <<>>
    OBVIOUS
  <2> QED
    BY <2>1 DEF HitsSolve
<1>5. HitsSolve'
  BY <1>1, <1>3, <1>4 DEF HitsSolve, Hashed
<1>6. FlagTaken'
  BY <1>1, <1>4 DEF FlagTaken, Sending
<1> QED
  BY <1>2, <1>5, <1>6

(* A search without threads starts none, and gives way only while it has not
   returned. *)
LEMMA SweepKeeps ==
  ASSUME RoundInv, SweepStep
  PROVE  RoundInv'
<1> USE DEF RoundInv, Shape, Return
<1>1. CASE SweepOne \/ RunKernel
  <2>1. /\ UNCHANGED <<mode, useStride, pc, current, i, found, results, device>>
        /\ device \notin Threaded
    BY <1>1 DEF SweepOne, RunKernel, InKernel, config, Threaded
  <2>2. PICK H : /\ tried' = [tried EXCEPT ![Sweep] = @ \cup H]
                 /\ ret' = ret \/ (ret'.returned /\ ret'.nonce \in Solutions \cap H)
    <3>1. CASE SweepOne
      <4> DEFINE n == Uint32(startBase + sweep.attempted)
      <4>1. /\ tried' = [tried EXCEPT ![Sweep] = @ \cup {n}]
            /\ ret' = ret \/ (n \in Solutions /\ ret'.returned /\ ret'.nonce = n)
        BY <3>1 DEF SweepOne
      <4> HIDE DEF n
      <4>2. ret' = ret \/ (ret'.returned /\ ret'.nonce \in Solutions \cap {n})
        BY <4>1
      <4> QED
        BY <4>1, <4>2
    <3>2. CASE RunKernel
      <4> DEFINE H == {Uint32(startBase + sweep.attempted + k) : k \in 0..(WorkSize - 1)}
      <4>1. /\ tried' = [tried EXCEPT ![Sweep] = @ \cup H]
            /\ \/ \E n \in (H \cap (Solutions \cup FalseHits)) \cap Solutions :
                    Return(TRUE, n, sweep.attempted + WorkSize)
               \/ ret' = ret
        BY <3>2 DEF RunKernel
      <4> HIDE DEF H
      <4>2. ASSUME NEW n \in (H \cap (Solutions \cup FalseHits)) \cap Solutions,
                   Return(TRUE, n, sweep.attempted + WorkSize)
            PROVE  ret'.returned /\ ret'.nonce \in Solutions \cap H
        BY <4>2
      <4>3. ret' = ret \/ (ret'.returned /\ ret'.nonce \in Solutions \cap H)
        BY <4>1, <4>2
      <4> QED
        BY <4>1, <4>3
    <3> QED
      BY <1>1, <3>1, <3>2
  <2>3. Shape' /\ \A s \in Thread \cup {Sweep} : tried[s] \subseteq tried'[s]
    BY <2>1, <2>2
  <2>4. \/ ret' = ret
        \/ /\ ret'.returned /\ ret'.nonce \in Solutions
           /\ \E s \in Thread \cup {Sweep} : ret'.nonce \in tried'[s]
    BY <2>2
  <2>5. HitsSolve'
    BY <2>1, <2>3, <2>4 DEF HitsSolve, Hashed, FlagTaken
  <2>6. FlagTaken'
    BY <2>1 DEF FlagTaken, Sending
  <2> QED
    BY <2>3, <2>5, <2>6
<1>2. CASE SweepEnds \/ LoseBatch \/ HalveBatch \/ GiveWay
  <2>1. /\ UNCHANGED <<mode, useStride, pc, current, i, tried, found, results>>
        /\ device \notin Threaded
        /\ \/ device' = device /\ (ret' = ret \/ ret'.found = FALSE)
           \/ device' = "fallback" /\ ret' = ret /\ ~ret.returned
    <3> USE DEF InKernel, Threaded, vars, config, threads
    <3>1. CASE SweepEnds
      BY <3>1 DEF SweepEnds
    <3>2. CASE LoseBatch \/ HalveBatch
      BY <3>2 DEF LoseBatch, HalveBatch
    <3>3. CASE GiveWay
      BY <3>3 DEF GiveWay
    <3> QED
      BY <1>2, <3>1, <3>2, <3>3
  <2>2. Shape'
    BY <2>1 DEF Threaded
  <2>3. \A t \in Thread : Candidate(t)' = Candidate(t)
    BY <2>1 DEF Candidate, Striding
  <2>4. HitsSolve'
    BY <2>1, <2>3 DEF HitsSolve, Hashed
  <2>5. ret'.found => ret.found /\ device' = device
    BY <2>1 DEF HitsSolve
  <2>6. FlagTaken'
    BY <2>1, <2>5 DEF FlagTaken, Sending
  <2> QED
    BY <2>2, <2>4, <2>6
<1> QED
  BY <1>1, <1>2 DEF SweepStep

(* The GPU's threads are cancelled, hand back a result or none, or search again
   with nothing of the first search left. *)
LEMMA HandBackKeeps ==
  ASSUME RoundInv, OnThreads, ~ret.returned, NEW b \in BOOLEAN, NEW n, NEW left,
         HandBack(b, n, left), left \in {<<>>, results},
         b => n \in Solutions /\ Hashed(n) /\ found /\ left = <<>> /\ \A t \in Thread : ~Sending(t)
  PROVE  RoundInv'
<1> USE DEF RoundInv, Shape
<1>1. CASE SearchAgain
  <2>1. /\ pc' = [t \in Thread |-> "loop"] /\ results' = <<>> /\ ret' = ret /\ device' = "gpu threads"
        /\ current' = [t \in Thread |-> ThreadStart(t)] /\ i' = [t \in Thread |-> 0]
        /\ tried' = [s \in DOMAIN tried |-> IF s = Sweep THEN tried[s] ELSE {}]
    BY <1>1 DEF SearchAgain
  <2>2. ~ret.found
    BY DEF HitsSolve
  <2>3. Shape' /\ HitsSolve' /\ FlagTaken'
    BY <2>1, <2>2 DEF HitsSolve, FlagTaken, Sending, Threaded
  <2> QED
    BY <2>3
<1>2. CASE /\ Return(b, n, sweep.attempted + total) /\ results' = left
           /\ UNCHANGED <<config, threads, found, total, closed, device, sweep, cancelled>>
  <2>1. /\ UNCHANGED <<mode, useStride, pc, current, i, tried, found, device>>
        /\ ret'.returned = TRUE /\ ret'.found = b /\ ret'.nonce = n /\ results' = left
    BY <1>2 DEF Return, config, threads
  <2>2. \A t \in Thread : Candidate(t)' = Candidate(t)
    BY <2>1 DEF Candidate, Striding
  <2>3. HitsSolve'
    BY <2>1, <2>2 DEF HitsSolve, Hashed
  <2>4. FlagTaken'
    BY <2>1 DEF FlagTaken, Sending, OnThreads, Threaded
  <2> QED
    BY <2>1, <2>3, <2>4
<1> QED
  BY <1>1, <1>2 DEF HandBack

LEMMA GPUKeeps ==
  ASSUME RoundInv, CloseResults \/ Watchdog \/ TakeResult \/ SeeTheEnd
  PROVE  RoundInv'
<1>1. CASE CloseResults
  BY <1>1, CallerKeeps DEF CloseResults
<1>2. CASE Watchdog
  <2>1. /\ UNCHANGED <<mode, useStride, pc, current, i, tried, results, ret, device>>
        /\ found' = TRUE
    BY <1>2 DEF Watchdog, config, threads
  <2>2. \A t \in Thread : Candidate(t)' = Candidate(t)
    BY <2>1 DEF Candidate, Striding
  <2> QED
    BY <2>1, <2>2 DEF RoundInv, Shape, HitsSolve, FlagTaken, Hashed, Sending
<1>3. CASE TakeResult
  <2>1. PICK n \in Solutions : results = <<n>> /\ Hashed(n)
    BY <1>3 DEF TakeResult, RoundInv, HitsSolve
  <2>2. Head(results) = n /\ Tail(results) = <<>>
    BY <2>1
  <2>3. found /\ \A t \in Thread : ~Sending(t)
    BY <2>1 DEF RoundInv, FlagTaken
  <2>4. OnThreads /\ ~ret.returned /\ (HandBack(TRUE, n, <<>>) \/ HandBack(FALSE, 0, <<>>))
    BY <1>3, <2>2 DEF TakeResult
  <2>5. CASE HandBack(TRUE, n, <<>>)
    BY <2>1, <2>3, <2>4, <2>5, HandBackKeeps
  <2>6. CASE HandBack(FALSE, 0, <<>>)
    BY <2>4, <2>6, HandBackKeeps
  <2> QED
    BY <2>4, <2>5, <2>6
<1>4. CASE SeeTheEnd
  <2>1. OnThreads /\ ~ret.returned /\ HandBack(FALSE, 0, results)
    BY <1>4 DEF SeeTheEnd
  <2> QED
    BY <2>1, HandBackKeeps
<1> QED
  BY <1>1, <1>2, <1>3, <1>4

LEMMA RoundKeeps ==
  ASSUME RoundInv, [MineNext]_mineVars
  PROVE  RoundInv'
<1>1. CASE CPUStep
  <2>1. device \in Threaded /\ UNCHANGED device
        /\ ((\E t \in Thread : ThreadStep(t)) \/ Close \/ Receive \/ ReturnNothing)
    BY <1>1 DEF CPUStep, Threaded
  <2> QED
    BY <2>1, ThreadKeeps, CallerKeeps DEF AnyThreadStep
<1>2. ASSUME NEW t \in Thread, GPUThreadStep(t)
      PROVE  RoundInv'
  <2>1. device \in Threaded /\ UNCHANGED device /\ AnyThreadStep(t)
    BY <1>2 DEF GPUThreadStep, OnThreads, Threaded, AnyThreadStep, ThreadStep
  <2> QED
    BY <2>1, ThreadKeeps
<1>3. CASE UNCHANGED mineVars
  <2>1. UNCHANGED <<mode, useStride, pc, current, i, tried, found, results, ret, device>>
    BY <1>3 DEF mineVars, vars, config, threads
  <2>2. \A t \in Thread : Candidate(t)' = Candidate(t)
    BY <2>1 DEF Candidate, Striding
  <2> QED
    BY <2>1, <2>2 DEF RoundInv, Shape, HitsSolve, FlagTaken, Hashed, Sending
<1> QED
  BY <1>1, <1>2, <1>3, SweepKeeps, GPUKeeps DEF MineNext

(* The inductive invariant of the results holds in every round, on every device
   and through every fallback. *)
THEOREM RoundAlwaysInv == MineSpec => []RoundInv
BY RoundInit, RoundKeeps, PTL DEF MineSpec

-----------------------------------------------------------------------------
(* However many threads hit a block in the same instant, on the CPU or behind a
   kernel that gave way, the channel never holds two results, nor gets one behind
   the return. *)
THEOREM OneWinnerAlways == MineSpec => []OneWinner
<1>1. ASSUME RoundInv PROVE OneWinner
  <2> DEFINE S == {t \in Thread : pc[t] = "send"}
  <2>1. CASE \E t \in Thread : Sending(t)
    <3>1. PICK t \in Thread : Sending(t)
      BY <2>1
    <3>2. S = {t} /\ results = <<>> /\ ~ret.found
      BY <3>1, <1>1 DEF RoundInv, FlagTaken, Sending
    <3>3. Cardinality(S) = 1 /\ Len(results) = 0
      BY <3>2, FS_Singleton
    <3> QED
      BY <3>2, <3>3 DEF OneWinner
  <2>2. CASE ~\E t \in Thread : Sending(t)
    <3>1. Cardinality(S) = 0
      <4>1. S = {}
        BY <2>2 DEF Sending
      <4> QED
        BY <4>1, FS_EmptySet
    <3>2. (Len(results) = 0 \/ (Len(results) = 1 /\ ~ret.found))
      BY <1>1 DEF RoundInv, HitsSolve, FlagTaken
    <3> QED
      BY <3>1, <3>2 DEF OneWinner
  <2> QED
    BY <2>1, <2>2
<1> QED
  BY <1>1, RoundAlwaysInv, PTL

(* Whatever the kernel reports and whoever searched, a nonce that is returned as a
   block was hashed in this round and its hash meets the target. *)
THEOREM ReturnedNonceAlwaysSolves == MineSpec => []ReturnedNonceSolves
<1>1. RoundInv => ReturnedNonceSolves
  BY DEF RoundInv, HitsSolve, Hashed, ReturnedNonceSolves
<1> QED
  BY <1>1, RoundAlwaysInv, PTL

-----------------------------------------------------------------------------
(* Which nonces a thread hashes.  First the arithmetic: where the code takes
   uint32 values, its sums pass the largest nonce once at most. *)

LEMMA Sizes ==
  /\ MaxNonce \in Nat \ {0}
  /\ ThreadCount \in 1..MaxNonce /\ BatchSize \in 1..MaxNonce
  /\ HashesPerThread \in Nat
  /\ NonceRange \in 0..MaxNonce /\ ThreadCount * NonceRange <= MaxNonce
  /\ ThreadCount > 1 => 2 * NonceRange <= MaxNonce
<1>1. MaxNonce \in Nat \ {0} /\ ThreadCount \in 1..MaxNonce /\ BatchSize \in 1..MaxNonce
  BY NonceSearchAssumption DEF MaxNonce
<1>2. HashesPerThread \in Nat
  BY NonceSearchAssumption DEF HashesPerThread, EffectiveMaxHashes
<1>3. NonceRange \in 0..MaxNonce /\ ThreadCount * NonceRange <= MaxNonce
  BY <1>1 DEF NonceRange
<1>4. ThreadCount > 1 => 2 * NonceRange <= ThreadCount * NonceRange
  BY <1>1, <1>3
<1> QED
  BY <1>1, <1>2, <1>3, <1>4

LEMMA Wrapping ==
  ASSUME NEW n \in Nat
  PROVE  /\ Uint32(n) \in Nonce
         /\ n <= MaxNonce => Uint32(n) = n
         /\ n > MaxNonce /\ n <= 2 * MaxNonce + 1 => Uint32(n) = n - MaxNonce - 1
<1> DEFINE M == MaxNonce + 1
<1>1. M \in Nat \ {0} /\ Uint32(n) = n % M
  <2>1. 2^Width \in Int
    BY NonceSearchAssumption
  <2> QED
    BY <2>1, Sizes DEF Uint32, MaxNonce
<1> HIDE DEF M
<1>2. n % M \in 0..(M - 1) /\ (n < M => n % M = n)
  BY <1>1
<1>3. n >= M /\ n < 2 * M => n % M = n - M
  BY <1>1
<1> QED
  BY <1>1, <1>2, <1>3, Sizes DEF M, Nonce

(* The thread's share of the nonces begins at base, and none of the sums is more
   than twice the largest nonce. *)
LEMMA Ranges ==
  ASSUME startBase \in Nonce
  PROVE  /\ \A t \in Thread : /\ t * NonceRange \in Nat
                              /\ t * NonceRange + NonceRange <= MaxNonce
                              /\ (t + 1) * NonceRange = t * NonceRange + NonceRange
         /\ \A s, t \in Thread : s < t => t * NonceRange >= s * NonceRange + NonceRange
<1> DEFINE R == NonceRange
           T == ThreadCount
<1>1. R \in Nat /\ T \in Nat /\ T * R <= MaxNonce /\ MaxNonce \in Nat
  BY Sizes
<1>2. Thread = 0..(T - 1)
  BY DEF Thread
<1> HIDE DEF R, T
<1>3. \A t \in 0..(T - 1) : t * R \in Nat /\ (t + 1) * R = t * R + R
  BY <1>1
<1>4. \A t \in 0..(T - 1) : (t + 1) * R <= T * R
  BY <1>1
<1>5. \A s, t \in 0..(T - 1) : s < t => t * R >= s * R + R
  BY <1>1
<1>6. \A t \in 0..(T - 1) : t * R + R <= MaxNonce
  <2> TAKE t \in 0..(T - 1)
  <2>1. t * R \in Nat /\ t * R + R <= T * R /\ T * R \in Nat
    BY <1>1, <1>3, <1>4
  <2> QED
    BY <1>1, <2>1
<1> QED
  BY <1>2, <1>3, <1>5, <1>6 DEF R, T

Ends(t, s, e) ==
  \/ t # ThreadCount - 1 /\ (e = s + NonceRange \/ e + MaxNonce + 1 = s + NonceRange)
  \/ t = ThreadCount - 1 /\ e = MaxNonce

LEMMA Bounds ==
  ASSUME startBase \in Nonce, ~useStride, NEW t \in Thread
  PROVE  /\ ThreadStart(t) \in Nonce /\ ThreadEnd(t) \in Nonce
         /\ \/ ThreadStart(t) = startBase + t * NonceRange
            \/ ThreadStart(t) + MaxNonce + 1 = startBase + t * NonceRange
         /\ Ends(t, ThreadStart(t), ThreadEnd(t))
<1>1. PICK a, b : a = startBase + t * NonceRange /\ b = startBase + (t + 1) * NonceRange
  OBVIOUS
<1>2. a \in Nat /\ b = a + NonceRange /\ b \in Nat /\ b <= 2 * MaxNonce
  BY <1>1, Ranges, Sizes DEF Nonce
<1>3. /\ Uint32(a) \in Nonce /\ Uint32(b) \in Nonce
      /\ Uint32(a) = IF a <= MaxNonce THEN a ELSE a - MaxNonce - 1
      /\ Uint32(b) = IF b <= MaxNonce THEN b ELSE b - MaxNonce - 1
  BY <1>2, Wrapping, Sizes
<1>4. ThreadStart(t) = Uint32(a)
  BY <1>1 DEF ThreadStart
<1>5. ThreadEnd(t) = IF t = ThreadCount - 1 THEN MaxNonce ELSE Uint32(b)
  BY <1>1 DEF ThreadEnd
<1>6. ThreadStart(t) \in Nonce /\ ThreadEnd(t) \in Nonce
  BY <1>3, <1>4, <1>5, Sizes DEF Nonce
<1>7. ThreadStart(t) = a \/ ThreadStart(t) + MaxNonce + 1 = a
  BY <1>2, <1>3, <1>4, Sizes
<1>8. CASE t = ThreadCount - 1
  BY <1>1, <1>5, <1>6, <1>7, <1>8 DEF Ends
<1>9. CASE t # ThreadCount - 1
  <2>1. \/ ThreadEnd(t) = ThreadStart(t) + NonceRange
        \/ ThreadEnd(t) + MaxNonce + 1 = ThreadStart(t) + NonceRange
    BY <1>2, <1>3, <1>4, <1>5, <1>9, Sizes DEF Nonce
  <2> QED
    BY <1>1, <1>6, <1>7, <1>9, <2>1 DEF Ends
<1> QED
  BY <1>8, <1>9

(* How far nonce n lies behind s in the direction of the search, which goes on at
   the other end of the nonces. *)
Offset(s, n) ==
  IF mode = "backward" THEN IF n <= s THEN s - n ELSE s + (MaxNonce + 1 - n)
  ELSE IF n >= s THEN n - s ELSE n + (MaxNonce + 1 - s)

(* The nonces that thread t may hash. *)
Territory(t) ==
  IF useStride THEN {startBase + t + ThreadCount * k : k \in Nat}
  ELSE {n \in Nonce : Offset(ThreadStart(t), n) < NonceRange}

LEMMA TerritoriesApart ==
  ASSUME startBase \in Nonce, NEW s \in Thread, NEW t \in Thread, s < t
  PROVE  Territory(s) \cap Territory(t) = {}
<1>1. CASE useStride
  <2> SUFFICES ASSUME NEW j \in Nat, NEW k \in Nat,
                      startBase + s + ThreadCount * j = startBase + t + ThreadCount * k
               PROVE  FALSE
    BY <1>1 DEF Territory
  <2> DEFINE T == ThreadCount
  <2>1. T \in Nat /\ s \in 0..(T - 1) /\ t \in 0..(T - 1) /\ startBase \in Nat
    BY Sizes DEF Thread, Nonce
  <2>2. startBase + s + T * j = startBase + t + T * k
    OBVIOUS
  <2> HIDE DEF T
  <2>3. s + T * j = t + T * k
    BY <2>1, <2>2
  <2> QED
    BY <2>1, <2>3
<1>2. CASE ~useStride
  <2> SUFFICES ASSUME NEW n \in Nonce, Offset(ThreadStart(s), n) < NonceRange,
                      Offset(ThreadStart(t), n) < NonceRange
               PROVE  FALSE
    BY <1>2 DEF Territory
  <2>1. PICK p, q : p = s * NonceRange /\ q = t * NonceRange
    OBVIOUS
  <2>2. /\ p \in Nat /\ q \in Nat /\ q >= p + NonceRange /\ q + NonceRange <= MaxNonce
        /\ startBase \in Nat /\ MaxNonce \in Nat /\ NonceRange \in Nat /\ n \in 0..MaxNonce
    BY <2>1, Ranges, Sizes DEF Nonce
  <2>3. /\ ThreadStart(s) \in 0..MaxNonce /\ ThreadStart(t) \in 0..MaxNonce
        /\ ThreadStart(s) = startBase + p \/ ThreadStart(s) + MaxNonce + 1 = startBase + p
        /\ ThreadStart(t) = startBase + q \/ ThreadStart(t) + MaxNonce + 1 = startBase + q
    BY <1>2, <2>1, Bounds DEF Nonce
  <2>4. CASE mode = "backward"
    BY <2>2, <2>3, <2>4 DEF Offset
  <2>5. CASE mode # "backward"
    BY <2>2, <2>3, <2>5 DEF Offset
  <2> QED
    BY <2>4, <2>5
<1> QED
  BY <1>1, <1>2

-----------------------------------------------------------------------------
(* Where a thread is, of which s and e are the ends of the range, c is the start of
   the batch, l counts the hashes, d of them in this batch, and h has its nonces. *)

(* Forward, the batch begins where the last one ended; or it does so a batch further
   on and past the largest nonce, when the sum passed it and gave an empty batch.
   With batches as large as the only thread's share this may happen twice. *)
UpEnd(c, e) ==
  LET end == IF c + BatchSize <= MaxNonce THEN c + BatchSize ELSE c + BatchSize - (MaxNonce + 1)
  IN IF end > e THEN e ELSE end
UpAt(s, e, c, l, d, h) ==
  /\ l = 0 => h = {}
  /\ HashesPerThread <= BatchSize => l = d
  /\ \/ c = s + (l - d) /\ (e < s => l = 0) /\ h \subseteq s..(s + l - 1)
     \/ c + MaxNonce + 1 = s + (l - d) + BatchSize /\ h \subseteq (s..MaxNonce) \cup (0..(c + d - 1))
     \/ ThreadCount = 1 /\ HashesPerThread <= BatchSize /\ h \subseteq c..(c + d - 1)

(* Backward, it begins where the last one ended, or it has gone on at the largest
   nonce behind nonce 1. *)
DownEnd(c) == IF c > BatchSize THEN c - BatchSize ELSE 0
DownAt(s, c, l, d, h) ==
  \/ c = s - (l - d) /\ h \subseteq (s - l + 1)..s
  \/ c = MaxNonce + s - (l - d) /\ l - d >= s /\ h \subseteq (1..s) \cup ((c - d + 1)..MaxNonce)

(* In strides, thread after thread takes the next nonce. *)
StrideAt(q, c, l, d, h) ==
  c = q + ThreadCount * (l - d) /\ h \subseteq {q + ThreadCount * k : k \in 0..(l - 1)}

LEMMA UpHashes ==
  ASSUME NEW t \in Thread, NEW s \in Nonce, NEW e \in Nonce, Ends(t, s, e),
         t = ThreadCount - 1 => s + HashesPerThread <= MaxNonce,
         HashesPerThread + BatchSize <= NonceRange,
         NEW c \in Nonce, NEW l \in Nat, NEW d \in Nat, NEW h, l < HashesPerThread, d <= l,
         UpAt(s, e, c, l, d, h), c + d < UpEnd(c, e), mode # "backward"
  PROVE  /\ c + d \in Nonce \ h
         /\ UpAt(s, e, c, l + 1, d + 1, h \cup {c + d})
         /\ ThreadCount > 1 => Offset(s, c + d) < NonceRange
<1> USE Sizes DEF Nonce
<1>1. c + d < e /\ c + d \in Nonce
  BY DEF UpEnd
<1>2. PICK n : n = c + d
  OBVIOUS
<1>3. CASE c = s + (l - d) /\ (e < s => l = 0) /\ h \subseteq s..(s + l - 1)
  <2>1. n = s + l
    BY <1>2, <1>3
  <2>2. n \notin h /\ ~(e < s) /\ h \cup {n} \subseteq s..n
    BY <1>1, <1>2, <1>3, <2>1
  <2>3. Offset(s, n) < NonceRange
    BY <2>1 DEF Offset
  <2> QED
    BY <1>1, <1>2, <1>3, <2>1, <2>2, <2>3 DEF UpAt
<1>4. CASE c + MaxNonce + 1 = s + (l - d) + BatchSize /\ h \subseteq (s..MaxNonce) \cup (0..(c + d - 1))
  <2>1. n + MaxNonce + 1 = s + l + BatchSize
    BY <1>2, <1>4
  <2>2. n < s /\ n \in Nonce
    BY <1>1, <1>2, <2>1
  <2>3. n \notin h /\ h \cup {n} \subseteq (s..MaxNonce) \cup (0..n)
    BY <1>2, <1>4, <2>2
  <2>4. Offset(s, n) < NonceRange
    BY <2>1, <2>2 DEF Offset
  <2> QED
    BY <1>1, <1>2, <1>4, <2>1, <2>3, <2>4 DEF UpAt
<1>5. CASE ThreadCount = 1 /\ HashesPerThread <= BatchSize /\ h \subseteq c..(c + d - 1)
  BY <1>1, <1>5 DEF UpAt
<1> QED
  BY <1>3, <1>4, <1>5 DEF UpAt

LEMMA UpEnds ==
  ASSUME NEW t \in Thread, NEW s \in Nonce, NEW e \in Nonce, Ends(t, s, e),
         t = ThreadCount - 1 => s + HashesPerThread <= MaxNonce,
         HashesPerThread + BatchSize <= NonceRange,
         NEW c \in Nonce, NEW l \in Nat, NEW d \in Nat, NEW h, l < HashesPerThread, d <= l,
         UpAt(s, e, c, l, d, h), ~(c + d < UpEnd(c, e)), d = 0 \/ c + d <= UpEnd(c, e)
  PROVE  UpAt(s, e, IF UpEnd(c, e) >= e THEN s ELSE UpEnd(c, e), l, 0, h)
<1> USE Sizes DEF Nonce
<1>1. PICK end : end = IF c + BatchSize <= MaxNonce THEN c + BatchSize ELSE c + BatchSize - (MaxNonce + 1)
  OBVIOUS
<1>2. end \in Nonce /\ UpEnd(c, e) = (IF end > e THEN e ELSE end)
  BY <1>1 DEF UpEnd
<1>3. c + BatchSize > MaxNonce => end + MaxNonce + 1 = c + BatchSize /\ end < c /\ d = 0
  BY <1>1, <1>2
<1>4. c + BatchSize <= MaxNonce => end = c + BatchSize
  BY <1>1
<1>5. CASE c = s + (l - d) /\ (e < s => l = 0) /\ h \subseteq s..(s + l - 1)
  <2>1. e >= s => s + l < e
    BY DEF Ends
  <2>2. CASE e < s
    <3>1. l = 0 /\ d = 0 /\ h = {} /\ c = s
      BY <1>5, <2>2 DEF UpAt
    <3>2. UpEnd(c, e) < e => end + MaxNonce + 1 = s + BatchSize /\ end = UpEnd(c, e)
      BY <1>2, <1>3, <1>4, <2>2, <3>1
    <3>3. UpAt(s, e, s, l, 0, h)
      BY <2>2, <3>1 DEF UpAt
    <3>4. UpEnd(c, e) < e => UpAt(s, e, UpEnd(c, e), l, 0, h)
      BY <1>2, <3>1, <3>2 DEF UpAt
    <3> QED
      BY <1>2, <3>3, <3>4
  <2>3. CASE e >= s /\ c + BatchSize <= MaxNonce
    <3>1. d = BatchSize /\ end = s + l /\ end < e
      BY <1>2, <1>4, <1>5, <2>1, <2>3
    <3> QED
      BY <1>2, <1>5, <2>3, <3>1 DEF UpAt
  <2>4. CASE e >= s /\ c + BatchSize > MaxNonce
    <3>1. d = 0 /\ end < e /\ end + MaxNonce + 1 = s + (l - 0) + BatchSize /\ s + l <= MaxNonce
      BY <1>2, <1>3, <1>5, <2>1, <2>4
    <3>2. h \subseteq (s..MaxNonce) \cup (0..(end + 0 - 1))
      BY <1>5, <3>1
    <3> QED
      BY <1>2, <3>1, <3>2 DEF UpAt
  <2> QED
    BY <2>2, <2>3, <2>4
<1>6. CASE c + MaxNonce + 1 = s + (l - d) + BatchSize /\ h \subseteq (s..MaxNonce) \cup (0..(c + d - 1))
  <2>1. c + d < s /\ c + d < e
    BY <1>6 DEF Ends
  <2>2. CASE c + BatchSize <= MaxNonce
    <3>1. d = BatchSize /\ end = c + d /\ end < e
      BY <1>2, <1>4, <2>1, <2>2
    <3>2. end + MaxNonce + 1 = s + (l - 0) + BatchSize /\ h \subseteq (s..MaxNonce) \cup (0..(end + 0 - 1))
      BY <1>6, <3>1
    <3> QED
      BY <1>2, <2>2, <3>1, <3>2 DEF UpAt
  <2>3. CASE c + BatchSize > MaxNonce
    <3>1. ThreadCount = 1 /\ t = ThreadCount - 1
      BY <1>6, <2>3 DEF Thread
    <3>2. HashesPerThread <= BatchSize
      BY <1>6, <2>3, <3>1
    <3>3. l = 0 /\ d = 0 /\ h = {}
      BY <1>3, <2>3, <3>2 DEF UpAt
    <3> QED
      BY <3>1, <3>2, <3>3 DEF UpAt
  <2> QED
    BY <2>2, <2>3
<1>7. CASE ThreadCount = 1 /\ HashesPerThread <= BatchSize /\ h \subseteq c..(c + d - 1)
  <2>1. e = MaxNonce /\ l = d
    BY <1>7 DEF Ends, Thread, UpAt
  <2>2. l = 0 /\ d = 0 /\ h = {}
    BY <1>2, <1>3, <1>4, <1>7, <2>1 DEF UpAt
  <2> QED
    BY <1>7, <2>2 DEF UpAt
<1> QED
  BY <1>5, <1>6, <1>7 DEF UpAt

LEMMA DownHashes ==
  ASSUME NEW s \in Nonce, HashesPerThread + BatchSize <= NonceRange,
         NEW c \in Nonce, NEW l \in Nat, NEW d \in Nat, NEW h, l < HashesPerThread, d <= l,
         DownAt(s, c, l, d, h), c - d > DownEnd(c), mode = "backward"
  PROVE  /\ c - d \in Nonce \ h
         /\ DownAt(s, c, l + 1, d + 1, h \cup {c - d})
         /\ Offset(s, c - d) < NonceRange
<1> USE Sizes DEF Nonce
<1>1. c - d > 0 /\ c - d \in Nonce
  BY DEF DownEnd
<1>2. PICK n : n = c - d
  OBVIOUS
<1>3. CASE c = s - (l - d) /\ h \subseteq (s - l + 1)..s
  <2>1. n = s - l
    BY <1>2, <1>3
  <2>2. n \notin h /\ h \cup {n} \subseteq (s - (l + 1) + 1)..s
    BY <1>1, <1>2, <1>3, <2>1
  <2>3. Offset(s, n) < NonceRange
    BY <1>1, <1>2, <2>1 DEF Offset
  <2> QED
    BY <1>1, <1>2, <1>3, <2>2, <2>3 DEF DownAt
<1>4. CASE c = MaxNonce + s - (l - d) /\ l - d >= s /\ h \subseteq (1..s) \cup ((c - d + 1)..MaxNonce)
  <2>1. n + l = MaxNonce + s
    BY <1>2, <1>4
  <2>2. n > s
    BY <1>1, <1>2, <1>4, <2>1
  <2>3. n \notin h /\ h \cup {n} \subseteq (1..s) \cup ((c - (d + 1) + 1)..MaxNonce)
    BY <1>1, <1>2, <1>4, <2>2
  <2>4. Offset(s, n) < NonceRange
    BY <1>1, <1>2, <2>1, <2>2 DEF Offset
  <2> QED
    BY <1>1, <1>2, <1>4, <2>3, <2>4 DEF DownAt
<1> QED
  BY <1>3, <1>4 DEF DownAt

LEMMA DownEnds ==
  ASSUME NEW s \in Nonce, HashesPerThread + BatchSize <= NonceRange,
         NEW c \in Nonce, NEW l \in Nat, NEW d \in Nat, NEW h, l < HashesPerThread, d <= l,
         DownAt(s, c, l, d, h), c > 0, c - d >= DownEnd(c), ~(c - d > DownEnd(c))
  PROVE  DownAt(s, IF DownEnd(c) = 0 THEN MaxNonce ELSE DownEnd(c), l, 0, h)
<1> USE Sizes DEF Nonce
<1>1. PICK end : end = DownEnd(c)
  OBVIOUS
<1>2. end = c - d /\ end \in Nonce
  BY <1>1 DEF DownEnd
<1>3. CASE c = s - (l - d) /\ h \subseteq (s - l + 1)..s
  <2>1. CASE end = 0
    <3>1. l = s
      BY <1>2, <1>3, <2>1
    <3>2. h \subseteq (1..s) \cup ((MaxNonce - 0 + 1)..MaxNonce)
      BY <1>3, <3>1
    <3> QED
      BY <1>1, <2>1, <3>1, <3>2 DEF DownAt
  <2>2. CASE end # 0
    BY <1>1, <1>2, <1>3, <2>2 DEF DownAt
  <2> QED
    BY <2>1, <2>2
<1>4. CASE c = MaxNonce + s - (l - d) /\ l - d >= s /\ h \subseteq (1..s) \cup ((c - d + 1)..MaxNonce)
  <2>1. end + l = MaxNonce + s /\ end # 0
    BY <1>2, <1>4
  <2>2. h \subseteq (1..s) \cup ((end - 0 + 1)..MaxNonce)
    BY <1>2, <1>4
  <2>3. end = MaxNonce + s - (l - 0) /\ l - 0 >= s
    BY <1>2, <1>4, <2>1
  <2> QED
    BY <1>1, <2>1, <2>2, <2>3 DEF DownAt
<1> QED
  BY <1>3, <1>4 DEF DownAt

LEMMA StrideHashes ==
  ASSUME NEW q \in Nat, NEW c \in Nonce, NEW l \in Nat, NEW d \in Nat, NEW h, d <= l,
         q + ThreadCount * l < MaxNonce, StrideAt(q, c, l, d, h)
  PROVE  /\ Uint32(c + d * ThreadCount) % MaxNonce = q + ThreadCount * l
         /\ q + ThreadCount * l \in Nonce \ h
         /\ StrideAt(q, c, l + 1, d + 1, h \cup {q + ThreadCount * l})
<1> DEFINE T == ThreadCount
<1>1. T \in Nat \ {0} /\ MaxNonce \in Nat \ {0} /\ q + T * l < MaxNonce
  BY Sizes
<1>2. c = q + T * (l - d) /\ h \subseteq {q + T * k : k \in 0..(l - 1)}
  BY DEF StrideAt
<1>3. Uint32(c + d * T) = c + d * T /\ c + d * T = q + T * l
  <2>1. c + d * T = q + T * l
    <3> HIDE DEF T
    <3> QED
      BY <1>1, <1>2
  <2>2. q + T * l \in Nat
    <3> HIDE DEF T
    <3> QED
      BY <1>1
  <2> QED
    BY <1>1, <2>1, <2>2, Wrapping
<1> HIDE DEF T
<1>4. PICK n : n = q + T * l
  OBVIOUS
<1>5. n \in Nat /\ n < MaxNonce
  BY <1>1, <1>4
<1>6. n % MaxNonce = n
  BY <1>1, <1>5
<1>7. n \notin h
  <2> SUFFICES ASSUME NEW k \in 0..(l - 1), n = q + T * k PROVE FALSE
    BY <1>2
  <2> QED
    BY <1>1, <1>4
<1>8. h \cup {n} \subseteq {q + T * k : k \in 0..((l + 1) - 1)}
  BY <1>2, <1>4
<1>9. c = q + T * ((l + 1) - (d + 1))
  BY <1>1, <1>2
<1>10. n \in Nonce
  BY <1>1, <1>5 DEF Nonce
<1> QED
  BY <1>3, <1>4, <1>6, <1>7, <1>8, <1>9, <1>10 DEF T, StrideAt

LEMMA StrideEnds ==
  ASSUME NEW q \in Nat, NEW c \in Nonce, NEW l \in Nat, NEW h, BatchSize <= l,
         q + ThreadCount * l < MaxNonce, StrideAt(q, c, l, BatchSize, h)
  PROVE  StrideAt(q, Uint32(c + BatchSize * ThreadCount) % MaxNonce, l, 0, h)
<1>1. Uint32(c + BatchSize * ThreadCount) % MaxNonce = q + ThreadCount * l
  <2>1. BatchSize \in Nat
    BY Sizes
  <2> QED
    BY <2>1, StrideHashes
<1> QED
  BY <1>1 DEF StrideAt

-----------------------------------------------------------------------------
(* The threads of a round. *)

NonceTypes ==
  /\ mode \in {"forward", "backward"} /\ useStride \in BOOLEAN /\ startBase \in Nonce
  /\ pc \in [Thread -> {"loop", "batch", "hit", "send", "done"}]
  /\ current \in [Thread -> Nonce]
  /\ i \in [Thread -> Nat] /\ local \in [Thread -> Nat]
  /\ DOMAIN tried = Thread \cup {Sweep}

At(t, c, l, d, h) ==
  IF useStride THEN StrideAt(startBase + t, c, l, d, h)
  ELSE IF mode = "backward" THEN DownAt(ThreadStart(t), c, l, d, h)
  ELSE UpAt(ThreadStart(t), ThreadEnd(t), c, l, d, h)

InThisBatch(t) == IF pc[t] = "batch" THEN i[t] ELSE 0
Placed(t) == At(t, current[t], local[t], InThisBatch(t), tried[t])

(* A batch that has begun never passes its end. *)
BatchOK(t) ==
  /\ i[t] <= local[t]
  /\ Striding => i[t] <= BatchSize
  /\ mode = "backward" => current[t] > 0 /\ Candidate(t) >= BatchEnd(t)
  /\ mode = "forward" /\ ~useStride => i[t] = 0 \/ Candidate(t) <= BatchEnd(t)

(* As many nonces as hashes, none of them in the territory of another thread; and
   a thread that goes on is where its hashes have brought it. *)
ThreadInv(t) ==
  /\ pc[t] = "batch" => BatchOK(t)
  /\ RoundFits =>
       /\ IsFiniteSet(tried[t]) /\ Cardinality(tried[t]) = local[t]
       /\ ThreadCount > 1 => tried[t] \subseteq Territory(t)
       /\ pc[t] \in {"loop", "batch"} /\ GoesOn(t) => Placed(t)

NonceInv == NonceTypes /\ \A t \in Thread : ThreadInv(t)

LEMMA ThreadNonces ==
  ASSUME NonceTypes, NEW t \in Thread
  PROVE  /\ t \in Nat /\ ThreadStart(t) \in Nonce /\ ThreadEnd(t) \in Nonce
         /\ mode = "backward" => BatchEnd(t) = DownEnd(current[t])
         /\ mode # "backward" => BatchEnd(t) = UpEnd(current[t], ThreadEnd(t))
         /\ BatchEnd(t) \in Nonce /\ NextCurrent(t) \in Nonce
         /\ InBatch(t) => Candidate(t) \in Nonce
<1>1. /\ t \in Nat /\ startBase \in Nat /\ current[t] \in 0..MaxNonce /\ i[t] \in Nat
      /\ MaxNonce \in Nat \ {0} /\ ThreadCount \in Nat /\ BatchSize \in 1..MaxNonce
  BY Sizes DEF NonceTypes, Thread, Nonce
<1>2. \A n \in Nat : Uint32(n) % MaxNonce \in Nonce
  <2> TAKE n \in Nat
  <2>1. Uint32(n) \in 0..MaxNonce
    BY Wrapping DEF Nonce
  <2> QED
    BY <1>1, <2>1 DEF Nonce
<1>3. ThreadStart(t) \in Nonce /\ ThreadEnd(t) \in Nonce
  <2>1. CASE useStride
    BY <1>1, <1>2, <2>1 DEF ThreadStart, ThreadEnd, Nonce
  <2>2. CASE ~useStride
    BY <2>2, Bounds DEF NonceTypes
  <2> QED
    BY <2>1, <2>2
<1>4. Uint32(current[t] + BatchSize) =
        IF current[t] + BatchSize <= MaxNonce THEN current[t] + BatchSize
        ELSE current[t] + BatchSize - (MaxNonce + 1)
  <2>1. PICK c, n : c = current[t] /\ n = c + BatchSize
    OBVIOUS
  <2>2. c \in 0..MaxNonce /\ n \in Nat /\ n <= 2 * MaxNonce + 1
    BY <1>1, <2>1
  <2>3. Uint32(n) = IF n <= MaxNonce THEN n ELSE n - MaxNonce - 1
    BY <1>1, <2>2, Wrapping
  <2>4. n - MaxNonce - 1 = c + BatchSize - (MaxNonce + 1)
    BY <1>1, <2>1, <2>2
  <2> QED
    BY <2>1, <2>3, <2>4
<1>5. mode = "backward" => BatchEnd(t) = DownEnd(current[t])
  BY DEF BatchEnd, DownEnd
<1>6. mode # "backward" => BatchEnd(t) = UpEnd(current[t], ThreadEnd(t))
  BY <1>4 DEF BatchEnd, UpEnd
<1>7. BatchEnd(t) \in Nonce
  <2>1. CASE mode = "backward"
    BY <1>1, <1>5, <2>1 DEF DownEnd, Nonce
  <2>2. CASE mode # "backward"
    BY <1>1, <1>3, <1>6, <2>2 DEF UpEnd, Nonce
  <2> QED
    BY <2>1, <2>2
<1>8. NextCurrent(t) \in Nonce
  <2>1. BatchSize * ThreadCount \in Nat
    BY <1>1
  <2>2. Uint32(current[t] + BatchSize * ThreadCount) % MaxNonce \in Nonce
    BY <1>1, <1>2, <2>1
  <2> QED
    BY <1>1, <1>3, <1>7, <2>2 DEF NextCurrent, Nonce
<1>9. ASSUME InBatch(t) PROVE Candidate(t) \in Nonce
  <2>1. CASE Striding
    <3>1. i[t] * ThreadCount \in Nat
      BY <1>1
    <3> QED
      BY <1>1, <1>2, <2>1, <3>1 DEF Candidate
  <2>2. CASE ~Striding
    BY <1>1, <1>7, <1>9, <2>2 DEF Candidate, InBatch, Nonce
  <2> QED
    BY <2>1, <2>2
<1> QED
  BY <1>1, <1>3, <1>5, <1>6, <1>7, <1>8, <1>9

(* With strides, the last hash of the round comes before the nonces wrap. *)
LEMMA StrideFits ==
  ASSUME NonceTypes, RoundFits, useStride, NEW t \in Thread, NEW l \in Nat,
         l <= HashesPerThread
  PROVE  startBase + t \in Nat /\ startBase + t + ThreadCount * l < MaxNonce
<1>1. /\ t \in 0..(ThreadCount - 1) /\ startBase \in Nat /\ MaxNonce \in Nat
      /\ ThreadCount \in Nat /\ BatchSize \in Nat \ {0} /\ HashesPerThread \in Nat
      /\ startBase + ThreadCount * (HashesPerThread + BatchSize) < MaxNonce
  BY Sizes DEF NonceTypes, RoundFits, Thread, Nonce
<1>2. PICK q : q = HashesPerThread + BatchSize
  OBVIOUS
<1>3. q \in Nat /\ l + 1 <= q
  BY <1>1, <1>2
<1>4. ThreadCount * l + ThreadCount <= ThreadCount * q
  BY <1>1, <1>3
<1>5. ThreadCount * l \in Nat /\ ThreadCount * q \in Nat
  BY <1>1, <1>3
<1> QED
  BY <1>1, <1>2, <1>4, <1>5

LEMMA FreshNonce ==
  ASSUME NonceTypes, RoundFits, NEW t \in Thread, ThreadInv(t),
         pc[t] = "batch", InBatch(t), GoesOn(t)
  PROVE  /\ Candidate(t) \notin tried[t]
         /\ ThreadCount > 1 => Candidate(t) \in Territory(t)
         /\ At(t, current[t], local[t] + 1, i[t] + 1, tried[t] \cup {Candidate(t)})
<1>1. PICK c, l, d, h, n : c = current[t] /\ l = local[t] /\ d = i[t] /\ h = tried[t] /\ n = Candidate(t)
  OBVIOUS
<1>2. /\ c \in Nonce /\ l \in Nat /\ d \in Nat /\ l < HashesPerThread /\ d <= l
      /\ ThreadStart(t) \in Nonce /\ ThreadEnd(t) \in Nonce
      /\ HashesPerThread \in Nat /\ HashesPerThread + BatchSize <= NonceRange
  BY <1>1, ThreadNonces, Sizes DEF NonceTypes, ThreadInv, BatchOK, GoesOn, RoundFits
<1>3. At(t, c, l, d, h)
  BY <1>1 DEF ThreadInv, Placed, InThisBatch
<1>4. SUFFICES n \notin h /\ (ThreadCount > 1 => n \in Territory(t)) /\ At(t, c, l + 1, d + 1, h \cup {n})
  BY <1>1
<1>5. CASE useStride
  <2>1. Striding
    BY <1>5 DEF RoundFits, Striding
  <2>2. startBase + t \in Nat /\ startBase + t + ThreadCount * l < MaxNonce
    BY <1>2, <1>5, StrideFits
  <2>3. StrideAt(startBase + t, c, l, d, h)
    BY <1>3, <1>5 DEF At
  <2>4. PICK q : q = startBase + t
    OBVIOUS
  <2>5. /\ Uint32(c + d * ThreadCount) % MaxNonce = q + ThreadCount * l
        /\ q + ThreadCount * l \in Nonce \ h
        /\ StrideAt(q, c, l + 1, d + 1, h \cup {q + ThreadCount * l})
    <3>1. q \in Nat /\ q + ThreadCount * l < MaxNonce /\ StrideAt(q, c, l, d, h)
      BY <2>2, <2>3, <2>4
    <3> QED
      BY <1>2, <3>1, StrideHashes
  <2>6. n = q + ThreadCount * l
    BY <1>1, <2>1, <2>5 DEF Candidate
  <2>7. n \in Territory(t)
    BY <1>2, <1>5, <2>4, <2>6 DEF Territory
  <2> QED
    BY <1>5, <2>4, <2>5, <2>6, <2>7 DEF At
<1>6. CASE ~useStride /\ mode = "backward"
  <2>1. DownAt(ThreadStart(t), c, l, d, h)
    BY <1>3, <1>6 DEF At
  <2>2. n = c - d /\ c - d > DownEnd(c)
    BY <1>1, <1>6, ThreadNonces DEF Candidate, Striding, InBatch
  <2>3. /\ c - d \in Nonce \ h
        /\ DownAt(ThreadStart(t), c, l + 1, d + 1, h \cup {c - d})
        /\ Offset(ThreadStart(t), c - d) < NonceRange
    BY <1>2, <1>6, <2>1, <2>2, DownHashes
  <2> QED
    BY <1>6, <2>2, <2>3 DEF At, Territory
<1>7. CASE ~useStride /\ mode # "backward"
  <2>1. UpAt(ThreadStart(t), ThreadEnd(t), c, l, d, h)
    BY <1>3, <1>7 DEF At
  <2>2. n = c + d /\ c + d < UpEnd(c, ThreadEnd(t))
    BY <1>1, <1>7, ThreadNonces DEF Candidate, Striding, InBatch
  <2>3. /\ Ends(t, ThreadStart(t), ThreadEnd(t))
        /\ t = ThreadCount - 1 => ThreadStart(t) + HashesPerThread <= MaxNonce
    BY <1>7, Bounds DEF NonceTypes, RoundFits
  <2>4. /\ c + d \in Nonce \ h
        /\ UpAt(ThreadStart(t), ThreadEnd(t), c, l + 1, d + 1, h \cup {c + d})
        /\ ThreadCount > 1 => Offset(ThreadStart(t), c + d) < NonceRange
    BY <1>2, <1>7, <2>1, <2>2, <2>3, UpHashes
  <2> QED
    BY <1>7, <2>2, <2>4 DEF At, Territory
<1> QED
  BY <1>5, <1>6, <1>7

LEMMA NextBatch ==
  ASSUME NonceTypes, RoundFits, NEW t \in Thread, ThreadInv(t),
         pc[t] = "batch", ~InBatch(t), GoesOn(t)
  PROVE  At(t, NextCurrent(t), local[t], 0, tried[t])
<1>1. /\ current[t] \in Nonce /\ local[t] \in Nat /\ i[t] \in Nat
      /\ local[t] < HashesPerThread /\ i[t] <= local[t] /\ ~(local[t] >= HashesPerThread)
      /\ ThreadStart(t) \in Nonce /\ ThreadEnd(t) \in Nonce
      /\ HashesPerThread \in Nat /\ HashesPerThread + BatchSize <= NonceRange
  BY ThreadNonces, Sizes DEF NonceTypes, ThreadInv, BatchOK, GoesOn, RoundFits
<1>2. At(t, current[t], local[t], i[t], tried[t]) /\ BatchOK(t)
  BY DEF ThreadInv, Placed, InThisBatch
<1>3. CASE useStride
  <2>1. Striding
    BY <1>3 DEF RoundFits, Striding
  <2>2. startBase + t \in Nat /\ startBase + t + ThreadCount * local[t] < MaxNonce
    BY <1>1, <1>3, StrideFits
  <2>3. i[t] = BatchSize
    BY <1>1, <1>2, <2>1, Sizes DEF BatchOK, InBatch
  <2>4. StrideAt(startBase + t, current[t], local[t], BatchSize, tried[t]) /\ BatchSize <= local[t]
    BY <1>1, <1>2, <1>3, <2>3 DEF At
  <2>5. StrideAt(startBase + t, Uint32(current[t] + BatchSize * ThreadCount) % MaxNonce, local[t], 0, tried[t])
    BY <1>1, <2>2, <2>4, StrideEnds
  <2> QED
    BY <1>3, <2>1, <2>5 DEF At, NextCurrent
<1>4. CASE ~useStride /\ mode = "backward"
  <2>1. DownAt(ThreadStart(t), current[t], local[t], i[t], tried[t])
    BY <1>2, <1>4 DEF At
  <2>2. /\ current[t] > 0 /\ current[t] - i[t] >= DownEnd(current[t])
        /\ ~(current[t] - i[t] > DownEnd(current[t]))
    BY <1>2, <1>4, ThreadNonces DEF Candidate, Striding, InBatch, BatchOK
  <2>3. NextCurrent(t) = IF DownEnd(current[t]) = 0 THEN MaxNonce ELSE DownEnd(current[t])
    BY <1>1, <1>4, ThreadNonces DEF NextCurrent, Striding
  <2> QED
    BY <1>1, <1>4, <2>1, <2>2, <2>3, DownEnds DEF At
<1>5. CASE ~useStride /\ mode # "backward"
  <2>1. UpAt(ThreadStart(t), ThreadEnd(t), current[t], local[t], i[t], tried[t])
    BY <1>2, <1>5 DEF At
  <2>2. /\ ~(current[t] + i[t] < UpEnd(current[t], ThreadEnd(t)))
        /\ i[t] = 0 \/ current[t] + i[t] <= UpEnd(current[t], ThreadEnd(t))
    BY <1>2, <1>5, ThreadNonces DEF Candidate, Striding, InBatch, BatchOK, NonceTypes
  <2>3. /\ Ends(t, ThreadStart(t), ThreadEnd(t))
        /\ t = ThreadCount - 1 => ThreadStart(t) + HashesPerThread <= MaxNonce
    BY <1>5, Bounds DEF NonceTypes, RoundFits
  <2>4. NextCurrent(t) = IF UpEnd(current[t], ThreadEnd(t)) >= ThreadEnd(t) THEN ThreadStart(t)
                         ELSE UpEnd(current[t], ThreadEnd(t))
    BY <1>1, <1>5, ThreadNonces DEF NextCurrent, Striding
  <2> QED
    BY <1>1, <1>5, <2>1, <2>2, <2>3, <2>4, UpEnds DEF At
<1> QED
  BY <1>3, <1>4, <1>5

-----------------------------------------------------------------------------
(* The steps of the round. *)

LEMMA FreshRound ==
  ASSUME NonceTypes, NEW t \in Thread, RoundFits
  PROVE  At(t, ThreadStart(t), 0, 0, {})
<1>1. ThreadStart(t) \in Nonce /\ ThreadStart(t) \in Nat
  BY ThreadNonces, Sizes DEF Nonce
<1>2. CASE useStride
  <2>1. startBase + t \in Nat /\ startBase + t + ThreadCount * 0 < MaxNonce
    <3>1. 0 \in Nat /\ 0 <= HashesPerThread
      BY Sizes
    <3> QED
      BY <1>2, <3>1, StrideFits
  <2>2. PICK q : q = startBase + t
    OBVIOUS
  <2>3. q \in Nat /\ q < MaxNonce /\ ThreadCount \in Nat /\ MaxNonce \in Nat
    BY <2>1, <2>2, Sizes
  <2>4. Uint32(q) % MaxNonce = q
    BY <2>3, Wrapping
  <2>5. StrideAt(q, q, 0, 0, {})
    BY <2>3 DEF StrideAt
  <2> QED
    BY <1>2, <2>2, <2>4, <2>5 DEF At, ThreadStart
<1>3. CASE ~useStride
  <2>1. DownAt(ThreadStart(t), ThreadStart(t), 0, 0, {}) /\ UpAt(ThreadStart(t), ThreadEnd(t), ThreadStart(t), 0, 0, {})
    BY <1>1 DEF DownAt, UpAt
  <2> QED
    BY <1>3, <2>1 DEF At
<1> QED
  BY <1>2, <1>3

(* What depends on the configuration of the round only. *)
LEMMA SameRound ==
  ASSUME UNCHANGED config
  PROVE  /\ RoundFits' <=> RoundFits
         /\ \A t \in Thread : /\ ThreadStart(t)' = ThreadStart(t) /\ ThreadEnd(t)' = ThreadEnd(t)
                              /\ Territory(t)' = Territory(t)
<1>1. mode' = mode /\ useStride' = useStride /\ startBase' = startBase
  BY DEF config
<1>2. \A t : ThreadStart(t)' = ThreadStart(t)
  BY <1>1 DEF ThreadStart
<1>3. \A t : ThreadEnd(t)' = ThreadEnd(t)
  BY <1>1 DEF ThreadEnd
<1>4. RoundFits' <=> RoundFits
  BY <1>1, <1>2 DEF RoundFits
<1>5. \A t \in Thread : Territory(t)' = Territory(t)
  BY <1>1, <1>2 DEF Territory, Offset
<1> QED
  BY <1>2, <1>3, <1>4, <1>5

LEMMA SamePlace ==
  ASSUME UNCHANGED config, NEW t \in Thread,
         At(t, current'[t], local'[t], InThisBatch(t)', tried'[t])
  PROVE  Placed(t)'
<1>1. mode' = mode /\ useStride' = useStride /\ startBase' = startBase
  BY DEF config
<1>2. ThreadStart(t)' = ThreadStart(t) /\ ThreadEnd(t)' = ThreadEnd(t)
  BY SameRound
<1>3. Placed(t)' <=>
        IF useStride THEN StrideAt(startBase + t, current'[t], local'[t], InThisBatch(t)', tried'[t])
        ELSE IF mode = "backward" THEN DownAt(ThreadStart(t), current'[t], local'[t], InThisBatch(t)', tried'[t])
        ELSE UpAt(ThreadStart(t), ThreadEnd(t), current'[t], local'[t], InThisBatch(t)', tried'[t])
  BY <1>1, <1>2 DEF Placed, At, StrideAt, DownAt, UpAt
<1> QED
  BY <1>3 DEF At

(* A thread that does nothing: the flag may have been set. *)
LEMMA IdleKeeps ==
  ASSUME NEW t \in Thread, ThreadInv(t), UNCHANGED config, found => found',
         pc'[t] = pc[t], current'[t] = current[t], i'[t] = i[t],
         local'[t] = local[t], tried'[t] = tried[t]
  PROVE  ThreadInv(t)'
<1>1. mode' = mode /\ useStride' = useStride /\ startBase' = startBase
  BY DEF config
<1>2. BatchOK(t)' <=> BatchOK(t)
  <2>1. ThreadEnd(t)' = ThreadEnd(t)
    BY SameRound
  <2>2. BatchEnd(t)' = BatchEnd(t) /\ Candidate(t)' = Candidate(t)
    BY <1>1, <2>1 DEF BatchEnd, Candidate, Striding
  <2> QED
    BY <1>1, <2>2 DEF BatchOK, Striding
<1>3. GoesOn(t)' => GoesOn(t)
  BY DEF GoesOn
<1>4. Placed(t) => Placed(t)'
  <2>1. InThisBatch(t)' = InThisBatch(t)
    BY DEF InThisBatch
  <2> QED
    BY <2>1, SamePlace DEF Placed
<1> QED
  BY <1>2, <1>3, <1>4, SameRound DEF ThreadInv

(* A thread that hashes takes a fresh nonce. *)
LEMMA HashingCounts ==
  ASSUME NonceInv, NEW t \in Thread, HashNonce(t) \/ HashAndReport(t)
  PROVE  NonceInv'
<1>1. /\ UNCHANGED config /\ current' = current /\ found' = found
      /\ pc[t] = "batch" /\ InBatch(t) /\ GoesOn(t)
      /\ local' = [local EXCEPT ![t] = @ + 1]
      /\ tried' = [tried EXCEPT ![t] = @ \cup {Candidate(t)}]
  BY DEF HashNonce, HashAndReport, config
<1>2. \/ pc' = [pc EXCEPT ![t] = "done"] /\ i' = i
      \/ pc' = [pc EXCEPT ![t] = "hit"] /\ i' = i
      \/ pc' = pc /\ i' = [i EXCEPT ![t] = @ + 1]
  BY DEF HashNonce, HashAndReport
<1>3. NonceTypes /\ ThreadInv(t) /\ BatchOK(t)
  BY <1>1 DEF NonceInv, ThreadInv
<1>4. Candidate(t) \in Nonce
  BY <1>1, <1>3, ThreadNonces
<1>5. NonceTypes'
  BY <1>1, <1>2, <1>3, <1>4 DEF NonceTypes, config
<1>6. ASSUME NEW s \in Thread, s # t PROVE ThreadInv(s)'
  <2>1. pc'[s] = pc[s] /\ i'[s] = i[s] /\ local'[s] = local[s] /\ tried'[s] = tried[s]
    BY <1>1, <1>2, <1>3, <1>6 DEF NonceTypes
  <2> QED
    BY <1>1, <2>1, IdleKeeps DEF NonceInv
<1>7. /\ local'[t] = local[t] + 1 /\ tried'[t] = tried[t] \cup {Candidate(t)}
      /\ pc'[t] \in {"loop", "batch"} => pc'[t] = "batch" /\ i'[t] = i[t] + 1
  BY <1>1, <1>2, <1>3 DEF NonceTypes
<1>8. ASSUME pc'[t] = "batch" PROVE BatchOK(t)'
  <2>1. BatchEnd(t)' = BatchEnd(t)
    BY <1>1, SameRound DEF BatchEnd, config
  <2>2. PICK c, d, e : c = current[t] /\ d = i[t] /\ e = BatchEnd(t)
    OBVIOUS
  <2>3. c \in 0..MaxNonce /\ d \in Nat /\ e \in 0..MaxNonce /\ MaxNonce \in Nat /\ local[t] \in Nat
    BY <1>3, <2>2, ThreadNonces, Sizes DEF NonceTypes, Nonce
  <2>4. i'[t] = d + 1 /\ current'[t] = c /\ mode' = mode /\ useStride' = useStride
    BY <1>1, <1>7, <1>8, <2>2 DEF config
  <2>5. i'[t] <= local'[t] /\ (Striding' => i'[t] <= BatchSize)
    BY <1>1, <1>3, <1>7, <2>2, <2>3, <2>4, Sizes DEF BatchOK, InBatch, Striding
  <2>6. mode' = "backward" => current'[t] > 0 /\ Candidate(t)' >= BatchEnd(t)'
    BY <1>1, <1>3, <2>1, <2>2, <2>3, <2>4 DEF BatchOK, InBatch, Candidate, Striding
  <2>7. mode' = "forward" /\ ~useStride' => Candidate(t)' <= BatchEnd(t)'
    BY <1>1, <1>3, <2>1, <2>2, <2>3, <2>4 DEF BatchOK, InBatch, Candidate, Striding
  <2> QED
    BY <2>5, <2>6, <2>7 DEF BatchOK
<1>9. ASSUME RoundFits
      PROVE  /\ IsFiniteSet(tried'[t]) /\ Cardinality(tried'[t]) = local'[t]
             /\ ThreadCount > 1 => tried'[t] \subseteq Territory(t)
             /\ At(t, current[t], local[t] + 1, i[t] + 1, tried'[t])
  <2>1. /\ Candidate(t) \notin tried[t]
        /\ ThreadCount > 1 => Candidate(t) \in Territory(t)
        /\ At(t, current[t], local[t] + 1, i[t] + 1, tried[t] \cup {Candidate(t)})
    BY <1>1, <1>3, <1>9, FreshNonce
  <2>2. /\ IsFiniteSet(tried[t]) /\ Cardinality(tried[t]) = local[t]
        /\ ThreadCount > 1 => tried[t] \subseteq Territory(t)
    BY <1>3, <1>9 DEF ThreadInv
  <2>3. /\ IsFiniteSet(tried[t] \cup {Candidate(t)})
        /\ Cardinality(tried[t] \cup {Candidate(t)}) = local[t] + 1
    BY <2>1, <2>2, FS_AddElement
  <2> QED
    BY <1>7, <2>1, <2>2, <2>3
<1>10. ThreadInv(t)'
  <2>1. ASSUME RoundFits, pc'[t] = "batch"
        PROVE  Placed(t)'
    <3>1. At(t, current'[t], local'[t], i'[t], tried'[t])
      BY <1>1, <1>7, <1>9, <2>1
    <3>2. InThisBatch(t)' = i'[t]
      BY <2>1 DEF InThisBatch
    <3> QED
      BY <1>1, <3>1, <3>2, SamePlace
  <2>2. RoundFits' <=> RoundFits
    BY <1>1, SameRound
  <2>3. Territory(t)' = Territory(t)
    BY <1>1, SameRound
  <2> QED
    BY <1>7, <1>8, <1>9, <2>1, <2>2, <2>3 DEF ThreadInv
<1> QED
  BY <1>5, <1>6, <1>10 DEF NonceInv

LEMMA SearchingCounts ==
  ASSUME NonceInv, NEW t \in Thread, StartBatch(t) \/ EndBatch(t)
  PROVE  NonceInv'
<1>1. UNCHANGED <<config, local, tried, found>>
  BY DEF StartBatch, EndBatch, config
<1>2. NonceTypes /\ ThreadInv(t) /\ NextCurrent(t) \in Nonce
  BY ThreadNonces DEF NonceInv
<1>3. \/ /\ pc[t] = "loop" /\ pc' = [pc EXCEPT ![t] = "batch"] /\ current' = current
         /\ i' = [i EXCEPT ![t] = 0] /\ (mode = "backward" => current[t] > 0) /\ GoesOn(t)
      \/ /\ pc[t] = "batch" /\ pc' = [pc EXCEPT ![t] = "loop"] /\ i' = i
         /\ current' = [current EXCEPT ![t] = NextCurrent(t)] /\ ~(InBatch(t) /\ GoesOn(t))
  BY DEF StartBatch, EndBatch
<1>4. NonceTypes'
  BY <1>1, <1>2, <1>3 DEF NonceTypes, config
<1>5. ASSUME NEW s \in Thread, s # t PROVE ThreadInv(s)'
  <2>1. pc'[s] = pc[s] /\ i'[s] = i[s] /\ current'[s] = current[s]
    BY <1>2, <1>3, <1>5 DEF NonceTypes
  <2> QED
    BY <1>1, <2>1, IdleKeeps DEF NonceInv
<1>6. GoesOn(t)' <=> GoesOn(t)
  BY <1>1 DEF GoesOn
<1>7. ASSUME pc[t] = "loop" PROVE ThreadInv(t)'
  <2>1. pc'[t] = "batch" /\ i'[t] = 0 /\ current'[t] = current[t] /\ GoesOn(t) /\ (mode = "backward" => current[t] > 0)
    BY <1>2, <1>3, <1>7 DEF NonceTypes
  <2>2. current[t] \in 0..MaxNonce /\ local[t] \in Nat /\ BatchSize \in Nat /\ MaxNonce \in Nat
    BY <1>2, Sizes DEF NonceTypes, Nonce
  <2>3. BatchOK(t)'
    <3>1. mode = "backward" => BatchEnd(t)' <= current[t] /\ Candidate(t)' = current[t]
      BY <1>1, <2>1, <2>2 DEF BatchEnd, Candidate, Striding, config
    <3> QED
      BY <1>1, <2>1, <2>2, <3>1 DEF BatchOK, config
  <2>4. Placed(t) => Placed(t)'
    <3>1. InThisBatch(t)' = InThisBatch(t) /\ local'[t] = local[t] /\ tried'[t] = tried[t]
      BY <1>1, <1>7, <2>1 DEF InThisBatch
    <3> QED
      BY <1>1, <2>1, <3>1, SamePlace DEF Placed
  <2> QED
    BY <1>1, <1>2, <1>6, <1>7, <2>1, <2>3, <2>4, SameRound DEF ThreadInv
<1>8. ASSUME pc[t] = "batch" PROVE ThreadInv(t)'
  <2>1. pc'[t] = "loop" /\ current'[t] = NextCurrent(t) /\ ~(InBatch(t) /\ GoesOn(t))
    BY <1>2, <1>3, <1>8 DEF NonceTypes
  <2>2. RoundFits /\ GoesOn(t) => At(t, current'[t], local[t], 0, tried[t])
    BY <1>2, <1>8, <2>1, NextBatch
  <2>3. InThisBatch(t)' = 0
    BY <2>1 DEF InThisBatch
  <2>4. RoundFits /\ GoesOn(t) => Placed(t)'
    BY <1>1, <2>2, <2>3, SamePlace
  <2>5. /\ RoundFits' <=> RoundFits
        /\ Territory(t)' = Territory(t)
    BY <1>1, SameRound
  <2> QED
    BY <1>1, <1>2, <1>6, <2>1, <2>4, <2>5 DEF ThreadInv
<1> QED
  BY <1>3, <1>4, <1>5, <1>7, <1>8 DEF NonceInv

(* A thread that is done with hashing, and everybody but the threads. *)
LEMMA LeavingCounts ==
  ASSUME NonceInv, NEW t \in Thread, Claim(t) \/ Send(t) \/ Count(t) \/ CountRest(t)
  PROVE  NonceInv'
<1>1. UNCHANGED <<config, current, i, local, tried>> /\ (found => found')
  BY DEF Claim, Send, Count, CountRest, config
<1>2. NonceTypes /\ \A s \in Thread : ThreadInv(s)
  BY DEF NonceInv
<1>3. \E q \in {"send", "done"} : pc' = [pc EXCEPT ![t] = q]
  BY DEF Claim, Send, Count, CountRest
<1>4. NonceTypes'
  BY <1>1, <1>2, <1>3 DEF NonceTypes, config
<1>5. ASSUME NEW s \in Thread, s # t PROVE ThreadInv(s)'
  <2>1. pc'[s] = pc[s]
    BY <1>2, <1>3, <1>5 DEF NonceTypes
  <2> QED
    BY <1>1, <1>2, <2>1, IdleKeeps
<1>6. ThreadInv(t)'
  <2>1. pc'[t] \notin {"loop", "batch"}
    BY <1>2, <1>3 DEF NonceTypes
  <2>2. /\ RoundFits' <=> RoundFits
        /\ Territory(t)' = Territory(t)
    BY <1>1, SameRound
  <2> QED
    BY <1>1, <1>2, <2>1, <2>2 DEF ThreadInv
<1> QED
  BY <1>4, <1>5, <1>6 DEF NonceInv

LEMMA OthersCount ==
  ASSUME NonceInv, UNCHANGED <<config, pc, current, i, local>>, found => found',
         tried' = tried \/ \E h : tried' = [tried EXCEPT ![Sweep] = @ \cup h]
  PROVE  NonceInv'
<1>1. NonceTypes'
  BY DEF NonceInv, NonceTypes, config
<1>2. \A t \in Thread : tried'[t] = tried[t]
  <2>1. Sweep \notin Thread
    BY Sizes DEF Sweep, Thread
  <2> QED
    BY <2>1 DEF NonceInv, NonceTypes
<1>3. \A t \in Thread : ThreadInv(t)'
  BY <1>2, IdleKeeps DEF NonceInv
<1> QED
  BY <1>1, <1>3 DEF NonceInv

LEMMA NewSearchCounts ==
  ASSUME NonceInv, SearchAgain
  PROVE  NonceInv'
<1>1. /\ UNCHANGED config
      /\ pc' = [t \in Thread |-> "loop"] /\ current' = [t \in Thread |-> ThreadStart(t)]
      /\ i' = [t \in Thread |-> 0] /\ local' = [t \in Thread |-> 0]
      /\ tried' = [s \in DOMAIN tried |-> IF s = Sweep THEN tried[s] ELSE {}]
  BY DEF SearchAgain
<1>2. NonceTypes'
  BY <1>1, ThreadNonces DEF NonceInv, NonceTypes, config
<1>3. ASSUME NEW t \in Thread PROVE ThreadInv(t)'
  <2>1. Sweep # t
    BY Sizes DEF Sweep, Thread
  <2>2. pc'[t] = "loop" /\ current'[t] = ThreadStart(t) /\ local'[t] = 0 /\ tried'[t] = {} /\ InThisBatch(t)' = 0
    BY <1>1, <2>1 DEF NonceInv, NonceTypes, InThisBatch
  <2>3. RoundFits => Placed(t)'
    BY <1>1, <2>2, FreshRound, SamePlace DEF NonceInv
  <2>4. IsFiniteSet({}) /\ Cardinality({}) = 0
    BY FS_EmptySet
  <2> QED
    BY <1>1, <2>2, <2>3, <2>4, SameRound DEF ThreadInv
<1> QED
  BY <1>2, <1>3 DEF NonceInv

LEMMA NoncesInit == MineInit => NonceInv
<1> SUFFICES ASSUME MineInit PROVE NonceInv
  OBVIOUS
<1>1. /\ mode \in {"forward", "backward"} /\ useStride \in BOOLEAN /\ startBase \in Nonce
      /\ pc = [t \in Thread |-> "loop"] /\ current = [t \in Thread |-> ThreadStart(t)]
      /\ i = [t \in Thread |-> 0] /\ local = [t \in Thread |-> 0]
      /\ tried = [t \in Thread \cup {Sweep} |-> {}]
  BY NonceSearchAssumption DEF MineInit, Init
<1>2. \A t \in Thread : ThreadStart(t) \in Nonce
  <2> TAKE t \in Thread
  <2>1. CASE useStride
    <3>1. startBase + t \in Nat /\ MaxNonce \in Nat \ {0}
      BY <1>1, Sizes DEF Thread, Nonce
    <3>2. Uint32(startBase + t) \in 0..MaxNonce
      BY <3>1, Wrapping DEF Nonce
    <3> QED
      BY <2>1, <3>1, <3>2 DEF ThreadStart, Nonce
  <2>2. CASE ~useStride
    BY <1>1, <2>2, Bounds
  <2> QED
    BY <2>1, <2>2
<1>3. NonceTypes
  BY <1>1, <1>2 DEF NonceTypes
<1>4. ASSUME NEW t \in Thread PROVE ThreadInv(t)
  <2>1. pc[t] = "loop" /\ current[t] = ThreadStart(t) /\ local[t] = 0 /\ tried[t] = {} /\ InThisBatch(t) = 0
    BY <1>1 DEF InThisBatch
  <2>2. RoundFits => Placed(t)
    BY <1>3, <2>1, FreshRound DEF Placed
  <2>3. IsFiniteSet({}) /\ Cardinality({}) = 0
    BY FS_EmptySet
  <2> QED
    BY <2>1, <2>2, <2>3 DEF ThreadInv
<1> QED
  BY <1>3, <1>4 DEF NonceInv

LEMMA NoncesKeep ==
  ASSUME NonceInv, [MineNext]_mineVars
  PROVE  NonceInv'
<1>1. ASSUME NEW t \in Thread, AnyThreadStep(t)
      PROVE  NonceInv'
  BY <1>1, HashingCounts, SearchingCounts, LeavingCounts DEF AnyThreadStep, ThreadStep
<1>2. CASE SweepOne \/ RunKernel
  <2>1. UNCHANGED <<config, pc, current, i, local, found>>
    BY <1>2 DEF SweepOne, RunKernel
  <2>2. \E h : tried' = [tried EXCEPT ![Sweep] = @ \cup h]
    BY <1>2 DEF SweepOne, RunKernel
  <2> QED
    BY <2>1, <2>2, OthersCount
<1>3. CASE SweepEnds \/ LoseBatch \/ HalveBatch \/ GiveWay
  <2>1. UNCHANGED <<config, threads, found>>
    BY <1>3 DEF SweepEnds, LoseBatch, HalveBatch, GiveWay, vars
  <2> QED
    BY <2>1, OthersCount DEF threads
<1>4. CASE Close \/ Receive \/ ReturnNothing
  <2>1. UNCHANGED <<config, threads, found>>
    BY <1>4 DEF Close, Receive, ReturnNothing
  <2> QED
    BY <2>1, OthersCount DEF threads
<1>5. CASE Watchdog
  <2>1. UNCHANGED <<config, threads>> /\ found' = TRUE
    BY <1>5 DEF Watchdog
  <2> QED
    BY <2>1, OthersCount DEF threads
<1>6. CASE TakeResult \/ SeeTheEnd
  <2>1. \/ SearchAgain
        \/ UNCHANGED <<config, threads, found>>
    BY <1>6 DEF TakeResult, SeeTheEnd, HandBack
  <2> QED
    BY <2>1, NewSearchCounts, OthersCount DEF threads
<1>7. CASE UNCHANGED mineVars
  <2>1. UNCHANGED <<config, threads, found>>
    BY <1>7 DEF mineVars, vars
  <2> QED
    BY <2>1, OthersCount DEF threads
<1> QED
  BY <1>1, <1>2, <1>3, <1>4, <1>5, <1>6, <1>7
     DEF MineNext, CPUStep, GPUThreadStep, CloseResults, SweepStep, AnyThreadStep, ThreadStep

(* No nonce is hashed twice in a round, by one thread or by two, as long as the
   shares fit in the ranges: forward, backward or in strides, on the CPU and on
   the GPU's threads, cancelled or searched again, and whichever sums wrap. *)
THEOREM NonceNeverTwice == MineSpec => []NoNonceTwice
<1>1. ASSUME NonceInv PROVE NoNonceTwice
  <2> SUFFICES ASSUME RoundFits
               PROVE  /\ \A t \in Thread : Cardinality(tried[t]) = local[t]
                      /\ \A s, t \in Thread : s # t => tried[s] \cap tried[t] = {}
    BY DEF NoNonceTwice
  <2>1. \A t \in Thread : Cardinality(tried[t]) = local[t]
    BY <1>1 DEF NonceInv, ThreadInv
  <2>2. ASSUME NEW s \in Thread, NEW t \in Thread, s < t
        PROVE  tried[s] \cap tried[t] = {}
    <3>1. ThreadCount > 1
      BY <2>2, Sizes DEF Thread
    <3>2. tried[s] \subseteq Territory(s) /\ tried[t] \subseteq Territory(t)
      BY <1>1, <3>1 DEF NonceInv, ThreadInv
    <3>3. Territory(s) \cap Territory(t) = {}
      BY <1>1, <2>2, TerritoriesApart DEF NonceInv, NonceTypes
    <3> QED
      BY <3>2, <3>3
  <2>3. ASSUME NEW s \in Thread, NEW t \in Thread, s # t
        PROVE  tried[s] \cap tried[t] = {}
    <3>1. s < t \/ t < s
      BY <2>3, Sizes DEF Thread
    <3> QED
      BY <2>2, <3>1
  <2> QED
    BY <2>1, <2>3
<1>2. MineSpec => []NonceInv
  BY NoncesInit, NoncesKeep, PTL DEF MineSpec
<1> QED
  BY <1>1, <1>2, PTL

-----------------------------------------------------------------------------
(* How many hashes a round takes, and how many of them it reports.  The total is
   the number of pairs of a thread and one of the hashes it has added. *)

Pairs(c) == {p \in Thread \X (1..HashesPerThread) : p[2] <= c[p[1]]}

LEMMA Shares ==
  /\ IsFiniteSet(Thread) /\ Cardinality(Thread) = ThreadCount
  /\ IsFiniteSet(1..HashesPerThread) /\ Cardinality(1..HashesPerThread) = HashesPerThread
<1>1. /\ 0 \in Int /\ ThreadCount - 1 \in Int
      /\ (IF 0 > ThreadCount - 1 THEN 0 ELSE ThreadCount - 1 - 0 + 1) = ThreadCount
  BY Sizes
<1>2. IsFiniteSet(Thread) /\ Cardinality(Thread) = ThreadCount
  BY <1>1, FS_Interval DEF Thread
<1>3. /\ 1 \in Int /\ HashesPerThread \in Int
      /\ (IF 1 > HashesPerThread THEN 0 ELSE HashesPerThread - 1 + 1) = HashesPerThread
  BY Sizes
<1>4. IsFiniteSet(1..HashesPerThread) /\ Cardinality(1..HashesPerThread) = HashesPerThread
  BY <1>3, FS_Interval
<1> QED
  BY <1>2, <1>4

LEMMA PairsFinite ==
  ASSUME NEW c
  PROVE  IsFiniteSet(Pairs(c)) /\ Cardinality(Pairs(c)) \in 0..(ThreadCount * HashesPerThread)
<1>1. /\ IsFiniteSet(Thread \X (1..HashesPerThread))
      /\ Cardinality(Thread \X (1..HashesPerThread)) = ThreadCount * HashesPerThread
  BY Shares, FS_Product
<1>2. Pairs(c) \in SUBSET (Thread \X (1..HashesPerThread))
  BY DEF Pairs
<1>3. IsFiniteSet(Pairs(c)) /\ Cardinality(Pairs(c)) <= ThreadCount * HashesPerThread
  BY <1>1, <1>2, FS_Subset
<1>4. Cardinality(Pairs(c)) \in Nat
  BY <1>3, FS_CardinalityType
<1> QED
  BY <1>3, <1>4, Sizes

LEMMA PairsAdded ==
  ASSUME NEW c \in [Thread -> Nat], NEW t \in Thread, NEW m \in Nat, c[t] + m <= HashesPerThread
  PROVE  Cardinality(Pairs([c EXCEPT ![t] = @ + m])) = Cardinality(Pairs(c)) + m
<1> DEFINE d == [c EXCEPT ![t] = @ + m]
           new == {t} \X ((c[t] + 1)..(c[t] + m))
<1>1. c[t] \in Nat /\ HashesPerThread \in Nat
  BY Sizes
<1>2. IsFiniteSet(new) /\ Cardinality(new) = m
  <2>1. IsFiniteSet((c[t] + 1)..(c[t] + m)) /\ Cardinality((c[t] + 1)..(c[t] + m)) = m
    <3>1. PICK a, b : a = c[t] + 1 /\ b = c[t] + m
      OBVIOUS
    <3>2. a \in Int /\ b \in Int /\ (IF a > b THEN 0 ELSE b - a + 1) = m
      BY <1>1, <3>1
    <3> QED
      BY <3>1, <3>2, FS_Interval
  <2>2. IsFiniteSet({t}) /\ Cardinality({t}) = 1
    BY FS_Singleton
  <2>3. PICK one, added : one = {t} /\ added = (c[t] + 1)..(c[t] + m)
    OBVIOUS
  <2>4. IsFiniteSet(one \X added) /\ Cardinality(one \X added) = 1 * m
    BY <2>1, <2>2, <2>3, FS_Product
  <2> QED
    BY <2>3, <2>4
<1>3. Pairs(d) = Pairs(c) \cup new
  <2>1. ASSUME NEW p \in Thread \X (1..HashesPerThread) PROVE p \in Pairs(d) <=> p \in Pairs(c) \cup new
    <3>1. PICK s \in Thread, k \in 1..HashesPerThread : p = <<s, k>>
      OBVIOUS
    <3>2. p \in Pairs(d) <=> k <= d[s]
      BY <3>1 DEF Pairs
    <3>3. p \in Pairs(c) <=> k <= c[s]
      BY <3>1 DEF Pairs
    <3>4. p \in new <=> s = t /\ k >= c[t] + 1 /\ k <= c[t] + m
      BY <1>1, <3>1
    <3>5. d[s] = IF s = t THEN c[t] + m ELSE c[s]
      OBVIOUS
    <3> QED
      BY <1>1, <3>2, <3>3, <3>4, <3>5
  <2>2. new \subseteq Thread \X (1..HashesPerThread)
    BY <1>1
  <2> QED
    BY <2>1, <2>2 DEF Pairs
<1>4. Pairs(c) \cap new = {}
  <2> SUFFICES ASSUME NEW k \in (c[t] + 1)..(c[t] + m), <<t, k>> \in Pairs(c) PROVE FALSE
    OBVIOUS
  <2>1. k <= c[t]
    BY DEF Pairs
  <2> QED
    BY <1>1, <2>1
<1> HIDE DEF d, new
<1>5. Cardinality(Pairs(d)) = Cardinality(Pairs(c)) + m - 0
  <2>1. Cardinality(Pairs(c) \cap new) = 0
    BY <1>4, FS_EmptySet
  <2> QED
    BY <1>2, <1>3, <2>1, PairsFinite, FS_Union
<1>6. Cardinality(Pairs(c)) \in Nat
  BY PairsFinite
<1> QED
  BY <1>5, <1>6 DEF d

LEMMA PairsOfAll ==
  ASSUME NEW c \in [Thread -> Nat], NEW B \in SUBSET Thread,
         \A t \in Thread : c[t] = IF t \in B THEN HashesPerThread ELSE 0
  PROVE  Cardinality(Pairs(c)) = HashesPerThread * Cardinality(B)
<1>1. Pairs(c) = B \X (1..HashesPerThread)
  <2>1. ASSUME NEW t \in Thread, NEW k \in 1..HashesPerThread
        PROVE  k <= c[t] <=> t \in B
    BY Sizes
  <2> QED
    BY <2>1 DEF Pairs
<1>2. IsFiniteSet(B) /\ Cardinality(B) \in Nat
  BY Shares, FS_Subset, FS_CardinalityType
<1>3. Cardinality(Pairs(c)) = Cardinality(B) * HashesPerThread
  BY <1>1, <1>2, Shares, FS_Product
<1> QED
  BY <1>2, <1>3, Sizes

LEMMA Remainder ==
  ASSUME NEW k \in Nat \ {0}, NEW l \in Nat
  PROVE  /\ l % k \in 0..l
         /\ (l + 1) % k = 0 => l % k = k - 1
         /\ (l + 1) % k # 0 => (l + 1) % k = (l % k) + 1
<1>1. PICK q, r : q = l \div k /\ r = l % k
  OBVIOUS
<1>2. q \in Nat /\ r \in 0..(k - 1) /\ l = k * q + r
  BY <1>1
<1>3. k * q \in Nat
  BY <1>2
<1>4. CASE r + 1 < k
  <2>1. l + 1 = k * q + (r + 1)
    BY <1>2, <1>3
  <2>2. (l + 1) % k = r + 1
    BY <1>2, <1>4, <2>1
  <2> QED
    BY <1>1, <1>2, <1>3, <1>4, <2>2
<1>5. CASE r + 1 = k
  <2>1. l + 1 = k * (q + 1)
    BY <1>2, <1>5
  <2>2. (l + 1) % k = 0
    BY <1>2, <2>1
  <2> QED
    BY <1>1, <1>2, <1>3, <1>5, <2>2
<1> QED
  BY <1>2, <1>4, <1>5

(* What thread t has hashed and not added to the total, and what it has added: all
   the rest, unless it left when the flag was set and dropped some. *)
Left(t) == IF pc[t] = "done" THEN 0 ELSE IF OnThreads THEN local[t] % Chunk ELSE local[t]
Shown(t) == local[t] - Left(t)

AddsUp(c) ==
  /\ total = Cardinality(Pairs(c))
  /\ \A t \in Thread : c[t] <= Shown(t) /\ (~found => c[t] = Shown(t))
CountInv == \E c \in [Thread -> Nat] : AddsUp(c)

(* Backward, a thread comes to nonce 0 at the start or at the end. *)
Idle(t) == mode = "backward" /\ ThreadStart(t) = 0
ShareInv ==
  \A t \in Thread :
    /\ Idle(t) => current[t] = 0 /\ local[t] = 0 /\ pc[t] \in {"loop", "done"}
    /\ mode = "backward" /\ current[t] = 0 /\ ~Idle(t) => local[t] >= HashesPerThread
    /\ pc[t] = "done" /\ ~found => local[t] = IF Idle(t) THEN 0 ELSE HashesPerThread

(* Nothing is returned as the end of a round before its threads have left. *)
ReturnInv ==
  /\ closed => \A t \in Thread : pc[t] = "done"
  /\ cancelled => found
  /\ device \notin Threaded => ~found /\ ~closed /\ total = 0 /\ \A t \in Thread : local[t] = 0
  /\ ret.returned /\ ~ret.found =>
       IF device \in Threaded
       THEN closed /\ ret.hashes = (IF OnThreads THEN sweep.attempted ELSE 0) + total
       ELSE ret.hashes = sweep.attempted /\ sweep.attempted >= EffectiveMaxHashes

BoundsInv ==
  /\ \A t \in Thread : i[t] \in 0..BatchSize /\ local[t] \in 0..HashesPerThread
  /\ tried \in [Thread \cup {Sweep} -> SUBSET Nonce]
  /\ found \in BOOLEAN /\ closed \in BOOLEAN /\ cancelled \in BOOLEAN
  /\ ret \in [returned : BOOLEAN, found : BOOLEAN, nonce : Nonce, hashes : Nat]
  /\ sweep \in [attempted : 0..(EffectiveMaxHashes + Unit \div 8), batch : 1..(EffectiveMaxHashes + Unit)]

BudgetInv == RoundInv /\ NonceInv /\ CountInv /\ ShareInv /\ ReturnInv /\ BoundsInv

LEMMA Budgets ==
  /\ Chunk \in Nat \ {0} /\ Unit \in Nat \ {0} /\ Unit \div 8 \in Nat /\ 8 * (Unit \div 8) = Unit
  /\ DeviceBatch \subseteq Nat \ {0} /\ EffectiveMaxHashes \in Nat \ {0}
<1>1. Chunk \in Nat \ {0} /\ Unit \in Nat \ {0} /\ Unit % 8 = 0 /\ DeviceBatch \subseteq Nat \ {0}
  BY MineBlockAssumption
<1>2. Unit \div 8 \in Nat /\ 8 * (Unit \div 8) = Unit
  BY <1>1
<1>3. EffectiveMaxHashes \in Nat \ {0}
  BY NonceSearchAssumption DEF EffectiveMaxHashes
<1> QED
  BY <1>1, <1>2, <1>3

LEMMA ShownType ==
  ASSUME NEW t \in Thread, local[t] \in Nat
  PROVE  Left(t) \in 0..local[t] /\ Shown(t) \in 0..local[t]
<1>1. local[t] % Chunk \in 0..local[t]
  BY Remainder, Budgets
<1> QED
  BY <1>1 DEF Left, Shown

LEMMA CountsStay ==
  ASSUME CountInv, total' = total, found => found',
         \A t \in Thread : /\ Shown(t) \in Nat /\ Shown(t)' \in Nat /\ Shown(t)' >= Shown(t)
                           /\ Shown(t)' = Shown(t) \/ found'
  PROVE  CountInv'
<1>1. PICK c \in [Thread -> Nat] : AddsUp(c)
  BY DEF CountInv
<1>2. total' = Cardinality(Pairs(c))
  BY <1>1 DEF AddsUp
<1>3. \A t \in Thread : c[t] <= Shown(t)' /\ (~found' => c[t] = Shown(t)')
  <2> TAKE t \in Thread
  <2>1. c[t] \in Nat /\ c[t] <= Shown(t) /\ (~found => c[t] = Shown(t))
    BY <1>1 DEF AddsUp
  <2>2. Shown(t) \in Nat /\ Shown(t)' \in Nat /\ Shown(t)' >= Shown(t)
    OBVIOUS
  <2>3. c[t] <= Shown(t)'
    BY <2>1, <2>2
  <2>4. ~found' => c[t] = Shown(t)'
    BY <2>1
  <2> QED
    BY <2>3, <2>4
<1>4. AddsUp(c)'
  BY <1>2, <1>3 DEF AddsUp, Pairs
<1> QED
  BY <1>1, <1>4 DEF CountInv

LEMMA CountsGrow ==
  ASSUME CountInv, NEW t \in Thread, NEW m \in Nat, total' = total + m, found' = found,
         Shown(t) \in Nat, Shown(t)' = Shown(t) + m, Shown(t)' <= HashesPerThread,
         \A s \in Thread : s # t => Shown(s)' = Shown(s)
  PROVE  CountInv'
<1>1. PICK c \in [Thread -> Nat] : AddsUp(c)
  BY DEF CountInv
<1>2. PICK d : d = [c EXCEPT ![t] = @ + m]
  OBVIOUS
<1>3. d \in [Thread -> Nat] /\ d[t] = c[t] + m /\ \A s \in Thread : s # t => d[s] = c[s]
  BY <1>2
<1>4. c[t] \in Nat /\ c[t] <= Shown(t)
  BY <1>1 DEF AddsUp
<1>5. total' = Cardinality(Pairs(d))
  <2>1. c[t] + m <= HashesPerThread
    BY <1>4, Sizes
  <2> QED
    BY <1>1, <1>2, <2>1, PairsAdded DEF AddsUp
<1>6. \A s \in Thread : d[s] <= Shown(s)' /\ (~found' => d[s] = Shown(s)')
  BY <1>1, <1>3, <1>4 DEF AddsUp
<1>7. AddsUp(d)'
  BY <1>5, <1>6 DEF AddsUp, Pairs
<1> QED
  BY <1>3, <1>7 DEF CountInv

(* The batch has no room for more hashes than it has. *)
LEMMA WithinBatch ==
  ASSUME NonceTypes, NEW t \in Thread, InBatch(t)
  PROVE  i[t] < BatchSize
<1>1. /\ current[t] \in 0..MaxNonce /\ i[t] \in Nat /\ BatchSize \in Nat \ {0} /\ MaxNonce \in Nat
      /\ ThreadEnd(t) \in 0..MaxNonce
  BY ThreadNonces, Sizes DEF NonceTypes, Nonce
<1>2. CASE Striding
  BY <1>2 DEF InBatch
<1>3. CASE ~Striding /\ mode = "backward"
  BY <1>1, <1>3, ThreadNonces DEF InBatch, Candidate, DownEnd
<1>4. CASE ~Striding /\ mode # "backward"
  BY <1>1, <1>4, ThreadNonces DEF InBatch, Candidate, UpEnd
<1> QED
  BY <1>2, <1>3, <1>4

(* A step that leaves the threads' shares and whatever is returned alone. *)
LEMMA SharesStay ==
  ASSUME ShareInv, UNCHANGED config, found => found', NEW t \in Thread,
         pc'[t] = pc[t], current'[t] = current[t], local'[t] = local[t]
  PROVE  /\ Idle(t) => current'[t] = 0 /\ local'[t] = 0 /\ pc'[t] \in {"loop", "done"}
         /\ mode = "backward" /\ current'[t] = 0 /\ ~Idle(t) => local'[t] >= HashesPerThread
         /\ pc'[t] = "done" /\ ~found' => local'[t] = IF Idle(t) THEN 0 ELSE HashesPerThread
BY DEF ShareInv

LEMMA SameShares ==
  ASSUME UNCHANGED config,
         \A t \in Thread :
           /\ Idle(t) => current'[t] = 0 /\ local'[t] = 0 /\ pc'[t] \in {"loop", "done"}
           /\ mode = "backward" /\ current'[t] = 0 /\ ~Idle(t) => local'[t] >= HashesPerThread
           /\ pc'[t] = "done" /\ ~found' => local'[t] = IF Idle(t) THEN 0 ELSE HashesPerThread
  PROVE  ShareInv'
<1>1. mode' = mode /\ \A t \in Thread : Idle(t)' <=> Idle(t)
  BY SameRound DEF Idle, config
<1> QED
  BY <1>1 DEF ShareInv

(* What a step of thread t leaves alone. *)
LEMMA OthersStay ==
  ASSUME BudgetInv, UNCHANGED <<config, device>>, found => found', NEW t \in Thread,
         \A s \in Thread : s # t => /\ pc'[s] = pc[s] /\ current'[s] = current[s]
                                    /\ local'[s] = local[s]
  PROVE  \A s \in Thread : s # t =>
           /\ Shown(s)' = Shown(s)
           /\ Idle(s) => current'[s] = 0 /\ local'[s] = 0 /\ pc'[s] \in {"loop", "done"}
           /\ mode = "backward" /\ current'[s] = 0 /\ ~Idle(s) => local'[s] >= HashesPerThread
           /\ pc'[s] = "done" /\ ~found' => local'[s] = IF Idle(s) THEN 0 ELSE HashesPerThread
<1> SUFFICES ASSUME NEW s \in Thread, s # t
             PROVE  /\ Shown(s)' = Shown(s)
                    /\ Idle(s) => current'[s] = 0 /\ local'[s] = 0 /\ pc'[s] \in {"loop", "done"}
                    /\ mode = "backward" /\ current'[s] = 0 /\ ~Idle(s) => local'[s] >= HashesPerThread
                    /\ pc'[s] = "done" /\ ~found' => local'[s] = IF Idle(s) THEN 0 ELSE HashesPerThread
  OBVIOUS
<1>1. Shown(s)' = Shown(s)
  BY DEF Shown, Left, OnThreads
<1> QED
  BY <1>1, SharesStay DEF BudgetInv

(* Hashes that are not reported yet. *)
LEMMA HashingSpends ==
  ASSUME BudgetInv, device = "threads", NEW t \in Thread, HashNonce(t),
         UNCHANGED <<device, sweep, cancelled>>
  PROVE  CountInv' /\ ShareInv' /\ ReturnInv' /\ BoundsInv'
<1> USE DEF BudgetInv
<1>1. /\ UNCHANGED <<config, current, found, total, results, closed, ret>>
      /\ pc[t] = "batch" /\ InBatch(t) /\ GoesOn(t)
      /\ local' = [local EXCEPT ![t] = @ + 1]
      /\ tried' = [tried EXCEPT ![t] = @ \cup {Candidate(t)}]
      /\ \/ pc' = [pc EXCEPT ![t] = "hit"] /\ i' = i
         \/ pc' = pc /\ i' = [i EXCEPT ![t] = @ + 1]
  BY DEF HashNonce
<1>2. NonceTypes /\ local[t] < HashesPerThread /\ i[t] < BatchSize /\ Candidate(t) \in Nonce
  BY <1>1, WithinBatch, ThreadNonces DEF NonceInv, GoesOn
<1>3. /\ pc'[t] \in {"hit", "batch"} /\ local'[t] = local[t] + 1 /\ current'[t] = current[t]
      /\ \A s \in Thread : s # t => pc'[s] = pc[s] /\ local'[s] = local[s] /\ current'[s] = current[s]
  BY <1>1, <1>2 DEF NonceTypes
<1>4. \A s \in Thread : local[s] \in Nat /\ local'[s] \in Nat
  BY <1>2, <1>3 DEF NonceTypes
<1>5. ~closed /\ ~(ret.returned /\ ~ret.found)
  BY <1>1 DEF ReturnInv, Threaded
<1>6. CountInv'
  <2>1. Shown(t) = 0 /\ Shown(t)' = 0
    BY <1>1, <1>3, <1>4 DEF Shown, Left, OnThreads
  <2> QED
    BY <1>1, <1>3, <1>4, <2>1, OthersStay, ShownType, CountsStay
<1>7. ShareInv'
  <2>1. ~Idle(t) /\ (mode = "backward" => current[t] # 0)
    BY <1>1, <1>2, <1>4, Sizes DEF ShareInv
  <2> QED
    BY <1>1, <1>3, <2>1, OthersStay, SameShares
<1>8. ReturnInv'
  BY <1>1, <1>5 DEF ReturnInv, Threaded
<1>9. BoundsInv'
  BY <1>1, <1>2, <1>3, Sizes DEF BoundsInv, NonceTypes
<1> QED
  BY <1>6, <1>7, <1>8, <1>9

(* Hashes that are reported in chunks, unless the round is cancelled. *)
LEMMA ReportingSpends ==
  ASSUME BudgetInv, OnThreads, NEW t \in Thread, HashAndReport(t),
         UNCHANGED <<device, sweep, cancelled>>
  PROVE  CountInv' /\ ShareInv' /\ ReturnInv' /\ BoundsInv'
<1> USE DEF BudgetInv
<1> DEFINE report == (local[t] + 1) % Chunk = 0
<1>1. PICK l : l = local[t]
  OBVIOUS
<1>2. /\ UNCHANGED <<config, current, found, results, closed, ret>>
      /\ pc[t] = "batch" /\ InBatch(t) /\ GoesOn(t)
      /\ local' = [local EXCEPT ![t] = @ + 1]
      /\ tried' = [tried EXCEPT ![t] = @ \cup {Candidate(t)}]
      /\ total' = IF report /\ ~cancelled THEN total + Chunk ELSE total
  BY <1>1 DEF HashAndReport
<1>3. \/ /\ report /\ cancelled /\ pc' = [pc EXCEPT ![t] = "done"] /\ i' = i
      \/ /\ ~(report /\ cancelled)
         /\ \/ pc' = [pc EXCEPT ![t] = "hit"] /\ i' = i
            \/ pc' = pc /\ i' = [i EXCEPT ![t] = @ + 1]
  BY <1>1 DEF HashAndReport
<1>4. NonceTypes /\ l \in Nat /\ l < HashesPerThread /\ i[t] < BatchSize /\ Candidate(t) \in Nonce
  BY <1>1, <1>2, WithinBatch, ThreadNonces DEF NonceInv, GoesOn, NonceTypes
<1>5. /\ report /\ cancelled => pc'[t] = "done"
      /\ local'[t] = l + 1
      /\ ~(report /\ cancelled) => pc'[t] \in {"hit", "batch"}
      /\ current'[t] = current[t]
      /\ \A s \in Thread : s # t => pc'[s] = pc[s] /\ local'[s] = local[s] /\ current'[s] = current[s]
  BY <1>1, <1>2, <1>3, <1>4 DEF NonceTypes
<1> HIDE DEF report
<1>6. \A s \in Thread : local[s] \in Nat /\ local'[s] \in Nat
  BY <1>1, <1>4, <1>5 DEF NonceTypes
<1>7. ~closed /\ ~(ret.returned /\ ~ret.found)
  BY <1>2 DEF ReturnInv, Threaded, OnThreads
<1>8. Shown(t) = l - (l % Chunk)
  BY <1>1, <1>2 DEF Shown, Left
<1>9. /\ l % Chunk \in 0..l /\ Chunk \in Nat
      /\ report => l % Chunk = Chunk - 1
      /\ ~report => (l + 1) % Chunk = (l % Chunk) + 1
  BY <1>1, <1>4, Remainder, Budgets DEF report
<1>10. CountInv'
  <2>1. Shown(t)' = IF pc'[t] = "done" THEN l + 1 ELSE (l + 1) - ((l + 1) % Chunk)
    <3>1. OnThreads'
      BY DEF OnThreads
    <3>2. Left(t)' = IF pc'[t] = "done" THEN 0 ELSE (l + 1) % Chunk
      BY <1>5, <3>1 DEF Left
    <3>3. Shown(t)' = (l + 1) - Left(t)'
      BY <1>5 DEF Shown
    <3> QED
      BY <1>4, <3>2, <3>3
  <2>2. CASE report /\ cancelled
    <3>1. Shown(t)' = l + 1 /\ found /\ total' = total
      BY <1>2, <1>5, <2>1, <2>2 DEF ReturnInv
    <3>2. Shown(t) \in Nat /\ Shown(t)' \in Nat /\ Shown(t)' >= Shown(t)
      BY <1>4, <1>8, <1>9, <3>1
    <3>3. \A s \in Thread : s # t => Shown(s)' = Shown(s)
      BY <1>2, <1>5, OthersStay
    <3>4. \A s \in Thread : Shown(s) \in Nat
      BY <1>6, ShownType
    <3> QED
      BY <1>2, <3>1, <3>2, <3>3, <3>4, CountsStay
  <2>3. CASE report /\ ~cancelled
    <3>1. Shown(t)' = l + 1
      BY <1>1, <1>4, <1>5, <2>1, <2>3 DEF report
    <3>2. Shown(t)' = Shown(t) + Chunk /\ Shown(t)' <= HashesPerThread /\ Shown(t) \in Nat
      BY <1>4, <1>8, <1>9, <2>3, <3>1, Sizes
    <3>3. total' = total + Chunk
      BY <1>2, <2>3
    <3>4. \A s \in Thread : s # t => Shown(s)' = Shown(s)
      BY <1>2, <1>5, OthersStay
    <3> QED
      BY <1>2, <1>9, <3>2, <3>3, <3>4, CountsGrow
  <2>4. CASE ~report
    <3>1. Shown(t)' = (l + 1) - ((l + 1) % Chunk) /\ total' = total
      BY <1>2, <1>5, <2>1, <2>4
    <3>2. Shown(t)' = Shown(t)
      BY <1>4, <1>8, <1>9, <2>4, <3>1
    <3>3. \A s \in Thread : s # t => Shown(s)' = Shown(s)
      BY <1>2, <1>5, OthersStay
    <3>4. \A s \in Thread : Shown(s) \in Nat
      BY <1>6, ShownType
    <3> QED
      BY <1>2, <3>1, <3>2, <3>3, <3>4, CountsStay
  <2> QED
    BY <2>2, <2>3, <2>4
<1>11. ShareInv'
  <2>1. ~Idle(t) /\ (mode = "backward" => current[t] # 0)
    BY <1>1, <1>2, <1>4, Sizes DEF ShareInv
  <2>2. report /\ cancelled => found'
    BY <1>2 DEF ReturnInv
  <2> QED
    BY <1>2, <1>5, <2>1, <2>2, OthersStay, SameShares
<1>12. ReturnInv'
  BY <1>2, <1>7 DEF ReturnInv, Threaded, OnThreads
<1>13. BoundsInv'
  <2>1. /\ \A s \in Thread : local'[s] \in 0..HashesPerThread /\ i'[s] \in 0..BatchSize
    BY <1>1, <1>2, <1>3, <1>4, <1>5, <1>6, Sizes DEF BoundsInv, NonceTypes
  <2>2. tried' \in [Thread \cup {Sweep} -> SUBSET Nonce]
    BY <1>2, <1>4 DEF BoundsInv
  <2> QED
    BY <1>2, <2>1, <2>2 DEF BoundsInv
<1> QED
  BY <1>10, <1>11, <1>12, <1>13

LEMMA SearchingSpends ==
  ASSUME BudgetInv, device \in Threaded, NEW t \in Thread, StartBatch(t) \/ EndBatch(t),
         UNCHANGED <<device, sweep, cancelled>>
  PROVE  CountInv' /\ ShareInv' /\ ReturnInv' /\ BoundsInv'
<1> USE DEF BudgetInv
<1>1. UNCHANGED <<config, local, tried, found, total, results, closed, ret>>
  BY DEF StartBatch, EndBatch
<1>2. \/ /\ pc[t] = "loop" /\ pc' = [pc EXCEPT ![t] = "batch"] /\ current' = current
         /\ i' = [i EXCEPT ![t] = 0] /\ (mode = "backward" => current[t] > 0)
      \/ /\ pc[t] = "batch" /\ pc' = [pc EXCEPT ![t] = "loop"] /\ i' = i
         /\ current' = [current EXCEPT ![t] = NextCurrent(t)]
  BY DEF StartBatch, EndBatch
<1>3. NonceTypes /\ MaxNonce \in Nat \ {0} /\ BatchSize \in Nat
  BY Sizes DEF NonceInv
<1>4. /\ pc[t] \in {"loop", "batch"} /\ pc'[t] \in {"loop", "batch"} /\ local'[t] = local[t]
      /\ \A s \in Thread : s # t => pc'[s] = pc[s] /\ local'[s] = local[s] /\ current'[s] = current[s]
  BY <1>1, <1>2, <1>3 DEF NonceTypes
<1>5. \A s \in Thread : local[s] \in Nat /\ local'[s] \in Nat
  BY <1>1, <1>3 DEF NonceTypes
<1>6. ~closed /\ ~(ret.returned /\ ~ret.found)
  BY <1>4 DEF ReturnInv
<1>7. CountInv'
  <2>1. Shown(t)' = Shown(t)
    BY <1>4 DEF Shown, Left, OnThreads
  <2> QED
    BY <1>1, <1>4, <1>5, <2>1, OthersStay, ShownType, CountsStay
<1>8. ShareInv'
  <2>1. ~Idle(t)
    BY <1>2 DEF ShareInv, Idle
  <2>2. mode = "backward" /\ current'[t] = 0 => local[t] >= HashesPerThread
    <3>1. CASE pc[t] = "loop"
      BY <1>2, <1>3, <3>1 DEF NonceTypes
    <3>2. CASE pc[t] = "batch"
      <4>1. current'[t] = NextCurrent(t)
        BY <1>2, <1>3, <3>2 DEF NonceTypes
      <4> QED
        BY <1>3, <4>1 DEF NextCurrent, Striding
    <3> QED
      BY <1>4, <3>1, <3>2
  <2> QED
    BY <1>1, <1>4, <2>1, <2>2, OthersStay, SameShares
<1>9. ReturnInv'
  BY <1>1, <1>6 DEF ReturnInv, Threaded
<1>10. BoundsInv'
  BY <1>1, <1>2, <1>3 DEF BoundsInv, NonceTypes
<1> QED
  BY <1>7, <1>8, <1>9, <1>10

(* A thread with a hit sets the flag, and drops what it has not added. *)
LEMMA HittingSpends ==
  ASSUME BudgetInv, device \in Threaded, NEW t \in Thread, Claim(t) \/ Send(t),
         UNCHANGED <<device, sweep, cancelled>>
  PROVE  CountInv' /\ ShareInv' /\ ReturnInv' /\ BoundsInv'
<1> USE DEF BudgetInv
<1>1. /\ UNCHANGED <<config, current, i, local, tried, total, closed, ret>>
      /\ pc[t] \in {"hit", "send"} /\ found'
      /\ \E q \in {"send", "done"} : pc' = [pc EXCEPT ![t] = q]
      /\ found' = TRUE \/ found' = found
  BY DEF Claim, Send, RoundInv, FlagTaken, Sending
<1>2. NonceTypes
  BY DEF NonceInv
<1>3. /\ pc'[t] \in {"send", "done"}
      /\ \A s \in Thread : s # t => pc'[s] = pc[s]
  BY <1>1, <1>2 DEF NonceTypes
<1>4. \A s \in Thread : local[s] \in Nat /\ local'[s] = local[s] /\ current'[s] = current[s]
  BY <1>1, <1>2 DEF NonceTypes
<1>5. ~closed /\ ~(ret.returned /\ ~ret.found)
  BY <1>1 DEF ReturnInv
<1>6. CountInv'
  <2>1. Shown(t)' \in Nat /\ Shown(t) \in Nat /\ Shown(t)' >= Shown(t)
    <3>1. Left(t) \in Nat /\ (Left(t)' = Left(t) \/ Left(t)' = 0)
      <4>1. OnThreads' = OnThreads
        BY DEF OnThreads
      <4>2. Left(t) \in 0..local[t]
        BY <1>4, ShownType
      <4>3. Left(t)' = Left(t) \/ Left(t)' = 0
        BY <1>1, <1>3, <1>4, <4>1 DEF Left
      <4> QED
        BY <1>4, <4>2, <4>3
    <3>2. Shown(t) \in Nat /\ Shown(t) = local[t] - Left(t) /\ Shown(t)' = local[t] - Left(t)'
      BY <1>4, ShownType DEF Shown
    <3> QED
      BY <1>4, <3>1, <3>2
  <2>2. \A s \in Thread : Shown(s) \in Nat
    BY <1>4, ShownType
  <2>3. \A s \in Thread : s # t => Shown(s)' = Shown(s)
    BY <1>1, <1>3, <1>4, OthersStay
  <2> QED
    BY <1>1, <2>1, <2>2, <2>3, CountsStay
<1>7. ShareInv'
  <2>1. ~Idle(t) /\ (mode = "backward" /\ current[t] = 0 => local[t] >= HashesPerThread)
    BY <1>1 DEF ShareInv
  <2> QED
    BY <1>1, <1>3, <1>4, <2>1, OthersStay, SameShares
<1>8. ReturnInv'
  BY <1>1, <1>5 DEF ReturnInv, Threaded
<1>9. BoundsInv'
  BY <1>1 DEF BoundsInv
<1> QED
  BY <1>6, <1>7, <1>8, <1>9

(* A thread without a hit adds what it has not added. *)
LEMMA CountingSpends ==
  ASSUME BudgetInv, NEW t \in Thread,
         (device = "threads" /\ Count(t)) \/ (OnThreads /\ CountRest(t)),
         UNCHANGED <<device, sweep, cancelled>>
  PROVE  CountInv' /\ ShareInv' /\ ReturnInv' /\ BoundsInv'
<1> USE DEF BudgetInv
<1>1. /\ UNCHANGED <<config, current, i, local, tried, found, closed, ret>>
      /\ pc[t] = "loop" /\ ~(GoesOn(t) /\ (mode = "backward" => current[t] > 0))
      /\ pc' = [pc EXCEPT ![t] = "done"] /\ total' = total + Left(t)
  BY DEF Count, CountRest, Left, OnThreads
<1>2. NonceTypes
  BY DEF NonceInv
<1>3. /\ pc'[t] = "done"
      /\ \A s \in Thread : s # t => pc'[s] = pc[s]
  BY <1>1, <1>2 DEF NonceTypes
<1>4. \A s \in Thread : /\ local[s] \in 0..HashesPerThread /\ local[s] \in Nat
                        /\ local'[s] = local[s] /\ current'[s] = current[s]
  BY <1>1, <1>2, Sizes DEF NonceTypes, BoundsInv
<1>5. ~closed /\ ~(ret.returned /\ ~ret.found)
  BY <1>1 DEF ReturnInv, Threaded, OnThreads
<1>6. CountInv'
  <2>1. Left(t)' = 0 /\ Left(t) \in Nat /\ Shown(t) \in Nat
    BY <1>3, <1>4, ShownType DEF Left
  <2>2. Shown(t)' = local[t] /\ Shown(t)' = Shown(t) + Left(t)
    BY <1>4, <2>1 DEF Shown
  <2>3. \A s \in Thread : s # t => Shown(s)' = Shown(s)
    BY <1>1, <1>3, <1>4, OthersStay
  <2>4. local[t] <= HashesPerThread
    BY <1>4, Sizes
  <2> QED
    BY <1>1, <2>1, <2>2, <2>3, <2>4, CountsGrow
<1>7. ShareInv'
  <2>1. /\ Idle(t) => current[t] = 0 /\ local[t] = 0
        /\ mode = "backward" /\ current[t] = 0 /\ ~Idle(t) => local[t] >= HashesPerThread
    BY DEF ShareInv
  <2>2. current[t] \in Nat
    BY <1>2, Sizes DEF NonceTypes, Nonce
  <2>3. ~Idle(t) /\ ~found => local[t] >= HashesPerThread
    BY <1>1, <1>4, <2>1, <2>2, Sizes DEF GoesOn
  <2>4. ~found => local[t] = IF Idle(t) THEN 0 ELSE HashesPerThread
    BY <1>4, <2>1, <2>3, Sizes
  <2> QED
    BY <1>1, <1>3, <1>4, <2>1, <2>4, OthersStay, SameShares
<1>8. ReturnInv'
  BY <1>1, <1>5 DEF ReturnInv, Threaded, OnThreads
<1>9. BoundsInv'
  BY <1>1 DEF BoundsInv
<1> QED
  BY <1>6, <1>7, <1>8, <1>9

(* Everybody but the threads. *)
LEMMA ThreadsStay ==
  ASSUME BudgetInv, UNCHANGED <<config, pc, current, local, total>>, found => found',
         OnThreads' = OnThreads \/ device \notin Threaded
  PROVE  CountInv' /\ ShareInv'
<1> USE DEF BudgetInv
<1>1. ASSUME NEW t \in Thread PROVE Shown(t)' = Shown(t) /\ Shown(t) \in Nat
  <2>1. local[t] \in Nat
    BY DEF NonceInv, NonceTypes
  <2>2. CASE OnThreads' = OnThreads
    BY <2>1, <2>2, ShownType DEF Shown, Left
  <2>3. CASE device \notin Threaded
    <3>1. local[t] = 0 /\ 0 % Chunk = 0
      BY <2>3, Remainder, Budgets DEF ReturnInv
    <3> QED
      BY <2>1, <3>1, ShownType DEF Shown, Left
  <2> QED
    BY <2>2, <2>3
<1>2. CountInv'
  BY <1>1, CountsStay
<1>3. ShareInv'
  BY SharesStay, SameShares
<1> QED
  BY <1>2, <1>3

LEMMA CallerSpends ==
  ASSUME BudgetInv, UNCHANGED <<sweep, cancelled, device>>,
         (device \in Threaded /\ Close) \/ (device = "threads" /\ (Receive \/ ReturnNothing))
  PROVE  CountInv' /\ ShareInv' /\ ReturnInv' /\ BoundsInv'
<1> USE DEF BudgetInv
<1>1. /\ UNCHANGED <<config, threads, found, total>>
      /\ \/ closed' = TRUE /\ ret' = ret /\ \A t \in Thread : pc[t] = "done"
         \/ closed' = closed /\ ret' = ret
         \/ closed' = closed /\ \E n \in Nonce : ret' = [returned |-> TRUE, found |-> TRUE, nonce |-> n, hashes |-> total]
         \/ /\ device = "threads" /\ closed /\ closed' = closed
            /\ ret' = [returned |-> TRUE, found |-> FALSE, nonce |-> 0, hashes |-> total]
  <2>1. CASE Close
    BY <2>1 DEF Close
  <2>2. CASE Receive
    <3>1. Head(results) \in Nonce
      <4>1. PICK n \in Solutions : results = <<n>>
        BY <2>2 DEF Receive, RoundInv, HitsSolve
      <4>2. Head(<<n>>) = n /\ n \in Nonce
        BY NonceSearchAssumption
      <4> QED
        BY <4>1, <4>2
    <3> QED
      BY <2>2, <3>1 DEF Receive
  <2>3. CASE device = "threads" /\ ReturnNothing
    BY <2>3 DEF ReturnNothing
  <2> QED
    BY <2>1, <2>2, <2>3
<1>2. CountInv' /\ ShareInv'
  BY <1>1, ThreadsStay DEF threads, OnThreads
<1>3. total \in Nat /\ 0 + total = total
  <2>1. PICK c : AddsUp(c)
    BY DEF CountInv
  <2> QED
    BY <2>1, PairsFinite DEF AddsUp
<1>4. ReturnInv'
  <2>1. device' = device /\ device \in Threaded /\ (OnThreads' <=> OnThreads) /\ (device = "threads" => ~OnThreads)
    BY DEF OnThreads, Threaded
  <2>2. CASE ret' = ret
    BY <1>1, <2>1, <2>2 DEF ReturnInv, threads
  <2>3. CASE ret'.found = TRUE /\ closed' = closed
    BY <1>1, <2>1, <2>3 DEF ReturnInv, threads
  <2>4. CASE device = "threads" /\ closed /\ closed' = closed /\ ret'.hashes = total
    BY <1>1, <1>3, <2>1, <2>4 DEF ReturnInv, threads
  <2>5. \/ ret' = ret
        \/ ret'.found = TRUE /\ closed' = closed
        \/ device = "threads" /\ closed /\ closed' = closed /\ ret'.hashes = total
    BY <1>1
  <2> QED
    BY <2>2, <2>3, <2>4, <2>5
<1>5. BoundsInv'
  <2>1. 0 \in Nonce
    BY Sizes DEF Nonce
  <2>2. \A f \in BOOLEAN, n \in Nonce :
          [returned |-> TRUE, found |-> f, nonce |-> n, hashes |-> total]
            \in [returned : BOOLEAN, found : BOOLEAN, nonce : Nonce, hashes : Nat]
    BY <1>3
  <2>3. ret' \in [returned : BOOLEAN, found : BOOLEAN, nonce : Nonce, hashes : Nat]
    BY <1>1, <2>1, <2>2 DEF BoundsInv
  <2> QED
    BY <1>1, <2>3 DEF BoundsInv, threads
<1> QED
  BY <1>2, <1>4, <1>5

(* The kernel's last batch goes beyond the budget by the smallest batch at most. *)
LEMMA WorkFits ==
  ASSUME BoundsInv, sweep.attempted < EffectiveMaxHashes
  PROVE  /\ WorkSize \in Nat
         /\ sweep.attempted + WorkSize <= EffectiveMaxHashes + Unit \div 8
<1>1. PICK a, b, n, u : /\ a = sweep.attempted /\ b = sweep.batch /\ u = Unit \div 8
                        /\ n = Smaller(b, EffectiveMaxHashes - a)
  OBVIOUS
<1>2. a \in Nat /\ b \in Nat /\ u \in Nat /\ Unit = 8 * u /\ EffectiveMaxHashes \in Nat /\ a < EffectiveMaxHashes
  BY <1>1, Budgets DEF BoundsInv
<1>3. n \in Nat /\ n + a <= EffectiveMaxHashes
  BY <1>1, <1>2 DEF Smaller
<1>4. Unit \div 2 = 4 * u /\ Unit \div 4 = 2 * u
  BY <1>2
<1>5. InWholeUnits(n) \in 0..n
  <2>1. (n \div Unit) * Unit \in 0..n
    BY <1>3, Budgets
  <2> QED
    BY <1>3, <2>1 DEF InWholeUnits
<1>6. WorkSize \in Nat /\ (WorkSize <= n \/ WorkSize = u)
  BY <1>1, <1>2, <1>3, <1>4, <1>5 DEF WorkSize
<1> QED
  BY <1>1, <1>2, <1>3, <1>6

LEMMA SweepSpends ==
  ASSUME BudgetInv, SweepStep
  PROVE  CountInv' /\ ShareInv' /\ ReturnInv' /\ BoundsInv'
<1> USE DEF BudgetInv
<1>1. PICK a, b : a = sweep.attempted /\ b = sweep.batch
  OBVIOUS
<1>2. /\ a \in 0..(EffectiveMaxHashes + Unit \div 8) /\ b \in 1..(EffectiveMaxHashes + Unit)
      /\ EffectiveMaxHashes \in Nat /\ Unit \in Nat \ {0} /\ Unit \div 8 \in Nat
      /\ sweep = [attempted |-> a, batch |-> b]
  BY <1>1, Budgets DEF BoundsInv
<1>3. /\ UNCHANGED <<config, pc, current, i, local, found, total, closed, cancelled>>
      /\ device \notin Threaded /\ ~ret.returned
  BY DEF SweepStep, SweepOne, SweepEnds, RunKernel, LoseBatch, HalveBatch, GiveWay, InKernel,
         vars, threads, Threaded
<1>4. \A n \in Nat : Uint32(n) \in Nonce
  BY Wrapping
<1>5. startBase \in Nat /\ 0 \in Nonce
  BY Sizes DEF NonceInv, NonceTypes, Nonce
<1>6. a < EffectiveMaxHashes =>
        WorkSize \in Nat /\ a + WorkSize \in 0..(EffectiveMaxHashes + Unit \div 8)
  BY <1>1, <1>2, WorkFits
<1>7. \A f \in BOOLEAN, n \in Nonce, h \in Nat :
        [returned |-> TRUE, found |-> f, nonce |-> n, hashes |-> h]
          \in [returned : BOOLEAN, found : BOOLEAN, nonce : Nonce, hashes : Nat]
  OBVIOUS
<1>8. /\ tried' \in [Thread \cup {Sweep} -> SUBSET Nonce]
      /\ ret' \in [returned : BOOLEAN, found : BOOLEAN, nonce : Nonce, hashes : Nat]
      /\ sweep' \in [attempted : 0..(EffectiveMaxHashes + Unit \div 8), batch : 1..(EffectiveMaxHashes + Unit)]
      /\ \/ device' = device /\ (ret' = ret \/ ret'.found = TRUE)
         \/ device' = device /\ sweep' = sweep /\ ret'.hashes = a /\ a >= EffectiveMaxHashes
         \/ device' = "fallback" /\ ret' = ret
  <2>1. CASE SweepOne
    <3>1. PICK n : n = Uint32(startBase + a)
      OBVIOUS
    <3>2. n \in Nonce
      BY <1>2, <1>4, <1>5, <3>1
    <3>3. /\ a < EffectiveMaxHashes /\ device' = device
          /\ tried' = [tried EXCEPT ![Sweep] = @ \cup {n}]
          /\ ret' = ret \/ ret' = [returned |-> TRUE, found |-> TRUE, nonce |-> n, hashes |-> a + 1]
          /\ sweep' = [sweep EXCEPT !.attempted = @ + 1]
      BY <1>1, <2>1, <3>1 DEF SweepOne, Attempts, Return
    <3>4. sweep' = [attempted |-> a + 1, batch |-> b] /\ a + 1 \in 0..(EffectiveMaxHashes + Unit \div 8)
      BY <1>2, <3>3
    <3>5. tried' \in [Thread \cup {Sweep} -> SUBSET Nonce]
      BY <3>2, <3>3 DEF BoundsInv
    <3>6. /\ ret' \in [returned : BOOLEAN, found : BOOLEAN, nonce : Nonce, hashes : Nat]
          /\ ret' = ret \/ ret'.found = TRUE
      <4>1. a + 1 \in Nat
        BY <1>2
      <4>2. [returned |-> TRUE, found |-> TRUE, nonce |-> n, hashes |-> a + 1]
              \in [returned : BOOLEAN, found : BOOLEAN, nonce : Nonce, hashes : Nat]
        BY <1>7, <3>2, <4>1
      <4> QED
        BY <3>3, <4>2 DEF BoundsInv
    <3> QED
      BY <1>2, <3>3, <3>4, <3>5, <3>6
  <2>2. CASE RunKernel
    <3>1. PICK w, h : w = WorkSize /\ h = {Uint32(startBase + a + k) : k \in 0..(w - 1)}
      OBVIOUS
    <3>2. a < EffectiveMaxHashes /\ w \in Nat /\ a + w \in 0..(EffectiveMaxHashes + Unit \div 8)
      BY <1>1, <1>6, <2>2, <3>1 DEF RunKernel, InKernel
    <3>3. h \subseteq Nonce
      <4>1. \A k \in 0..(w - 1) : startBase + a + k \in Nat
        BY <1>2, <1>5, <3>2
      <4> QED
        BY <1>4, <3>1, <4>1
    <3>4. /\ device' = device
          /\ tried' = [tried EXCEPT ![Sweep] = @ \cup h]
          /\ \/ ret' = ret
             \/ \E n \in Solutions : ret' = [returned |-> TRUE, found |-> TRUE, nonce |-> n, hashes |-> a + w]
          /\ sweep' = [sweep EXCEPT !.attempted = @ + w]
      BY <1>1, <2>2, <3>1 DEF RunKernel, Attempts, Return
    <3>5. sweep' = [attempted |-> a + w, batch |-> b]
      BY <1>2, <3>4
    <3>6. Solutions \subseteq Nonce
      BY NonceSearchAssumption
    <3>7. tried' \in [Thread \cup {Sweep} -> SUBSET Nonce]
      BY <3>3, <3>4 DEF BoundsInv
    <3>8. /\ ret' \in [returned : BOOLEAN, found : BOOLEAN, nonce : Nonce, hashes : Nat]
          /\ ret' = ret \/ ret'.found = TRUE
      <4>1. a + w \in Nat
        BY <1>2, <3>2
      <4>2. \A n \in Nonce : [returned |-> TRUE, found |-> TRUE, nonce |-> n, hashes |-> a + w]
              \in [returned : BOOLEAN, found : BOOLEAN, nonce : Nonce, hashes : Nat]
        BY <1>7, <4>1
      <4> QED
        BY <3>4, <3>6, <4>2 DEF BoundsInv
    <3> QED
      BY <1>2, <3>2, <3>4, <3>5, <3>7, <3>8
  <2>3. CASE SweepEnds
    <3>1. /\ UNCHANGED <<tried, device, sweep>> /\ a >= EffectiveMaxHashes
          /\ ret' = [returned |-> TRUE, found |-> FALSE, nonce |-> 0, hashes |-> a]
      BY <1>1, <2>3 DEF SweepEnds, Return, threads
    <3> QED
      BY <1>2, <1>5, <1>7, <3>1 DEF BoundsInv
  <2>4. CASE LoseBatch
    <3>1. a < EffectiveMaxHashes /\ UNCHANGED <<tried, ret, device>> /\ sweep' = [sweep EXCEPT !.attempted = @ + WorkSize]
      BY <1>1, <2>4 DEF LoseBatch, InKernel, Attempts, vars, threads
    <3>2. sweep' = [attempted |-> a + WorkSize, batch |-> b]
      BY <1>2, <3>1
    <3> QED
      BY <1>2, <1>6, <3>1, <3>2 DEF BoundsInv
  <2>5. CASE HalveBatch
    <3>1. /\ UNCHANGED <<tried, ret, device>> /\ b > Unit
          /\ sweep' = [sweep EXCEPT !.batch = IF b \div 2 < Unit THEN Unit ELSE b \div 2]
      BY <1>1, <2>5 DEF HalveBatch, vars, threads
    <3>2. \E m \in 1..(EffectiveMaxHashes + Unit) : sweep' = [attempted |-> a, batch |-> m]
      BY <1>2, <3>1
    <3> QED
      BY <1>2, <3>1, <3>2 DEF BoundsInv
  <2>6. CASE GiveWay
    <3>1. UNCHANGED <<tried, ret, sweep>> /\ device' = "fallback"
      BY <2>6 DEF GiveWay, vars, threads
    <3> QED
      BY <3>1 DEF BoundsInv
  <2> QED
    BY <2>1, <2>2, <2>3, <2>4, <2>5, <2>6 DEF SweepStep
<1>9. CountInv' /\ ShareInv'
  BY <1>3, ThreadsStay
<1>10. ReturnInv'
  <2>1. ~found /\ ~closed /\ total = 0 /\ \A t \in Thread : local[t] = 0
    BY <1>3 DEF ReturnInv
  <2>2. ~cancelled
    BY <2>1 DEF ReturnInv
  <2> QED
    BY <1>1, <1>3, <1>8, <2>1, <2>2 DEF ReturnInv, Threaded
<1>11. BoundsInv'
  BY <1>3, <1>8 DEF BoundsInv
<1> QED
  BY <1>9, <1>10, <1>11

LEMMA CancelSpends ==
  ASSUME BudgetInv, Watchdog
  PROVE  CountInv' /\ ShareInv' /\ ReturnInv' /\ BoundsInv'
<1>1. /\ UNCHANGED <<config, threads, total, closed, ret, device, sweep>>
      /\ cancelled' = TRUE /\ found' = TRUE /\ OnThreads
  BY DEF Watchdog
<1>2. CountInv' /\ ShareInv'
  BY <1>1, ThreadsStay DEF threads, OnThreads
<1>3. ReturnInv'
  BY <1>1 DEF BudgetInv, ReturnInv, OnThreads, Threaded, threads
<1>4. BoundsInv'
  BY <1>1 DEF BudgetInv, BoundsInv, threads
<1> QED
  BY <1>2, <1>3, <1>4

LEMMA HandBackSpends ==
  ASSUME BudgetInv, OnThreads, ~ret.returned, closed, NEW b \in BOOLEAN, NEW n \in Nonce, NEW left,
         HandBack(b, n, left)
  PROVE  CountInv' /\ ShareInv' /\ ReturnInv' /\ BoundsInv'
<1> USE DEF BudgetInv
<1>1. NonceTypes /\ total \in Nat /\ sweep.attempted \in Nat
  <2>1. PICK c : AddsUp(c)
    BY DEF CountInv
  <2>2. sweep.attempted \in 0..(EffectiveMaxHashes + Unit \div 8) /\ EffectiveMaxHashes + Unit \div 8 \in Nat
    BY Budgets DEF BoundsInv
  <2>3. total \in Nat
    BY <2>1, PairsFinite DEF AddsUp
  <2> QED
    BY <2>2, <2>3 DEF NonceInv
<1>2. CASE SearchAgain
  <2>1. /\ UNCHANGED <<config, ret, sweep>> /\ device' = "gpu threads" /\ cancelled' = FALSE
        /\ pc' = [t \in Thread |-> "loop"] /\ current' = [t \in Thread |-> ThreadStart(t)]
        /\ i' = [t \in Thread |-> 0] /\ local' = [t \in Thread |-> 0]
        /\ tried' = [s \in DOMAIN tried |-> IF s = Sweep THEN tried[s] ELSE {}]
        /\ found' = FALSE /\ total' = 0 /\ closed' = FALSE
    BY <1>2 DEF SearchAgain
  <2>2. CountInv'
    <3>1. PICK c : c = [t \in Thread |-> 0]
      OBVIOUS
    <3>2. Cardinality(Pairs(c)) = 0
      <4>1. Pairs(c) = {}
        BY <3>1 DEF Pairs
      <4> QED
        BY <4>1, FS_EmptySet
    <3>3. \A t \in Thread : c[t] = 0 /\ Shown(t)' = 0
      <4> TAKE t \in Thread
      <4>1. 0 % Chunk = 0
        BY Remainder, Budgets
      <4>2. local'[t] = 0
        BY <2>1
      <4>3. Left(t)' = 0
        BY <4>1, <4>2 DEF Left
      <4>4. Shown(t)' = 0
        BY <4>2, <4>3 DEF Shown
      <4> QED
        BY <3>1, <4>4
    <3>4. total' = Cardinality(Pairs(c))
      BY <2>1, <3>2
    <3>5. AddsUp(c)'
      BY <3>3, <3>4 DEF AddsUp, Pairs
    <3>6. c \in [Thread -> Nat]
      BY <3>1
    <3> QED
      BY <3>5, <3>6 DEF CountInv
  <2>3. ShareInv'
    BY <2>1, SameShares DEF Idle
  <2>4. ReturnInv'
    BY <2>1 DEF ReturnInv, Threaded
  <2>5. BoundsInv'
    <3>1. tried' \in [Thread \cup {Sweep} -> SUBSET Nonce]
      BY <2>1 DEF BoundsInv
    <3>2. \A t \in Thread : i'[t] = 0 /\ local'[t] = 0
      BY <2>1
    <3>3. 0 \in 0..BatchSize /\ 0 \in 0..HashesPerThread
      BY Sizes
    <3> QED
      BY <2>1, <3>1, <3>2, <3>3 DEF BoundsInv
  <2> QED
    BY <2>2, <2>3, <2>4, <2>5
<1>3. CASE /\ Return(b, n, sweep.attempted + total)
           /\ UNCHANGED <<config, threads, found, total, closed, device, sweep, cancelled>>
  <2>1. /\ ret' = [returned |-> TRUE, found |-> b, nonce |-> n, hashes |-> sweep.attempted + total]
        /\ UNCHANGED <<config, threads, found, total, closed, device, sweep, cancelled>>
    BY <1>3 DEF Return
  <2>2. CountInv' /\ ShareInv'
    BY <2>1, ThreadsStay DEF threads, OnThreads
  <2>3. ReturnInv'
    BY <2>1 DEF ReturnInv, OnThreads, Threaded, threads
  <2>4. ret' \in [returned : BOOLEAN, found : BOOLEAN, nonce : Nonce, hashes : Nat]
    BY <1>1, <2>1
  <2>5. BoundsInv'
    BY <2>1, <2>4 DEF BoundsInv, threads
  <2> QED
    BY <2>2, <2>3, <2>5
<1> QED
  BY <1>2, <1>3 DEF HandBack

LEMMA BudgetKeeps ==
  ASSUME BudgetInv, [MineNext]_mineVars
  PROVE  BudgetInv'
<1>1. RoundInv' /\ NonceInv'
  BY RoundKeeps, NoncesKeep DEF BudgetInv
<1> SUFFICES CountInv' /\ ShareInv' /\ ReturnInv' /\ BoundsInv'
  BY <1>1 DEF BudgetInv
<1>2. CASE CPUStep
  <2>1. device = "threads" /\ UNCHANGED <<device, sweep, cancelled>> /\ device \in Threaded
    BY <1>2 DEF CPUStep, Threaded
  <2>2. ASSUME NEW t \in Thread, ThreadStep(t)
        PROVE  CountInv' /\ ShareInv' /\ ReturnInv' /\ BoundsInv'
    <3>1. CASE HashNonce(t)
      BY <2>1, <3>1, HashingSpends
    <3>2. CASE StartBatch(t) \/ EndBatch(t)
      BY <2>1, <3>2, SearchingSpends
    <3>3. CASE Claim(t) \/ Send(t)
      BY <2>1, <3>3, HittingSpends
    <3>4. CASE Count(t)
      BY <2>1, <3>4, CountingSpends
    <3> QED
      BY <2>2, <3>1, <3>2, <3>3, <3>4 DEF ThreadStep
  <2>3. CASE Close \/ Receive \/ ReturnNothing
    BY <2>1, <2>3, CallerSpends
  <2> QED
    BY <1>2, <2>2, <2>3 DEF CPUStep
<1>3. ASSUME NEW t \in Thread, GPUThreadStep(t)
      PROVE  CountInv' /\ ShareInv' /\ ReturnInv' /\ BoundsInv'
  <2>1. OnThreads /\ UNCHANGED <<device, sweep, cancelled>> /\ device \in Threaded
    BY <1>3 DEF GPUThreadStep, OnThreads, Threaded
  <2>2. CASE HashAndReport(t)
    BY <2>1, <2>2, ReportingSpends
  <2>3. CASE StartBatch(t) \/ EndBatch(t)
    BY <2>1, <2>3, SearchingSpends
  <2>4. CASE Claim(t) \/ Send(t)
    BY <2>1, <2>4, HittingSpends
  <2>5. CASE CountRest(t)
    BY <2>1, <2>5, CountingSpends
  <2> QED
    BY <1>3, <2>2, <2>3, <2>4, <2>5 DEF GPUThreadStep
<1>4. CASE CloseResults
  <2>1. device \in Threaded /\ Close /\ UNCHANGED <<device, sweep, cancelled>>
    BY <1>4 DEF CloseResults, OnThreads, Threaded
  <2> QED
    BY <2>1, CallerSpends
<1>5. CASE TakeResult
  <2>1. OnThreads /\ ~ret.returned /\ closed /\ results # <<>>
    BY <1>5 DEF TakeResult
  <2>2. PICK n \in Nonce : results = <<n>>
    BY <2>1, NonceSearchAssumption DEF BudgetInv, RoundInv, HitsSolve
  <2>3. Head(results) = n /\ 0 \in Nonce
    BY <2>2, Sizes DEF Nonce
  <2>4. HandBack(TRUE, n, Tail(results)) \/ HandBack(FALSE, 0, Tail(results))
    BY <1>5, <2>3 DEF TakeResult
  <2> QED
    BY <2>1, <2>3, <2>4, HandBackSpends
<1>6. CASE SeeTheEnd
  <2>1. OnThreads /\ ~ret.returned /\ closed /\ HandBack(FALSE, 0, results)
    BY <1>6 DEF SeeTheEnd
  <2>2. 0 \in Nonce
    BY Sizes DEF Nonce
  <2> QED
    BY <2>1, <2>2, HandBackSpends
<1>7. CASE UNCHANGED mineVars
  <2>1. UNCHANGED <<config, threads, found, total, closed, ret, device, sweep, cancelled>>
    BY <1>7 DEF mineVars, vars
  <2>2. CountInv' /\ ShareInv'
    BY <2>1, ThreadsStay DEF threads, OnThreads
  <2>3. ReturnInv' /\ BoundsInv'
    BY <2>1 DEF BudgetInv, ReturnInv, BoundsInv, OnThreads, threads
  <2> QED
    BY <2>2, <2>3
<1> QED
  BY <1>2, <1>3, <1>4, <1>5, <1>6, <1>7, SweepSpends, CancelSpends DEF MineNext

LEMMA BudgetInit == MineInit => BudgetInv
<1> SUFFICES ASSUME MineInit PROVE BudgetInv
  OBVIOUS
<1>1. RoundInv /\ NonceInv
  BY RoundInit, NoncesInit
<1>2. /\ pc = [t \in Thread |-> "loop"] /\ current = [t \in Thread |-> ThreadStart(t)]
      /\ i = [t \in Thread |-> 0] /\ local = [t \in Thread |-> 0]
      /\ tried = [t \in Thread \cup {Sweep} |-> {}]
      /\ found = FALSE /\ total = 0 /\ closed = FALSE /\ cancelled = FALSE
      /\ ret = [returned |-> FALSE, found |-> FALSE, nonce |-> 0, hashes |-> 0]
  BY DEF MineInit, Init, Running
<1>3. CountInv
  <2>1. PICK c : c = [t \in Thread |-> 0]
    OBVIOUS
  <2>2. Cardinality(Pairs(c)) = 0
    <3>1. Pairs(c) = {}
      BY <2>1 DEF Pairs
    <3> QED
      BY <3>1, FS_EmptySet
  <2>3. \A t \in Thread : c[t] = 0 /\ Shown(t) = 0
    <3> TAKE t \in Thread
    <3>1. 0 % Chunk = 0 /\ local[t] = 0
      BY <1>2, Remainder, Budgets
    <3>2. Left(t) = 0
      BY <3>1 DEF Left
    <3> QED
      BY <2>1, <3>1, <3>2 DEF Shown
  <2>4. AddsUp(c) /\ c \in [Thread -> Nat]
    BY <1>2, <2>1, <2>2, <2>3 DEF AddsUp
  <2> QED
    BY <2>4 DEF CountInv
<1>4. ShareInv
  BY <1>2 DEF ShareInv, Idle
<1>5. ReturnInv
  BY <1>2 DEF ReturnInv
<1>6. BoundsInv
  <2>1. \A t \in Thread : i[t] \in 0..BatchSize /\ local[t] \in 0..HashesPerThread
    BY <1>2, Sizes
  <2>2. sweep \in [attempted : 0..(EffectiveMaxHashes + Unit \div 8), batch : 1..(EffectiveMaxHashes + Unit)]
    <3>1. ASSUME NEW b \in DeviceBatch
          PROVE  InWholeUnits(Smaller(b, EffectiveMaxHashes)) \in 1..(EffectiveMaxHashes + Unit)
      <4>1. PICK n : n = Smaller(b, EffectiveMaxHashes)
        OBVIOUS
      <4>2. n \in 1..EffectiveMaxHashes /\ Unit \in Nat \ {0} /\ EffectiveMaxHashes \in Nat \ {0}
        BY <4>1, Budgets DEF Smaller
      <4>3. CASE n > Unit
        <5>1. PICK q : q = n \div Unit
          OBVIOUS
        <5>2. q \in Nat \ {0} /\ q * Unit \in 1..n
          BY <4>2, <4>3, <5>1
        <5> QED
          BY <4>1, <4>2, <4>3, <5>1, <5>2 DEF InWholeUnits
      <4> QED
        BY <4>1, <4>2, <4>3 DEF InWholeUnits
    <3>2. 0 \in 0..(EffectiveMaxHashes + Unit \div 8) /\ 1 \in 1..(EffectiveMaxHashes + Unit)
      BY Budgets
    <3>3. \E b \in 1..(EffectiveMaxHashes + Unit) : sweep = [attempted |-> 0, batch |-> b]
      BY <3>1, <3>2 DEF MineInit
    <3> QED
      BY <3>2, <3>3
  <2>3. ret \in [returned : BOOLEAN, found : BOOLEAN, nonce : Nonce, hashes : Nat]
    BY <1>2, Sizes DEF Nonce
  <2>4. tried \in [Thread \cup {Sweep} -> SUBSET Nonce]
    BY <1>2
  <2> QED
    BY <1>2, <2>1, <2>2, <2>3, <2>4 DEF BoundsInv
<1> QED
  BY <1>1, <1>3, <1>4, <1>5, <1>6 DEF BudgetInv

(* The inductive invariant of the counting, which contains those of the results
   and of the nonces, holds in every round: the total is what the threads have
   added, none of them more than it took, and whoever is done has taken its share. *)
THEOREM BudgetAlwaysInv == MineSpec => []BudgetInv
BY BudgetInit, BudgetKeeps, PTL DEF MineSpec

(* Every variable of a round keeps its type and its bound: no thread takes more
   hashes than its share or batch, the total is never more than all shares, and the
   kernel goes beyond the budget by less than a unit. *)
THEOREM RoundTypeCorrect == MineSpec => []RoundTypeOK
<1>1. ASSUME BudgetInv PROVE RoundTypeOK
  <2> USE <1>1 DEF BudgetInv
  <2>1. total \in 0..(ThreadCount * HashesPerThread)
    BY PairsFinite DEF CountInv, AddsUp
  <2>2. results \in Seq(Nonce)
    <3>1. \A n \in Solutions : <<n>> \in Seq(Nonce)
      BY NonceSearchAssumption
    <3>2. results = <<>> \/ \E n \in Solutions : results = <<n>>
      BY DEF RoundInv, HitsSolve
    <3>3. CASE results = <<>>
      BY <3>3
    <3>4. ASSUME NEW n \in Solutions, results = <<n>> PROVE results \in Seq(Nonce)
      BY <3>1, <3>4, Zenon
    <3> QED
      BY <3>2, <3>3, <3>4
  <2>3. i \in [Thread -> 0..BatchSize] /\ local \in [Thread -> 0..HashesPerThread]
    BY DEF BoundsInv, NonceInv, NonceTypes
  <2>4. TypeOK
    BY <2>1, <2>2, <2>3 DEF TypeOK, NonceInv, NonceTypes, BoundsInv
  <2>5. sweep \in [attempted : 0..(EffectiveMaxHashes + Unit), batch : 1..(EffectiveMaxHashes + Unit)]
    <3>1. 0..(EffectiveMaxHashes + Unit \div 8) \subseteq 0..(EffectiveMaxHashes + Unit)
      BY Budgets
    <3> QED
      BY <3>1 DEF BoundsInv
  <2> QED
    BY <2>4, <2>5 DEF RoundTypeOK, BoundsInv, RoundInv, Shape, Threaded
<1> QED
  BY <1>1, BudgetAlwaysInv, PTL

(* A round in which nobody found a block has spent its whole budget and counted
   every hash when it returns, whoever searched it, and however often the kernel
   failed before the threads took over. *)
THEOREM EmptyRoundAlwaysSpendsBudget == MineSpec => []EmptyRoundSpendsBudget
<1>1. ASSUME BudgetInv, ret.returned = TRUE, ret.found = FALSE, found = FALSE PROVE EmptyRoundSpendsBudget
  <2> USE <1>1 DEF BudgetInv
  <2>1. PICK B, k : /\ B = {t \in Thread : mode = "backward" => ThreadStart(t) # 0}
                    /\ k = HashesPerThread * Cardinality(B)
    OBVIOUS
  <2>2. CASE device \in Threaded
    <3>1. closed /\ ret.hashes = (IF OnThreads THEN sweep.attempted ELSE 0) + total
      BY <2>2 DEF ReturnInv
    <3>2. \A t \in Thread : pc[t] = "done" /\ local[t] = IF t \in B THEN HashesPerThread ELSE 0
      BY <2>1, <3>1 DEF ReturnInv, ShareInv, Idle
    <3>3. PICK c \in [Thread -> Nat] : AddsUp(c)
      BY DEF CountInv
    <3>4. \A t \in Thread : c[t] = IF t \in B THEN HashesPerThread ELSE 0
      <4> TAKE t \in Thread
      <4>1. local[t] \in Nat /\ Left(t) = 0
        BY <3>2, Sizes DEF Left
      <4>2. Shown(t) = local[t]
        BY <4>1 DEF Shown
      <4> QED
        BY <3>2, <3>3, <4>2 DEF AddsUp
    <3>5. total = k
      <4>1. B \in SUBSET Thread
        BY <2>1
      <4> QED
        BY <2>1, <3>3, <3>4, <4>1, PairsOfAll DEF AddsUp
    <3>6. k \in Nat
      <4>1. Cardinality(Pairs(c)) \in Nat
        BY PairsFinite, FS_CardinalityType
      <4> QED
        BY <3>3, <3>5, <4>1 DEF AddsUp
    <3>7. device = "threads" => ret.hashes = k
      BY <3>1, <3>5, <3>6 DEF OnThreads
    <3>8. OnThreads => device # "threads" /\ ret.hashes = sweep.attempted + k
      BY <3>1, <3>5 DEF OnThreads
    <3>9. device = "threads" \/ OnThreads
      BY <2>2 DEF OnThreads, Threaded
    <3> QED
      BY <2>1, <3>7, <3>8, <3>9, Zenon DEF EmptyRoundSpendsBudget
  <2>3. CASE device \notin Threaded
    <3>1. ret.hashes = sweep.attempted /\ sweep.attempted >= EffectiveMaxHashes
      BY <2>3 DEF ReturnInv
    <3>2. ret.hashes - EffectiveMaxHashes \in 0..(Unit \div 8)
      <4>1. sweep.attempted \in 0..(EffectiveMaxHashes + Unit \div 8)
        BY DEF BoundsInv
      <4> QED
        BY <3>1, <4>1, Budgets
    <3>3. device # "threads" /\ ~OnThreads
      BY <2>3 DEF OnThreads, Threaded
    <3> QED
      BY <3>2, <3>3, Zenon DEF EmptyRoundSpendsBudget
  <2> QED
    BY <2>2, <2>3
<1>2. BudgetInv => EmptyRoundSpendsBudget
  <2>1. BudgetInv /\ ~(ret.returned /\ ~ret.found /\ ~found) => EmptyRoundSpendsBudget
    BY DEF EmptyRoundSpendsBudget
  <2>2. BudgetInv => found \in BOOLEAN /\ ret.found \in BOOLEAN /\ ret.returned \in BOOLEAN
    BY DEF BudgetInv, BoundsInv
  <2> QED
    BY <1>1, <2>1, <2>2
<1> QED
  BY <1>2, BudgetAlwaysInv, PTL
=============================================================================
