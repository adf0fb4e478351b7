------------------------------ MODULE MineBlock ------------------------------
(***************************************************************************)
(* One mining round on whichever device the mining loop picks: MineBlock of *)
(* ScryptMiner, whose threads are NonceSearch's, and of GPUMiner.  The GPU   *)
(* sweeps the nonces in batches with an OpenCL kernel and gives way to       *)
(* threads of its own where OpenCL fails it; those count their hashes in     *)
(* chunks, report to a caller that chooses between a result and the end of   *)
(* all threads, and are cancelled by a watchdog that sees no progress.       *)
(*                                                                          *)
(* OpenCL, whose calls may fail, is not in the code.  A sweep starts at the  *)
(* clock, as startBase may; which of the two calls read it is left out.      *)
(***************************************************************************)
EXTENDS NonceSearch

CONSTANTS
  Chunk,        \* 500
  Unit,         \* 256, in which batches are measured
  DeviceBatch,  \* batches that the memory of some device allows
  FalseHits     \* nonces for which some kernel reports a block and is wrong

ASSUME MineBlockAssumption ==
  /\ {Chunk, Unit} \cup DeviceBatch \subseteq Nat \ {0} /\ Unit % 8 = 0
  /\ FalseHits \subseteq Nonce

VARIABLES
  device,     \* who searches: the CPU's threads or its only one, the kernel,
              \* the threads it gave way to, or the GPU's threads by themselves
  sweep,      \* nonces attempted without threads, and the size of a batch
  cancelled   \* cancelMining

mineVars == <<vars, device, sweep, cancelled>>

Smaller(a, b) == IF a < b THEN a ELSE b

InWholeUnits(n) == IF n > Unit THEN (n \div Unit) * Unit ELSE n

MineInit ==
  /\ Init
  /\ device \in {"threads", "single", "kernel", "gpu threads"}
  /\ IF device = "kernel"
     THEN \E b \in DeviceBatch : sweep = [attempted |-> 0, batch |-> InWholeUnits(Smaller(b, EffectiveMaxHashes))]
     ELSE sweep = [attempted |-> 0, batch |-> 1]
  /\ cancelled = FALSE

Return(block, nonce, hashes) ==
  ret' = [returned |-> TRUE, found |-> block, nonce |-> nonce, hashes |-> hashes]

-----------------------------------------------------------------------------
(* ScryptMiner: more than one thread, or a sweep by one. *)
CPUStep ==
  /\ device = "threads"
  /\ (\E t \in Thread : ThreadStep(t)) \/ Close \/ Receive \/ ReturnNothing
  /\ UNCHANGED <<device, sweep, cancelled>>

Attempts(n) == sweep' = [sweep EXCEPT !.attempted = @ + n]

SweepOne ==
  /\ device = "single" /\ ~ret.returned /\ sweep.attempted < EffectiveMaxHashes
  /\ LET n == Uint32(startBase + sweep.attempted) IN
       /\ tried' = [tried EXCEPT ![Sweep] = @ \cup {n}]
       /\ IF n \in Solutions THEN Return(TRUE, n, sweep.attempted + 1) ELSE UNCHANGED ret
  /\ Attempts(1)
  /\ UNCHANGED <<config, pc, current, i, local, found, total, results, closed, device, cancelled>>

(* mineWithStrategy's loop is over, or the kernel's. *)
SweepEnds ==
  /\ device \in {"single", "kernel"} /\ ~ret.returned /\ sweep.attempted >= EffectiveMaxHashes
  /\ Return(FALSE, 0, sweep.attempted)
  /\ UNCHANGED <<config, threads, found, total, results, closed, device, sweep, cancelled>>

-----------------------------------------------------------------------------
(* The kernel.  What is left for the last batches is cut to a power of two that
   may still be more than the round has left. *)
WorkSize ==
  LET n == Smaller(sweep.batch, EffectiveMaxHashes - sweep.attempted) IN
  IF n >= Unit THEN InWholeUnits(n)
  ELSE IF n > Unit \div 2 THEN Unit \div 2
  ELSE IF n > Unit \div 4 THEN Unit \div 4
  ELSE Unit \div 8

InKernel == device = "kernel" /\ ~ret.returned /\ sweep.attempted < EffectiveMaxHashes

(* Mutant of RunKernel: the CPU does not hash the nonce again. *)
RunKernelTrustingly ==
  /\ InKernel
  /\ LET swept == {Uint32(startBase + sweep.attempted + k) : k \in 0..(WorkSize - 1)}
         hits == swept \cap (Solutions \cup FalseHits)
     IN /\ tried' = [tried EXCEPT ![Sweep] = @ \cup swept]
        /\ IF hits = {} THEN UNCHANGED ret
           ELSE \E n \in hits : Return(TRUE, n, sweep.attempted + WorkSize)
  /\ Attempts(WorkSize)
  /\ UNCHANGED <<config, pc, current, i, local, found, total, results, closed, device, cancelled>>

(* A batch has room for one hit, whichever work item writes it, and the CPU
   checks that one: a wrong hit hides a right one. *)
RunKernel ==
  /\ InKernel
  /\ LET swept == {Uint32(startBase + sweep.attempted + k) : k \in 0..(WorkSize - 1)}
         hits == swept \cap (Solutions \cup FalseHits)
     IN /\ tried' = [tried EXCEPT ![Sweep] = @ \cup swept]
        /\ \/ \E n \in hits \cap Solutions : Return(TRUE, n, sweep.attempted + WorkSize)
           \/ (hits = {} \/ hits \cap FalseHits # {}) /\ UNCHANGED ret
  /\ Attempts(WorkSize)
  /\ UNCHANGED <<config, pc, current, i, local, found, total, results, closed, device, cancelled>>

(* A buffer, a write, the kernel or the read fails: the batch counts as done. *)
LoseBatch ==
  /\ InKernel /\ Attempts(WorkSize)
  /\ UNCHANGED <<vars, device, cancelled>>

(* CL_INVALID_VALUE: the scratchpad is too large. *)
HalveBatch ==
  /\ InKernel /\ sweep.batch > Unit
  /\ sweep' = [sweep EXCEPT !.batch = IF @ \div 2 < Unit THEN Unit ELSE @ \div 2]
  /\ UNCHANGED <<vars, device, cancelled>>

(* There is no kernel, no buffer, no trust in it, or the work size is not to its
   liking (-54). *)
GiveWay ==
  /\ InKernel /\ device' = "fallback"
  /\ UNCHANGED <<vars, sweep, cancelled>>

-----------------------------------------------------------------------------
(* GPUMiner.mineParallel. *)
OnThreads == device \in {"gpu threads", "fallback"}

(* Hashes are reported when there is a chunk of them; a thread that finds the
   round cancelled then leaves at once, block or not. *)
HashAndReport(t) ==
  LET report == (local[t] + 1) % Chunk = 0 IN
  /\ pc[t] = "batch" /\ InBatch(t) /\ GoesOn(t)
  /\ local' = [local EXCEPT ![t] = @ + 1]
  /\ tried' = [tried EXCEPT ![t] = @ \cup {Candidate(t)}]
  /\ total' = IF report /\ ~cancelled THEN total + Chunk ELSE total
  /\ CASE report /\ cancelled -> pc' = [pc EXCEPT ![t] = "done"] /\ UNCHANGED i
       [] ~(report /\ cancelled) /\ Candidate(t) \in Solutions -> pc' = [pc EXCEPT ![t] = "hit"] /\ UNCHANGED i
       [] OTHER -> i' = [i EXCEPT ![t] = @ + 1] /\ UNCHANGED pc
  /\ UNCHANGED <<config, current, found, results, closed, ret>>

(* Mutant of CountRest: all hashes are added again. *)
CountAll(t) ==
  /\ pc[t] = "loop" /\ ~(GoesOn(t) /\ (mode = "backward" => current[t] > 0))
  /\ total' = total + local[t]
  /\ pc' = [pc EXCEPT ![t] = "done"]
  /\ UNCHANGED <<config, current, i, local, tried, found, results, closed, ret>>

CountRest(t) ==
  /\ pc[t] = "loop" /\ ~(GoesOn(t) /\ (mode = "backward" => current[t] > 0))
  /\ total' = total + (local[t] % Chunk)
  /\ pc' = [pc EXCEPT ![t] = "done"]
  /\ UNCHANGED <<config, current, i, local, tried, found, results, closed, ret>>

GPUThreadStep(t) ==
  /\ OnThreads
  /\ StartBatch(t) \/ HashAndReport(t) \/ EndBatch(t) \/ Claim(t) \/ Send(t) \/ CountRest(t)
  /\ UNCHANGED <<device, sweep, cancelled>>

(* The watchdog cancels the round when the count stands still, if it has begun:
   from there on a hit is not sent. *)
Watchdog ==
  /\ OnThreads /\ ~ret.returned /\ ~cancelled /\ total > 0
  /\ cancelled' = TRUE /\ found' = TRUE
  /\ UNCHANGED <<config, threads, total, results, closed, ret, device, sweep>>

(* What mineParallel hands back goes on top of what the kernel attempted.  If
   that is nothing at all, mineWithOpenCL lets the threads search once more. *)
SearchAgain ==
  /\ device' = "gpu threads" /\ cancelled' = FALSE
  /\ pc' = [t \in Thread |-> "loop"]
  /\ current' = [t \in Thread |-> ThreadStart(t)]
  /\ i' = [t \in Thread |-> 0] /\ local' = [t \in Thread |-> 0]
  /\ tried' = [s \in DOMAIN tried |-> IF s = Sweep THEN tried[s] ELSE {}]
  /\ found' = FALSE /\ total' = 0 /\ results' = <<>> /\ closed' = FALSE
  /\ UNCHANGED <<config, ret, sweep>>

HandBack(block, nonce, left) ==
  IF device = "fallback" /\ ~block /\ sweep.attempted + total = 0 THEN SearchAgain
  ELSE /\ Return(block, nonce, sweep.attempted + total) /\ results' = left
       /\ UNCHANGED <<config, threads, found, total, closed, device, sweep, cancelled>>

(* The caller takes a result, and waits for the threads, or finds all of them
   at their end, though there may be a result: the select takes either. *)
TakeResult ==
  /\ OnThreads /\ ~ret.returned /\ results # <<>> /\ closed
  /\ LET n == Head(results) IN
       IF n # 0 /\ n \in Solutions THEN HandBack(TRUE, n, Tail(results)) ELSE HandBack(FALSE, 0, Tail(results))

SeeTheEnd == OnThreads /\ ~ret.returned /\ closed /\ HandBack(FALSE, 0, results)

CloseResults == OnThreads /\ Close /\ UNCHANGED <<device, sweep, cancelled>>

-----------------------------------------------------------------------------
SweepStep == SweepOne \/ SweepEnds \/ RunKernel \/ LoseBatch \/ HalveBatch \/ GiveWay

MineNext ==
  \/ CPUStep \/ SweepStep
  \/ \E t \in Thread : GPUThreadStep(t)
  \/ CloseResults \/ Watchdog \/ TakeResult \/ SeeTheEnd

(* The scheduler runs every thread; OpenCL calls return; nobody counts on the
   watchdog. *)
MineSpec ==
  /\ MineInit /\ [][MineNext]_mineVars
  /\ \A t \in Thread : WF_mineVars(device = "threads" /\ ThreadStep(t) /\ UNCHANGED <<device, sweep, cancelled>>)
  /\ WF_mineVars(device = "threads" /\ (Close \/ Receive \/ ReturnNothing) /\ UNCHANGED <<device, sweep, cancelled>>)
  /\ \A t \in Thread : WF_mineVars(GPUThreadStep(t))
  /\ WF_mineVars(CloseResults \/ TakeResult \/ SeeTheEnd)
  /\ WF_mineVars(SweepStep)

-----------------------------------------------------------------------------
RoundTypeOK ==
  /\ TypeOK
  /\ device \in {"threads", "single", "kernel", "fallback", "gpu threads"}
  /\ sweep \in [attempted : 0..(EffectiveMaxHashes + Unit), batch : 1..(EffectiveMaxHashes + Unit)]
  /\ cancelled \in BOOLEAN

(* A round in which nobody found a block, and which nobody cancelled, has spent
   its whole budget and counted every hash before it returned: the kernel up to
   the smallest batch more; threads except one that starts to search backward at
   nonce 0, which does nothing. *)
EmptyRoundSpendsBudget ==
  ret.returned /\ ~ret.found /\ ~found =>
    LET budget == HashesPerThread * Cardinality({t \in Thread : mode = "backward" => ThreadStart(t) # 0})
    IN CASE device = "threads" -> ret.hashes = budget
         [] OnThreads -> ret.hashes = sweep.attempted + budget
         [] OTHER -> ret.hashes - EffectiveMaxHashes \in 0..(Unit \div 8)
=============================================================================
