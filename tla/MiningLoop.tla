------------------------------ MODULE MiningLoop ------------------------------
(***************************************************************************)
(* The running miner: the rounds of the mining loop and the payment         *)
(* monitor, reading without a lock the fields that the holder of            *)
(* primaryIOMux writes one after the other.                                 *)
(*                                                                          *)
(* HeaderStore commits a message in one step, and HeaderSync has the        *)
(* connection; here the commit is split into its assignments and of the     *)
(* connection only the lock is left: its holder takes in messages of any    *)
(* headers.  A round's search is NonceSearch: a block, or none.             *)
(*                                                                          *)
(* A behaviour is one run: the first Start after the configuration that     *)
(* gave the miner its client.  That configuration gave it a monitor on the  *)
(* client too, or the miner has none (one built without a connection that   *)
(* keeps its network and address).  A monitor kept from an earlier          *)
(* configuration reads another client, one that was left or its own: that  *)
(* is MinerLifecycle's.                                                     *)
(***************************************************************************)
EXTENDS HeaderStore

CONSTANTS
  Mined,         \* bound: the blocks the miner can find
  PowHash,       \* PowHash[b]: the scrypt hash of b's header
  Checker,       \* the goroutines in CheckForPayments: the ticker's, one per block
  SubmittedCap   \* 100, in the mining loop and in TrackSubmittedBlock

ASSUME MiningLoopAssumption ==
  /\ Mined \subseteq Block \ {Genesis}
  /\ \A b \in Mined : PowHash[b] \notin Block   \* scrypt is not double-SHA256
  /\ SubmittedCap \in Nat \ {0}

VARIABLES
  network,    \* the configured network
  io,         \* who holds primaryIOMux
  asking,     \* its holder may take in another message
  commit,     \* the next assignment of the commit in progress
  prior,      \* history variable: what the last commit replaced
  pc,         \* where the mining loop is
  after,      \* where it goes on after a refresh
  work,       \* the template's inputs, the block found on it, how it fared
  sent,       \* the blocks of Mined that reached the network
  monitor,    \* is there a payment monitor?
  submitted,  \* Miner.submittedBlocks
  early,      \* history variable: how many of them are of earlier runs
  tracked,    \* P2PPaymentMonitor.submittedBlocks
  check       \* the tip each running CheckForPayments has read

readers == <<network, monitor, pc, after, work, sent, submitted, early, tracked, check>>
mineVars == <<storeVars, io, asking, commit, prior, readers>>

NoWork == [prev |-> NoBlock, bits |-> 0, parent |-> NoBlock,
           block |-> NoBlock, stale |-> FALSE, ok |-> FALSE]

(* A block of an earlier run: the miner still lists it, a new monitor does not. *)
Earlier == [height |-> 0, hash |-> NoSuchHash, stale |-> FALSE, ok |-> TRUE]

MineInit ==
  /\ StoreInit
  /\ network \in {"mainnet", "testnet"}
  /\ io = "free" /\ asking = FALSE /\ commit = "none"
  /\ prior = [bits |-> 0, parent |-> NoBlock]
  /\ pc = "refresh" /\ after = "init" /\ work = NoWork /\ sent = {}
  /\ monitor \in BOOLEAN /\ tracked = <<>>
  /\ early \in 0..SubmittedCap /\ submitted = [i \in 1..early |-> Earlier]
  /\ check = [c \in Checker |-> NoBlock]

-----------------------------------------------------------------------------
(* The holder of primaryIOMux: the background loop, once initialised, or a
   refresh of the mining loop (for its initialisation, GetTipHeader). *)

TakeLock(who) ==
  /\ io = "free"
  /\ \/ who = "bg" /\ after # "init"
     \/ who = "loop" /\ pc = "refresh"
  /\ io' = who /\ asking' = TRUE
  /\ UNCHANGED <<storeVars, commit, prior, readers>>

(* A message arrives.  How the initialisation fails and recovers is
   HeaderSync's: here it takes one message, and that message links. *)
TakeMessage ==
  /\ io \in {"bg", "loop"} /\ asking /\ commit = "none"
  /\ after = "init" => best = NoBlock
  /\ OpenBatch
  /\ UNCHANGED <<io, asking, commit, prior, readers>>

ReadBase ==
  /\ ReadExpectedPrev \/ ReadParentTime
  /\ UNCHANGED <<io, asking, commit, prior, readers>>

AcceptNext ==
  /\ commit = "none"
  /\ \E h \in Block \ (Mined \ sent) : AcceptHeader(h)
  /\ UNCHANGED <<io, asking, commit, prior, readers>>

FailMessage ==
  /\ commit = "none" /\ after # "init"
  /\ \E h \in Block \cup {Garbled} : RejectHeader(h)
  /\ asking' = FALSE
  /\ UNCHANGED <<io, commit, prior, readers>>

(* The commit, assignment by assignment. *)
WriteBest ==
  /\ commit = "none" /\ batch.phase = "linking" /\ batch.hashes # <<>>
  /\ best' = batch.prev
  /\ prior' = [bits |-> lastNonMin, parent |-> tipParent]
  /\ commit' = "height"
  /\ UNCHANGED <<bestHeight, lastNonMin, tipParent, locator, start, history, batch>>
  /\ UNCHANGED <<io, asking, readers>>

WriteHeight ==
  /\ commit = "height"
  /\ bestHeight' = batch.height
  /\ commit' = "bits"
  /\ UNCHANGED <<best, lastNonMin, tipParent, locator, start, history, batch>>
  /\ UNCHANGED <<io, asking, prior, readers>>

WriteBits ==
  /\ commit = "bits"
  /\ lastNonMin' = batch.carry
  /\ commit' = "parent"
  /\ UNCHANGED <<best, bestHeight, tipParent, locator, start, history, batch>>
  /\ UNCHANGED <<io, asking, prior, readers>>

(* Mutant: the time of the tip itself. *)
WriteOwnTime ==
  /\ commit = "parent"
  /\ tipParent' = batch.parent
  /\ commit' = "locator"
  /\ UNCHANGED <<best, bestHeight, lastNonMin, locator, start, history, batch>>
  /\ UNCHANGED <<io, asking, prior, readers>>

WriteParentTime ==
  /\ commit = "parent"
  /\ tipParent' = batch.tipParent
  /\ commit' = "locator"
  /\ UNCHANGED <<best, bestHeight, lastNonMin, locator, start, history, batch>>
  /\ UNCHANGED <<io, asking, prior, readers>>

Trimmed(ring) == SubSeq(ring, 1, IF Len(ring) > LocatorKeep THEN LocatorKeep ELSE Len(ring))

WriteLocator ==
  /\ commit = "locator"
  /\ locator' = Trimmed(batch.hashes \o locator)
  /\ batch' = NoBatch
  /\ commit' = "none"
  /\ UNCHANGED <<best, bestHeight, lastNonMin, tipParent, start, history>>
  /\ UNCHANGED <<io, asking, prior, readers>>

(* The holder is done.  The mining loop goes on where it wanted to; without a
   tip it tries again. *)
ReleaseLock ==
  /\ io \in {"bg", "loop"} /\ batch.phase = "none"
  /\ io' = "free" /\ asking' = FALSE
  /\ IF io = "bg" THEN UNCHANGED <<pc, after>>
     ELSE IF after \in {"tip", "record"} THEN pc' = after /\ UNCHANGED after
     ELSE after' = (IF best = NoBlock THEN "init" ELSE "tip") /\ UNCHANGED pc
  /\ UNCHANGED <<storeVars, commit, prior, network, monitor, work, sent>>
  /\ UNCHANGED <<submitted, early, tracked, check>>

-----------------------------------------------------------------------------
(* The mining loop.  A template is made of three fields read one after the
   other, and checked against the tip once more. *)

loopVars == <<pc, after, work, sent, submitted, early, tracked>>
Idle == UNCHANGED <<storeVars, io, asking, commit, prior, network, monitor, check>>

ReadTip ==
  /\ pc = "tip"
  /\ work' = [NoWork EXCEPT !.prev = best]
  /\ pc' = "bits"
  /\ Idle /\ UNCHANGED <<after, sent, submitted, early, tracked>>

ReadLastNonMin ==
  /\ pc = "bits"
  /\ work' = [work EXCEPT !.bits = lastNonMin]
  /\ pc' = "parent"
  /\ Idle /\ UNCHANGED <<after, sent, submitted, early, tracked>>

ReadTipParent ==
  /\ pc = "parent"
  /\ work' = [work EXCEPT !.parent = tipParent]
  /\ pc' = "check"
  /\ Idle /\ UNCHANGED <<after, sent, submitted, early, tracked>>

(* Mutant: only logged, on testnet too. *)
CheckLogsOnly ==
  /\ pc = "check"
  /\ pc' = "mine"
  /\ Idle /\ UNCHANGED <<after, work, sent, submitted, early, tracked>>

(* Testnet skips a template the tip has moved on from; mainnet logs it. *)
CheckTemplate ==
  /\ pc = "check"
  /\ IF network = "testnet" /\ best # work.prev
     THEN pc' = "refresh" /\ after' = "top" /\ work' = NoWork
     ELSE pc' = "mine" /\ UNCHANGED <<after, work>>
  /\ Idle /\ UNCHANGED <<sent, submitted, early, tracked>>

(* MineBlock's budget is spent without a block ... *)
RoundEnds ==
  /\ pc = "mine"
  /\ pc' = "refresh" /\ work' = NoWork
  /\ Idle /\ UNCHANGED <<after, sent, submitted, early, tracked>>

(* ... or a block is found. *)
RoundFinds ==
  /\ pc = "mine"
  /\ \E b \in Mined \ sent : Parent[b] = work.prev /\ work' = [work EXCEPT !.block = b]
  /\ pc' = "found"
  /\ Idle /\ UNCHANGED <<after, sent, submitted, early, tracked>>

(* Testnet discards a block whose parent is no longer the tip. *)
KeepOrDiscard ==
  /\ pc = "found"
  /\ IF network = "testnet" /\ best # work.prev
     THEN pc' = "refresh" /\ after' = "top" /\ work' = NoWork
     ELSE pc' = "stale" /\ UNCHANGED <<after, work>>
  /\ Idle /\ UNCHANGED <<sent, submitted, early, tracked>>

(* The tip is read once more for the record (isStale). *)
JudgeStale ==
  /\ pc = "stale"
  /\ work' = [work EXCEPT !.stale = best # work.prev]
  /\ pc' = "submit"
  /\ Idle /\ UNCHANGED <<after, sent, submitted, early, tracked>>

(* submitBlock hashes the header once more and does not send what fails. *)
RefuseSubmit ==
  /\ pc = "submit"
  /\ pc' = "record"
  /\ Idle /\ UNCHANGED <<after, work, sent, submitted, early, tracked>>

(* BroadcastBlock holds primaryIOMux from its first line to its return. *)
StartBroadcast ==
  /\ pc = "submit" /\ io = "free"
  /\ io' = "send" /\ pc' = "sending"
  /\ sent' = sent \cup {work.block}
  /\ UNCHANGED <<storeVars, asking, commit, prior, network, monitor, check>>
  /\ UNCHANGED <<after, work, submitted, early, tracked>>

(* Mutant: a return without unlocking. *)
EndBroadcastLocked ==
  /\ pc = "sending"
  /\ \/ /\ work' = [work EXCEPT !.ok = TRUE]
        /\ io' = "free" /\ pc' = "refresh" /\ after' = "record"
     \/ pc' = "record" /\ UNCHANGED <<work, io, after>>
  /\ UNCHANGED <<storeVars, asking, commit, prior, network, monitor, check>>
  /\ UNCHANGED <<sent, submitted, early, tracked>>

(* A block that was relayed is followed by a refresh. *)
EndBroadcast ==
  /\ pc = "sending"
  /\ io' = "free"
  /\ \/ work' = [work EXCEPT !.ok = TRUE] /\ pc' = "refresh" /\ after' = "record"
     \/ pc' = "record" /\ UNCHANGED <<work, after>>
  /\ UNCHANGED <<storeVars, asking, commit, prior, network, monitor, check>>
  /\ UNCHANGED <<sent, submitted, early, tracked>>

(* Mutant: one entry too many is kept. *)
KeepNewestTooMany(s) ==
  IF Len(s) > SubmittedCap + 1 THEN SubSeq(s, Len(s) - SubmittedCap + 1, Len(s)) ELSE s

KeepNewest(s) ==
  IF Len(s) > SubmittedCap THEN SubSeq(s, Len(s) - SubmittedCap + 1, Len(s)) ELSE s

RecordBlock ==
  /\ pc = "record"
  /\ submitted' = KeepNewest(Append(submitted,
       [height |-> Height[work.prev] + 1, hash |-> PowHash[work.block],
        stale |-> work.stale, ok |-> work.ok]))
  /\ early' = IF early > 0 /\ Len(submitted) = SubmittedCap THEN early - 1 ELSE early
  /\ pc' = "track"
  /\ Idle /\ UNCHANGED <<after, work, sent, tracked>>

(* Mutant: blocks that were not relayed are not tracked. *)
TrackRelayedOnly ==
  /\ pc = "track"
  /\ tracked' = IF ~monitor \/ ~work.ok THEN tracked ELSE KeepNewest(Append(tracked,
       [block |-> work.block, height |-> Height[work.prev] + 1,
        hash |-> PowHash[work.block], verdict |-> "pending"]))
  /\ pc' = "refresh" /\ after' = "tip" /\ work' = NoWork
  /\ Idle /\ UNCHANGED <<sent, submitted, early>>

(* TrackSubmittedBlock, if there is a monitor; `block` only serves the properties. *)
TrackBlock ==
  /\ pc = "track"
  /\ tracked' = IF ~monitor THEN tracked ELSE KeepNewest(Append(tracked,
       [block |-> work.block, height |-> Height[work.prev] + 1,
        hash |-> PowHash[work.block], verdict |-> "pending"]))
  /\ pc' = "refresh" /\ after' = "tip" /\ work' = NoWork
  /\ Idle /\ UNCHANGED <<sent, submitted, early>>

-----------------------------------------------------------------------------
(* CheckForPayments: the tip is read before the monitor's lock is taken, the
   history under it. *)

ReadMonitorTip(c) ==
  /\ monitor /\ check[c] = NoBlock /\ best # NoBlock
  /\ check' = [check EXCEPT ![c] = best]
  /\ UNCHANGED <<storeVars, io, asking, commit, prior, network, monitor, loopVars>>

(* Mutant: one confirmation more. *)
VerdictOneLater(e, tip) ==
  IF e.verdict # "pending" \/ Height[tip] < e.height + 3 \/ e.height \notin DOMAIN history
  THEN e.verdict
  ELSE IF history[e.height] = e.hash THEN "confirmed" ELSE "orphaned"

(* Two confirmations, and the block the history has at that height. *)
Verdict(e, tip) ==
  IF e.verdict # "pending" \/ Height[tip] < e.height + 2 \/ e.height \notin DOMAIN history
  THEN e.verdict
  ELSE IF history[e.height] = e.hash THEN "confirmed" ELSE "orphaned"

CheckForPayments(c) ==
  /\ check[c] # NoBlock
  /\ tracked' = [i \in DOMAIN tracked |->
                   [tracked[i] EXCEPT !.verdict = Verdict(tracked[i], check[c])]]
  /\ check' = [check EXCEPT ![c] = NoBlock]
  /\ UNCHANGED <<storeVars, io, asking, commit, prior, network, monitor>>
  /\ UNCHANGED <<pc, after, work, sent, submitted, early>>

-----------------------------------------------------------------------------
HolderStep ==
  \/ TakeMessage \/ ReadBase \/ AcceptNext \/ FailMessage
  \/ WriteBest \/ WriteHeight \/ WriteBits \/ WriteParentTime \/ WriteLocator
  \/ ReleaseLock
LoopStep ==
  \/ ReadTip \/ ReadLastNonMin \/ ReadTipParent \/ CheckTemplate \/ RoundEnds \/ RoundFinds
  \/ KeepOrDiscard \/ JudgeStale \/ EndBroadcast \/ RecordBlock \/ TrackBlock

MineNext ==
  \/ \E who \in {"bg", "loop"} : TakeLock(who)
  \/ HolderStep
  \/ LoopStep \/ StartBroadcast \/ RefuseSubmit
  \/ \E c \in Checker : ReadMonitorTip(c) \/ CheckForPayments(c)

(* The goroutines run, and one that waits for primaryIOMux is not passed over
   for ever (sync.Mutex hands over to a waiter that has starved). *)
MineFairness ==
  /\ WF_mineVars(HolderStep) /\ WF_mineVars(LoopStep)
  /\ SF_mineVars(TakeLock("loop")) /\ SF_mineVars(StartBroadcast)
  /\ \A c \in Checker : WF_mineVars(ReadMonitorTip(c)) /\ WF_mineVars(CheckForPayments(c))

MineSpec == MineInit /\ [][MineNext]_mineVars /\ MineFairness

-----------------------------------------------------------------------------
MineTypeOK ==
  /\ StoreTypeOK
  /\ network \in {"mainnet", "testnet"}
  /\ io \in {"free", "bg", "loop", "send"} /\ asking \in BOOLEAN
  /\ commit \in {"none", "height", "bits", "parent", "locator"}
  /\ prior \in [bits : Nat, parent : Block \cup {NoBlock}]
  /\ pc \in {"refresh", "tip", "bits", "parent", "check", "mine", "found", "stale",
             "submit", "sending", "record", "track"}
  /\ after \in {"init", "tip", "top", "record"}
  /\ work \in [prev : Block \cup {NoBlock}, bits : Nat, parent : Block \cup {NoBlock},
               block : Mined \cup {NoBlock}, stale : BOOLEAN, ok : BOOLEAN]
  /\ sent \subseteq Mined
  /\ monitor \in BOOLEAN /\ early \in 0..Len(submitted)
  /\ Len(submitted) <= SubmittedCap /\ Len(tracked) <= SubmittedCap
  /\ \A i \in DOMAIN tracked :
        tracked[i] \in [block : Mined, height : Nat, hash : {PowHash[b] : b \in Mined},
                        verdict : {"pending", "confirmed", "orphaned"}]
  /\ check \in [Checker -> Block \cup {NoBlock}]

(* The chain state as it is when a commit in progress counts as done. *)
CommittedBits == IF commit \in {"height", "bits"} THEN batch.carry ELSE lastNonMin
CommittedParent == IF commit \in {"height", "bits", "parent"} THEN batch.tipParent ELSE tipParent
Committed == INSTANCE HeaderStore WITH
  bestHeight <- IF commit = "height" THEN batch.height ELSE bestHeight,
  lastNonMin <- CommittedBits,
  tipParent <- CommittedParent,
  locator <- IF commit # "none" THEN Trimmed(batch.hashes \o locator) ELSE locator,
  batch <- IF commit # "none" THEN NoBatch ELSE batch

(* The commit may be taken for one step (as HeaderStore, HeaderSync and their
   theorems do): seen from the moment it writes the tip, the running miner
   only does what HeaderStore allows. *)
CommitsAtOnce == Committed!StoreSpec

(* What the miner works on, judges and submits always lies on the branch its
   tip is on, however far the background loop has run ahead of the round. *)
WorkOnOwnChain == work.prev # NoBlock => OnChain(work.prev, best)

(* A testnet round starts on the tip, and with nBits and a parent time of that
   tip or of the one the last message replaced: the unlocked reads are torn by
   one commit at most.  (On mainnet by any number.) *)
TornByOneCommit ==
  [][pc = "check" /\ pc' = "mine" /\ network = "testnet" =>
       /\ work.prev = best
       /\ work.bits \in {prior.bits, CommittedBits}
       /\ work.parent \in {prior.parent, CommittedParent}]_mineVars

(* Where there is a payment monitor it watches, when a round begins, exactly
   the blocks of this run the miner lists as submitted, relayed or not. *)
SubmittedAreTracked ==
  monitor /\ pc = "tip" =>
    /\ Len(tracked) = Len(submitted) - early
    /\ \A i \in DOMAIN tracked :
         /\ tracked[i].hash = submitted[early + i].hash
         /\ tracked[i].height = submitted[early + i].height

(* The mining loop starts round after round: the background loop never keeps
   the lock from it, nor tips it replaces keep it from mining for ever. *)
KeepsMining == []<>(pc = "mine") \/ <>[](best = NoBlock)

TwoConfirmations(e) == best # NoBlock /\ Height[best] >= e.height + 2

(* "It requires at least 2 confirmations ... before deciding"
   (payment_monitor_p2p.go:106): every watched block that gets them is decided,
   unless the history no longer has its height. *)
EveryBlockJudged ==
  <>[](\A i \in DOMAIN tracked :
         TwoConfirmations(tracked[i]) /\ tracked[i].height \in DOMAIN history
           => tracked[i].verdict # "pending")

(* "mismatch -> orphaned (another miner's block won)"
   (payment_monitor_p2p.go:19): a block that is on the chain is not called
   orphaned. *)
OrphanedIsOffChain ==
  \A i \in DOMAIN tracked :
    tracked[i].verdict = "orphaned" => ~OnChain(tracked[i].block, best)
=============================================================================
