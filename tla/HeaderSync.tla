----------------------------- MODULE HeaderSync ------------------------------
(***************************************************************************)
(* Header synchronisation of the P2P miner: the mining loop that starts it  *)
(* and recovers it, the background loop and the refreshes that keep the tip *)
(* fresh, the one primary connection they share under primaryIOMux, and     *)
(* the peer at its other end.  The chain state itself is HeaderStore's.     *)
(*                                                                          *)
(* Peers are honest Dogecoin nodes: they answer getheaders from the first   *)
(* locator hash on their chain, follow the network, and, having been sent   *)
(* "sendheaders", may push a "headers" message nobody asked for.            *)
(***************************************************************************)
EXTENDS HeaderStore

CONSTANTS
  NoCheckpoint, \* no P2PCheckpoint is configured
  MaxHeaders,   \* maxHeadersPerMessage, 2000
  LocatorSend,  \* maxLocatorHashes, 16
  SwitchLead,   \* 3: how far ahead a probed peer must be to become primary
  TipRetries,   \* tipRetries, 3
  MaxLag,       \* bound: how far behind the network a peer may be connected to
  MaxReorgs,    \* bound: reorganisations of the network
  MaxFaults,    \* bound: dropped connections and torn messages
  MaxCrashes    \* bound: kills of the process

ASSUME HeaderSyncAssumption ==
  /\ NoCheckpoint \notin Checkpoints
  /\ {MaxHeaders, LocatorSend, SwitchLead, TipRetries} \subseteq Nat \ {0}
  /\ {MaxLag, MaxReorgs, MaxFaults, MaxCrashes} \subseteq Nat

VARIABLES
  config,    \* the configured P2PCheckpoint
  net,       \* the tip of the chain the network works on
  reorgs, faults, crashes,   \* how much of each bound is used up
  view,      \* the connected peer's tip; NoBlock: its end is closed
  conn,      \* p.conn # nil
  reqs,      \* getheaders on the way to the peer: a sequence of locators
  inbox,     \* headers messages on the way to the client
  io,        \* who holds primaryIOMux
  step,      \* where the holder is
  incoming,  \* the headers of the message being taken in that are still unread
  loop,      \* where the mining loop is
  attempt,   \* attempt + 1 in its retry loop
  outcome,   \* what its GetTipHeader returned
  held,      \* the tip header it read for the template
  bg,        \* the background loop runs
  saved,     \* the chain_tip file
  force      \* p2pForceGenesisNext

network == <<config, net, reorgs>>
wire == <<view, conn, reqs, inbox>>
lock == <<io, step, incoming>>
miner == <<loop, attempt, outcome, held, bg, saved, force>>
syncVars == <<storeVars, network, faults, crashes, wire, lock, miner>>

NoTipFile == [point |-> NoStart, bits |-> 0]

SyncInit ==
  /\ StoreInit
  /\ config \in Checkpoints \cup {NoCheckpoint}
  /\ net = (IF config = NoCheckpoint THEN Genesis ELSE config.block)
  /\ reorgs = 0 /\ faults = 0 /\ crashes = 0
  /\ view = NoBlock /\ conn = FALSE /\ reqs = <<>> /\ inbox = <<>>
  /\ io = "free" /\ step = "idle" /\ incoming = <<>>
  /\ loop = "start" /\ attempt = 0 /\ outcome = "none" /\ held = NoBlock
  /\ bg = FALSE /\ saved = NoTipFile /\ force = FALSE

-----------------------------------------------------------------------------
(* The network and the peer. *)

NetworkExtends ==
  /\ \E b \in Block : Parent[b] = net /\ net' = b
  /\ UNCHANGED <<storeVars, config, reorgs, faults, crashes, wire, lock, miner>>

NetworkReorganises ==
  /\ reorgs < MaxReorgs
  /\ \E b \in Block : Height[b] > Height[net] /\ ~OnChain(net, b) /\ net' = b
  /\ reorgs' = reorgs + 1
  /\ UNCHANGED <<storeVars, config, faults, crashes, wire, lock, miner>>

Fork(a, b) ==
  CHOOSE f \in Ancestors[a] \cap Ancestors[b] :
    \A g \in Ancestors[a] \cap Ancestors[b] : Height[g] <= Height[f]

(* The peer catches up with the network.  It announces the new blocks with
   "inv", which the client ignores, or by pushing their headers (BIP130). *)
PeerFollows ==
  /\ view \notin {NoBlock, net}
  /\ view' = net
  /\ \/ UNCHANGED inbox
     \/ inbox' = Append(inbox, PathAbove(Fork(view, net), net))
  /\ UNCHANGED <<storeVars, network, faults, crashes, conn, reqs, lock, miner>>

(* getheaders is answered from the first hash of the locator on the peer's
   chain, from genesis if there is none. *)
Answer(hashes) ==
  LET known == {i \in 1..Len(hashes) : hashes[i] \in Ancestors[view]}
      base == IF known = {} THEN Genesis
              ELSE hashes[CHOOSE i \in known : \A j \in known : i <= j]
      above == PathAbove(base, view)
  IN SubSeq(above, 1, IF Len(above) > MaxHeaders THEN MaxHeaders ELSE Len(above))

PeerAnswers ==
  /\ view # NoBlock /\ reqs # <<>>
  /\ reqs' = Tail(reqs)
  /\ LET m == Answer(Head(reqs)) IN
       \/ inbox' = Append(inbox, m) /\ UNCHANGED faults
       \/ /\ faults < MaxFaults /\ m # <<>>     \* an AuxPoW that does not parse
          /\ inbox' = Append(inbox, [m EXCEPT ![Len(m)] = Garbled])
          /\ faults' = faults + 1
  /\ UNCHANGED <<storeVars, network, crashes, view, conn, lock, miner>>

PeerDrops ==
  /\ view # NoBlock /\ faults < MaxFaults
  /\ view' = NoBlock /\ reqs' = <<>> /\ faults' = faults + 1
  /\ UNCHANGED <<storeVars, network, crashes, conn, inbox, lock, miner>>

-----------------------------------------------------------------------------
(* The primary connection, used under primaryIOMux. *)

Disconnected == view' = NoBlock /\ conn' = FALSE /\ reqs' = <<>> /\ inbox' = <<>>

(* The holder returns.  Only the mining loop's GetTipHeader looks at the
   result; a background fetch that worked goes on to probe other peers. *)
Return(result) ==
  /\ incoming' = <<>>
  /\ IF io = "bg" /\ result = "ok"
     THEN step' = "probe" /\ UNCHANGED io
     ELSE step' = "idle" /\ io' = "free"
  /\ outcome' = IF io = "init" THEN result ELSE outcome
  /\ UNCHANGED <<loop, attempt, held, bg, saved, force>>

Wants(who) ==
  \/ who = "init" /\ loop = "try" /\ outcome = "none"
  \/ who = "refresh" /\ loop = "run"
  \/ who = "bg" /\ bg

(* GetTipHeader, RefreshHeadersIfStale and fetchHeadersInBackground take the
   lock and look whether there is a connection. *)
Acquire(who) ==
  /\ io = "free" /\ Wants(who)
  /\ io' = who
  /\ step' = IF conn THEN "send" ELSE "connect"
  /\ UNCHANGED <<storeVars, network, faults, crashes, wire, incoming, miner>>

(* ensureConnected, seen from here: a peer whose tip lags at most MaxLag. *)
Connect ==
  /\ step = "connect"
  /\ conn' = TRUE /\ step' = "send"
  /\ \E v \in Ancestors[net] : Height[v] + MaxLag >= Height[net] /\ view' = v
  /\ UNCHANGED <<storeVars, network, faults, crashes, reqs, inbox, io, incoming, miner>>

(* No peer can be reached: the last one refused, or only timed out. *)
ConnectFails ==
  /\ step = "connect"
  /\ Return("lost") \/ Return("failed")
  /\ UNCHANGED <<storeVars, network, faults, crashes, wire>>

(* GetTipHeader answers from the cache when headers were asked for recently. *)
Throttled ==
  /\ io = "init" /\ step = "send" /\ best # NoBlock
  /\ Return("ok")
  /\ UNCHANGED <<storeVars, network, faults, crashes, wire>>

(* sendGetHeaders: the newest hashes of the ring, then the start point. *)
Locator ==
  LET recent == SubSeq(locator, 1, IF Len(locator) > LocatorSend THEN LocatorSend ELSE Len(locator))
      listed == {recent[i] : i \in 1..Len(recent)}
  IN IF start # NoStart /\ Len(recent) < LocatorSend /\ start.hash \notin listed
     THEN Append(recent, start.hash) ELSE recent

SendGetHeaders ==
  /\ step = "send"
  /\ reqs' = IF view = NoBlock THEN reqs ELSE Append(reqs, Locator)
  /\ step' = "await"
  /\ UNCHANGED <<storeVars, network, faults, crashes, view, conn, inbox, io, incoming, miner>>

(* The first "headers" message read is taken for the answer.  An empty one
   means the peer's tip is ours. *)
ReadEmpty ==
  /\ step = "await" /\ inbox # <<>> /\ Head(inbox) = <<>>
  /\ inbox' = Tail(inbox)
  /\ Return("ok")
  /\ UNCHANGED <<storeVars, network, faults, crashes, view, conn, reqs>>

ReadHeaders ==
  /\ step = "await" /\ inbox # <<>> /\ Head(inbox) # <<>>
  /\ OpenBatch
  /\ inbox' = Tail(inbox) /\ incoming' = Head(inbox) /\ step' = "take"
  /\ UNCHANGED <<network, faults, crashes, view, conn, reqs, io, miner>>

(* Mutant: the dead connection is kept. *)
ReadFailsKeepingConn ==
  /\ view = NoBlock
  /\ step = "send" \/ (step = "await" /\ inbox = <<>>)
  /\ Return("lost")
  /\ UNCHANGED <<storeVars, network, faults, crashes, wire>>

(* The peer's end is closed: a write fails, or a read once all it had sent is
   read.  Both disconnect. *)
ReadFails ==
  /\ view = NoBlock
  /\ \/ step = "send"
     \/ step = "await" /\ inbox = <<>>
  /\ Disconnected
  /\ Return("lost")
  /\ UNCHANGED <<storeVars, network, faults, crashes>>

PrepareBatch ==
  /\ step = "take"
  /\ ReadExpectedPrev \/ ReadParentTime
  /\ UNCHANGED <<network, faults, crashes, wire, lock, miner>>

TakeHeader ==
  /\ step = "take" /\ incoming # <<>>
  /\ AcceptHeader(Head(incoming))
  /\ incoming' = Tail(incoming)
  /\ UNCHANGED <<network, faults, crashes, wire, io, step, miner>>

(* The connection is kept, and what it still holds with it. *)
RefuseHeader ==
  /\ step = "take" /\ incoming # <<>>
  /\ RejectHeader(Head(incoming))
  /\ Return(IF Head(incoming) = Garbled THEN "garbled" ELSE "unlinked")
  /\ UNCHANGED <<network, faults, crashes, wire>>

(* After a full message the next one is asked for, else the tip is reached. *)
FinishMessage ==
  /\ step = "take" /\ incoming = <<>>
  /\ CommitBatch
  /\ IF Len(batch.hashes) >= MaxHeaders
     THEN step' = "send" /\ UNCHANGED <<io, incoming, miner>>
     ELSE Return("ok")
  /\ UNCHANGED <<network, faults, crashes, wire>>

(* fetchHeadersFromBroadcastPeers: no probed peer is far enough ahead. *)
ProbeKeeps ==
  /\ step = "probe"
  /\ step' = "idle" /\ io' = "free"
  /\ UNCHANGED <<storeVars, network, faults, crashes, wire, incoming, miner>>

(* A probe linked to our tip and reached SwitchLead beyond it: reconnect. *)
ProbeSwitches ==
  /\ step = "probe"
  /\ OnChain(best, net) /\ Height[net] >= bestHeight + SwitchLead
  /\ MaxHeaders >= SwitchLead
  /\ Disconnected
  /\ io' = "switch" /\ step' = "connect"
  /\ UNCHANGED <<storeVars, network, faults, crashes, incoming, miner>>

-----------------------------------------------------------------------------
(* The mining loop.  At the top of its initialisation it chooses where to
   start: genesis by force > checkpoint > saved tip > what the client has. *)

ChooseStart ==
  /\ loop = "start"
  /\ \/ /\ force
        /\ force' = FALSE /\ saved' = NoTipFile
        /\ StartFromGenesis
     \/ /\ ~force /\ config # NoCheckpoint
        /\ StartFrom(CheckpointPoint(config))
        /\ UNCHANGED <<saved, force>>
     \/ /\ ~force /\ config = NoCheckpoint /\ saved # NoTipFile
        /\ Resume(saved.point, saved.bits)
        /\ UNCHANGED <<saved, force>>
     \/ /\ ~force /\ config = NoCheckpoint /\ saved = NoTipFile
        /\ UNCHANGED <<storeVars, saved, force>>
  /\ loop' = "try" /\ attempt' = 1 /\ outcome' = "none"
  /\ UNCHANGED <<network, faults, crashes, wire, lock, held, bg>>

Tried(result) == loop = "try" /\ outcome = result

(* A tip: start the background loop and mine. *)
InitDone ==
  /\ Tried("ok") /\ best # NoBlock
  /\ bg' = TRUE /\ loop' = "run" /\ outcome' = "none"
  /\ UNCHANGED <<storeVars, network, faults, crashes, wire, lock, attempt, held, saved, force>>

(* "no headers received from peers": start over after a pause. *)
InitEmpty ==
  /\ Tried("ok") /\ best = NoBlock
  /\ loop' = "start" /\ outcome' = "none"
  /\ UNCHANGED <<storeVars, network, faults, crashes, wire, lock, attempt, held, bg, saved, force>>

(* Mutant: one retry too many. *)
InitLostOnceMore ==
  /\ Tried("lost")
  /\ Disconnected
  /\ IF attempt <= TipRetries
     THEN attempt' = attempt + 1 /\ UNCHANGED loop
     ELSE loop' = "start" /\ UNCHANGED attempt
  /\ outcome' = "none"
  /\ UNCHANGED <<storeVars, network, faults, crashes, lock, held, bg, saved, force>>

(* The connection was lost: another peer, up to TipRetries times. *)
InitLost ==
  /\ Tried("lost")
  /\ Disconnected
  /\ IF attempt < TipRetries
     THEN attempt' = attempt + 1 /\ UNCHANGED loop
     ELSE loop' = "start" /\ UNCHANGED attempt
  /\ outcome' = "none"
  /\ UNCHANGED <<storeVars, network, faults, crashes, lock, held, bg, saved, force>>

(* Any other failure starts over; after a torn message on a new connection. *)
InitFailed ==
  /\ Tried("failed")
  /\ loop' = "start" /\ outcome' = "none"
  /\ UNCHANGED <<storeVars, network, faults, crashes, wire, lock, attempt, held, bg, saved, force>>

InitGarbled ==
  /\ Tried("garbled")
  /\ Disconnected
  /\ loop' = "start" /\ outcome' = "none"
  /\ UNCHANGED <<storeVars, network, faults, crashes, lock, attempt, held, bg, saved, force>>

(* Mutant: only the tip is dropped. *)
InitUnlinkedDroppingTip ==
  /\ Tried("unlinked")
  /\ Disconnected
  /\ best' = NoBlock
  /\ loop' = "recover" /\ outcome' = "none"
  /\ UNCHANGED <<bestHeight, lastNonMin, tipParent, locator, start, history, batch>>
  /\ UNCHANGED <<network, faults, crashes, lock, attempt, held, bg, saved, force>>

(* The chain did not link: drop the peer and the tip ... *)
InitUnlinked ==
  /\ Tried("unlinked")
  /\ Disconnected
  /\ ClearSyncState
  /\ loop' = "recover" /\ outcome' = "none"
  /\ UNCHANGED <<network, faults, crashes, lock, attempt, held, bg, saved, force>>

(* ... remove the tip file, and start over from the chosen checkpoint, or
   from genesis where that is none or "0". *)
InitRecover ==
  /\ loop = "recover"
  /\ saved' = NoTipFile
  /\ IF config # NoCheckpoint /\ config.block # Genesis
     THEN StartFrom(CheckpointPoint(config)) /\ UNCHANGED force
     ELSE StartFromGenesis /\ force' = TRUE
  /\ loop' = "start"
  /\ UNCHANGED <<network, faults, crashes, wire, lock, attempt, outcome, held, bg>>

(* Each round reads the tip from the cache, without the lock ... *)
HoldTip ==
  /\ loop = "run" /\ io # "refresh" /\ best # NoBlock
  /\ held' = best /\ loop' = "save"
  /\ UNCHANGED <<storeVars, network, faults, crashes, wire, lock, attempt, outcome, bg, saved, force>>

(* ... and saves it with the last non-minimum nBits of that moment, unless
   the file already names this tip. *)
SaveTip ==
  /\ loop = "save"
  /\ saved' = IF saved.point.hash = held THEN saved
              ELSE [point |-> PointOf(held), bits |-> lastNonMin]
  /\ loop' = "run" /\ held' = NoBlock
  /\ UNCHANGED <<storeVars, network, faults, crashes, wire, lock, attempt, outcome, bg, force>>

(* The process is killed and started again: only the tip file is left. *)
Crash ==
  /\ crashes < MaxCrashes
  /\ crashes' = crashes + 1
  /\ NewClient
  /\ Disconnected
  /\ io' = "free" /\ step' = "idle" /\ incoming' = <<>>
  /\ loop' = "start" /\ attempt' = 0 /\ outcome' = "none" /\ held' = NoBlock
  /\ bg' = FALSE /\ force' = FALSE
  /\ UNCHANGED <<network, faults, saved>>

-----------------------------------------------------------------------------
PeerStep == PeerFollows \/ PeerAnswers
HolderStep ==
  \/ Connect \/ SendGetHeaders \/ ReadEmpty \/ ReadHeaders \/ ReadFails
  \/ PrepareBatch \/ TakeHeader \/ RefuseHeader \/ FinishMessage
LoopStep ==
  \/ ChooseStart \/ InitDone \/ InitEmpty \/ InitLost \/ InitFailed \/ InitGarbled
  \/ InitUnlinked \/ InitRecover \/ HoldTip \/ SaveTip

SyncNext ==
  \/ NetworkExtends \/ NetworkReorganises \/ PeerStep \/ PeerDrops
  \/ \E who \in {"init", "refresh", "bg"} : Acquire(who)
  \/ HolderStep \/ ConnectFails \/ Throttled \/ ProbeKeeps \/ ProbeSwitches
  \/ LoopStep
  \/ Crash

(* The goroutines run, a lock that is free is taken by somebody, a connected
   peer answers and follows the network, and not every peer met lags. *)
SyncFairness ==
  /\ SF_syncVars(Connect /\ view' = net)
  /\ WF_syncVars(PeerFollows) /\ WF_syncVars(PeerAnswers)
  /\ WF_syncVars(\E who \in {"init", "refresh", "bg"} : Acquire(who))
  /\ WF_syncVars(HolderStep) /\ WF_syncVars(ProbeKeeps) /\ WF_syncVars(LoopStep)

SyncSpec == SyncInit /\ [][SyncNext]_syncVars /\ SyncFairness

-----------------------------------------------------------------------------
SyncTypeOK ==
  /\ config \in Checkpoints \cup {NoCheckpoint}
  /\ net \in Block /\ view \in Block \cup {NoBlock}
  /\ reorgs \in 0..MaxReorgs /\ faults \in 0..MaxFaults /\ crashes \in 0..MaxCrashes
  /\ conn \in BOOLEAN /\ bg \in BOOLEAN /\ force \in BOOLEAN
  /\ reqs \in Seq(Seq(Block \cup {NoSuchHash}))
  /\ inbox \in Seq(Seq(Block \cup {Garbled}))
  /\ incoming \in Seq(Block \cup {Garbled})
  /\ io \in {"free", "init", "refresh", "bg", "switch"}
  /\ step \in {"idle", "connect", "send", "await", "take", "probe"}
  /\ loop \in {"start", "try", "recover", "run", "save"}
  /\ attempt \in 0..TipRetries
  /\ outcome \in {"none", "ok", "lost", "failed", "garbled", "unlinked"}
  /\ held \in Block \cup {NoBlock}
  /\ saved \in [point : {PointOf(b) : b \in Block} \cup {NoStart}, bits : Nat]

(* The tip file never names a block off the tip's chain, so that a restart
   resumes what the miner was on: also after a recovery, a crash between the
   two halves of one, and a save of a tip the background loop has left behind.
   (A checkpoint start does not look at the file, which may then be old.) *)
SavedTipOnChain ==
  config = NoCheckpoint /\ best # NoBlock /\ saved # NoTipFile
    => OnChain(saved.point.hash, best)

(* Where the client stands: the next header it can take extends this. *)
Cursor == ExpectedPrev

(* If the client's chain ends up being (a part of) the network's, it catches
   up with all of it, whatever connections, torn messages, stale replies,
   lagging peers and restarts came before. *)
CatchesUp == <>[]OnChain(Cursor, net) => <>[](Cursor = net)

(* "Call after chain validation failure (e.g. non-continuous) so we don't keep
   requesting from a bad tip" (p2p.go:1149): the client leaves an abandoned
   branch in the end and follows the network. *)
LeavesAbandonedBranch == <>[](Cursor = net)
=============================================================================
