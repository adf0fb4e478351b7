# Doge Lucky Miner in TLA+

Doge Lucky Miner is a solo miner for Dogecoin in Go. It follows the header
chain over the P2P network (or a node's RPC), builds an empty block on the tip,
searches nonces with scrypt on CPU threads or a GPU, and broadcasts what it
finds. This directory models the parts of it in which a test would hardly find
a mistake: the header chain state, its synchronisation by three goroutines over
one connection, the connections themselves and the peer cache, the mining rounds
and the payment monitor that read the chain state without a lock, the nonce
search on CPU threads and on the GPU, the difficulty of the next block, and the
life cycle around them. TLC checks the models on small instances; TLAPS proves
for all of them the safety invariants, the action properties and two refinements.

## 1. Inventory of the system

| Part (source) | State | Operations | Hard about it |
|---|---|---|---|
| **Header chain state** (`p2p.go` 50-116, 619, 691-726, 1150, 1722, 1872-2017) | tip, height, last non-minimum nBits, parent time, locator ring, start point, height -> hash history | `processHeaders`, `ClearSyncState`, `SetStartCheckpoint(ByID)`, `SeedLastNonMinDifficultyBits` | messages that fail half-way; no lock between the resets and a message being taken in; heights are only counted |
| **Header synchronisation** (`p2p.go` 971-1862, `main.go` 723-786, 1036-1191) | `primaryIOMux`, the primary connection, the background loop, the mining loop's retry state, the `chain_tip` file | `GetTipHeader`, `RefreshHeadersIfStale`, `fetchHeadersInBackground`, probing and switching, the initialisation and its recovery, `saveTip` | three goroutines on one stream; unsolicited headers; lost connections; reorganisations; kills |
| **CPU nonce search** (`scrypt.go`) | per thread: nonce, count; the atomic `found`, the results channel | `mineParallel`, `mineWithStrategy` | uint32 wrap-around; two threads that hit at once; a round that must end |
| **Mining loop** (`main.go` 918-1664, 1938-2024) | current template, round counters, stale flag, submitted blocks | template, round, stale check, submission | reads of a tip that another goroutine moves |
| **Next difficulty** (`pow_dogecoin.go`, `template_builder.go`) | none | DigiShield, compact encoding | signed clamps, bit widths |
| **Peer manager** (`p2p.go` 764-1146, 2126-2258) | known and bad peers, seeds, the primary connection | `ensureConnected`, `markBadPeer`, `Disconnect`, harvesting | a mutex taken twice; a connection pulled from under its user |
| **Peer cache** (`p2p.go` 151-480) | the JSON file, the old text file | `updatePeerResult`, `loadCachedPeers`, the migration | one file rewritten by several goroutines without a lock |
| **Broadcast** (`p2p.go` 2108-2122, 2262-2762) | the pool of connections | `maintainBroadcastConnections`, `BroadcastBlock` | concurrent maintainers; parallel sends and one verdict |
| **Payment monitor** (`payment_monitor_p2p.go`) | submitted blocks and their verdicts | `TrackSubmittedBlock`, `CheckForPayments` | a final verdict from a history that may change |
| **GPU miner** (`gpu_miner.go`) | device buffers, result channels | `MineBlock`, `mineParallel` | `select` over results, completion and stop |
| **Life cycle** (`main.go` 183-916, `miner_optimizer.go`) | running flag, stop channel, clients, configuration | `Start`, `Stop`, `UpdateConfig`, optimizer | goroutines that outlive a stop |
| **RPC, header fetcher** (`rpc.go`, `headers.go`) | fetched headers, last height | poll loop | heights skipped between polls |
| **Block assembly, addresses, hash comparison** | none | pure byte layout | byte order |
| **Web dashboard** (`web/`) | none of its own | presentation | - |

How they meet: the mining loop calls the client (`GetTipHeader`,
`RefreshHeadersIfStale`, the resets) and reads its fields without a lock; the
background loop changes the same fields under `primaryIOMux`; the payment
monitor reads the history under a lock of its own; the miner is called once a
round and returns when every thread has left; of all this only the tip file and
the peer cache survive the process.

What makes each part correct is stated by the properties of its module, which
the hazards in `PROJECT.json` name line by line. What is not modelled is section 8.

## 2. Modules

| Module | Models | State and actions against the code |
|---|---|---|
| `BlockTree` | the environment: the tree of headers of the network | constants only. A block stands for its header and its double-SHA256 hash |
| `HeaderStore` | the `P2PClient` fields and every operation on them | one variable per field; `batch` holds the locals of the `processHeaders` call in progress. Its unlocked reads are steps (`OpenBatch`, `ReadExpectedPrev`, `ReadParentTime`), then one step per header (`AcceptHeader`, `RejectHeader`) and the commit (`CommitBatch`). The next header is *any* header: what holds, holds against any peer |
| `HeaderSync` | the three users of the primary connection, the mining loop's initialisation and recovery, the tip file, an honest peer and the network | `EXTENDS HeaderStore`; its actions contain HeaderStore's and add who does them. `io` is `primaryIOMux`, `step` where its holder is, `loop` where the mining loop is. It is shown to implement `StoreSpec` |
| `NonceSearch` | one `mineParallel` round of the CPU's threads | per thread a program counter, the current nonce and batch index, counts; the flag, the channel, the closer, the caller |
| `MineBlock` | one round on whichever device is picked: those threads, a sweep by one, the GPU's kernel, the GPU's threads | `EXTENDS NonceSearch` and reuses the steps of its threads. `device` says who searches and `sweep` how far the kernel is; a batch is `RunKernel`, `LoseBatch` (any OpenCL error), `HalveBatch`, or `GiveWay` to threads, which report in chunks (`HashAndReport`, `CountRest`); `Watchdog` cancels, `TakeResult` and `SeeTheEnd` are the `select` |
| `MiningLoop` | the rounds of the initialised mining loop, submission, both lists of submitted blocks, `CheckForPayments` | `EXTENDS HeaderStore`, but splits its commit into the code's assignments (`WriteBest` ... `WriteLocator`), and of the connection keeps the lock. `pc` is where the loop is; a template is `ReadTip`, `ReadLastNonMin`, `ReadTipParent`, `CheckTemplate`. A round is `RoundEnds` or `RoundFinds`; `KeepOrDiscard` and `JudgeStale` read the tip again; `submitBlock` refuses (`RefuseSubmit`) or broadcasts (`StartBroadcast`, `EndBroadcast`, which hold the lock); `RecordBlock` and `TrackBlock` are the two lists, the second only if there is a `monitor`; `ReadMonitorTip` and `CheckForPayments` are the monitor. A behaviour is one run of a miner, the first since it has its client: the miner's list may have entries from before, a new monitor's has none |
| `PeerNetwork` | `ensureConnected`, the two users of the primary connection, `Disconnect`, `BroadcastBlock`, the pool's maintainers, the harvester | `io` is `primaryIOMux` and what its holder does, `pc` where that is, `peersMux` the inner mutex, "lost" once its holder waits for itself. `EnsureStep`, `SyncStep`, `BlockStep` are the holder; `SenderStep` one parallel send; `TendStep` a maintainer; `Yank` a `Disconnect` without the lock; `Restart` a new process |
| `PeerCache` | the file of known peers | an update is `ReadCache`, then `AddPeer` or `DropPeer` (change and truncate), then `WriteCache`; `LoadLegacy` and `Migrate` are the text file; `Crash` at any moment |
| `NextWork` | `pow_dogecoin.go`, `BitsToTarget`, and what the client keeps for it | the functions are operators of the same name; `Grow` extends the chain by its own rule and `Follow` is the client taking the header in; `Restart` resumes from the tip file, with the saved bits or without |
| `MinerLifecycle` | `Start`, `Stop`, the configuration handler, the mining loops, the optimizer, the header fetcher's channel | `pc[a]` is where each request is, one action per assignment or wait; `loop[l]` is a mining loop between rounds or in one |
| `HeaderStoreProofs`, `HeaderSyncProofs`, `MiningLoopProofs`, `MineBlockProofs`, `PeerNetworkProofs`, `PeerCacheProofs`, `NextWorkProofs`, `MinerLifecycleProofs` | theorems about the module of that name | see section 6 |
| `MCHeaderStore`, `MCHeaderSync`, `MCMiningLoop`, `MCNonceSearch`, `MCMineBlock`, `MCPeerNetwork`, `MCPeerCache`, `MCNextWork`, `MCMinerLifecycle` | instances for TLC | see section 3 |

`HeaderStore` is the abstract specification of what the client promises of its
chain state, refined twice. `HeaderSync` says who takes its steps: `StoreSpec` is
a PROPERTY of the run `header_sync`. `MiningLoop` says that its commit is really
five assignments, in view of readers that take no lock: with a commit in progress
counted as done (the refinement mapping `Committed`), `CommitsAtOnce` is a
PROPERTY of the run `mining_loop`. Both refinements are also proved. Splitting the
two concerns keeps both state spaces small: what the readers see does not depend
on which peer a message came from, nor the recovery on how a commit is split.

The modules meet where one leaves open what another decides. `HeaderSync` connects
in one step, whose parts, and ways never to end, are `PeerNetwork`'s; that loads
addresses that the cache, any set of them here, has kept (`PeerCache`). `MiningLoop`
asks for a search and gets a block or none, as `MineBlock` returns it; it takes the
bits of a template from what `HeaderStore` carries, which is what `NextWork` is given.
`MinerLifecycle` starts and stops a mining loop of which it knows the rounds only;
that its `Stop` disconnects without `primaryIOMux` is `PeerNetwork`'s `Yank`.

Definitions marked "Mutant" before a definition are the slips a change could
make there; each shows that a property would notice.

## 3. Runs

| Run | Asks | Result |
|---|---|---|
| `header_store` | do tip, height, parent time, locator and history describe one chain, against any peer and any order of checkpoints, resumes and resets? | holds |
| `header_sync` | do the goroutines keep to the store's operations, is the tip file always on the tip's chain, and does the client catch up unless its chain left the network's? | holds |
| `nonce_search` | on every device: one winner, a real solution, the whole budget, no nonce twice, an end to every round whose ranges do not wrap? | holds |
| `mining_loop` | does the split commit implement HeaderStore's; are templates torn by one commit at most (on testnet) and always of the tip's branch; does the monitor, if there is one, watch the blocks of this run that the miner lists, and judge each that it can; does mining go on? | holds |
| `network` | does the pool keep its limit, a verdict say who got the block, a reader have a connection, and `primaryIOMux` come back? | holds, each unless a named overlap or loss happened |
| `peer_cache` | does the file keep its limit, and lose peers only to overlaps and crashes? | holds |
| `next_work` | does a template demand the bits the network demands, and is DigiShield in compact form exact and bounded? | holds |
| `lifecycle` | do the status and the monitor tell the truth between requests, does Stop get through, and is a stopped miner left alone by the optimizer? | holds, each unless a named overlap happened |
| `orphan_verdict` | is a block that is called orphaned off the chain? | violated: the proof-of-work hash is compared with chain hashes, so every found block is called orphaned |
| `reorg_recovery` | does the client leave an abandoned branch? | violated: after initialisation nobody looks at the error that says so |
| `found_is_returned` | does the caller get the block a thread found? | violated: the second check reads the hash backwards |
| `connect_ends` | does an unreachable peer release `primaryIOMux`? | violated: with few known peers left the goroutine locks `peersMux` twice |

### Bounds, and why they are enough

* *Trees.* A fork needs two branches of different length above a common block
  that is not genesis: `MCHeaderSync` has G - A1 - A2 and A1 - B2 - B3, so that
  a reorganisation leaves A2 for a higher B3; `MCHeaderStore` adds A3 so that
  two branches of equal height compete and a failed message can leave history
  above the tip. One block of each branch carries the minimum difficulty.
* *Caps.* `HistoryCap = 2`, `LocatorKeep = 3`, `LocatorSend = 2` and
  `MaxHeaders = 2` are below the height of the tree, so that pruning, trimming,
  the truncated locator and the full message that asks for the next one happen.
  `SwitchLead = 2` (3 in the code) lets a probe be that far ahead on a tree of
  height three, with `MaxLag = 1` for the peer connected to.
* *Faults.* One reorganisation, one dropped connection or torn message and one
  kill, in any combination and at any moment. `TipRetries = 2` (3 in the code)
  has the last attempt and one before it. Failing to connect is not bounded.
* *Messages.* Nothing bounds the queues: a peer pushes at most one message each
  time it follows the network, and the client has one request outstanding.
* *Nonces.* Five bits, three threads, a budget of seventeen hashes in batches of
  two: shares of five, so that every thread has a last batch cut short, and a start
  at 0, in the middle or at the end, so that ranges wrap or do not, in each mode. Nonce 0
  is a solution, one solution reads as one backwards, one does not; the kernel is
  wrong on three nonces, one of them a solution too. Batches are measured in units
  of eight (256): one of sixteen, of eight when halved, and the one nonce left over
  (the code's smallest batch is 32, which may exceed the budget; here it is one and
  cannot). Chunks of three are reported with a rest over. `found_is_returned` has six starts and a budget of twelve.
* *Peers.* Two, and a pool with room for one, so that two maintainers can overfill
  it; `RefillBelow = 1` (3) lets an unreachable peer be the last but one or the
  last. One peer is enough for `connect_ends`.
* *Cache.* Three goroutines and three peers for a file of two and a text file of
  which one is taken: the limit bites, and a third update may undo what two
  others did to each other. Peers and goroutines are symmetric; nothing temporal is
  checked but an action property.
* *Difficulty.* Digits below 16 where the code has 256: targets of up to six digits
  with a sign bit in the middle of a digit, as in the code, a limit (3fffff) that does
  not encode to itself (63ff) and a minimum difficulty (63fe) other than both. Gaps lie
  on either side of each clamp and of the quotient's steps, one is negative; clocks on
  either side of the two-minute rule. The boundary heights are 1 and 2 on a chain of five,
  where the run ends (CHECK_DEADLOCK FALSE). `dogecoinPowLimitCompact` differs from the
  compact form of the limit in the code too.
* *Requests.* One handler of buttons, one of configurations and the restart that it
  leaves behind, which can all overlap; two accounts, two mining loops. Two
  configurations at once need another handler: there only the theorem speaks.
* *`OverlappingReset`* is FALSE in the runs and arbitrary in the proofs.
* *Mining.* The tree of `MCMiningLoop` has two branches above A1 with a block
  that the miner can find on each: M2, which others build on, and M3. With B3, B4 and
  B5 above M2 and `HistoryCap = 2`, M2 gets its two confirmations while the history
  has its height, and the height is pruned away at B5: before the monitor has looked or
  after. `SubmittedCap = 1` lets the second find trim both lists, and the first
  one an earlier entry of the miner's; lists in which both kinds stand side by side were
  tried with room for three, and the theorem has any room.
  One checker stands for any number: a verdict is given once, and a second goroutine
  only repeats a check from an older tip (two were tried too). A block can be found
  once. The commit of a message, its five assignments and every unlocked read are
  steps, so every tear can happen.

`TornByOneCommit` is about testnet, where the template is checked against the tip
before a round. It is still mined with the nBits or the parent time of the tip
before: the check compares the hash and the height only. On mainnet the check logs, and
the three reads may lie any number of commits apart. The tip can also move between
the discard check and the broadcast, so stale blocks
are submitted on testnet too (section 5).

`nonce_search` and `found_is_returned` say CHECK_DEADLOCK FALSE: a round that has
returned is over.

### Fairness

`SyncFairness` is weak fairness of the goroutines' steps (the Go scheduler runs
what can run, a mutex that is free is taken by one who waits), of the peer's
answers and its following of the network (it is a node that works), and strong
fairness of connecting to a peer that is up to date (peers are shuffled; not
every one met lags). Nothing is assumed of drops, torn messages, kills, blocks
and reorganisations; `ConnectFails` may happen any number of times. The code has
no read deadline, so a peer that stays silent would block it: this is the
assumption that a connected peer answers or closes.

`MineFairness` is weak fairness of the lock's holder (each of its reads of the
connection returns, as above), of the mining loop and of the payment goroutines,
and strong fairness of taking `primaryIOMux`: Go's `sync.Mutex` hands over to a
waiter that has starved for a millisecond. No fairness says that a message links,
a block is found, or submitted rather than refused. `KeepsMining` excepts only a miner that never gets a tip,
which is `CatchesUp`'s subject. It holds on testnet although a template is thrown
away whenever the tip has moved, since the tree, like the network at any moment,
has an end; a network that is for ever faster than a round is not in the model.

`MineSpec` of `MineBlock` has weak fairness of each thread, of the closer and the
caller, and of the sweep: OpenCL calls return, with an error if need be. Nothing
is assumed of the watchdog, nor of the `select`.

`NetFairness` is weak fairness of the holder of `primaryIOMux` and of every sender
(a peer answers or its connection breaks), and strong fairness of a dial and of a
handshake that succeed: of infinitely many attempts one does. `LifeFairness` is weak
fairness of a Stop, of each mining loop's rounds, which end, and of the optimizer
seeing its channel closed; nobody has to press a button. `PeerCache` and `NextWork`
have none, their properties being about single steps.

`CatchesUp` is conditional on the client's chain ending up on the network's,
because `reorg_recovery` shows that this is not guaranteed.

### Conditions that properties name

A history variable names the one situation in which a promise is broken, so that
the property says that there is no other: `crowded` (two maintainers worked on
the pool at once), `yanked` (`Disconnect` without `primaryIOMux`), `clash` (updates of
the cache overlapped, or one died), `order` (requests overlapped, a Start met a running
loop, a Stop broke off), `informed` (the client has seen bits above the minimum
difficulty). `RoundFits` and `EmptyRange` do the same for nonces. `SubmittedAreTracked`
speaks of a miner with a `monitor`, and leaves out the entries that were there before it
(`early`); `EveryBlockJudged` leaves out heights the history has lost.

`TemplateAgrees` compares the client with a network that applies the code's own
`NextWorkRequired` with everything known: it is about what the client carries and
loses. How that rule compares with Dogecoin Core's is not in the repository.

## 4. Hazards

`PROJECT.json` lists them at their lines with the properties that would notice. Three
have none: the byte order of checkpoint hashes (`p2p.go` 708), the hit that the GPU's
watchdog drops (`gpu_miner.go` 1738) and the stale block on testnet (`main.go` 1537), all below.

## 5. What the code was seen to do

Besides the four violated runs, modelling brought up the following; the models
contain it, and no property claims otherwise.

* *Chain state.* The history is not of confirmed blocks, as its comment says (`p2p.go`
  76): a message that fails half-way has recorded its first headers (1975). A checkpoint
  in wire order, as mainnet's are, has its bytes reversed once too often (504, 708, 1900),
  so that no header links to it.
* *Nonces.* A forward range that wraps around has its end below its start; its
  batches are empty and the thread never leaves (`scrypt.go` 419, 430). A
  backward search from nonce 0 does nothing. Nonce 0 is never returned.
* *GPU.* Batches that fail count as attempted, so the fallback to threads after
  nothing was hashed (comments at `gpu_miner.go` 968 and 978) happens only if nothing was
  counted either. A batch reports one hit, and a wrong one hides a true one. The watchdog
  cancels by setting the flag that a finder sets: a hit behind it is dropped. The
  `select` may take the end of the round although a result is there.
* *Peers.* `Disconnect`, which a retry calls too, ends the harvester for good
  (`p2p.go` 98). A connection dropped while a handshake drains leaves no connection and
  no error, although `tryConnect` promises one (763). The retry after a warm-up is never reached. Any reject of type
  block is taken as one of the block just sent. A panic in the background loop's
  request, unlike one in a broadcast, is recovered by nobody.
* *Cache.* The migration from the text file happens only if a JSON file exists and
  does not parse (286, 291). An entry of "0 success" counts a failure.
* *Difficulty.* Targets of three digits or fewer lose their exponent in compact form. A
  target at the limit encodes to `0x1e0fffff`, not to `powLimitCompact`.
* *Life cycle.* Start does not ask whether the miner runs. A second Stop in RPC mode
  closes a closed channel and panics (`main.go` 907, `headers.go` 47). A refused
  configuration leaves the miner stopped. A Start while Stop waits keeps the old loop
  alive. The optimizer's channel is made once and closed by the first Stop
  (`miner_optimizer.go` 38, 83), so the goroutine of every later Start leaves at once (69),
  although `main.go` says at each "Start auto-optimizer for Lucky mining (monitors and
  adjusts parameters every 2 minutes)" (859) and logs that it has (862). A configuration
  that keeps network and address keeps the monitor on the old client (503, 532), although
  "p2pClient must be the MAIN miner P2P client" (`payment_monitor_p2p.go` 54): nobody
  extends that one's history. Nobody calls `StopBackgroundHeaderSync` (`p2p.go` 1492). The handler asks for the
  posted payout address, but `UpdateConfig` takes the one of the network, which may be
  empty: such a configuration is stored, and no Start gets past it.
* *Verdicts.* "When enough confirmations have passed for a submitted block, the monitor
  queries tipHistory[submittedHeight]" (`payment_monitor_p2p.go` 17): a history of some 500
  heights (`p2p.go` 1982) and messages of up to 2000 headers (1728) mean that a client which
  was cut off can lose the entry between two looks, a minute apart. The block then stays
  pending for ever (138-142); TLC finds this on the tree of `MCMiningLoop` when the
  exception of `EveryBlockJudged` is taken away.
* *Stale blocks.* "Testnet discards above before we get here" (`main.go` 1553): the tip is
  read for the discard (1511) and once more for the judgement (1543), and a commit between
  the two has a block that is known to be stale submitted on testnet.
* *Lists.* A miner built without a connection has no monitor (`main.go` 2269-2282), and a
  configuration of the same network and address gives it none: what it finds is listed
  and broadcast, and nobody watches it. A block that `submitBlock` refuses is listed,
  and watched, all the same.

## 6. What is proved

All theorems hold for every block tree, checkpoint table, cap, bound and set of
goroutines, from the assumptions the modules name on their constants
(`BlockTreeAssumption`, `HeaderStoreAssumption`, and one in each of the other
modules) and nothing else. TLC checked each property on its run before it was proved.

`HeaderStoreProofs`, for both values of `OverlappingReset`:

* `StoreTypeCorrect`: `StoreSpec => []StoreTypeOK`
* `LocatorAlwaysChain`: `StoreSpec => []LocatorIsChain`
* `TipHeightAlwaysCorrect`, `TipParentAlwaysCorrect`, `HistoryAlwaysAgrees`: the
  other invariants of the run `header_store`
* `TipAlwaysExtends`: the action property `TipOnlyExtends`

None of the invariants is inductive: what the tip will be is decided by the
locals of the message in progress. The inductive invariant `StoreInv` has two
parts. `ChainInv` says that the batch is a chain ending in `batch.prev` that
extends the tip whose commit it will become (`BatchChain`, `BatchExtendsTip`);
it holds even when resets overlap. `UndisturbedInv` holds when they do not: the
batch's height, parents and history entries are those of the chain it extends
(`HeightInv`, `ParentInv`, `HistoryInv`). Lemmas about the sequences
(`JoinLinked`, `TrimLinked`) and the tree (`ChildOnChain`) carry the case of
each action.

`HeaderSyncProofs`:

* `SyncImplementsStore`: `SyncSpec => StoreSpec`. With it every theorem about
  `StoreSpec` is one about the goroutines; `SyncKeepsOneChain` says so of four.
* `SavedTipAlwaysOnChain`: `SyncSpec => []SavedTipOnChain`. The tip file is
  written from a tip held in a local while others go on, and is dropped by a
  recovery that a kill can cut in two. `SyncInv` therefore says of the file
  (`FileInv`, `SavedInv`), of the held tip (`HeldInv`) and of the points the
  control flow can be at (`ControlInv`) what each may still name.
* `SyncTypeCorrect`: `SyncSpec => []SyncTypeOK`. That a peer's answer is made of
  headers is a fact about the tree: the headers above any locator can be listed
  (`PathType`) and two chains have a last block in common (`ForkType`). Both rest on
  `ChainsAreWhole`: every chain reaches down to genesis without a gap. It is an
  induction over heights, done with sets of numbers, since the library's induction
  theorems take an operator: a set without a smallest member is empty (`Smallest`,
  from the well-foundedness of `Nat`). `LinkTypes`, `MessageTypes` and `PlaceTypes` are
  the parts of the type invariant, each with its own step lemma.

`MiningLoopProofs`:

* `CommitsImplementStore`: `MineSpec => CommitsAtOnce`. `CommitInv` says that
  while a commit is in progress the message it came from is complete and its tip
  written; `WriteBest` then maps to `CommitBatch`, the other assignments to
  stutters, and no reader can be told from a stutter (`ReaderLeavesStore`).
* `WorkAlwaysOnOwnChain`: `MineSpec => []WorkOnOwnChain`. `WorkInv` adds that the
  block worked on is also below what the message in progress builds on, `TipInv`
  that a loop past its initialisation has a tip.
* `SubmittedAlwaysTracked`: `MineSpec => []SubmittedAreTracked`. Both lists are
  trimmed from the front, each on its own and the miner's sooner, since it may have
  entries of earlier runs; checks rewrite verdicts in between. `TrackInv`: where there
  is a monitor they match behind those entries (`Aligned`, `Match`), but for the newest
  block while the loop is about to track it; `ListLengths` and `MatchGrows` are about the
  trimmed sequences, and `LoopWaits` says that nobody else moves the loop meanwhile.
* `MineTypeCorrect`: `MineSpec => []MineTypeOK`. `TypeInv` adds to the invariants above
  where the loop can be with a block in hand (`LoopInv`): it records and tracks blocks
  it has mined, also after the refresh in between.
* `TornAlwaysByOneCommit`: `MineSpec => TornByOneCommit`. A commit replaces the tip by a
  higher one (`AboveInv`), so a tip that has been left does not come back; while the
  fields of a commit are being written the unwritten ones have their former values
  (`PriorInv`); so a template still on the tip at its check has read each field before
  or after that one commit (`TornInv`).
* `RunningMinerKeepsOneChain`: outside a commit the fields read without a lock satisfy
  `LocatorIsChain`, `TipHeightCorrect`, `TipParentCorrect` and
  `HistoryAgreesWithLocator`. The steps of the goroutines are steps of `HeaderStore`
  on the committed state, so the inductive invariant of `HeaderStoreProofs` is theirs.
* `RunningTipOnlyExtends`: `TipOnlyExtends` holds of the goroutines at every step, those
  inside a commit included, and the tip is never lost.

`MineBlockProofs`, for any number of threads, devices, budgets, nonces in a word and
sets of solutions. The inductive invariant `BudgetInv` has three layers:

* *Results.* `RoundInv`: who may be where on which device (`Shape`), a thread with a hit
  has hashed it, and it solves, and so do results (`HitsSolve`), and only one thread can
  have taken the flag of those that send (`FlagTaken`). From it `OneWinnerAlways`
  (`MineSpec => []OneWinner`) and `ReturnedNonceAlwaysSolves`
  (`MineSpec => []ReturnedNonceSolves`).
* *Nonces.* `NonceInv`: in a round that fits the range of nonces (`RoundFits`), a thread
  that goes on is at the nonce its count of hashes says (`At`: upwards, downwards or in
  strides, stated over the integers, with lemmas that say what the 32-bit sums of the
  code come to), it has tried as many nonces as it has counted hashes, and all of them
  in its own `Territory`. Territories are disjoint, so `NonceNeverTwice`:
  `MineSpec => []NoNonceTwice`.
* *Counting.* `CountInv`: the total is what the threads have reported, each at its last
  multiple of a chunk, whichever were cancelled in between; `ShareInv`: a thread leaves
  without a block only when its share is spent; `ReturnInv`: nothing is returned before
  all have left. So `EmptyRoundAlwaysSpendsBudget`:
  `MineSpec => []EmptyRoundSpendsBudget`, and with the bounds of every counter
  (`BoundsInv`) `RoundTypeCorrect`: `MineSpec => []RoundTypeOK`.

They assume a budget above zero (`MaxHashes`), which the callers see to: `main.go` 332,
463 and 2257 replace a zero by the default.

`PeerNetworkProofs`:

* `NetTypeCorrect`: `NetSpec => []NetTypeOK`
* `ReaderAlwaysHasConn`: `NetSpec => []ReaderHasConn`; `ReadInv` adds that the
  lock is free exactly when nobody is at it.
* `VerdictAlwaysMeansSent`: `NetSpec => []VerdictMeansSent`; `VerdictInv` says at which
  points of `BroadcastBlock` there are sends or a verdict, and what the local "sent" implies.
* `PoolAlwaysWithinLimit`: `NetSpec => []PoolWithinLimit`; `SlotInv`: while one
  maintainer works, the pool and the slots it still means to fill fit in the limit.

`PeerCacheProofs`:

* `CacheTypeCorrect`: `CacheSpec => []CacheTypeOK`
* `CacheAlwaysSmall`: `CacheSpec => []CacheStaysSmall`; `SmallInv` says the same of every
  copy that a goroutine holds.
* `CacheAlwaysKeepsPeers`: `CacheSpec => CacheKeepsPeers`; `AloneInv`: without a clash
  there is one update at most; what it has read is still the file, or the file is empty.

`NextWorkProofs`:

* `TemplateAlwaysAgrees`: `WorkSpec => []TemplateAgrees`, for every chain, limit and
  boundary height. `KnowInv` says when the client's carried bits are the chain's; that
  the rule asks for nothing else is `RuleNeedsBits` and `RuleNeedsParent`.
* `RetargetAlwaysExact`: `WorkSpec => [](TargetsLast => RetargetIsExact)`;
  `TargetAlwaysFollowsTime`: `WorkSpec => ([]TargetsLast => TargetFollowsTime)`; and
  `WorkTypesWhileTargetsLast`: `WorkSpec => ([]TargetsLast => []WorkTypeOK)`.

The last three are for every even base from twelve on, number of digits, limit and
times, as long as targets keep their exponent: `TargetsLast` says that the target, less
a quarter, has four digits. Without it they are false, because a target of three
digits or fewer loses its exponent in compact form (section 5); with 256 for a base it
means that no block needs 2^232 hashes. It holds in every state of the run `next_work`,
whose chains are too short to leave it. The argument:

* Powers are a recursive function, since the provers do not know `^`. That it satisfies
  its equation (`PowerIs`) is proved from finite tables of it, which exist and agree
  (`TablesExist`, `TablesAgree`), by an induction over sets (`ExponentInduction`).
* `Digits` is the exponent a number lies below (`DigitsBound`, `DigitsAre`). `Writes`
  says what a target is written as, also when its mantissa reaches the sign, `ReadsBack`
  and `WritesBack` that reading and writing are inverse on compact numbers, and
  `LargestBelow` that nothing expressible lies between a target and what it is rounded
  to (`RoundsDown`).
* `RetargetMoves` is one retarget. The next larger target of the same length lies at
  most a sixtieth above, so what a slower block adds survives the rounding; hence a base
  of twelve or more. Upwards and downwards the bounds are those of the timespan, less
  what rounding can take from the last digit.
* `BitsInv`: the bits, and the last ones above the minimum difficulty, are compact
  numbers within the limit. `TargetAssumption` says so of the first bits, which the
  network took, and of the minimum, and that the limit leaves a digit of room.

`MinerLifecycleProofs`, for any number of handlers, loops and accounts:

* `LifeTypeCorrect`: `LifeSpec => [](LifeTypeOK /\ Roles)`
* `MonitorAlwaysFollows`: `LifeSpec => []MonitorFollows`; `MonitorInv`: the
  monitor agrees with what is configured (`Settled`), or with what the one
  configuration in progress is about to store (`Ahead`).
* `StatusIsAlwaysTrue`: `LifeSpec => []StatusIsTrue`; `StatusInv`: while order is tidy
  one request is under way at most (`Solo`), there is one loop at most (`OneLoop`), and the
  status can be read off from where that request is (`Truth`).

Only model-checked: the liveness properties (`CatchesUp`, `KeepsMining`,
`EveryBlockJudged`, `RoundEndsUnlessWrapped`, `PrimaryIsReleased`, `StopReturns`,
`StoppedIsLeftAlone`), which are beyond this prover. Every invariant and action property of a
passing run is proved, three of them under `TargetsLast`.

## 7. How the project can grow

1. `BroadcastBlock` of `PeerNetwork` shown to refine `MiningLoop`'s `StartBroadcast`
   and `EndBroadcast`, under the fairness that excludes the lost mutex.
2. RPC mode of the mining loop, with the header fetcher's polls.

## 8. Not modelled

The bytes of messages and blocks (AuxPoW skipping, checksums, varints, block
assembly) are "parses" or "does not"; scrypt and SHA are which nonces solve; the
OpenCL source, buffers and contexts are calls that fail or return; HTTP handlers
other than start, stop and configure, the dashboard and logging are left out. Of the
mining loop, RPC mode, the adaptive size of a testnet round (`main.go` 1380-1440), the
cooling pause and the statistics with their broadcaster (933-950) are left out: a
round ends or finds a block, however long it is. Runs after the first are
`MinerLifecycle`'s: a monitor kept on a client that was left, a miner and a monitor that
change hands under a loop, two loops at once, have no rounds in these models. What the header fetcher fetches
(`headers.go` 72-135) goes to the log and to RPC mode. What the optimizer changes
is data; so are the counts and times in the peer cache, which order its entries.
