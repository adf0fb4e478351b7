--------------------------- MODULE PeerNetworkProofs ---------------------------
(* Proofs about PeerNetwork, for any peers, maintainers and limits: the types,  *)
(* the pool's limit, what a broadcast's verdict means, and that a reader has a  *)
(* connection.                                                                 *)
EXTENDS PeerNetwork, FiniteSetTheorems, TLAPS

USE DEF bookVars, poolVars, netVars

(* The steps of those who do not hold primaryIOMux. *)
OtherStep ==
  \/ Tick \/ (\E w \in Maintainer : TendStep(w))
  \/ HarvestFromPeer \/ ForgivePeer

LEMMA NetCases ==
  ASSUME [NetNext]_netVars
  PROVE  \/ Take("sync") \/ Take("block") \/ EnsureStep \/ SyncStep \/ BlockStep
         \/ \E p \in Peer : SenderStep(p)
         \/ OtherStep \/ Yank \/ Restart \/ UNCHANGED netVars
BY DEF NetNext, PrimaryStep, OtherStep

-----------------------------------------------------------------------------
(* Types.  A peer that is dialled for a reason is a peer, and ensureConnected has
   a caller to go back to. *)

NetInv ==
  /\ NetTypeOK
  /\ dial.why # "none" => dial.peer \in Peer
  /\ pc \in {"ensure", "load", "pop", "direct", "dial", "shake", "send"} => dial.then # "none"

Block == [primary : Peer \cup {NoPeer}, sent : BOOLEAN, sends : SUBSET Peer,
          tries : SUBSET Peer, got : SUBSET Peer,
          verdict : {"none", "ok", "failed", "rejected"}]

LEMMA StartTypes ==
  /\ NoBlock \in Block
  /\ NoDial = [peer |-> NoPeer, why |-> "none", then |-> "none"]
BY DEF NoBlock, Block, NoDial

LEMMA ReleaseTypes ==
  ASSUME NetInv, Release, UNCHANGED <<bad, peersMux, override, poolVars>>,
         known' \subseteq Peer, conn' \in Peer \cup {NoPeer}
  PROVE  NetInv'
<1>1. io' = "free" /\ pc' = "idle" /\ yanked' = FALSE /\ block' \in Block
  BY StartTypes DEF Release, Goto
<1>2. /\ dial' \in [peer : Peer \cup {NoPeer}, why : {"none", "override", "known", "seed"},
                    then : {"none", "request", "rerequest", "resend"}]
      /\ dial'.why = "none"
  BY StartTypes DEF Release
<1> QED
  BY <1>1, <1>2 DEF NetInv, NetTypeOK, Block

(* The peer to connect to is set, whoever asked for the connection. *)
LEMMA AimTypes ==
  ASSUME NetInv, pc \in {"ensure", "pop", "direct"}, NEW p \in Peer,
         NEW why \in {"override", "known", "seed"},
         dial' = [dial EXCEPT !.peer = p, !.why = why], pc' = "dial",
         known' \subseteq Peer, UNCHANGED <<bad, peersMux, conn>>, Stay
  PROVE  NetInv'
<1>1. /\ dial' \in [peer : Peer \cup {NoPeer}, why : {"none", "override", "known", "seed"},
                    then : {"none", "request", "rerequest", "resend"}]
      /\ dial'.peer = p /\ dial'.then # "none"
  BY DEF NetInv, NetTypeOK
<1>2. p \in Peer
  OBVIOUS
<1> QED
  BY <1>1, <1>2 DEF NetInv, NetTypeOK, Stay

LEMMA EnsureTypes ==
  ASSUME NetInv, EnsureStep
  PROVE  NetInv'
<1>1. CASE TryOverride
  <2>1. override \in Peer /\ known' \subseteq Peer
    BY <1>1 DEF TryOverride, NetInv, NetTypeOK
  <2>2. pc \in {"ensure", "pop", "direct"} /\ pc' = "dial" /\ UNCHANGED <<bad, peersMux, conn>> /\ Stay
    BY <1>1 DEF TryOverride, Goto
  <2>3. dial' = [dial EXCEPT !.peer = override, !.why = "override"]
    BY <1>1 DEF TryOverride
  <2> QED
    BY <2>1, <2>2, <2>3, AimTypes
<1>2. CASE PopPeer
  <2>1. PICK p \in known : dial' = [dial EXCEPT !.peer = p, !.why = "known"] /\ known' = known \ {p}
    BY <1>2 DEF PopPeer
  <2>2. p \in Peer /\ known' \subseteq Peer
    BY <2>1 DEF NetInv, NetTypeOK
  <2>3. pc \in {"ensure", "pop", "direct"} /\ pc' = "dial" /\ UNCHANGED <<bad, peersMux, conn>> /\ Stay
    BY <1>2 DEF PopPeer, Goto
  <2> QED
    BY <2>1, <2>2, <2>3, AimTypes
<1>3. CASE ConnectSeed
  <2>1. PICK p \in Peer : dial' = [dial EXCEPT !.peer = p, !.why = "seed"]
    BY <1>3 DEF ConnectSeed
  <2>2. known' \subseteq Peer
    BY <1>3 DEF ConnectSeed, NetInv, NetTypeOK
  <2>3. pc \in {"ensure", "pop", "direct"} /\ pc' = "dial" /\ UNCHANGED <<bad, peersMux, conn>> /\ Stay
    BY <1>3 DEF ConnectSeed, Goto
  <2> QED
    BY <2>1, <2>2, <2>3, AimTypes
<1> USE DEF NetInv, NetTypeOK, Stay, Goto
<1>4. CASE AlreadyConnected
  BY <1>4 DEF AlreadyConnected
<1>5. CASE LoadCachedPeers
  BY <1>5 DEF LoadCachedPeers
<1>6. CASE AskSeeds
  BY <1>6 DEF AskSeeds
<1>7. CASE NoSeedAnswers
  BY <1>7 DEF NoSeedAnswers
<1>8. CASE NobodyLeft
  <2>1. CASE dial.then = "resend"
    BY <1>8, <2>1 DEF NobodyLeft
  <2>2. CASE dial.then # "resend"
    BY <1>8, <2>2, ReleaseTypes DEF NobodyLeft
  <2> QED
    BY <2>1, <2>2
<1>9. CASE Dial
  BY <1>9 DEF Dial
<1>10. CASE Shaken
  BY <1>10 DEF Shaken, Dialled, NoDial
<1>11. CASE ShakenButClosed
  BY <1>11 DEF ShakenButClosed, Disconnect, Dialled, NoDial
<1>12. CASE DialFails
  <2>1. dial' = [NoDial EXCEPT !.then = dial.then]
    BY <1>12 DEF DialFails, Dialled
  <2>2. bad' \subseteq Peer /\ peersMux' \in {"free", "lost"}
    BY <1>12 DEF DialFails
  <2>3. known' \subseteq Peer /\ conn' = NoPeer /\ pc' \in {"load", "direct", "pop"}
    BY <1>12 DEF DialFails
  <2>4. pc \in {"dial", "shake"}
    BY <1>12 DEF DialFails
  <2>5. UNCHANGED <<io, override, yanked, block, pool, slots, crowded>>
    BY <1>12 DEF DialFails
  <2> QED
    BY <2>1, <2>2, <2>3, <2>4, <2>5, StartTypes
<1> QED
  BY <1>1, <1>2, <1>3, <1>4, <1>5, <1>6, <1>7, <1>8, <1>9, <1>10, <1>11, <1>12 DEF EnsureStep

LEMMA SyncTypes ==
  ASSUME NetInv, SyncStep
  PROVE  NetInv'
<1> USE DEF NetInv, NetTypeOK, Goto
<1>1. CASE Request
  <2>1. CASE conn # NoPeer /\ pc' \in {"await", "reawait"} /\ UNCHANGED <<bookVars, io, dial, conn, yanked, block>>
    BY <1>1, <2>1 DEF Request
  <2>2. CASE Disconnect /\ Release
    BY <1>1, <2>2, ReleaseTypes DEF Request, Disconnect
  <2> QED
    BY <1>1, <2>1, <2>2 DEF Request
<1>2. CASE HeadersEnd
  <2>1. CASE pc' = "probe" /\ UNCHANGED <<io, dial, yanked, block>>
    BY <1>2, <2>1 DEF HeadersEnd
  <2>2. CASE Release
    BY <1>2, <2>2, ReleaseTypes DEF HeadersEnd
  <2> QED
    BY <1>2, <2>1, <2>2 DEF HeadersEnd
<1>3. CASE ConnectionBreaks
  BY <1>3, ReleaseTypes DEF ConnectionBreaks, Disconnect
<1>4. CASE SwitchPrimary
  BY <1>4, StartTypes DEF SwitchPrimary, Disconnect
<1>5. CASE KeepPrimary
  BY <1>5, ReleaseTypes DEF KeepPrimary
<1> QED
  BY <1>1, <1>2, <1>3, <1>4, <1>5 DEF SyncStep

LEMMA TendingTypes ==
  ASSUME NetInv, NEW w \in Maintainer, StartTending(w)
  PROVE  slots' \in [Maintainer -> 0..MaxBroadcast] /\ crowded' \in BOOLEAN
<1>1. Cardinality(pool) \in Nat
  BY PeerNetworkAssumption, FS_Subset, FS_CardinalityType DEF NetInv, NetTypeOK
<1>2. MaxBroadcast - Cardinality(pool) \in 0..MaxBroadcast
  BY <1>1, PeerNetworkAssumption DEF StartTending
<1> QED
  BY <1>2 DEF StartTending, NetInv, NetTypeOK

LEMMA BlockTypes ==
  ASSUME NetInv, BlockStep
  PROVE  NetInv'
<1> USE DEF NetInv, NetTypeOK, Goto, Keep
<1>1. CASE SendToPrimary
  BY <1>1 DEF SendToPrimary
<1>2. CASE SendToPrimaryFails
  BY <1>2 DEF SendToPrimaryFails, Disconnect
<1>3. CASE NoPrimary
  BY <1>3 DEF NoPrimary
<1>4. CASE ResendPanics
  BY <1>4 DEF ResendPanics
<1>5. CASE FanOut
  BY <1>5 DEF FanOut
<1>6. CASE FanOutEnds
  BY <1>6 DEF FanOutEnds
<1>7. CASE WarmUp
  BY <1>7, TendingTypes DEF WarmUp
<1>8. CASE LastResort
  BY <1>8 DEF LastResort
<1>9. CASE TryOne
  <2>1. PICK p \in block.tries :
          \/ block' = [block EXCEPT !.tries = @ \ {p}]
          \/ block' = [block EXCEPT !.tries = @ \ {p}, !.got = @ \cup {p}]
    BY <1>9 DEF TryOne
  <2>2. block' \in Block
    <3>1. block \in Block /\ p \in Peer
      BY DEF Block
    <3>2. /\ [block EXCEPT !.tries = @ \ {p}] \in Block
          /\ [block EXCEPT !.tries = @ \ {p}, !.got = @ \cup {p}] \in Block
      BY <3>1 DEF Block
    <3> QED
      BY <2>1, <3>2
  <2>3. UNCHANGED <<bookVars, io, pc, dial, conn, override, yanked, poolVars>>
    BY <1>9 DEF TryOne
  <2> QED
    BY <2>2, <2>3 DEF Block
<1>10. CASE TriedAll
  BY <1>10 DEF TriedAll
<1>11. CASE Reply
  BY <1>11 DEF Reply, Disconnect, Verdict
<1>12. CASE Reject
  BY <1>12 DEF Reject
<1>13. CASE BlockDone
  BY <1>13, ReleaseTypes DEF BlockDone
<1> QED
  BY <1>1, <1>2, <1>3, <1>4, <1>5, <1>6, <1>7, <1>8, <1>9, <1>10, <1>11, <1>12, <1>13 DEF BlockStep

LEMMA NetTypeStep ==
  ASSUME NetInv, [NetNext]_netVars
  PROVE  NetInv'
<1> USE DEF NetInv, NetTypeOK
<1>1. CASE Take("sync") \/ Take("block")
  BY <1>1 DEF Take, Goto, NoDial
<1>2. ASSUME NEW p \in Peer, SenderStep(p)
      PROVE  NetInv'
  <2>1. block' \in Block
    <3>1. CASE SendToPeer(p)
      BY <3>1 DEF SendToPeer, Block
    <3>2. CASE SendToPeerFails(p)
      BY <3>2 DEF SendToPeerFails, Block
    <3> QED
      BY <1>2, <3>1, <3>2 DEF SenderStep
  <2>2. pool' \subseteq Peer
    BY <1>2 DEF SenderStep, SendToPeer, SendToPeerFails, Keep
  <2>3. UNCHANGED <<bookVars, io, pc, dial, conn, override, yanked, slots, crowded>>
    BY <1>2 DEF SenderStep, SendToPeer, SendToPeerFails, Keep
  <2> QED
    BY <2>1, <2>2, <2>3 DEF Block
<1>3. CASE OtherStep
  <2>1. CASE Tick
    BY <2>1, TendingTypes, PeerNetworkAssumption DEF Tick
  <2>2. ASSUME NEW w \in Maintainer, TendStep(w)
        PROVE  NetInv'
    BY <2>2, PeerNetworkAssumption
    DEF TendStep, NoMoreCandidates, ReachPeer, PeerUnreachable, Elsewhere, Tending
  <2>3. CASE HarvestFromPeer \/ ForgivePeer
    BY <2>3 DEF HarvestFromPeer, ForgivePeer, Elsewhere
  <2> QED
    BY <1>3, <2>1, <2>2, <2>3 DEF OtherStep
<1>4. CASE Yank
  BY <1>4 DEF Yank, Disconnect
<1>5. CASE Restart
  <2>1. slots' \in [Maintainer -> 0..MaxBroadcast] /\ pool' = {} /\ crowded' = FALSE
    BY <1>5, PeerNetworkAssumption DEF Restart
  <2>2. block' \in Block /\ pc' = "idle" /\ io' = "free" /\ yanked' = FALSE /\ dial' = NoDial
    BY <1>5, StartTypes DEF Restart, Release, Goto
  <2>3. /\ known' \subseteq Peer /\ bad' = {} /\ peersMux' = "free"
        /\ {conn', override'} \subseteq Peer \cup {NoPeer}
    BY <1>5 DEF Restart
  <2> QED
    BY <2>1, <2>2, <2>3, StartTypes DEF Block
<1>6. CASE UNCHANGED netVars
  BY <1>6
<1> QED
  BY <1>1, <1>2, <1>3, <1>4, <1>5, <1>6, EnsureTypes, SyncTypes, BlockTypes, NetCases

LEMMA NetInitTypes == NetInit => NetInv
<1> SUFFICES ASSUME NetInit PROVE NetInv
  OBVIOUS
<1>1. slots \in [Maintainer -> 0..MaxBroadcast]
  BY PeerNetworkAssumption DEF NetInit
<1> QED
  BY <1>1, StartTypes DEF NetInit, NetInv, NetTypeOK, Block

(* The bookkeeping of peers keeps its types; only peers are marked bad, though
   the address that failed is looked up after it may have been cleared. *)
THEOREM NetTypeCorrect == NetSpec => []NetTypeOK
<1>1. NetInv => NetTypeOK
  BY DEF NetInv
<1> QED
  BY <1>1, NetInitTypes, NetTypeStep, PTL DEF NetSpec

-----------------------------------------------------------------------------
(* How the holder of primaryIOMux moves. *)

Ensuring == {"ensure", "load", "pop", "direct", "dial", "shake"}
Syncing == {"request", "rerequest", "await", "reawait", "probe"}
Reading == {"await", "reawait"}

LEMMA EnsureMoves ==
  ASSUME NetInv, EnsureStep
  PROVE  /\ pc \in Ensuring
         /\ \/ UNCHANGED <<io, yanked, block>> /\ pc' \in Ensuring \cup {"request", "rerequest", "resend", "fan"}
            \/ Release
<1> USE DEF NetInv, NetTypeOK, Stay, Goto, Ensuring
<1>1. CASE AlreadyConnected \/ TryOverride \/ LoadCachedPeers \/ PopPeer \/ AskSeeds
  BY <1>1 DEF AlreadyConnected, TryOverride, LoadCachedPeers, PopPeer, AskSeeds
<1>2. CASE NoSeedAnswers \/ ConnectSeed \/ NobodyLeft
  BY <1>2 DEF NoSeedAnswers, ConnectSeed, NobodyLeft
<1>3. CASE Dial \/ Shaken \/ ShakenButClosed \/ DialFails
  BY <1>3 DEF Dial, Shaken, ShakenButClosed, DialFails
<1> QED
  BY <1>1, <1>2, <1>3 DEF EnsureStep

LEMMA SyncMoves ==
  ASSUME NetInv, SyncStep
  PROVE  /\ pc \in Syncing
         /\ \/ /\ UNCHANGED <<io, yanked, block>>
               /\ pc' \in {"probe", "ensure"} \/ (pc' \in Reading /\ conn' # NoPeer)
            \/ Release
<1> USE DEF Goto, Syncing, Reading
<1>1. CASE Request
  BY <1>1 DEF Request
<1>2. CASE HeadersEnd
  BY <1>2 DEF HeadersEnd
<1>3. CASE ConnectionBreaks \/ KeepPrimary
  BY <1>3 DEF ConnectionBreaks, KeepPrimary
<1>4. CASE SwitchPrimary
  BY <1>4 DEF SwitchPrimary
<1> QED
  BY <1>1, <1>2, <1>3, <1>4 DEF SyncStep

(* Everybody else leaves the holder where it is. *)
LEMMA OthersStay ==
  ASSUME OtherStep
  PROVE  UNCHANGED <<io, pc, conn, yanked, block>>
BY DEF OtherStep, Tick, TendStep, NoMoreCandidates, ReachPeer, PeerUnreachable, HarvestFromPeer,
   ForgivePeer, Elsewhere

LEMMA SendersStay ==
  ASSUME NEW p \in Peer, SenderStep(p)
  PROVE  UNCHANGED <<io, pc, conn, yanked>>
BY DEF SenderStep, SendToPeer, SendToPeerFails, Keep

LEMMA BlockMoves ==
  ASSUME BlockStep
  PROVE  /\ pc \notin Ensuring \cup Syncing \cup {"idle"}
         /\ \/ UNCHANGED <<io, yanked>> /\ pc' \notin Reading \cup {"idle"}
            \/ Release
<1> USE DEF Ensuring, Syncing, Reading, Goto, Keep
<1>1. CASE SendToPrimary \/ SendToPrimaryFails \/ NoPrimary \/ ResendPanics
  BY <1>1 DEF SendToPrimary, SendToPrimaryFails, NoPrimary, ResendPanics
<1>2. CASE FanOut \/ FanOutEnds \/ WarmUp \/ LastResort
  BY <1>2 DEF FanOut, FanOutEnds, WarmUp, LastResort
<1>3. CASE TryOne \/ TriedAll \/ Reply \/ Reject \/ BlockDone
  BY <1>3 DEF TryOne, TriedAll, Reply, Reject, BlockDone
<1> QED
  BY <1>1, <1>2, <1>3 DEF BlockStep

-----------------------------------------------------------------------------
(* Readers. *)

ReadInv ==
  /\ io = "free" <=> pc = "idle"
  /\ ReaderHasConn

LEMMA ReadStep ==
  ASSUME NetInv, ReadInv, [NetNext]_netVars
  PROVE  ReadInv'
<1> USE DEF ReadInv, ReaderHasConn
<1>1. ASSUME Release PROVE ReadInv'
  BY <1>1 DEF Release, Goto
<1>2. CASE Take("sync") \/ Take("block")
  BY <1>2 DEF Take, Goto
<1>3. CASE EnsureStep
  BY <1>1, <1>3, EnsureMoves DEF Ensuring
<1>4. CASE SyncStep
  BY <1>1, <1>4, SyncMoves DEF Syncing, Reading
<1>5. CASE BlockStep
  BY <1>1, <1>5, BlockMoves DEF Reading
<1>6. CASE OtherStep \/ \E p \in Peer : SenderStep(p)
  BY <1>6, OthersStay, SendersStay
<1>7. CASE Yank
  BY <1>7 DEF Yank
<1>8. CASE Restart
  BY <1>1, <1>8 DEF Restart
<1>9. CASE UNCHANGED netVars
  BY <1>9
<1> QED
  BY <1>2, <1>3, <1>4, <1>5, <1>6, <1>7, <1>8, <1>9, NetCases

(* A request is read for on a connection, which only a call of Disconnect that
   does not take primaryIOMux can have taken away. *)
THEOREM ReaderAlwaysHasConn == NetSpec => []ReaderHasConn
<1>1. NetInit => NetInv /\ ReadInv
  <2>1. NetInit => NetInv
    BY NetInitTypes
  <2> QED
    BY <2>1 DEF NetInit, ReadInv, ReaderHasConn
<1>2. ReadInv => ReaderHasConn
  BY DEF ReadInv
<1> QED
  BY <1>1, <1>2, NetTypeStep, ReadStep, PTL DEF NetSpec

-----------------------------------------------------------------------------
(* The verdict on a block. *)

AfterSend ==
  {"fan", "fanning", "warm", "fan2", "fanning2", "last", "trying", "reply", "done"}

VerdictInv ==
  /\ VerdictMeansSent
  /\ block.verdict # "none" => pc = "done"
  /\ block.sends # {} => pc \in {"fanning", "fanning2"}
  /\ block.sent => block.primary \in block.got /\ pc \in AfterSend

(* A holder that is not at a block has none in progress. *)
LEMMA NoBlockYet ==
  ASSUME VerdictInv, pc \notin AfterSend
  PROVE  block.verdict = "none" /\ block.sends = {} /\ ~block.sent
BY DEF VerdictInv, AfterSend

(* A send, whoever makes it, ends with one more peer that has the block or not. *)
LEMMA TryTells ==
  ASSUME NetInv, TryOne
  PROVE  /\ block'.verdict = block.verdict /\ block'.sends = block.sends
         /\ block'.sent = block.sent /\ block'.primary = block.primary
         /\ block.got \subseteq block'.got
<1>1. block \in Block
  BY DEF NetInv, NetTypeOK, Block
<1>2. PICK p \in block.tries :
        LET tried == [block EXCEPT !.tries = @ \ {p}]
        IN block' = tried \/ block' = [tried EXCEPT !.got = @ \cup {p}]
  BY DEF TryOne
<1>3. PICK tried \in Block :
        /\ tried.verdict = block.verdict /\ tried.sends = block.sends /\ tried.sent = block.sent
        /\ tried.primary = block.primary /\ tried.got = block.got
        /\ block' = tried \/ block' = [tried EXCEPT !.got = @ \cup {p}]
  <2>1. [block EXCEPT !.tries = @ \ {p}] \in Block
    BY <1>1 DEF Block
  <2> QED
    BY <1>1, <1>2, <2>1 DEF Block
<1> QED
  BY <1>3 DEF Block

LEMMA SendTells ==
  ASSUME NetInv, NEW p \in Peer, SenderStep(p)
  PROVE  /\ block'.verdict = block.verdict /\ block'.sent = block.sent
         /\ block'.primary = block.primary
         /\ block'.sends \subseteq block.sends /\ block.got \subseteq block'.got
<1>1. block \in Block
  BY DEF NetInv, NetTypeOK, Block
<1>2. CASE block' = [block EXCEPT !.got = @ \cup {p}, !.sends = @ \ {p}]
  <2>1. block'.got = block.got \cup {p} /\ block'.sends = block.sends \ {p}
    BY <1>1, <1>2 DEF Block
  <2>2. /\ block'.verdict = block.verdict /\ block'.sent = block.sent
        /\ block'.primary = block.primary
    BY <1>1, <1>2 DEF Block
  <2> QED
    BY <2>1, <2>2
<1>3. CASE block' = [block EXCEPT !.sends = @ \ {p}]
  BY <1>1, <1>3 DEF Block
<1> QED
  BY <1>2, <1>3 DEF SenderStep, SendToPeer, SendToPeerFails

LEMMA VerdictBlockStep ==
  ASSUME NetInv, VerdictInv, BlockStep
  PROVE  VerdictInv'
<1> USE DEF VerdictInv, VerdictMeansSent, AfterSend, Goto, Keep
<1>1. CASE TryOne
  <2>1. pc = "trying" /\ pc' = "trying" /\ yanked' = yanked
    BY <1>1 DEF TryOne
  <2>2. block.verdict = "none" /\ block.sends = {}
    BY <2>1
  <2> QED
    BY <1>1, <2>1, <2>2, TryTells
<1> USE DEF NetInv, NetTypeOK
<1>2. CASE SendToPrimary
  BY <1>2, NoBlockYet DEF SendToPrimary
<1>3. CASE SendToPrimaryFails
  BY <1>3, NoBlockYet DEF SendToPrimaryFails
<1>4. CASE NoPrimary
  BY <1>4, NoBlockYet DEF NoPrimary
<1>5. CASE ResendPanics
  BY <1>5, NoBlockYet DEF ResendPanics
<1>6. CASE FanOut
  BY <1>6 DEF FanOut
<1>7. CASE FanOutEnds
  BY <1>7 DEF FanOutEnds
<1>8. CASE WarmUp
  BY <1>8 DEF WarmUp
<1>9. CASE LastResort
  BY <1>9 DEF LastResort
<1>10. CASE TriedAll
  BY <1>10 DEF TriedAll
<1>11. CASE Reply
  BY <1>11 DEF Reply, Verdict
<1>12. CASE Reject
  BY <1>12 DEF Reject
<1>13. CASE BlockDone
  BY <1>13 DEF BlockDone, Release, NoBlock
<1> QED
  BY <1>1, <1>2, <1>3, <1>4, <1>5, <1>6, <1>7, <1>8, <1>9, <1>10, <1>11, <1>12, <1>13 DEF BlockStep

LEMMA VerdictStep ==
  ASSUME NetInv, ReadInv, VerdictInv, [NetNext]_netVars
  PROVE  VerdictInv'
<1> USE DEF VerdictInv, VerdictMeansSent
<1>1. ASSUME Release PROVE VerdictInv'
  BY <1>1 DEF Release, NoBlock
<1>2. ASSUME UNCHANGED <<yanked, block>>, pc \notin AfterSend PROVE VerdictInv'
  BY <1>2, NoBlockYet DEF AfterSend
<1>3. CASE Take("sync") \/ Take("block")
  BY <1>2, <1>3 DEF Take, AfterSend, ReadInv
<1>4. CASE EnsureStep
  BY <1>1, <1>2, <1>4, EnsureMoves DEF Ensuring, AfterSend
<1>5. CASE SyncStep
  BY <1>1, <1>2, <1>5, SyncMoves DEF Syncing, AfterSend
<1>6. ASSUME NEW p \in Peer, SenderStep(p) PROVE VerdictInv'
  <2>1. block.verdict = "none"
    BY <1>6 DEF SenderStep, SendToPeer, SendToPeerFails
  <2>2. VerdictInv /\ (block.sends # {} \/ pc = pc')
    BY <1>6, SendersStay
  <2> QED
    BY <1>6, <2>1, <2>2, SendersStay, SendTells
<1>7. CASE OtherStep
  BY <1>7, OthersStay
<1>8. CASE Yank
  BY <1>8 DEF Yank, ReadInv
<1>9. CASE Restart
  BY <1>1, <1>9 DEF Restart
<1>10. CASE UNCHANGED netVars
  BY <1>10
<1> QED
  BY <1>3, <1>4, <1>5, <1>6, <1>7, <1>8, <1>9, <1>10, VerdictBlockStep, NetCases

(* BroadcastBlock reports success only when somebody got the block, or when it
   panicked on a connection that was pulled, and failure only when nobody did. *)
THEOREM VerdictAlwaysMeansSent == NetSpec => []VerdictMeansSent
<1>1. NetInit => NetInv /\ ReadInv /\ VerdictInv
  <2>1. NetInit => NetInv
    BY NetInitTypes
  <2> QED
    BY <2>1 DEF NetInit, ReadInv, ReaderHasConn, VerdictInv, VerdictMeansSent, NoBlock
<1>2. VerdictInv => VerdictMeansSent
  BY DEF VerdictInv
<1> QED
  BY <1>1, <1>2, NetTypeStep, ReadStep, VerdictStep, PTL DEF NetSpec

-----------------------------------------------------------------------------
(* The pool.  One maintainer by itself has counted the slots it still wants. *)

SlotInv ==
  ~crowded =>
    /\ Cardinality(pool) <= MaxBroadcast
    /\ \A w \in Tending : Tending = {w} /\ Cardinality(pool) + slots[w] <= MaxBroadcast

LEMMA PoolCounts ==
  ASSUME NetInv
  PROVE  /\ IsFiniteSet(pool) /\ Cardinality(pool) \in Nat
         /\ \A p \in Peer : Cardinality(pool \cup {p}) = IF p \in pool THEN Cardinality(pool) ELSE Cardinality(pool) + 1
         /\ \A S \in SUBSET pool : Cardinality(S) \in Nat /\ Cardinality(S) <= Cardinality(pool)
<1>1. IsFiniteSet(pool) /\ Cardinality(pool) \in Nat
  BY PeerNetworkAssumption, FS_Subset, FS_CardinalityType DEF NetInv, NetTypeOK
<1>2. ASSUME NEW p \in Peer
      PROVE  Cardinality(pool \cup {p}) = IF p \in pool THEN Cardinality(pool) ELSE Cardinality(pool) + 1
  BY <1>1, FS_AddElement
<1>3. \A S \in SUBSET pool : Cardinality(S) \in Nat /\ Cardinality(S) <= Cardinality(pool)
  BY <1>1, FS_Subset, FS_CardinalityType
<1> QED
  BY <1>1, <1>2, <1>3

LEMMA StartSlots ==
  ASSUME NetInv, SlotInv, NEW w \in Maintainer, StartTending(w), pool' = pool
  PROVE  SlotInv'
<1> SUFFICES ASSUME ~crowded' PROVE SlotInv'
  BY DEF SlotInv
<1>1. Tending = {} /\ Cardinality(pool) \in Nat /\ Cardinality(pool) < MaxBroadcast
  BY PoolCounts DEF StartTending
<1>2. slots' = [slots EXCEPT ![w] = MaxBroadcast - Cardinality(pool)]
  BY DEF StartTending
<1>3. Tending' = {w}
  BY <1>1, <1>2, PeerNetworkAssumption DEF Tending, NetInv, NetTypeOK
<1> QED
  BY <1>1, <1>2, <1>3, PeerNetworkAssumption DEF SlotInv, NetInv, NetTypeOK

LEMMA SlotStep ==
  ASSUME NetInv, SlotInv, [NetNext]_netVars
  PROVE  SlotInv'
<1> USE PeerNetworkAssumption DEF SlotInv, Tending, NetInv, NetTypeOK
<1>1. ASSUME UNCHANGED poolVars PROVE SlotInv'
  BY <1>1
<1>2. CASE Take("sync") \/ Take("block") \/ EnsureStep \/ SyncStep \/ Yank \/ UNCHANGED netVars
  <2>1. UNCHANGED poolVars
    BY <1>2 DEF Take, EnsureStep, SyncStep, Yank, Stay, AlreadyConnected, TryOverride, LoadCachedPeers,
       PopPeer, AskSeeds, NoSeedAnswers, ConnectSeed, NobodyLeft, Dial, Shaken, ShakenButClosed, DialFails,
       Request, HeadersEnd, ConnectionBreaks, SwitchPrimary, KeepPrimary
  <2> QED
    BY <1>1, <2>1
<1>3. CASE BlockStep
  <2>1. CASE WarmUp
    BY <1>1, <2>1, StartSlots DEF WarmUp
  <2>2. CASE ~WarmUp
    <3>1. UNCHANGED poolVars
      BY <1>3, <2>2 DEF BlockStep, Keep, SendToPrimary, SendToPrimaryFails, NoPrimary, ResendPanics, FanOut,
         FanOutEnds, LastResort, TryOne, TriedAll, Reply, Reject, BlockDone
    <3> QED
      BY <1>1, <3>1
  <2> QED
    BY <2>1, <2>2
<1>4. ASSUME NEW p \in Peer, SenderStep(p) PROVE SlotInv'
  <2>1. pool' \in SUBSET pool /\ UNCHANGED <<slots, crowded>>
    BY <1>4 DEF SenderStep, SendToPeer, SendToPeerFails, Keep
  <2>2. Cardinality(pool') \in Nat /\ Cardinality(pool') <= Cardinality(pool) /\ Cardinality(pool) \in Nat
    BY <2>1, PoolCounts
  <2> QED
    BY <2>1, <2>2
<1>5. CASE Tick
  BY <1>5, StartSlots DEF Tick
<1>6. ASSUME NEW w \in Maintainer, NEW p \in Peer, ReachPeer(w, p) PROVE SlotInv'
  <2>1. w \in Tending /\ UNCHANGED crowded
    BY <1>6 DEF ReachPeer
  <2>2. Cardinality(pool) \in Nat
    BY PoolCounts
  <2>3. CASE p \in pool
    <3>1. pool' = pool /\ slots' = slots
      BY <1>6, <2>3 DEF ReachPeer
    <3> QED
      BY <2>1, <3>1
  <2>4. CASE p \notin pool
    <3>1. Cardinality(pool') = Cardinality(pool) + 1
      BY <1>6, <2>4, PoolCounts DEF ReachPeer
    <3>2. slots' = [slots EXCEPT ![w] = @ - 1]
      BY <1>6, <2>4 DEF ReachPeer
    <3>3. Tending' \subseteq Tending
      BY <2>1, <3>2
    <3> QED
      BY <2>1, <2>2, <3>1, <3>2, <3>3
  <2> QED
    BY <2>3, <2>4
<1>7. ASSUME NEW w \in Maintainer, NoMoreCandidates(w) PROVE SlotInv'
  <2>1. slots' = [slots EXCEPT ![w] = 0] /\ UNCHANGED <<pool, crowded>>
    BY <1>7 DEF NoMoreCandidates
  <2>2. Tending' = Tending \ {w}
    BY <2>1
  <2> QED
    BY <2>1, <2>2
<1>8. ASSUME NEW w \in Maintainer, NEW p \in Peer, PeerUnreachable(w, p) PROVE SlotInv'
  BY <1>1, <1>8 DEF PeerUnreachable
<1>9. CASE HarvestFromPeer \/ ForgivePeer
  BY <1>1, <1>9 DEF HarvestFromPeer, ForgivePeer
<1>10. CASE Restart
  <2>1. pool' = {} /\ slots' = [w \in Maintainer |-> 0]
    BY <1>10 DEF Restart
  <2>2. Cardinality({}) = 0 /\ Tending' = {}
    BY <2>1, FS_EmptySet
  <2> QED
    BY <2>1, <2>2
<1> QED
  BY <1>2, <1>3, <1>4, <1>5, <1>6, <1>7, <1>8, <1>9, <1>10, NetCases DEF OtherStep, TendStep

(* The pool has more connections than its limit only after two maintainers
   counted its free slots before either had filled them. *)
THEOREM PoolAlwaysWithinLimit == NetSpec => []PoolWithinLimit
<1>1. NetInit => NetInv /\ SlotInv
  <2>1. NetInit => Cardinality(pool) = 0 /\ Tending = {}
    BY FS_EmptySet DEF NetInit, Tending
  <2> QED
    BY <2>1, NetInitTypes, PeerNetworkAssumption DEF SlotInv
<1>2. NetInv /\ SlotInv => PoolWithinLimit
  BY PoolCounts, PeerNetworkAssumption DEF SlotInv, PoolWithinLimit
<1> QED
  BY <1>1, <1>2, NetTypeStep, SlotStep, PTL DEF NetSpec
=============================================================================
