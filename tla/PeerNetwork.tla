------------------------------ MODULE PeerNetwork ------------------------------
(***************************************************************************)
(* The connections of a P2PClient: the primary one, which the holder of      *)
(* primaryIOMux opens (ensureConnected) and uses for header requests and     *)
(* blocks, and the pool of broadcast connections that the maintainers fill.   *)
(*                                                                          *)
(* What a header request does to the chain state is HeaderSync's, and what    *)
(* becomes of the reports on peers PeerCache's: a load finds any addresses.   *)
(* Any peer may refuse, fail or close at any moment.                          *)
(***************************************************************************)
EXTENDS Naturals, FiniteSets

CONSTANTS
  Peer,          \* addresses
  NoPeer,
  Maintainer,    \* runs of maintainBroadcastConnections: the ticker's, warm-ups
  MaxBroadcast,  \* 10: maxBroadcastPeers
  RefillBelow    \* 3: with fewer known peers left, ask the seeds

ASSUME PeerNetworkAssumption ==
  /\ IsFiniteSet(Peer) /\ NoPeer \notin Peer
  /\ "ticker" \in Maintainer
  /\ MaxBroadcast \in Nat \ {0} /\ RefillBelow \in Nat

VARIABLES
  known,     \* knownPeers: order and repetitions are left open
  bad,       \* badPeers
  peersMux,  \* "free", or "lost" once its holder waits for itself
  io,        \* primaryIOMux: "free", or what its holder does, "sync" or "block"
  pc,        \* where its holder is
  dial,      \* the peer it connects to, why, and where it goes on then
  conn,      \* the peer of the primary connection
  override,  \* optionalPeerOverride
  yanked,    \* history: since primaryIOMux was taken, Disconnect was called
  block,     \* the BroadcastBlock in progress
  pool,      \* broadcastConns
  slots,     \* the free slots each maintainer still wants to fill
  crowded    \* history: two maintainers have worked on the pool at once

bookVars == <<known, bad, peersMux>>
poolVars == <<pool, slots, crowded>>
netVars == <<bookVars, io, pc, dial, conn, override, yanked, block, poolVars>>

NoDial == [peer |-> NoPeer, why |-> "none", then |-> "none"]
NoBlock == [primary |-> NoPeer, sent |-> FALSE, sends |-> {}, tries |-> {},
            got |-> {}, verdict |-> "none"]

NetInit ==
  /\ known \in SUBSET Peer /\ bad = {} /\ peersMux = "free"
  /\ io = "free" /\ pc = "idle" /\ dial = NoDial /\ yanked = FALSE /\ block = NoBlock
  /\ conn = NoPeer /\ override \in Peer \cup {NoPeer}
  /\ pool = {} /\ slots = [w \in Maintainer |-> 0] /\ crowded = FALSE

-----------------------------------------------------------------------------
(* Steps of the holder of primaryIOMux. *)

Goto(p) == pc' = p
Unlocked == peersMux = "free"

(* The connection is closed and its peer taken off the list. *)
Disconnect ==
  /\ Unlocked
  /\ conn' = NoPeer /\ known' = known \ {conn}
  /\ UNCHANGED <<bad, peersMux>>

Take(what) ==
  /\ io = "free"
  /\ io' = what /\ Goto(IF what = "block" THEN "send" ELSE "ensure")
  /\ dial' = [NoDial EXCEPT !.then = IF what = "block" THEN "resend" ELSE "request"]
  /\ UNCHANGED <<bookVars, conn, override, yanked, block, poolVars>>

Release ==
  /\ io' = "free" /\ Goto("idle") /\ dial' = NoDial /\ yanked' = FALSE /\ block' = NoBlock

Stay == UNCHANGED <<io, override, yanked, block, poolVars>>

-----------------------------------------------------------------------------
(* ensureConnected *)

AlreadyConnected ==
  /\ pc = "ensure" /\ conn # NoPeer
  /\ Goto(dial.then)
  /\ UNCHANGED <<bookVars, dial, conn>> /\ Stay

TryOverride ==
  /\ pc = "ensure" /\ conn = NoPeer /\ override # NoPeer /\ Unlocked
  /\ dial' = [dial EXCEPT !.peer = override, !.why = "override"] /\ Goto("dial")
  /\ UNCHANGED <<bookVars, conn>> /\ Stay

(* An empty list is filled from the cache file, but for the peers now bad. *)
LoadCachedPeers ==
  /\ pc = "load" \/ (pc = "ensure" /\ conn = NoPeer /\ override = NoPeer)
  /\ Unlocked
  /\ known' \in IF known = {} THEN SUBSET (Peer \ bad) ELSE {known}
  /\ Goto("pop")
  /\ UNCHANGED <<bad, peersMux, dial, conn>> /\ Stay

PopPeer ==
  /\ pc = "pop" /\ Unlocked
  /\ \E p \in known :
       /\ dial' = [dial EXCEPT !.peer = p, !.why = "known"]
       /\ known' = known \ {p}
  /\ Goto("dial")
  /\ UNCHANGED <<bad, peersMux, conn>> /\ Stay

(* No more peers: the seeds are asked for addresses, first through the DNS and
   then as peers, and those not bad are added ... *)
AskSeeds ==
  /\ pc = "pop" /\ Unlocked /\ known = {}
  /\ \E S \in SUBSET (Peer \ bad) \ {{}} : known' = S
  /\ UNCHANGED <<bad, peersMux, pc, dial, conn>> /\ Stay

(* ... or else connected to, one after the other ... *)
NoSeedAnswers ==
  /\ pc = "pop" /\ Unlocked /\ known = {}
  /\ Goto("direct")
  /\ UNCHANGED <<bookVars, dial, conn>> /\ Stay

ConnectSeed ==
  /\ pc = "direct"
  /\ \E p \in Peer : dial' = [dial EXCEPT !.peer = p, !.why = "seed"]
  /\ Goto("dial")
  /\ UNCHANGED <<bookVars, conn>> /\ Stay

(* ... or else nobody is left, and the holder does without. *)
NobodyLeft ==
  /\ pc = "direct"
  /\ IF dial.then = "resend"
     THEN Goto("fan") /\ UNCHANGED <<io, dial, yanked, block>>
     ELSE Release
  /\ UNCHANGED <<bookVars, conn, override, poolVars>>

Dialled == [NoDial EXCEPT !.then = dial.then]

(* The socket is open; version and verack are to come. *)
Dial ==
  /\ pc = "dial"
  /\ conn' = dial.peer /\ Goto("shake")
  /\ UNCHANGED <<bookVars, dial>> /\ Stay

Shaken ==
  /\ pc = "shake" /\ conn # NoPeer
  /\ Goto(dial.then) /\ dial' = Dialled
  /\ UNCHANGED <<bookVars, conn>> /\ Stay

(* The peer closes while the handshake drains what follows it: the error is
   dropped, and the caller is told that it is connected. *)
ShakenButClosed ==
  /\ pc = "shake" /\ Disconnect
  /\ Goto(dial.then) /\ dial' = Dialled
  /\ Stay

(* Mutant: the peer that is marked is read after it was cleared. *)
DialFailsLateRead ==
  /\ pc \in {"dial", "shake"} /\ (pc = "shake" => Unlocked)
  /\ conn' = NoPeer /\ dial' = Dialled /\ UNCHANGED known
  /\ \/ dial.why = "override" /\ Goto("load") /\ UNCHANGED <<bad, peersMux>>
     \/ dial.why = "seed" /\ Goto("direct") /\ UNCHANGED <<bad, peersMux>>
     \/ /\ dial.why = "known" /\ Unlocked
        /\ bad' = bad \cup {dial'.peer}
        /\ UNCHANGED peersMux /\ Goto("pop")
  /\ Stay

(* A known peer that fails is marked bad.  If few are left then, peersMux is
   taken for a refill that never comes: the loop goes on and takes it again.
   A connection that breaks during the handshake is disconnected first. *)
DialFails ==
  /\ pc \in {"dial", "shake"} /\ (pc = "shake" => Unlocked)
  /\ conn' = NoPeer /\ dial' = Dialled
  /\ known' \in {known} \cup (IF pc = "shake" THEN {known \ {conn}} ELSE {})
  /\ \/ dial.why = "override" /\ Goto("load") /\ UNCHANGED <<bad, peersMux>>
     \/ dial.why = "seed" /\ Goto("direct") /\ UNCHANGED <<bad, peersMux>>
     \/ /\ dial.why = "known" /\ Unlocked
        /\ bad' = bad \cup {dial.peer}
        /\ peersMux' = IF Cardinality(known') < RefillBelow THEN "lost" ELSE "free"
        /\ Goto("pop")
  /\ Stay

EnsureStep ==
  \/ AlreadyConnected \/ TryOverride \/ LoadCachedPeers \/ PopPeer
  \/ AskSeeds \/ NoSeedAnswers \/ ConnectSeed \/ NobodyLeft
  \/ Dial \/ Shaken \/ ShakenButClosed \/ DialFails

-----------------------------------------------------------------------------
(* A header request, of GetTipHeader, of RefreshHeadersIfStale or of the
   background loop, which probes other peers after it. *)

(* Mutant: nobody looks whether there is a connection. *)
RequestBlindly ==
  /\ pc \in {"request", "rerequest"}
  /\ Goto(IF pc = "request" THEN "await" ELSE "reawait")
  /\ UNCHANGED <<bookVars, io, dial, conn, override, yanked, block, poolVars>>

(* The request is written, if there still is a connection, and read for. *)
Request ==
  /\ pc \in {"request", "rerequest"}
  /\ \/ conn # NoPeer /\ Goto(IF pc = "request" THEN "await" ELSE "reawait")
        /\ UNCHANGED <<bookVars, io, dial, conn, yanked, block>>
     \/ Disconnect /\ Release
  /\ UNCHANGED <<override, poolVars>>

(* Mutant: a panic does not unlock. *)
HeadersEndWithConn ==
  /\ pc \in {"await", "reawait"} /\ conn # NoPeer
  /\ (pc = "await" /\ Goto("probe") /\ UNCHANGED <<io, dial, yanked, block>>) \/ Release
  /\ UNCHANGED <<bookVars, conn, override, poolVars>>

(* The answer came, or an error that leaves the connection as it is; if that
   is gone by now, the read panics. *)
HeadersEnd ==
  /\ pc \in {"await", "reawait"}
  /\ \/ pc = "await" /\ conn # NoPeer /\ Goto("probe") /\ UNCHANGED <<io, dial, yanked, block>>
     \/ Release
  /\ UNCHANGED <<bookVars, conn, override, poolVars>>

ConnectionBreaks ==
  /\ pc \in {"await", "reawait"}
  /\ conn # NoPeer /\ Disconnect /\ Release
  /\ UNCHANGED <<override, poolVars>>

(* A peer that is well ahead becomes the override, for good, and the primary. *)
SwitchPrimary ==
  /\ pc = "probe"
  /\ \E p \in (known \cup pool) \ (bad \cup {conn}) : override' = p
  /\ Disconnect
  /\ dial' = [NoDial EXCEPT !.then = "rerequest"] /\ Goto("ensure")
  /\ UNCHANGED <<io, yanked, block, poolVars>>

KeepPrimary ==
  /\ pc = "probe" /\ Unlocked /\ Release
  /\ UNCHANGED <<bookVars, conn, override, poolVars>>

SyncStep == Request \/ HeadersEnd \/ ConnectionBreaks \/ SwitchPrimary \/ KeepPrimary

-----------------------------------------------------------------------------
(* BroadcastBlock *)

Keep == UNCHANGED <<io, dial, override, yanked, poolVars>>

(* Written to the primary connection, first and after a reconnection. *)
SendToPrimary ==
  /\ pc \in {"send", "resend"} /\ conn # NoPeer
  /\ block' = [block EXCEPT !.primary = conn, !.sent = TRUE, !.got = {conn}]
  /\ Goto("fan")
  /\ UNCHANGED <<bookVars, conn>> /\ Keep

SendToPrimaryFails ==
  /\ pc \in {"send", "resend"} /\ conn # NoPeer /\ Disconnect
  /\ block' = [block EXCEPT !.primary = conn]
  /\ Goto(IF pc = "send" THEN "ensure" ELSE "fan")
  /\ Keep

NoPrimary ==
  /\ pc \in {"send", "resend"} /\ conn = NoPeer
  /\ Goto(IF pc = "send" THEN "ensure" ELSE "fan")
  /\ UNCHANGED <<bookVars, conn, block>> /\ Keep

(* The connection goes between the second write's check and the write, which
   panics; who recovers returns no error. *)
ResendPanics ==
  /\ pc = "resend" /\ conn = NoPeer /\ yanked
  /\ block' = [block EXCEPT !.verdict = "ok"] /\ Goto("done")
  /\ UNCHANGED <<bookVars, conn>> /\ Keep

(* One goroutine per pool connection other than the primary's peer. *)
FanOut ==
  /\ pc \in {"fan", "fan2"}
  /\ block' = [block EXCEPT !.sends = pool \ {block.primary}]
  /\ Goto(IF pc = "fan" THEN "fanning" ELSE "fanning2")
  /\ UNCHANGED <<bookVars, conn>> /\ Keep

SendToPeer(p) ==
  /\ p \in block.sends
  /\ block' = [block EXCEPT !.got = @ \cup {p}, !.sends = @ \ {p}]
  /\ UNCHANGED <<bookVars, pc, conn>> /\ Keep

(* Only the first round drops the connections that fail. *)
SendToPeerFails(p) ==
  /\ p \in block.sends
  /\ block' = [block EXCEPT !.sends = @ \ {p}]
  /\ pool' = IF pc = "fanning" THEN pool \ {p} ELSE pool
  /\ UNCHANGED <<bookVars, io, pc, dial, conn, override, yanked, slots, crowded>>

FanOutEnds ==
  /\ pc \in {"fanning", "fanning2"} /\ block.sends = {}
  /\ Goto(IF block.got # {} THEN "reply" ELSE IF pc = "fanning" THEN "warm" ELSE "last")
  /\ UNCHANGED <<bookVars, conn, block>> /\ Keep

(* Nobody took it: the first three known peers are connected to, one by one. *)
LastResort ==
  /\ pc = "last" /\ Unlocked
  /\ \E S \in SUBSET known :
       /\ Cardinality(S) = IF Cardinality(known) < 3 THEN Cardinality(known) ELSE 3
       /\ block' = [block EXCEPT !.tries = S]
  /\ Goto("trying")
  /\ UNCHANGED <<bookVars, conn>> /\ Keep

TryOne ==
  /\ pc = "trying" /\ Unlocked
  /\ \E p \in block.tries : LET tried == [block EXCEPT !.tries = @ \ {p}] IN
       \/ block' = tried
       \/ p # block.primary /\ p \notin bad /\ block' = [tried EXCEPT !.got = @ \cup {p}]
  /\ UNCHANGED <<bookVars, pc, conn>> /\ Keep

TriedAll ==
  /\ pc = "trying" /\ block.tries = {}
  /\ Goto("reply")
  /\ UNCHANGED <<bookVars, conn, block>> /\ Keep

(* Mutant: a peer in the pool is a peer that took the block. *)
VerdictOfPool == IF block.got = {} /\ pool = {} THEN "failed" ELSE "ok"

Verdict == IF block.got = {} THEN "failed" ELSE "ok"

(* The primary rejects a block, any block, or says nothing of it, or closes,
   or its connection is gone and the read panics. *)
Reply ==
  /\ pc = "reply"
  /\ \/ UNCHANGED <<bookVars, conn>>
     \/ block.sent /\ conn # NoPeer /\ Disconnect
  /\ block' = [block EXCEPT !.verdict = Verdict]
  /\ Goto("done") /\ Keep

Reject ==
  /\ pc = "reply" /\ block.sent /\ conn # NoPeer
  /\ block' = [block EXCEPT !.verdict = "rejected"]
  /\ Goto("done")
  /\ UNCHANGED <<bookVars, conn>> /\ Keep

BlockDone ==
  /\ pc = "done" /\ Release
  /\ UNCHANGED <<bookVars, conn, override, poolVars>>

-----------------------------------------------------------------------------
(* maintainBroadcastConnections: the free slots are counted, then candidates
   (the override, the primary, known peers, none bad or in the pool by then)
   are connected to one after the other.  Which, and how many, is left open. *)

Tending == {w \in Maintainer : slots[w] # 0}

StartTending(w) ==
  /\ w \notin Tending /\ Unlocked
  /\ Cardinality(pool) < MaxBroadcast
  /\ slots' = [slots EXCEPT ![w] = MaxBroadcast - Cardinality(pool)]
  /\ crowded' = (Tending # {})

Tick ==
  /\ StartTending("ticker")
  /\ UNCHANGED <<bookVars, io, pc, dial, conn, override, yanked, block, pool>>

(* A block that nobody took starts a warm-up and waits for it, but not long. *)
WarmUp ==
  /\ pc = "warm" /\ Goto("fan2")
  /\ \/ UNCHANGED <<slots, crowded>>
     \/ \E w \in Maintainer \ {"ticker"} : StartTending(w)
  /\ UNCHANGED <<bookVars, io, dial, conn, override, yanked, block, pool>>

Elsewhere == UNCHANGED <<io, pc, dial, conn, override, yanked, block>>

(* Mutant: it takes a slot only if it was there before. *)
ReachPeerForNothing(w, p) ==
  /\ w \in Tending
  /\ pool' = pool \cup {p}
  /\ slots' = [slots EXCEPT ![w] = IF p \in pool THEN @ - 1 ELSE @]
  /\ UNCHANGED <<bookVars, crowded>> /\ Elsewhere

(* The peer shakes hands.  Is it in the pool by now, the new connection is
   closed again and takes no slot. *)
ReachPeer(w, p) ==
  /\ w \in Tending
  /\ pool' = pool \cup {p}
  /\ slots' = [slots EXCEPT ![w] = IF p \in pool THEN @ ELSE @ - 1]
  /\ UNCHANGED <<bookVars, crowded>> /\ Elsewhere

PeerUnreachable(w, p) ==
  /\ w \in Tending /\ Unlocked
  /\ bad' = bad \cup {p}
  /\ UNCHANGED <<known, peersMux, poolVars>> /\ Elsewhere

NoMoreCandidates(w) ==
  /\ w \in Tending
  /\ slots' = [slots EXCEPT ![w] = 0]
  /\ UNCHANGED <<bookVars, pool, crowded>> /\ Elsewhere

TendStep(w) == NoMoreCandidates(w) \/ \E p \in Peer : ReachPeer(w, p) \/ PeerUnreachable(w, p)

-----------------------------------------------------------------------------
(* The harvester, the bad list's clock, the callers of Disconnect, a restart. *)

(* A peer of the list or the pool tells of others, bad ones too. *)
HarvestFromPeer ==
  /\ Unlocked /\ known \cup pool # {}
  /\ \E S \in SUBSET Peer : known' = known \cup S
  /\ UNCHANGED <<bad, peersMux, poolVars>> /\ Elsewhere

(* Two minutes later, or half a minute if it connected twice before. *)
ForgivePeer ==
  /\ Unlocked
  /\ \E p \in bad : bad' = bad \ {p}
  /\ UNCHANGED <<known, peersMux, poolVars>> /\ Elsewhere

(* The mining loop and Stop call Disconnect without primaryIOMux.  It also
   stops the harvester for good; nothing here depends on that going on. *)
Yank ==
  /\ Disconnect
  /\ yanked' = (io # "free")
  /\ UNCHANGED <<io, pc, dial, override, block, poolVars>>

Restart ==
  /\ known' \in SUBSET Peer /\ bad' = {} /\ peersMux' = "free"
  /\ Release
  /\ conn' = NoPeer /\ override' \in Peer \cup {NoPeer}
  /\ pool' = {} /\ slots' = [w \in Maintainer |-> 0] /\ crowded' = FALSE

BlockStep ==
  \/ SendToPrimary \/ SendToPrimaryFails \/ NoPrimary \/ ResendPanics
  \/ FanOut \/ FanOutEnds \/ WarmUp \/ LastResort \/ TryOne \/ TriedAll
  \/ Reply \/ Reject \/ BlockDone

SenderStep(p) == SendToPeer(p) \/ SendToPeerFails(p)
PrimaryStep == EnsureStep \/ SyncStep \/ BlockStep

NetNext ==
  \/ Take("sync") \/ Take("block") \/ PrimaryStep \/ (\E p \in Peer : SenderStep(p))
  \/ Tick \/ (\E w \in Maintainer : TendStep(w))
  \/ HarvestFromPeer \/ ForgivePeer \/ Yank \/ Restart

(* A peer answers or its connection breaks, and of infinitely many peers that
   are dialled one answers and shakes hands. *)
NetFairness ==
  /\ WF_netVars(PrimaryStep) /\ SF_netVars(Dial) /\ SF_netVars(Shaken)
  /\ \A p \in Peer : WF_netVars(SenderStep(p))

NetSpec == NetInit /\ [][NetNext]_netVars /\ NetFairness

-----------------------------------------------------------------------------
NetTypeOK ==
  /\ known \subseteq Peer /\ bad \subseteq Peer /\ peersMux \in {"free", "lost"}
  /\ io \in {"free", "sync", "block"}
  /\ pc \in {"idle", "ensure", "load", "pop", "direct", "dial", "shake", "request", "rerequest",
             "await", "reawait", "probe", "send", "resend", "fan", "fanning", "warm", "fan2",
             "fanning2", "last", "trying", "reply", "done"}
  /\ dial \in [peer : Peer \cup {NoPeer}, why : {"none", "override", "known", "seed"},
               then : {"none", "request", "rerequest", "resend"}]
  /\ {conn, override} \subseteq Peer \cup {NoPeer}
  /\ yanked \in BOOLEAN /\ crowded \in BOOLEAN
  /\ block \in [primary : Peer \cup {NoPeer}, sent : BOOLEAN, sends : SUBSET Peer,
                tries : SUBSET Peer, got : SUBSET Peer,
                verdict : {"none", "ok", "failed", "rejected"}]
  /\ pool \subseteq Peer
  /\ slots \in [Maintainer -> 0..MaxBroadcast]

(* The pool outgrows its ten slots only by two maintainers that counted its
   free slots at the same time. *)
PoolWithinLimit == Cardinality(pool) > MaxBroadcast => crowded

(* BroadcastBlock returns no error only if it wrote the block to somebody, and
   "failed to broadcast block to any peer" only if to nobody; but a connection
   pulled from under it makes it panic, which its caller sees as a success. *)
VerdictMeansSent ==
  /\ block.verdict = "ok" => block.got # {} \/ yanked
  /\ block.verdict = "failed" => block.got = {}
  /\ block.verdict = "rejected" => block.primary \in block.got

(* A goroutine that waits for an answer has a connection to read from, unless
   somebody without primaryIOMux has disconnected it.  (A read without one
   panics, and in the background loop nothing recovers.) *)
ReaderHasConn == pc \in {"await", "reawait"} /\ conn = NoPeer => yanked

(* Whoever takes primaryIOMux gives it back, whatever its peers do, unless
   peersMux is lost. *)
PrimaryIsReleased == io # "free" ~> io = "free" \/ peersMux = "lost"

(* "when no peers left, fetch more from seeds" (p2p.go:969) and "Break out of
   peer-trying loop to trigger DNS seed resolution" (p2p.go:1033): a peer that
   cannot be reached does not keep primaryIOMux taken for ever. *)
ConnectEnds == io # "free" ~> io = "free"
=============================================================================
