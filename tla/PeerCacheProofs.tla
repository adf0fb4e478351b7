---------------------------- MODULE PeerCacheProofs ----------------------------
(* Proofs about PeerCache, for any number of goroutines and peers and any two   *)
(* limits: the file keeps to its limit and forgets no peer of itself.           *)
EXTENDS PeerCache, FiniteSetTheorems, TLAPS

USE DEF cacheVars

Stage == {"idle", "read", "write"}
Update == [stage : Stage, copy : SUBSET Peer, old : BOOLEAN]

(* The actions that begin, go on with and end an update. *)
LEMMA CacheCases ==
  ASSUME [CacheNext]_cacheVars
  PROVE  \/ \E u \in Updater : ReadCache(u) \/ LoadLegacy(u)
         \/ \E u \in Updater : Migrate(u) \/ \E p \in Peer : AddPeer(u, p)
         \/ \E u \in Updater : DropPeer(u) \/ WriteCache(u)
         \/ Crash \/ UNCHANGED cacheVars
BY DEF CacheNext

-----------------------------------------------------------------------------
(* Types. *)

LEMMA NoUpdateType == NoUpdate \in Update
BY DEF NoUpdate, Update, Stage

LEMMA CacheTypeStep ==
  ASSUME CacheTypeOK, [CacheNext]_cacheVars
  PROVE  CacheTypeOK'
<1> USE DEF CacheTypeOK, Stage, Update
<1>1. ASSUME NEW u \in Updater, ReadCache(u) \/ LoadLegacy(u)
      PROVE  CacheTypeOK'
  <2>1. CASE ReadCache(u)
    BY <2>1 DEF ReadCache, Enters, Updating
  <2>2. CASE LoadLegacy(u)
    BY <2>2 DEF LoadLegacy, Enters, Updating
  <2> QED
    BY <1>1, <2>1, <2>2
<1>2. ASSUME NEW u \in Updater, Migrate(u) \/ \E p \in Peer : AddPeer(u, p)
      PROVE  CacheTypeOK'
  BY <1>2 DEF Migrate, AddPeer
<1>3. ASSUME NEW u \in Updater, DropPeer(u) \/ WriteCache(u)
      PROVE  CacheTypeOK'
  <2>1. update' \in [Updater -> Update]
    BY <1>3, NoUpdateType DEF DropPeer, WriteCache, Ends
  <2>2. clash' \in BOOLEAN
    BY <1>3, Zenon DEF DropPeer, WriteCache, Ends
  <2>3. legacy' \subseteq Peer
    BY <1>3 DEF DropPeer, WriteCache
  <2>4. /\ file' \subseteq Peer /\ state' \in {"absent", "empty", "garbled", "whole"}
        /\ state' # "whole" => file' = {}
    BY <1>3 DEF DropPeer, WriteCache
  <2> QED
    BY <2>1, <2>2, <2>3, <2>4
<1>4. CASE Crash
  BY <1>4, NoUpdateType DEF Crash
<1>5. CASE UNCHANGED cacheVars
  BY <1>5
<1> QED
  BY <1>1, <1>2, <1>3, <1>4, <1>5, CacheCases

(* The file is one of addresses, and holds none that cannot be read
   (updatePeerResult, loadCachedPeersLegacy). *)
THEOREM CacheTypeCorrect == CacheSpec => []CacheTypeOK
<1>1. CacheInit => CacheTypeOK
  <2> SUFFICES ASSUME CacheInit PROVE CacheTypeOK
    OBVIOUS
  <2>1. update \in [Updater -> Update]
    BY NoUpdateType DEF CacheInit
  <2>2. clash \in BOOLEAN
    BY Zenon DEF CacheInit
  <2> QED
    BY <2>1, <2>2 DEF CacheInit, CacheTypeOK, Update, Stage
<1> QED
  BY <1>1, CacheTypeStep, PTL DEF CacheSpec

-----------------------------------------------------------------------------
(* The limit: so do the copies that goroutines hold of the file. *)

Small(S) == Cardinality(S) <= CacheCap

SmallInv ==
  /\ Small(file)
  /\ \A u \in Updater : Small(update[u].copy)

LEMMA SmallSets ==
  /\ Small({})
  /\ \A S \in SUBSET Peer : Cardinality(S) <= LegacyCap => Small(S)
  /\ \A S \in SUBSET Peer, p \in Peer :
       Small(S) /\ (p \in S \/ Cardinality(S) < CacheCap) => Small(S \cup {p})
<1> USE PeerCacheAssumption DEF Small
<1>1. \A S \in SUBSET Peer : IsFiniteSet(S) /\ Cardinality(S) \in Nat
  BY FS_Subset, FS_CardinalityType
<1>2. Small({})
  BY FS_EmptySet
<1>3. ASSUME NEW S \in SUBSET Peer, Cardinality(S) <= LegacyCap
      PROVE  Small(S)
  BY <1>1, <1>3
<1>4. ASSUME NEW S \in SUBSET Peer, NEW p \in Peer, Small(S),
             p \in S \/ Cardinality(S) < CacheCap
      PROVE  Small(S \cup {p})
  <2>1. CASE p \in S
    <3>1. S \cup {p} = S
      BY <2>1
    <3> QED
      BY <1>4, <3>1
  <2>2. CASE p \notin S
    <3>1. Cardinality(S \cup {p}) = Cardinality(S) + 1
      BY <1>1, <2>2, FS_AddElement
    <3> QED
      BY <1>1, <1>4, <2>2, <3>1
  <2> QED
    BY <2>1, <2>2
<1> QED
  BY <1>2, <1>3, <1>4

LEMMA SmallStep ==
  ASSUME CacheTypeOK, SmallInv, [CacheNext]_cacheVars
  PROVE  SmallInv'
<1> USE DEF SmallInv, CacheTypeOK
<1>1. ASSUME NEW u \in Updater, ReadCache(u) \/ LoadLegacy(u)
      PROVE  SmallInv'
  <2>1. file' = file /\ update' \in [Updater -> Update]
    BY <1>1, CacheTypeStep DEF ReadCache, LoadLegacy, Enters, CacheNext, Update, Stage
  <2>2. \E S \in SUBSET Peer : Small(S) /\ update'[u].copy = S
    <3>1. CASE ReadCache(u)
      BY <3>1 DEF ReadCache, Enters
    <3>2. CASE LoadLegacy(u)
      BY <3>2, SmallSets DEF LoadLegacy, Enters
    <3> QED
      BY <1>1, <3>1, <3>2
  <2>3. \A v \in Updater \ {u} : update'[v] = update[v]
    BY <1>1 DEF ReadCache, LoadLegacy, Enters
  <2> QED
    BY <2>1, <2>2, <2>3
<1>2. ASSUME NEW u \in Updater, Migrate(u)
      PROVE  SmallInv'
  BY <1>2, SmallSets DEF Migrate
<1>3. ASSUME NEW u \in Updater, NEW p \in Peer, AddPeer(u, p)
      PROVE  SmallInv'
  <2>1. Small(update[u].copy \cup {p})
    BY <1>3, SmallSets DEF AddPeer
  <2> QED
    BY <1>3, <2>1, SmallSets DEF AddPeer
<1>4. ASSUME NEW u \in Updater, DropPeer(u) \/ WriteCache(u)
      PROVE  SmallInv'
  <2>1. Small(file')
    BY <1>4, SmallSets DEF DropPeer, WriteCache
  <2>2. /\ Small(NoUpdate.copy)
        /\ update' = [update EXCEPT ![u] = NoUpdate]
    BY <1>4, SmallSets DEF DropPeer, WriteCache, Ends, NoUpdate
  <2> QED
    BY <2>1, <2>2
<1>5. CASE Crash
  BY <1>5, SmallSets DEF Crash, NoUpdate
<1>6. CASE UNCHANGED cacheVars
  BY <1>6
<1> QED
  BY <1>1, <1>2, <1>3, <1>4, <1>5, <1>6, CacheCases

(* However many updates of the file overlap, it never outgrows its limit, which
   no call checks but against its own copy (p2p.go:424). *)
THEOREM CacheAlwaysSmall == CacheSpec => []CacheStaysSmall
<1>1. CacheInit => SmallInv
  BY SmallSets DEF CacheInit, SmallInv, Small, NoUpdate
<1>2. SmallInv => CacheStaysSmall
  BY DEF SmallInv, Small, CacheStaysSmall
<1> QED
  BY <1>1, <1>2, SmallStep, CacheTypeCorrect, PTL DEF CacheSpec

-----------------------------------------------------------------------------
(* Nothing is forgotten.  As long as updates do not clash there is one at most,
   its copy is what the file held, and once it writes nobody else has. *)

AloneInv ==
  ~clash =>
    \A u \in Updating :
      /\ Updating = {u}
      /\ update[u].stage = "read" /\ ~update[u].old => update[u].copy = file
      /\ update[u].stage = "read" /\ update[u].old => file = {}
      /\ update[u].stage = "write" => state = "empty"

LEMMA AloneStep ==
  ASSUME CacheTypeOK, AloneInv, [CacheNext]_cacheVars
  PROVE  AloneInv'
<1> USE DEF AloneInv, CacheTypeOK, Updating
<1>1. ASSUME NEW u \in Updater, ReadCache(u) \/ LoadLegacy(u), ~clash'
      PROVE  AloneInv'
  <2>1. ~clash /\ Updating = {}
    BY <1>1 DEF ReadCache, LoadLegacy, Enters
  <2>2. Updating' = {u}
    BY <1>1, <2>1 DEF ReadCache, LoadLegacy, Enters
  <2>3. CASE ReadCache(u)
    BY <2>2, <2>3 DEF ReadCache, Enters
  <2>4. CASE LoadLegacy(u)
    BY <2>2, <2>4 DEF LoadLegacy, Enters
  <2> QED
    BY <1>1, <2>3, <2>4
<1>2. ASSUME NEW u \in Updater, Migrate(u) \/ \E p \in Peer : AddPeer(u, p), ~clash'
      PROVE  AloneInv'
  <2>1. ~clash /\ u \in Updating /\ Updating' = Updating
    BY <1>2 DEF Migrate, AddPeer
  <2>2. update'[u].stage = "write" /\ state' = "empty"
    BY <1>2 DEF Migrate, AddPeer
  <2> QED
    BY <2>1, <2>2
<1>3. ASSUME NEW u \in Updater, DropPeer(u) \/ WriteCache(u), ~clash'
      PROVE  AloneInv'
  <2>1. u \in Updating /\ Updating' = Updating \ {u}
    BY <1>3 DEF DropPeer, WriteCache, Ends, Writing, NoUpdate
  <2>2. ~clash \/ Updating = {u}
    BY <1>3 DEF DropPeer, WriteCache, Ends
  <2>3. Updating' = {}
    BY <2>1, <2>2
  <2> QED
    BY <2>3
<1>4. CASE Crash
  BY <1>4 DEF Crash, NoUpdate
<1>5. CASE UNCHANGED cacheVars
  BY <1>5
<1> QED
  BY <1>1, <1>2, <1>3, <1>4, <1>5, CacheCases

LEMMA KeepStep ==
  ASSUME CacheTypeOK, AloneInv, [CacheNext]_cacheVars, ~clash, ~clash'
  PROVE  Cached \subseteq Cached'
<1> USE DEF AloneInv, CacheTypeOK, Updating, Writing, Cached
<1>1. ASSUME NEW u \in Updater, ReadCache(u) \/ LoadLegacy(u)
      PROVE  Cached \subseteq Cached'
  <2>1. file' = file /\ u \notin Writing
    BY <1>1 DEF ReadCache, LoadLegacy, Enters
  <2>2. \A v \in Writing : v \in Writing' /\ update'[v] = update[v]
    BY <1>1, <2>1 DEF ReadCache, LoadLegacy, Enters
  <2> QED
    BY <2>1, <2>2
<1>2. ASSUME NEW u \in Updater, Migrate(u) \/ \E p \in Peer : AddPeer(u, p)
      PROVE  Cached \subseteq Cached'
  <2>1. Updating = {u} /\ Writing = {}
    BY <1>2 DEF Migrate, AddPeer
  <2>2. u \in Writing' /\ update[u].copy \subseteq update'[u].copy
    BY <1>2 DEF Migrate, AddPeer
  <2>3. file \subseteq update[u].copy
    BY <1>2, <2>1 DEF Migrate, AddPeer
  <2> QED
    BY <2>1, <2>2, <2>3
<1>3. ASSUME NEW u \in Updater, DropPeer(u)
      PROVE  Cached \subseteq Cached'
  <2>1. Writing = {} /\ file' = file
    BY <1>3 DEF DropPeer
  <2> QED
    BY <2>1
<1>4. ASSUME NEW u \in Updater, WriteCache(u)
      PROVE  Cached \subseteq Cached'
  <2>1. Writing = {u} /\ state = "empty" /\ file = {}
    BY <1>4 DEF WriteCache
  <2>2. file' = update[u].copy
    BY <1>4, <2>1 DEF WriteCache
  <2> QED
    BY <2>1, <2>2
<1>5. CASE Crash
  <2>1. Updating = {}
    BY <1>5 DEF Crash
  <2> QED
    BY <1>5, <2>1 DEF Crash
<1>6. CASE UNCHANGED cacheVars
  BY <1>6
<1> QED
  BY <1>1, <1>2, <1>3, <1>4, <1>5, <1>6, CacheCases

(* No call takes an address out of the file: it is lost to two that overlap or
   to a crash, never to a load, an update or the switch to the old file. *)
THEOREM CacheAlwaysKeepsPeers == CacheSpec => CacheKeepsPeers
<1>1. CacheInit => AloneInv
  BY DEF CacheInit, AloneInv, Updating, NoUpdate
<1>2. CacheTypeOK /\ AloneInv /\ [CacheNext]_cacheVars
      => [clash \/ clash' \/ Cached \subseteq Cached']_cacheVars
  BY KeepStep
<1> QED
  BY <1>1, <1>2, AloneStep, CacheTypeCorrect, PTL DEF CacheSpec, CacheKeepsPeers
=============================================================================
