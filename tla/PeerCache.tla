------------------------------- MODULE PeerCache -------------------------------
(***************************************************************************)
(* The file of known peers.  Every goroutine of every P2PClient that has      *)
(* dialled a peer, or was told of some, reads the file, changes the entry     *)
(* and writes the file back (updatePeerResult), with no lock at all; and a    *)
(* client that finds the file unreadable puts the peers of the old text file  *)
(* in its place (loadCachedPeersLegacy).                                      *)
(*                                                                          *)
(* Of an entry only the address is kept.                                      *)
(***************************************************************************)
EXTENDS Naturals, FiniteSets

CONSTANTS
  Peer,       \* addresses
  Updater,    \* goroutines
  CacheCap,   \* 200: the entries of the file
  LegacyCap   \* 50: the entries taken from the text file

ASSUME PeerCacheAssumption ==
  /\ IsFiniteSet(Peer)
  /\ CacheCap \in Nat /\ LegacyCap \in 0..CacheCap

VARIABLES
  file,     \* the addresses in the file, none if it cannot be parsed
  state,    \* it is "absent", "empty" (truncated), "garbled" or "whole"
  legacy,   \* the addresses in the text file
  update,   \* each goroutine's update in progress
  clash     \* history: of the updates under way, two have overlapped, or the
            \* process died in one

cacheVars == <<file, state, legacy, update, clash>>

NoUpdate == [stage |-> "idle", copy |-> {}, old |-> FALSE]

CacheInit ==
  /\ state \in {"absent", "empty", "garbled", "whole"}
  /\ file \in SUBSET Peer /\ Cardinality(file) <= CacheCap
  /\ state # "whole" => file = {}
  /\ legacy \in SUBSET Peer
  /\ update = [u \in Updater |-> NoUpdate]
  /\ clash = FALSE

Updating == {u \in Updater : update[u].stage # "idle"}
Writing == {u \in Updater : update[u].stage = "write"}

Enters(u, r) ==
  /\ u \notin Updating
  /\ update' = [update EXCEPT ![u] = r]
  /\ clash' = (clash \/ Updating # {})

(* The last update under way ends, and with it what it clashed with. *)
Ends(u) ==
  /\ update' = [update EXCEPT ![u] = NoUpdate]
  /\ clash' = (clash /\ Updating # {u})

-----------------------------------------------------------------------------
(* updatePeerResult and loadCachedPeers.  A file that cannot be parsed is, to
   the first, an empty one. *)

ReadCache(u) ==
  /\ Enters(u, [stage |-> "read", copy |-> file, old |-> FALSE])
  /\ UNCHANGED <<file, state, legacy>>

(* Mutant: the file is not truncated before it is written. *)
AddPeerInPlace(u, p) ==
  /\ update[u].stage = "read"
  /\ p \in update[u].copy \/ Cardinality(update[u].copy) < CacheCap
  /\ state' = "garbled"
  /\ update' = [update EXCEPT ![u].stage = "write", ![u].copy = @ \cup {p}]
  /\ UNCHANGED <<file, legacy, clash>>

(* Mutant: the entries that were read are not kept. *)
AddPeerAlone(u, p) ==
  /\ update[u].stage = "read" /\ ~update[u].old
  /\ p \in update[u].copy \/ Cardinality(update[u].copy) < CacheCap
  /\ file' = {} /\ state' = "empty"
  /\ update' = [update EXCEPT ![u].stage = "write", ![u].copy = {p}]
  /\ UNCHANGED <<legacy, clash>>

(* Mutant: a full cache takes one more. *)
AddPeerToFull(u, p) ==
  /\ update[u].stage = "read" /\ ~update[u].old
  /\ p \in update[u].copy \/ Cardinality(update[u].copy) <= CacheCap
  /\ file' = {} /\ state' = "empty"
  /\ update' = [update EXCEPT ![u].stage = "write", ![u].copy = @ \cup {p}]
  /\ UNCHANGED <<legacy, clash>>

(* The entry is found, or added if there is room; writing truncates first. *)
AddPeer(u, p) ==
  /\ update[u].stage = "read" /\ ~update[u].old
  /\ p \in update[u].copy \/ Cardinality(update[u].copy) < CacheCap
  /\ file' = {} /\ state' = "empty"
  /\ update' = [update EXCEPT ![u].stage = "write", ![u].copy = @ \cup {p}]
  /\ UNCHANGED <<legacy, clash>>

DropPeer(u) ==
  /\ update[u].stage = "read" /\ ~update[u].old /\ Cardinality(update[u].copy) >= CacheCap
  /\ Ends(u)
  /\ UNCHANGED <<file, state, legacy>>

(* A load that finds the file unreadable, if only for an instant, turns to the text
   file.  Which of its peers are not bad is left open. *)
LoadLegacy(u) ==
  /\ state \in {"empty", "garbled"} /\ legacy # {}
  /\ \E S \in SUBSET legacy \ {{}} :
       /\ Cardinality(S) <= LegacyCap
       /\ Enters(u, [stage |-> "read", copy |-> S, old |-> TRUE])
  /\ UNCHANGED <<file, state, legacy>>

Migrate(u) ==
  /\ update[u].stage = "read" /\ update[u].old
  /\ file' = {} /\ state' = "empty"
  /\ update' = [update EXCEPT ![u].stage = "write"]
  /\ UNCHANGED <<legacy, clash>>

(* What another update wrote since the truncation is written over; if it was
   longer its end is left, and the file cannot be parsed.  The text file is
   deleted after that, which may fail: it is still open. *)
WriteCache(u) ==
  /\ u \in Writing
  /\ \/ file' = update[u].copy /\ state' = "whole"
     \/ state \in {"whole", "garbled"} /\ file' = {} /\ state' = "garbled"
  /\ legacy' \in IF update[u].old THEN {{}, legacy} ELSE {legacy}
  /\ Ends(u)

(* The process may die at any moment; another one finds what is on disk. *)
Crash ==
  /\ update' = [u \in Updater |-> NoUpdate]
  /\ clash' = (Updating # {})
  /\ UNCHANGED <<file, state, legacy>>

CacheNext ==
  \/ \E u \in Updater :
       \/ ReadCache(u) \/ DropPeer(u) \/ LoadLegacy(u) \/ Migrate(u) \/ WriteCache(u)
       \/ \E p \in Peer : AddPeer(u, p)
  \/ Crash

CacheSpec == CacheInit /\ [][CacheNext]_cacheVars

-----------------------------------------------------------------------------
CacheTypeOK ==
  /\ file \subseteq Peer /\ legacy \subseteq Peer
  /\ state \in {"absent", "empty", "garbled", "whole"} /\ (state # "whole" => file = {})
  /\ update \in [Updater -> [stage : {"idle", "read", "write"}, copy : SUBSET Peer, old : BOOLEAN]]
  /\ clash \in BOOLEAN

(* What the file holds, counting what is about to be written to it. *)
Cached == file \cup UNION {update[u].copy : u \in Writing}

(* The file forgets a peer only when two goroutines are at it at once or the
   process dies in an update: no single call takes an address out, the switch
   to the old text file's peers included. *)
CacheKeepsPeers == [][clash \/ clash' \/ Cached \subseteq Cached']_cacheVars

(* However many updates overlap, and whichever copy wins, the file never holds
   more than its 200 entries. *)
CacheStaysSmall == Cardinality(file) <= CacheCap
=============================================================================
