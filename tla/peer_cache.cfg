SPECIFICATION CacheSpec
CONSTANTS
  Peer = {p1, p2, p3}
  Updater = {u1, u2, u3}
  CacheCap = 2
  LegacyCap = 1
SYMMETRY Symmetry
INVARIANTS
  CacheTypeOK
  CacheStaysSmall
PROPERTIES
  CacheKeepsPeers
