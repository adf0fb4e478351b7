SPECIFICATION NetSpec
CONSTANTS
  Peer = {p1, p2}
  NoPeer = NoPeer
  Maintainer = {"ticker", "warm-up"}
  MaxBroadcast = 1
  RefillBelow = 1
INVARIANTS
  NetTypeOK
  PoolWithinLimit
  VerdictMeansSent
  ReaderHasConn
PROPERTIES
  PrimaryIsReleased
