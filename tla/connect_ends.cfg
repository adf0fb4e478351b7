SPECIFICATION NetSpec
CONSTANTS
  Peer = {p1}
  NoPeer = NoPeer
  Maintainer = {"ticker", "warm-up"}
  MaxBroadcast = 1
  RefillBelow = 1
PROPERTIES
  ConnectEnds
