SPECIFICATION MineSpec
CONSTANTS
  G = G
  A1 = A1
  M2 = M2
  N2 = N2
  M3 = M3
  B3 = B3
  B4 = B4
  B5 = B5
  NoBlock = NoBlock
  NoSuchHash = NoSuchHash
  Garbled = Garbled
  Block <- MCBlock
  Genesis = G
  Parent <- MCParent
  Height <- MCHeight
  Ancestors <- MCAncestors
  Bits <- MCBits
  PowLimit = 1
  Checkpoints = {}
  HistoryCap = 2
  LocatorKeep = 3
  OverlappingReset = FALSE
  Mined <- MCMined
  PowHash <- MCPowHash
  Checker = {"ticker"}
  SubmittedCap = 1
INVARIANTS
  MineTypeOK
  WorkOnOwnChain
  SubmittedAreTracked
PROPERTIES
  CommitsAtOnce
  TornByOneCommit
  KeepsMining
  EveryBlockJudged
