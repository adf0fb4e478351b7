SPECIFICATION SyncSpec
CONSTANTS
  G = G
  A1 = A1
  A2 = A2
  B2 = B2
  B3 = B3
  NoBlock = NoBlock
  NoSuchHash = NoSuchHash
  Garbled = Garbled
  Block <- MCBlock
  Genesis = G
  Parent <- MCParent
  Height <- MCHeight
  Ancestors <- MCAncestors
  Bits <- MCBits
  PowLimit = 1
  Checkpoints = {}
  HistoryCap = 2
  LocatorKeep = 3
  OverlappingReset = FALSE
  NoCheckpoint = NoCheckpoint
  MaxHeaders = 2
  LocatorSend = 2
  SwitchLead = 2
  TipRetries = 2
  MaxLag = 1
  MaxReorgs = 1
  MaxFaults = 0
  MaxCrashes = 0
PROPERTIES
  LeavesAbandonedBranch
