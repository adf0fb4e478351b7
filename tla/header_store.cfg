SPECIFICATION StoreSpec
CONSTANTS
  G = G
  A1 = A1
  A2 = A2
  A3 = A3
  B2 = B2
  B3 = B3
  NoBlock = NoBlock
  NoSuchHash = NoSuchHash
  Garbled = Garbled
  Block <- MCBlock
  Genesis = G
  Parent <- MCParent
  Height <- MCHeight
  Ancestors <- MCAncestors
  Bits <- MCBits
  PowLimit = 1
  Checkpoints <- MCCheckpoints
  HistoryCap = 2
  LocatorKeep = 3
  OverlappingReset = FALSE
INVARIANTS
  StoreTypeOK
  LocatorIsChain
  TipHeightCorrect
  TipParentCorrect
  HistoryAgreesWithLocator
PROPERTIES
  TipOnlyExtends
