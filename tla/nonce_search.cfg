SPECIFICATION MineSpec
CONSTANTS
  Width = 5
  ThreadCount = 3
  MaxHashes = 100
  MaxHashesThisRound = 17
  BatchSize = 2
  MinPerThread = 2
  Chunk = 3
  Unit = 8
  DeviceBatch = {100}
  StartBase = {0, 9, 31}
  Solutions <- MCSolutions
  ReversedSolutions <- MCReversed
  FalseHits <- MCFalseHits
INVARIANTS
  RoundTypeOK
  OneWinner
  ReturnedNonceSolves
  EmptyRoundSpendsBudget
  NoNonceTwice
PROPERTIES
  RoundEndsUnlessWrapped
CHECK_DEADLOCK FALSE
