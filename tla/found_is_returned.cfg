SPECIFICATION Spec
CONSTANTS
  Width = 5
  ThreadCount = 3
  MaxHashes = 100
  MaxHashesThisRound = 12
  BatchSize = 2
  MinPerThread = 2
  StartBase = {0, 1, 9, 14, 21, 31}
  Solutions <- MCSolutions
  ReversedSolutions <- MCReversed
INVARIANTS
  FoundBlockIsReturned
CHECK_DEADLOCK FALSE
