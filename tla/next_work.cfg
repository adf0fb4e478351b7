SPECIFICATION WorkSpec
CONSTANTS
  Base = 16
  MaxDigits = 8
  PowLimit = 4194303
  PowLimitCompact = 25598
  DigishieldStart = 1
  MinDiffStart = 2
  FirstBits <- MCFirstBits
  Gap <- MCGap
  Clock <- MCClock
  MaxHeight = 5
INVARIANTS
  WorkTypeOK
  TemplateAgrees
  RetargetIsExact
PROPERTIES
  TargetFollowsTime
CHECK_DEADLOCK FALSE
