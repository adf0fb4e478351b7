SPECIFICATION LifeSpec
CONSTANTS
  Button = {b1}
  Configurer = {c1}
  Restarter = re
  Account = {a1, a2}
  Loop = {l1, l2}
  None = None
INVARIANTS
  LifeTypeOK
  StatusIsTrue
  MonitorFollows
PROPERTIES
  StopReturns
  StoppedIsLeftAlone
