SPECIFICATION FairSpec
CONSTANTS
  p1 = p1  p2 = p2
  Players = {p1, p2}
  TimeLimits = {0, 4}
  ChatTime = 2
  Period = 1
  ReadyDelay = 2
  DeathAnimation = 1
  Delays = {1, 4}
  MaxDelay = 2
INVARIANT FrozenInIntermission
PROPERTIES ReadyRestartNeedsAll RestartComes ReadyRestartComes IntermissionEnds RestartStartsAnew
CHECK_DEADLOCK FALSE
