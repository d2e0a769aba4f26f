SPECIFICATION Spec
CONSTANTS
  p1 = p1  p2 = p2
  Players = {p1, p2}
  TimeLimits = {0}
  ChatTime = 1
  Period = 1
  ReadyDelay = 2
  DeathAnimation = 1
  Delays = {1}
  MaxDelay = 2
PROPERTIES RestartOnlyOnSignals
CHECK_DEADLOCK FALSE
