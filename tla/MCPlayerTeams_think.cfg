SPECIFICATION Spec
CONSTANTS
  p1 = p1  p2 = p2
  Players = {p1}
  MapTeams = {2, 3}
  DeathAnimation = 3
  ForceDelay = 5
  SuicideDelay = 5
INVARIANTS DeathThinkSpawns
CHECK_DEADLOCK FALSE
