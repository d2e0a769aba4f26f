SPECIFICATION FairSpec
CONSTANTS
  p1 = p1  p2 = p2
  Players = {p1, p2}
  MapTeams = {2, 3}
  DeathAnimation = 1
  ForceDelay = 2
  SuicideDelay = 2
INVARIANTS RosterMatches ObserversAreSpectators
PROPERTIES RespawnWaits TeamChangeKills DeadComeBack
CHECK_DEADLOCK FALSE
