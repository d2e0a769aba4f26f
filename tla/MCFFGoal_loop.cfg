SPECIFICATION FairSpec
CONSTANTS
  flag = flag  gate = gate  beacon = beacon  relic = relic
  p1 = p1  p2 = p2  red = red  blue = blue
  Goals = {beacon, relic}
  Players = {p1}
  Teams = {red}
  World = World
  Null = Null
  Kind <- LoopKind
  SpawnFlags <- LoopFlags
  ActiveDelay <- LoopDelay
  ActiveTime <- LoopTime
  TeamsAllowed <- LoopTeams
  Criteria <- LoopCriteria
  MaxRounds = 1
INVARIANTS PhaseMatchesTimer InfoDrawnWhileOffered
PROPERTIES ImplementsCycle OutputsTellThePhase DisabledStaysAtRest ActivationEnds DisabledLoopStops
CHECK_DEADLOCK FALSE
