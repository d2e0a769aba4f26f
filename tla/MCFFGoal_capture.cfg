SPECIFICATION Spec
CONSTANTS
  flag = flag  gate = gate  beacon = beacon  relic = relic
  p1 = p1  p2 = p2  red = red  blue = blue
  Goals = {flag, relic, gate}
  Players = {p1, p2}
  Teams = {red, blue}
  World = World
  Null = Null
  Kind <- CaptureKind
  SpawnFlags <- CaptureFlags
  ActiveDelay <- CaptureDelay
  ActiveTime <- CaptureTime
  TeamsAllowed <- CaptureTeams
  Criteria <- CaptureCriteria
  MaxRounds = 0
INVARIANTS ItemDrawnOrCarried CriteriaAgree
PROPERTIES CarrierKeepsItem
CHECK_DEADLOCK FALSE
