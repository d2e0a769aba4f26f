SPECIFICATION NetFairSpec
CONSTANTS
  plate = plate  flag = flag  door = door  vault = vault
  p1 = p1  red = red
  Goals = {plate, flag, door, vault}
  Players = {p1}
  Teams = {red}
  World = World
  Null = Null
  Kind <- DoorKind
  SpawnFlags <- DoorFlags
  ActiveDelay <- DoorDelay
  ActiveTime <- DoorTime
  TeamsAllowed <- DoorTeams
  Criteria <- DoorCriteria
  MaxRounds = 1
  MaxQueue = 6
  Names = {"plate", "door", "vault", "doors"}
  Named <- DoorNamed
  Wires <- DoorWires
INVARIANTS MirrorsFollow
PROPERTIES FramesEnd
CHECK_DEADLOCK FALSE
