SPECIFICATION FairSpec
CONSTANTS
  Nil = Nil
  NumSlots = 4
  NumEntities = 4
  MaxEdicts = 1
  SerialMod = 2
  FirstSerial <- Serials
  Fleeting = {2, 3}
  MaxDepth = 3
INVARIANTS ListsAgree HandlesResolve PointersAreLive ClearLeavesNothing
PROPERTIES WalkVisitsAll RemovedAreDeleted
CHECK_DEADLOCK FALSE
