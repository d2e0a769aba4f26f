SPECIFICATION FairSpec
CONSTANTS
  r1 = r1  r2 = r2  r3 = r3  r4 = r4  r5 = r5  door = door
  Relays = {r1, r2, r3, r4, r5}
  Others = {door}
  SpawnFlags <- NetFlags
  OnTrigger <- NetTrigger
  OnSpawn <- NetSpawn
  StartDisabled = {r2}
  Wired <- NetWired
  FrameTime = 2
  MaxPosts = 3
PROPERTIES FramesEnd WaitEnds
INVARIANTS WaitHasItsEvent RefiresAfterLastOutput
CHECK_DEADLOCK FALSE
