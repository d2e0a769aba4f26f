SPECIFICATION Spec
CONSTANTS
  r1 = r1  r2 = r2  r3 = r3  r4 = r4  r5 = r5  door = door
  Relays = {r1}
  Others = {door}
  SpawnFlags <- OnceFlags
  OnTrigger <- OnceTrigger
  OnSpawn <- OnceSpawn
  StartDisabled = {}
  Wired <- OnceWired
  FrameTime = 2
  MaxPosts = 2
INVARIANTS RefiresAfterLastOutput
CHECK_DEADLOCK FALSE
