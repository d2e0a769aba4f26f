SPECIFICATION FairSpec
CONSTANTS
  p1 = p1
  p2 = p2
  s1 = s1
  sp = sp
  gun = gun
  w1 = w1
  w2 = w2
  w3 = w3
  w4 = w4
  None = None
  Origin = Origin
  Away = Away
  Players = {p1, p2}
  Ids = {w1, w2, w3, w4}
  Spots = {s1}
  Spawners = {sp}
  Classes = {gun}
  MapClass <- Map
  Allowed <- Stock
  GivenClass = gun
  Disposable = {gun}
  FallTime = 1
  DropTime = 1
  FadeTime = 1
  StripTime = 1
  RespawnTime = 1
  SpawnerTime = 1
  WeaponStay = {FALSE}
  MaxRounds = 1
INVARIANTS OneWeaponPerSpot CarriedIsSafe SpawnerOffersOrWaits
PROPERTY WeaponsComeBack
CHECK_DEADLOCK FALSE
