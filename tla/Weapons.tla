------------------------------ MODULE Weapons ------------------------------
(***************************************************************************)
(* The weapons of a map: those the level designer placed, which leave a    *)
(* copy behind to come back later when they are taken; those that an       *)
(* info_ff_weapon_spawner keeps out of sight and gives to who touches it;  *)
(* those that players are given, carry, drop and lose.  One weapon is a    *)
(* record that each function of the code maps to a new one.  Times are     *)
(* ticks until an entity thinks.                                           *)
(***************************************************************************)
EXTENDS Integers, FiniteSets, FiniteSetsExt, TLC

CONSTANTS
  Players, Ids,
  Spots,         (* where the designer placed weapons                      *)
  Spawners,      (* the info_ff_weapon_spawner entities                    *)
  Classes,
  MapClass,      (* [Spots -> Classes]: which                              *)
  Allowed,       (* [Spawners -> SUBSET Classes]: m_iWeaponArray           *)
  GivenClass,    (* what GiveDefaultItems gives                            *)
  Disposable,    (* classes that are gone when used up (SLAM)              *)
  FallTime, DropTime, FadeTime, StripTime, RespawnTime, SpawnerTime,
  WeaponStay,    (* whether weaponstay may be set                          *)
  MaxRounds,     (* bound: how often the map is cleaned up                 *)
  Origin, Away,  (* vec3_origin, and anywhere else than at a spot          *)
  None

ASSUME WeaponsAssumption ==
  /\ MapClass \in [Spots -> Classes] /\ Allowed \in [Spawners -> SUBSET Classes]
  /\ GivenClass \in Classes /\ Disposable \subseteq Classes
  /\ {FallTime, DropTime, FadeTime, StripTime, RespawnTime, SpawnerTime} \subseteq Nat \ {0}
  /\ WeaponStay \subseteq BOOLEAN /\ MaxRounds \in Nat
  /\ IsFiniteSet(Spots) /\ IsFiniteSet(Spawners)
  /\ Spots \cap (Spawners \cup Players) = {} /\ Spawners \cap Players = {}
  /\ Origin \notin Spots /\ Away \notin Spots \cup {Origin}
  /\ None \notin Ids \cup Players \cup Spots \cup Spawners

VARIABLES
  weapon,  (* [Ids -> Weapon \cup {None}]                                  *)
  inv,     (* [Players -> SUBSET Ids]: m_hMyWeapons                        *)
  alive,   (* the players in the game who are alive                        *)
  spawner, (* [Spawners -> SpawnerState]                                   *)
  listed,  (* m_hRespawnableItemsAndWeapons                                *)
  stay,    (* weaponstay                                                   *)
  part,    (* of the frame: "commands" of the clients and game rules, or   *)
           (* "think"                                                      *)
  rounds,
  early    (* history: where weapons were taken that had not noted yet     *)
           (* where they came from                                         *)

vars == <<weapon, inv, alive, spawner, listed, stay, part, rounds, early>>

Weapon ==
  [class   : Classes,
   owner   : Players \cup {None},
   touch   : BOOLEAN,   (* DefaultTouch is its touch function              *)
   solid   : BOOLEAN,   (* what players run into                           *)
   think   : {"none", "fall", "pickup", "materialize", "remove"},
   tick    : Int,
   final   : BOOLEAN,   (* SF_NORESPAWN                                    *)
   at      : Spots \cup {Origin, Away},
   home    : Spots \cup {Origin, Away},   (* m_vOriginalSpawnOrigin        *)
   loaded  : BOOLEAN,   (* there may be ammunition in its clip             *)
   marked  : BOOLEAN]   (* EFL_KILLME                                      *)

SpawnerState ==
  [weapon : Ids \cup {None}, touch : BOOLEAN, think : BOOLEAN, tick : Int]

ASSUME NoneAssumption == None \notin Weapon

-----------------------------------------------------------------------------
(* What the functions of a weapon do to it.                                *)

Thinks(r, think, tick) == [r EXCEPT !.think = think, !.tick = tick]
StopsThinking(r) == Thinks(r, "none", 0)

SetPickupTouch(r) ==
  IF r.final THEN [Thinks(r, "remove", FadeTime) EXCEPT !.touch = TRUE]
  ELSE [r EXCEPT !.touch = TRUE]

FallInit(r) == [Thinks(SetPickupTouch(r), "fall", FallTime) EXCEPT !.solid = TRUE]

(* A weapon made by the engine or by code, once it has spawned. *)
Spawned(class, at, final) ==
  FallInit([class |-> class, owner |-> None, touch |-> FALSE, solid |-> TRUE,
            think |-> "none", tick |-> 0, final |-> final, at |-> at, home |-> Origin,
            loaded |-> TRUE, marked |-> FALSE])

(* It notes where it is, the first time. *)
NotesHome(r) ==
  IF ~r.final /\ r.home = Origin THEN [r EXCEPT !.home = r.at] ELSE r

(* Mutant of Materialize: it goes on thinking. *)
MaterializeThinking(r) == SetPickupTouch(NotesHome(r))

Materialize(r) == StopsThinking(SetPickupTouch(NotesHome(r)))

(* Mutant of Respawn: the copy is not told when to think. *)
RespawnUnscheduled(r) ==
  [StopsThinking(Spawned(r.class, r.home, FALSE)) EXCEPT !.touch = FALSE]

(* The copy that comes back in place of a weapon that is taken. *)
Respawn(r) ==
  [Thinks(Spawned(r.class, r.home, FALSE), "materialize",
          IF stay THEN 1 ELSE RespawnTime) EXCEPT !.touch = FALSE]

(* What is set anew before it is read is not told apart while a player     *)
(* carries the weapon.                                                     *)
Carried(r, p) ==
  [r EXCEPT !.owner = p, !.touch = FALSE, !.solid = FALSE, !.at = Away,
            !.home = Origin, !.final = FALSE, !.loaded = TRUE]

(* Mutant of Equip: the weapon goes on thinking. *)
EquipThinking(r, p) == Carried(r, p)

Equip(r, p) == StopsThinking(Carried(r, p))

(* Mutant of Drop: it may come back. *)
DropRespawning(r) ==
  [Thinks(FallInit(r), "pickup", DropTime)
     EXCEPT !.touch = FALSE, !.owner = None, !.loaded = TRUE]

Drop(r) ==
  [Thinks(FallInit([r EXCEPT !.final = TRUE]), "pickup", DropTime)
     EXCEPT !.touch = FALSE, !.owner = None, !.loaded = TRUE]

(* Delete: the owner stays noted. *)
Delete(r) == [Thinks(r, "remove", StripTime) EXCEPT !.touch = FALSE]

UTIL_Remove(r) == [r EXCEPT !.marked = TRUE]

-----------------------------------------------------------------------------
(* The world.                                                              *)

Exists(w)  == weapon[w] # None
Live(w)    == Exists(w) /\ ~weapon[w].marked
Owns(p, c) == \E w \in inv[p] : weapon[w].class = c
Free       == {w \in Ids : ~Exists(w)}

(* Ids for new entities, one for each element of N: one choice will do.    *)
AnyNames(N, ids) ==
  FoldSet(LAMBDA n, f : f @@ (n :> CHOOSE w \in ids : \A m \in DOMAIN f : f[m] # w), <<>>, N)

Names(N, ids) == {AnyNames(N, ids)} \cap Injection(N, ids)

(* Bound: an id is kept for each spawner that waits. *)
Room(n) ==
  Cardinality(Free) >= n + Cardinality({s \in Spawners : spawner[s].think})

(* The id of the copy, if the weapon leaves one. *)
CopyOf(w) == IF weapon[w].final THEN {} ELSE {CHOOSE v \in Free : TRUE}

(* CheckRespawn, and w becomes r. *)
CheckRespawn(w, r) ==
  /\ weapon' = [v \in Ids |-> IF v = w THEN r
                              ELSE IF v \in CopyOf(w) THEN Respawn(weapon[w]) ELSE weapon[v]]
  /\ early' = IF ~weapon[w].final /\ weapon[w].home = Origin
                THEN early \cup ({weapon[w].at} \cap Spots) ELSE early

OnPickedUp(w) == listed' = listed \ {w}

(* A player without a weapon of its class takes it. *)
TakeWeapon(p, w, r) ==
  /\ ~Owns(p, r.class) /\ r.owner = None
  /\ CheckRespawn(w, Equip(r, p))
  /\ inv' = [inv EXCEPT ![p] = @ \cup {w}]
  /\ OnPickedUp(w)

(* One who has such a weapon takes its ammunition, if he has room for it.  *)
TakeAmmo(p, w) ==
  /\ Owns(p, weapon[w].class) /\ weapon[w].owner = None /\ ~stay /\ weapon[w].loaded
  /\ CheckRespawn(w, UTIL_Remove(weapon[w]))
  /\ OnPickedUp(w)
  /\ UNCHANGED inv

(* A player runs into a weapon; if he does not take it nothing happens. *)
Touch(p, w) ==
  /\ p \in alive /\ Live(w) /\ weapon[w].touch /\ weapon[w].solid /\ Room(1)
  /\ TakeWeapon(p, w, weapon[w]) \/ TakeAmmo(p, w)
  /\ UNCHANGED <<alive, spawner, stay, part, rounds>>

-----------------------------------------------------------------------------
(* The spawner.                                                            *)

SetWait(s) ==
  [weapon |-> None, touch |-> FALSE, think |-> TRUE, tick |-> SpawnerTime]

(* The hidden weapon is filled if it is new to the player, and moved to    *)
(* him; if he refuses it, it stays where he was.                           *)
SpawnerTouch(p, s) ==
  /\ p \in alive /\ spawner[s].touch /\ spawner[s].weapon # None /\ Room(1)
  /\ LET w == spawner[s].weapon
         r == [weapon[w] EXCEPT !.at = Away, !.loaded = @ \/ ~Owns(p, weapon[w].class)]
     IN  IF r.touch /\ r.owner = None /\ ~Owns(p, r.class)
           THEN TakeWeapon(p, w, r)
           ELSE /\ weapon' = [weapon EXCEPT ![w] = r]
                /\ UNCHANGED <<inv, listed, early>>
  /\ spawner' = [spawner EXCEPT ![s] = SetWait(s)]
  /\ UNCHANGED <<alive, stay, part, rounds>>

(* ThinkNextSpawn.  The weapon spawns at the origin of the map, then it is *)
(* hidden and emptied.                                                     *)
Offered(class) ==
  [Spawned(class, Origin, FALSE) EXCEPT !.solid = FALSE, !.final = TRUE, !.loaded = FALSE]

ForceNextSpawn(s) ==
  /\ spawner[s].think /\ spawner[s].tick = 0
  /\ IF Allowed[s] = {}
       THEN /\ spawner' = [spawner EXCEPT ![s].think = FALSE]
            /\ UNCHANGED weapon
       ELSE /\ Free # {}
            /\ LET w == CHOOSE v \in Free : TRUE
               IN  /\ \E class \in Allowed[s] : weapon' = [weapon EXCEPT ![w] = Offered(class)]
                   /\ spawner' = [spawner EXCEPT ![s] =
                        [weapon |-> w, touch |-> TRUE, think |-> FALSE, tick |-> 0]]
  /\ UNCHANGED <<inv, alive, listed, stay, part, rounds, early>>

-----------------------------------------------------------------------------
(* What a weapon's think functions do.                                     *)

Becomes(w, r) == weapon' = [weapon EXCEPT ![w] = r]

(* FallThink: has it come to rest, or is it on the ground?  The copy waits *)
(* for AttemptToMaterialize.                                               *)
Materializes(w) ==
  /\ Becomes(w, Materialize(weapon[w]))
  /\ listed' = IF weapon[w].final THEN listed ELSE listed \cup {w}

ThinkDue(w) == Exists(w) /\ weapon[w].think # "none" /\ weapon[w].tick = 0

Think(w) ==
  /\ ThinkDue(w)
  /\ LET r == weapon[w]
     IN  \/ /\ r.think \in {"fall", "materialize"}
            /\ Materializes(w)
         \/ /\ r.think = "fall"
            /\ Becomes(w, Thinks(r, "fall", FallTime))
            /\ UNCHANGED listed
         \/ /\ r.think = "pickup"
            /\ Becomes(w, SetPickupTouch(StopsThinking(r)))
            /\ UNCHANGED listed
         \/ /\ r.think = "remove"
            /\ Becomes(w, UTIL_Remove(StopsThinking(r)))
            /\ UNCHANGED listed
  /\ UNCHANGED <<inv, alive, spawner, stay, part, rounds, early>>

-----------------------------------------------------------------------------
(* What happens to players.  Bound: what a player does himself is done     *)
(* before the thinks of a frame; things touch and players die at any time. *)

Loses(p, w) == inv' = [inv EXCEPT ![p] = @ \ {w}]

(* Event_Killed: the active weapon, if there is one, is dropped. *)
Die(p) ==
  /\ p \in alive
  /\ alive' = alive \ {p}
  /\ \/ \E w \in inv[p] : Loses(p, w) /\ Becomes(w, Drop(weapon[w]))
     \/ UNCHANGED <<inv, weapon>>
  /\ UNCHANGED <<spawner, listed, stay, part, rounds, early>>

(* A weapon that is used up drops itself and is gone. *)
UseUp(p, w) ==
  /\ part = "commands" /\ p \in alive /\ w \in inv[p] /\ weapon[w].class \in Disposable
  /\ Loses(p, w)
  /\ Becomes(w, UTIL_Remove(Drop(weapon[w])))
  /\ UNCHANGED <<alive, spawner, listed, stay, part, rounds, early>>

(* The weapons after RemoveAllItems of the players P. *)
Stripped(P) ==
  [w \in Ids |-> IF \E p \in P : w \in inv[p] THEN Delete(weapon[w]) ELSE weapon[w]]

RemoveAllItems(p) ==
  /\ part = "commands" /\ inv[p] # {}
  /\ weapon' = Stripped({p})
  /\ inv' = [inv EXCEPT ![p] = {}]
  /\ UNCHANGED <<alive, spawner, listed, stay, part, rounds, early>>

Given(p) == Equip(Spawned(GivenClass, Away, TRUE), p)

(* Spawn, with GiveDefaultItems; who comes back has been stripped. *)
Spawn(p) ==
  /\ part = "commands" /\ p \notin alive /\ inv[p] = {} /\ Room(1)
  /\ LET w == CHOOSE v \in Free : TRUE
     IN  Becomes(w, Given(p)) /\ inv' = [inv EXCEPT ![p] = {w}]
  /\ alive' = alive \cup {p}
  /\ UNCHANGED <<spawner, listed, stay, part, rounds, early>>

(* Disconnecting: all items are removed, and what still follows the player *)
(* goes with him.                                                          *)
Leave(p) ==
  /\ part = "commands" /\ p \in alive
  /\ weapon' = [w \in Ids |-> IF Exists(w) /\ weapon[w].owner = p
                                THEN UTIL_Remove(Stripped({p})[w]) ELSE weapon[w]]
  /\ inv' = [inv EXCEPT ![p] = {}]
  /\ alive' = alive \ {p}
  /\ UNCHANGED <<spawner, listed, stay, part, rounds, early>>

-----------------------------------------------------------------------------
(* The frame, and the game rules.                                          *)

(* A weapon that lies around is pushed away. *)
Push(w) ==
  /\ part = "think" /\ Live(w) /\ w \in listed /\ weapon[w].at # Away
  /\ Becomes(w, [weapon[w] EXCEPT !.at = Away])
  /\ UNCHANGED <<inv, alive, spawner, listed, stay, part, rounds, early>>

(* Those of the list that have come to rest away from home. *)
ManageObjectRelocation ==
  /\ part = "commands"
  /\ \E W \in SUBSET {w \in listed : Exists(w) /\ weapon[w].at # weapon[w].home} \ {{}} :
       weapon' = [w \in Ids |-> IF w \in W THEN [weapon[w] EXCEPT !.at = weapon[w].home] ELSE weapon[w]]
  /\ UNCHANGED <<inv, alive, spawner, listed, stay, part, rounds, early>>

Older(r) == IF r = None \/ r.think = "none" THEN r ELSE [r EXCEPT !.tick = @ - 1]

(* CleanupDeleteList; the handles to what is deleted resolve to nothing. *)
Marked == {w \in Ids : Exists(w) /\ weapon[w].marked}

Forget(W) ==
  /\ listed' = listed \ W
  /\ inv' = [p \in Players |-> inv[p] \ W]

Resolves(h) == IF h \in Marked THEN None ELSE h

(* A frame begins with a clean-up, then the thinks that are due are run.   *)
StartFrame ==
  /\ part = "commands" /\ part' = "think"
  /\ weapon' = [w \in Ids |-> IF w \in Marked THEN None ELSE Older(weapon[w])]
  /\ spawner' = [s \in Spawners |->
                   [spawner[s] EXCEPT !.weapon = Resolves(@),
                                      !.tick = IF spawner[s].think THEN @ - 1 ELSE @]]
  /\ Forget(Marked)
  /\ UNCHANGED <<alive, stay, rounds, early>>

(* It ends with another. *)
EndFrame ==
  /\ part = "think" /\ part' = "commands"
  /\ \A w \in Ids : ~ThinkDue(w)
  /\ \A s \in Spawners : spawner[s].think => spawner[s].tick > 0
  /\ weapon' = [w \in Ids |-> IF w \in Marked THEN None ELSE weapon[w]]
  /\ spawner' = [s \in Spawners |-> [spawner[s] EXCEPT !.weapon = Resolves(@)]]
  /\ Forget(Marked)
  /\ UNCHANGED <<alive, stay, rounds, early>>

(* The entities of the map, and the weapons they start with. *)
Stocked == {s \in Spawners : Allowed[s] # {}}
Stocks  == {class \in [Stocked -> Classes] : \A s \in Stocked : class[s] \in Allowed[s]}
Made(n, class) ==
  IF n \in Spots THEN Spawned(MapClass[n], n, FALSE) ELSE Offered(class[n])
Fresh(f) ==
  [s \in Spawners |-> [weapon |-> IF s \in Stocked THEN f[s] ELSE None,
                       touch |-> s \in Stocked, think |-> FALSE, tick |-> 0]]

(* RestartGame: CleanUpMap removes the weapons that have no owner and all  *)
(* that was marked, and loads the map again; then the players lose what    *)
(* they have and come back, of the dead those who died long enough ago.    *)
RestartGame ==
  LET kept == {w \in Ids : Live(w) /\ weapon[w].owner # None}
      made == Spots \cup Stocked
  IN  /\ part = "commands" /\ rounds < MaxRounds
      /\ \E D \in SUBSET (Players \ alive) :
           LET back == alive \cup D
           IN  /\ Cardinality(made \cup back) <= Cardinality(Ids \ kept)
               /\ \E f \in Names(made \cup back, Ids \ kept), class \in Stocks :
                    /\ weapon' = [w \in Ids |->
                         IF \E n \in made : f[n] = w THEN Made(CHOOSE n \in made : f[n] = w, class)
                         ELSE IF \E p \in back : f[p] = w THEN Given(CHOOSE p \in back : f[p] = w)
                         ELSE IF w \in kept THEN Stripped(Players)[w] ELSE None]
                    /\ inv' = [p \in Players |-> IF p \in back THEN {f[p]} ELSE {}]
                    /\ spawner' = Fresh(f)
               /\ alive' = back
      /\ listed' = listed \cap kept /\ early' = {}
      /\ rounds' = rounds + 1
      /\ UNCHANGED <<stay, part>>

-----------------------------------------------------------------------------
Init ==
  /\ \E f \in Names(Spots \cup Stocked, Ids), class \in Stocks :
       /\ weapon = [w \in Ids |->
            IF \E n \in Spots \cup Stocked : f[n] = w
              THEN Made(CHOOSE n \in Spots \cup Stocked : f[n] = w, class) ELSE None]
       /\ spawner = Fresh(f)
  /\ inv = [p \in Players |-> {}] /\ alive = {}
  /\ listed = {} /\ early = {}
  /\ stay \in WeaponStay /\ part = "commands"
  /\ rounds = 0

Next ==
  \/ \E p \in Players :
       \/ \E w \in Ids : Touch(p, w) \/ UseUp(p, w)
       \/ \E s \in Spawners : SpawnerTouch(p, s)
       \/ Die(p) \/ RemoveAllItems(p) \/ Spawn(p) \/ Leave(p)
  \/ \E w \in Ids : Think(w) \/ Push(w)
  \/ \E s \in Spawners : ForceNextSpawn(s)
  \/ ManageObjectRelocation \/ RestartGame \/ StartFrame \/ EndFrame

Spec == Init /\ [][Next]_vars

(* Frames go on, and each runs the thinks that are due.                    *)
FrameStep ==
  \/ \E w \in Ids : Think(w)
  \/ \E s \in Spawners : ForceNextSpawn(s)
  \/ StartFrame \/ EndFrame

FairSpec == Spec /\ WF_vars(FrameStep)
-----------------------------------------------------------------------------
(* Properties.                                                             *)

(* The weapons that are there, or on their way, to be taken and come back. *)
Place(r) == IF r.home = Origin THEN r.at ELSE r.home
Placed   == {w \in Ids : Live(w) /\ ~weapon[w].final /\ weapon[w].owner = None}
PlacedAt(s) == {w \in Placed : Place(weapon[w]) = s}

(* However weapons are taken, dropped, stripped and pushed around, there   *)
(* are as many of those that come back as the designer placed; and each    *)
(* place has exactly one, or one on its way that knows its place, unless   *)
(* one was taken there in the first instant, before it had noted where it  *)
(* was.                                                                    *)
OneWeaponPerSpot ==
  /\ Cardinality(Placed) = Cardinality(Spots)
  /\ \A s \in Spots \ early : Cardinality(PlacedAt(s)) = 1

(* A weapon that a player carries is his alone and nothing is under way    *)
(* that would take it from him: no think of its earlier life as a dropped  *)
(* or spawning weapon, no touch, no relocation.                            *)
CarriedIsSafe ==
  \A p \in Players : \A w \in inv[p] :
    /\ Live(w) /\ weapon[w].owner = p
    /\ ~weapon[w].touch /\ weapon[w].think = "none"
    /\ w \notin listed

(* A spawner offers a weapon that can be taken, or waits for its think; it *)
(* never offers one that is gone, and never waits without a think.         *)
SpawnerOffersOrWaits ==
  \A s \in Stocked :
    LET w == spawner[s].weapon
    IN  IF spawner[s].touch
          THEN /\ w # None /\ Live(w) /\ weapon[w].touch /\ weapon[w].owner = None
               /\ ~spawner[s].think
          ELSE w = None /\ spawner[s].think

(* Whatever is taken is offered again. *)
WeaponsComeBack ==
  /\ []<>(\E w \in Placed : weapon[w].touch)
  /\ \A s \in Stocked : []<>(spawner[s].touch)
=============================================================================
