--------------------------- MODULE WeaponsProofs ---------------------------
(***************************************************************************)
(* Theorems about Weapons, for any number of players, places, spawners and *)
(* classes of weapons.                                                     *)
(***************************************************************************)
EXTENDS Weapons, FiniteSetTheorems, TLAPS

(* The invariant.  A weapon that p carries, and one that a spawner offers. *)
CarriedBy(r, p) ==
  r \in Weapon /\ ~r.marked /\ r.owner = p /\ ~r.touch /\ r.think = "none"

Offers(r) ==
  /\ r \in Weapon /\ ~r.marked /\ r.touch /\ r.owner = None
  /\ ~r.solid /\ r.final /\ r.think \in {"fall", "none"}

Types ==
  /\ weapon \in [Ids -> Weapon \cup {None}]
  /\ inv \in [Players -> SUBSET Ids]
  /\ alive \subseteq Players
  /\ listed \subseteq {w \in Ids : Exists(w)}
  /\ spawner \in [Spawners -> SpawnerState]

Carrying ==
  \A p \in Players : \A w \in inv[p] : CarriedBy(weapon[w], p) /\ w \notin listed

Offering ==
  \A s \in Spawners :
    IF spawner[s].touch
      THEN /\ spawner[s].weapon \in Ids /\ Offers(weapon[spawner[s].weapon])
           /\ ~spawner[s].think
      ELSE spawner[s].weapon = None /\ (s \in Stocked => spawner[s].think)

Distinct ==
  \A s, t \in Spawners :
    spawner[s].touch /\ spawner[t].touch /\ spawner[s].weapon = spawner[t].weapon => s = t

IInv == Types /\ Carrying /\ Offering /\ Distinct
-----------------------------------------------------------------------------
(* What the functions of a weapon preserve.                                *)

(* The empty handle is no weapon, no player and no id. *)
LEMMA NoneIsNobody == None \notin Weapon /\ None \notin Players /\ None \notin Ids
  BY WeaponsAssumption, NoneAssumption

(* The times until thinks are integers. *)
LEMMA Times ==
  {FallTime, DropTime, FadeTime, StripTime, RespawnTime, SpawnerTime} \subseteq Int
  BY WeaponsAssumption

Thoughts == {"none", "fall", "pickup", "materialize", "remove"}

(* A think is set and nothing else changes. *)
LEMMA ThinksType ==
  ASSUME NEW r \in Weapon, NEW think \in Thoughts, NEW tick \in Int
  PROVE  /\ Thinks(r, think, tick) \in Weapon
         /\ Thinks(r, think, tick).think = think
         /\ Thinks(r, think, tick).touch = r.touch /\ Thinks(r, think, tick).solid = r.solid
         /\ Thinks(r, think, tick).owner = r.owner /\ Thinks(r, think, tick).marked = r.marked
         /\ Thinks(r, think, tick).final = r.final
  BY DEF Thinks, Weapon, Thoughts

(* SetPickupTouch makes a weapon touchable. *)
LEMMA PickupType ==
  ASSUME NEW r \in Weapon
  PROVE  /\ SetPickupTouch(r) \in Weapon /\ SetPickupTouch(r).touch
         /\ SetPickupTouch(r).solid = r.solid /\ SetPickupTouch(r).owner = r.owner
         /\ SetPickupTouch(r).marked = r.marked /\ SetPickupTouch(r).final = r.final
<1> DEFINE t == Thinks(r, "remove", FadeTime)
<1>1. /\ t \in Weapon /\ t.solid = r.solid /\ t.owner = r.owner
      /\ t.marked = r.marked /\ t.final = r.final
  <2>1. "remove" \in Thoughts /\ FadeTime \in Int
    BY Times DEF Thoughts
  <2> QED BY <2>1, ThinksType
<1> HIDE DEF t
<1>2. CASE r.final
  <2>1. SetPickupTouch(r) = [t EXCEPT !.touch = TRUE]
    BY <1>2 DEF SetPickupTouch, t
  <2> QED BY <1>1, <2>1 DEF Weapon
<1>3. CASE ~r.final
  <2>1. SetPickupTouch(r) = [r EXCEPT !.touch = TRUE]
    BY <1>3 DEF SetPickupTouch
  <2> QED BY <2>1 DEF Weapon
<1> QED BY <1>2, <1>3

(* FallInit makes a weapon touchable and lets it fall. *)
LEMMA FallInitType ==
  ASSUME NEW r \in Weapon
  PROVE  /\ FallInit(r) \in Weapon /\ FallInit(r).touch /\ FallInit(r).think = "fall"
         /\ FallInit(r).owner = r.owner /\ FallInit(r).marked = r.marked
         /\ FallInit(r).final = r.final
<1> DEFINE t == Thinks(SetPickupTouch(r), "fall", FallTime)
<1>1. /\ t \in Weapon /\ t.touch /\ t.think = "fall" /\ t.owner = r.owner
      /\ t.marked = r.marked /\ t.final = r.final
  <2>1. "fall" \in Thoughts /\ FallTime \in Int
    BY Times DEF Thoughts
  <2> DEFINE q == SetPickupTouch(r)
  <2>2. /\ q \in Weapon /\ q.touch /\ q.owner = r.owner
        /\ q.marked = r.marked /\ q.final = r.final
    BY PickupType
  <2> HIDE DEF q
  <2>3. /\ Thinks(q, "fall", FallTime) \in Weapon /\ Thinks(q, "fall", FallTime).touch = q.touch
        /\ Thinks(q, "fall", FallTime).think = "fall"
        /\ Thinks(q, "fall", FallTime).owner = q.owner
        /\ Thinks(q, "fall", FallTime).marked = q.marked
        /\ Thinks(q, "fall", FallTime).final = q.final
    BY <2>1, <2>2, ThinksType
  <2> QED BY <2>2, <2>3 DEF q
<1> HIDE DEF t
<1>2. FallInit(r) = [t EXCEPT !.solid = TRUE]
  BY DEF FallInit, t
<1> QED BY <1>1, <1>2 DEF Weapon

(* A spawned weapon falls, touchable and without an owner. *)
LEMMA SpawnedType ==
  ASSUME NEW class \in Classes, NEW at \in Spots \cup {Origin, Away}, NEW final \in BOOLEAN
  PROVE  /\ Spawned(class, at, final) \in Weapon /\ Spawned(class, at, final).touch
         /\ Spawned(class, at, final).think = "fall" /\ Spawned(class, at, final).owner = None
         /\ ~Spawned(class, at, final).marked
<1> DEFINE r == [class |-> class, owner |-> None, touch |-> FALSE, solid |-> TRUE,
                 think |-> "none", tick |-> 0, final |-> final, at |-> at, home |-> Origin,
                 loaded |-> TRUE, marked |-> FALSE]
<1>1. r \in Weapon /\ r.owner = None /\ ~r.marked
  BY DEF Weapon
<1> HIDE DEF r
<1>2. Spawned(class, at, final) = FallInit(r)
  BY DEF Spawned, r
<1> QED BY <1>1, <1>2, FallInitType

(* Respawn keeps the type. *)
LEMMA RespawnType == ASSUME NEW r \in Weapon PROVE Respawn(r) \in Weapon
<1> DEFINE tick == IF stay THEN 1 ELSE RespawnTime
           t == Thinks(Spawned(r.class, r.home, FALSE), "materialize", tick)
<1>1. tick \in Int
  BY Times
<1>2. Spawned(r.class, r.home, FALSE) \in Weapon
  BY SpawnedType DEF Weapon
<1> HIDE DEF tick
<1>3. t \in Weapon
  <2>1. "materialize" \in Thoughts
    BY DEF Thoughts
  <2> QED BY <1>1, <1>2, <2>1, ThinksType
<1>4. Respawn(r) = [t EXCEPT !.touch = FALSE]
  BY DEF Respawn, tick
<1> HIDE DEF t
<1> QED BY <1>3, <1>4 DEF Weapon

(* Equip clears touch and think: the weapon is carried safely. *)
LEMMA EquipCarries ==
  ASSUME NEW r \in Weapon, ~r.marked, NEW p \in Players
  PROVE  CarriedBy(Equip(r, p), p)
<1>1. /\ Carried(r, p) \in Weapon /\ ~Carried(r, p).marked
      /\ Carried(r, p).owner = p /\ ~Carried(r, p).touch
  BY DEF Carried, Weapon
<1> DEFINE q == Carried(r, p)
<1>2. "none" \in Thoughts /\ 0 \in Int
  BY DEF Thoughts
<1>3. /\ Thinks(q, "none", 0) \in Weapon /\ Thinks(q, "none", 0).think = "none"
      /\ Thinks(q, "none", 0).marked = q.marked /\ Thinks(q, "none", 0).owner = q.owner
      /\ Thinks(q, "none", 0).touch = q.touch
  BY <1>1, <1>2, ThinksType
<1> QED BY <1>1, <1>3 DEF Equip, StopsThinking, CarriedBy

(* Drop keeps the type. *)
LEMMA DropType == ASSUME NEW r \in Weapon PROVE Drop(r) \in Weapon
<1> DEFINE q == [r EXCEPT !.final = TRUE]
           t == Thinks(FallInit(q), "pickup", DropTime)
<1>1. q \in Weapon
  BY DEF Weapon
<1> HIDE DEF q
<1>2. t \in Weapon
  <2>1. "pickup" \in Thoughts /\ DropTime \in Int
    BY Times DEF Thoughts
  <2>2. FallInit(q) \in Weapon
    BY <1>1, FallInitType
  <2> QED BY <2>1, <2>2, ThinksType
<1>3. Drop(r) = [t EXCEPT !.touch = FALSE, !.owner = None, !.loaded = TRUE]
  BY DEF Drop, q
<1> HIDE DEF t
<1> QED BY <1>2, <1>3 DEF Weapon

(* Delete keeps the type. *)
LEMMA DeleteType == ASSUME NEW r \in Weapon PROVE Delete(r) \in Weapon
<1> DEFINE t == Thinks(r, "remove", StripTime)
<1>1. "remove" \in Thoughts /\ StripTime \in Int
  BY Times DEF Thoughts
<1>2. t \in Weapon
  BY <1>1, ThinksType
<1>3. Delete(r) = [t EXCEPT !.touch = FALSE]
  BY DEF Delete
<1> HIDE DEF t
<1> QED BY <1>2, <1>3 DEF Weapon

(* UTIL_Remove keeps the type. *)
LEMMA RemoveType == ASSUME NEW r \in Weapon PROVE UTIL_Remove(r) \in Weapon
  BY DEF UTIL_Remove, Weapon

(* A weapon that is given is carried safely. *)
LEMMA GivenCarries == ASSUME NEW p \in Players PROVE CarriedBy(Given(p), p)
<1>1. GivenClass \in Classes
  BY WeaponsAssumption
<1>2. Spawned(GivenClass, Away, TRUE) \in Weapon /\ ~Spawned(GivenClass, Away, TRUE).marked
  BY <1>1, SpawnedType
<1> QED BY <1>2, EquipCarries DEF Given

(* What a spawner makes is on offer. *)
LEMMA OfferedOffers == ASSUME NEW class \in Classes PROVE Offers(Offered(class))
<1> DEFINE r == Spawned(class, Origin, FALSE)
<1>1. r \in Weapon /\ r.touch /\ r.think = "fall" /\ r.owner = None /\ ~r.marked
  BY SpawnedType
<1>2. Offered(class) = [r EXCEPT !.solid = FALSE, !.final = TRUE, !.loaded = FALSE]
  BY DEF Offered
<1> HIDE DEF r
<1> QED BY <1>1, <1>2 DEF Offers, Weapon

(* Materialize keeps the type, and a weapon on offer on offer. *)
LEMMA MaterializeType ==
  ASSUME NEW r \in Weapon
  PROVE  Materialize(r) \in Weapon /\ (Offers(r) => Offers(Materialize(r)))
<1>1. /\ NotesHome(r) \in Weapon /\ NotesHome(r).solid = r.solid /\ NotesHome(r).owner = r.owner
      /\ NotesHome(r).marked = r.marked /\ NotesHome(r).final = r.final
  BY DEF NotesHome, Weapon
<1>2. /\ SetPickupTouch(NotesHome(r)) \in Weapon /\ SetPickupTouch(NotesHome(r)).touch
      /\ SetPickupTouch(NotesHome(r)).solid = r.solid /\ SetPickupTouch(NotesHome(r)).owner = r.owner
      /\ SetPickupTouch(NotesHome(r)).marked = r.marked /\ SetPickupTouch(NotesHome(r)).final = r.final
  BY <1>1, PickupType
<1> DEFINE q == SetPickupTouch(NotesHome(r))
<1>3. "none" \in Thoughts /\ 0 \in Int
  BY DEF Thoughts
<1>4. /\ Thinks(q, "none", 0) \in Weapon /\ Thinks(q, "none", 0).think = "none"
      /\ Thinks(q, "none", 0).marked = q.marked /\ Thinks(q, "none", 0).owner = q.owner
      /\ Thinks(q, "none", 0).touch = q.touch /\ Thinks(q, "none", 0).solid = q.solid
      /\ Thinks(q, "none", 0).final = q.final
  BY <1>2, <1>3, ThinksType
<1> QED BY <1>2, <1>4 DEF Materialize, StopsThinking, Offers
-----------------------------------------------------------------------------
(* New entities. *)

(* Names gives different ids to different places. *)
LEMMA NamesAre ==
  ASSUME NEW N, NEW ids, NEW f \in Names(N, ids)
  PROVE  f \in [N -> ids] /\ \A a, b \in N : f[a] = f[b] => a = b
  BY DEF Names, Injection, IsInjective

(* Where there is room, some id is free. *)
LEMMA SomeFree == ASSUME Room(1) PROVE Free # {}
<1> DEFINE W == {s \in Spawners : spawner[s].think}
<1>1. W \in SUBSET Spawners /\ IsFiniteSet(Spawners)
  BY WeaponsAssumption
<1>2. IsFiniteSet(W)
  BY <1>1, FS_Subset
<1>3. Cardinality(W) \in Nat
  BY <1>2, FS_CardinalityType
<1>4. Cardinality(Free) >= 1 + Cardinality(W)
  BY DEF Room
<1>5. Cardinality({}) = 0
  BY FS_EmptySet
<1> HIDE DEF W
<1> QED BY <1>3, <1>4, <1>5
-----------------------------------------------------------------------------
(* What the invariant says of one weapon.                                  *)

(* What the invariant says of a carried weapon. *)
LEMMA CarriedFacts ==
  ASSUME IInv, NEW p \in Players, NEW w \in inv[p]
  PROVE  /\ w \in Ids /\ Exists(w) /\ w \notin listed /\ weapon[w].owner # None
         /\ CarriedBy(weapon[w], p)
  BY NoneIsNobody DEF IInv, Types, Carrying, CarriedBy, Exists

(* What the invariant says of a weapon on offer. *)
LEMMA OfferedFacts ==
  ASSUME IInv, NEW s \in Spawners, spawner[s].touch
  PROVE  /\ spawner[s].weapon \in Ids /\ Exists(spawner[s].weapon)
         /\ Offers(weapon[spawner[s].weapon])
         /\ \A p \in Players : spawner[s].weapon \notin inv[p]
<1>1. /\ spawner[s].weapon \in Ids /\ Offers(weapon[spawner[s].weapon])
  BY DEF IInv, Offering
<1>2. Exists(spawner[s].weapon) /\ weapon[spawner[s].weapon].owner = None
  BY <1>1, NoneIsNobody DEF Offers, Exists
<1> QED BY <1>1, <1>2, CarriedFacts

(* What exists is a weapon. *)
LEMMA ExistsIs ==
  ASSUME IInv, NEW w \in Ids, Exists(w)
  PROVE  weapon[w] \in Weapon
  BY DEF IInv, Types, Exists

(* A step that leaves the spawners alone: it is enough that who carries a  *)
(* weapon carries it well and that what was offered is.                    *)
LEMMA SpawnersIdle ==
  ASSUME IInv, UNCHANGED spawner,
         weapon' \in [Ids -> Weapon \cup {None}],
         inv' \in [Players -> SUBSET Ids], alive' \subseteq Players,
         \A w \in listed' : w \in Ids /\ weapon'[w] # None,
         \A p \in Players : \A w \in inv'[p] : CarriedBy(weapon'[w], p) /\ w \notin listed',
         \A s \in Spawners : spawner[s].touch => Offers(weapon'[spawner[s].weapon])
  PROVE  IInv'
<1>1. Types'
  BY DEF IInv, Types, Exists
<1>2. Carrying'
  BY DEF Carrying
<1>3. Offering'
  BY DEF IInv, Offering
<1>4. Distinct'
  BY DEF IInv, Distinct
<1> QED BY <1>1, <1>2, <1>3, <1>4 DEF IInv

(* One weapon that nobody carries becomes another. *)
LEMMA OneBecomes ==
  ASSUME IInv, NEW w \in Ids, NEW r \in Weapon, Exists(w), Becomes(w, r),
         UNCHANGED <<inv, alive, spawner>>,
         listed' = listed \/ listed' = listed \cup {w},
         \A p \in Players : w \notin inv[p],
         Offers(weapon[w]) => Offers(r)
  PROVE  IInv'
<1>0. weapon' = [weapon EXCEPT ![w] = r]
  BY DEF Becomes
<1>1. weapon' \in [Ids -> Weapon \cup {None}]
  BY <1>0 DEF IInv, Types
<1>2. inv' \in [Players -> SUBSET Ids] /\ alive' \subseteq Players
  BY DEF IInv, Types
<1>3. weapon'[w] = r /\ \A v \in Ids : v # w => weapon'[v] = weapon[v]
  BY <1>0 DEF IInv, Types
<1>4. \A v \in listed' : v \in Ids /\ weapon'[v] # None
  BY <1>3, NoneIsNobody DEF IInv, Types, Exists
<1>5. \A p \in Players : \A v \in inv'[p] : CarriedBy(weapon'[v], p) /\ v \notin listed'
  BY <1>3, CarriedFacts
<1>6. \A s \in Spawners : spawner[s].touch => Offers(weapon'[spawner[s].weapon])
  BY <1>3, OfferedFacts
<1> QED BY <1>1, <1>2, <1>4, <1>5, <1>6, SpawnersIdle

(* The thinks of a weapon keep the invariant: a carried one has none. *)
LEMMA ThinkStep == ASSUME IInv, NEW w \in Ids, Think(w) PROVE IInv'
<1> DEFINE r == weapon[w]
<1>1. Exists(w) /\ r \in Weapon /\ r.think # "none"
  BY ExistsIs DEF Think, ThinkDue
<1>2. \A p \in Players : w \notin inv[p]
  BY <1>1, CarriedFacts DEF CarriedBy
<1>3. UNCHANGED <<inv, alive, spawner>>
  BY DEF Think
<1>4. CASE r.think \in {"fall", "materialize"} /\ Materializes(w)
  <2>1. /\ Becomes(w, Materialize(r)) /\ (listed' = listed \/ listed' = listed \cup {w})
        /\ Materialize(r) \in Weapon /\ (Offers(r) => Offers(Materialize(r)))
    BY <1>1, <1>4, MaterializeType DEF Materializes
  <2> QED BY <1>1, <1>2, <1>3, <2>1, OneBecomes
<1>5. CASE r.think = "fall" /\ Becomes(w, Thinks(r, "fall", FallTime)) /\ UNCHANGED listed
  <2>1. "fall" \in Thoughts /\ FallTime \in Int
    BY Times DEF Thoughts
  <2> DEFINE q == Thinks(r, "fall", FallTime)
  <2>2. q \in Weapon /\ q.think = "fall" /\ q.touch = r.touch /\ q.solid = r.solid
    BY <1>1, <2>1, ThinksType
  <2>3. q.owner = r.owner /\ q.marked = r.marked /\ q.final = r.final
    BY <1>1, <2>1, ThinksType
  <2> HIDE DEF q
  <2>4. Offers(r) => Offers(q)
    BY <2>2, <2>3 DEF Offers
  <2> QED BY <1>1, <1>2, <1>3, <1>5, <2>2, <2>4, OneBecomes DEF q
<1>6. CASE r.think = "pickup" /\ Becomes(w, SetPickupTouch(StopsThinking(r))) /\ UNCHANGED listed
  <2>1. "none" \in Thoughts /\ 0 \in Int
    BY DEF Thoughts
  <2>2. SetPickupTouch(StopsThinking(r)) \in Weapon
    BY <1>1, <2>1, ThinksType, PickupType DEF StopsThinking
  <2>3. ~Offers(r)
    BY <1>6 DEF Offers
  <2> QED BY <1>1, <1>2, <1>3, <1>6, <2>2, <2>3, OneBecomes
<1>7. CASE r.think = "remove" /\ Becomes(w, UTIL_Remove(StopsThinking(r))) /\ UNCHANGED listed
  <2>1. "none" \in Thoughts /\ 0 \in Int
    BY DEF Thoughts
  <2>2. UTIL_Remove(StopsThinking(r)) \in Weapon
    BY <1>1, <2>1, ThinksType, RemoveType DEF StopsThinking
  <2>3. ~Offers(r)
    BY <1>7 DEF Offers
  <2> QED BY <1>1, <1>2, <1>3, <1>7, <2>2, <2>3, OneBecomes
<1> QED BY <1>4, <1>5, <1>6, <1>7 DEF Think

(* A push keeps the invariant. *)
LEMMA PushStep == ASSUME IInv, NEW w \in Ids, Push(w) PROVE IInv'
<1> DEFINE r == weapon[w]
           q == [r EXCEPT !.at = Away]
<1>1. Exists(w) /\ r \in Weapon /\ w \in listed
  BY ExistsIs DEF Push, Live
<1>2. \A p \in Players : w \notin inv[p]
  BY <1>1, CarriedFacts
<1>3. q \in Weapon /\ (Offers(r) => Offers(q))
  BY <1>1 DEF Weapon, Offers
<1>4. Becomes(w, q) /\ UNCHANGED <<inv, alive, spawner, listed>>
  BY DEF Push
<1> QED BY <1>1, <1>2, <1>3, <1>4, OneBecomes

(* The relocation keeps the invariant: it touches listed weapons only. *)
LEMMA RelocationStep == ASSUME IInv, ManageObjectRelocation PROVE IInv'
<1>1. PICK W \in SUBSET {w \in listed : Exists(w) /\ weapon[w].at # weapon[w].home} \ {{}} :
        weapon' = [w \in Ids |-> IF w \in W THEN [weapon[w] EXCEPT !.at = weapon[w].home]
                                            ELSE weapon[w]]
  BY DEF ManageObjectRelocation
<1>2. UNCHANGED <<inv, alive, spawner, listed>>
  BY DEF ManageObjectRelocation
<1>3. ASSUME NEW w \in Ids
      PROVE  /\ weapon'[w] \in Weapon \cup {None}
             /\ Exists(w) => weapon'[w] # None
             /\ w \notin listed => weapon'[w] = weapon[w]
             /\ Exists(w) /\ Offers(weapon[w]) => Offers(weapon'[w])
  <2>1. CASE w \notin W
    BY <1>1, <2>1 DEF IInv, Types, Exists
  <2>2. CASE w \in W
    <3>1. weapon[w] \in Weapon
      BY <1>1, <2>2, ExistsIs
    <3>2. weapon'[w] = [weapon[w] EXCEPT !.at = weapon[w].home] /\ w \in listed
      BY <1>1, <2>2
    <3>3. weapon'[w] \in Weapon /\ (Offers(weapon[w]) => Offers(weapon'[w]))
      BY <3>1, <3>2 DEF Weapon, Offers
    <3> QED BY <3>2, <3>3, NoneIsNobody
  <2> QED BY <2>1, <2>2
<1>4. weapon' \in [Ids -> Weapon \cup {None}]
  BY <1>1, <1>3
<1>5. inv' \in [Players -> SUBSET Ids] /\ alive' \subseteq Players
  BY <1>2 DEF IInv, Types
<1>6. \A w \in listed' : w \in Ids /\ weapon'[w] # None
  BY <1>2, <1>3 DEF IInv, Types
<1>7. \A p \in Players : \A w \in inv'[p] : CarriedBy(weapon'[w], p) /\ w \notin listed'
  BY <1>2, <1>3, CarriedFacts
<1>8. \A s \in Spawners : spawner[s].touch => Offers(weapon'[spawner[s].weapon])
  BY <1>3, OfferedFacts
<1> QED BY <1>2, <1>4, <1>5, <1>6, <1>7, <1>8, SpawnersIdle
-----------------------------------------------------------------------------
(* What players do.                                                        *)

(* The weapon taken becomes q; a copy uses no id of a weapon that exists.  *)
LEMMA CheckRespawnKeeps ==
  ASSUME IInv, NEW w \in Ids, Exists(w), Free # {}, NEW q \in Weapon, CheckRespawn(w, q)
  PROVE  /\ weapon' \in [Ids -> Weapon \cup {None}] /\ weapon'[w] = q
         /\ \A v \in Ids : Exists(v) /\ v # w => weapon'[v] = weapon[v]
         /\ \A v \in Ids : Exists(v) => weapon'[v] # None
<1>1. weapon' = [v \in Ids |-> IF v = w THEN q
                              ELSE IF v \in CopyOf(w) THEN Respawn(weapon[w]) ELSE weapon[v]]
  BY DEF CheckRespawn
<1>2. CopyOf(w) \subseteq Free
  BY DEF CopyOf
<1>3. Respawn(weapon[w]) \in Weapon
  BY ExistsIs, RespawnType
<1>4. \A v \in Ids : Exists(v) => v \notin CopyOf(w)
  BY <1>2 DEF Free
<1>5. weapon' \in [Ids -> Weapon \cup {None}]
  BY <1>1, <1>3 DEF IInv, Types
<1>6. weapon'[w] = q /\ \A v \in Ids : Exists(v) /\ v # w => weapon'[v] = weapon[v]
  BY <1>1, <1>4
<1>7. \A v \in Ids : Exists(v) => weapon'[v] # None
  BY <1>6, NoneIsNobody DEF Exists
<1> QED BY <1>5, <1>6, <1>7

(* A touch keeps the invariant, whether the weapon is taken or left. *)
LEMMA TouchStep ==
  ASSUME IInv, NEW p \in Players, NEW w \in Ids, Touch(p, w) PROVE IInv'
<1> DEFINE r == weapon[w]
<1>1. /\ Exists(w) /\ ~r.marked /\ r.touch /\ r.solid /\ Free # {}
      /\ UNCHANGED <<alive, spawner>>
  BY SomeFree DEF Touch, Live
<1>2. r \in Weapon
  BY <1>1, ExistsIs
<1>3. \A q \in Players : w \notin inv[q]
  BY <1>1, CarriedFacts DEF CarriedBy
<1>4. \A s \in Spawners : spawner[s].touch => spawner[s].weapon # w
  BY <1>1, OfferedFacts DEF Offers
<1>5. PICK q \in Weapon : CheckRespawn(w, q) /\
        \/ CarriedBy(q, p) /\ inv' = [inv EXCEPT ![p] = @ \cup {w}]
        \/ UNCHANGED inv
  <2>1. CASE TakeWeapon(p, w, r)
    <3>1. CarriedBy(Equip(r, p), p)
      BY <1>1, <1>2, EquipCarries
    <3> QED BY <2>1, <3>1 DEF TakeWeapon, CarriedBy
  <2>2. CASE TakeAmmo(p, w)
    BY <1>2, <2>2, RemoveType DEF TakeAmmo
  <2> QED BY <2>1, <2>2 DEF Touch
<1>6. /\ weapon' \in [Ids -> Weapon \cup {None}] /\ weapon'[w] = q
      /\ \A v \in Ids : Exists(v) /\ v # w => weapon'[v] = weapon[v]
      /\ \A v \in Ids : Exists(v) => weapon'[v] # None
  BY <1>1, <1>5, CheckRespawnKeeps
<1>7. listed' = listed \ {w}
  BY DEF Touch, TakeWeapon, TakeAmmo, OnPickedUp
<1>8. inv' \in [Players -> SUBSET Ids] /\ alive' \subseteq Players
  BY <1>1, <1>5 DEF IInv, Types
<1>9. \A v \in listed' : v \in Ids /\ weapon'[v] # None
  BY <1>6, <1>7 DEF IInv, Types
<1>10. ASSUME NEW o \in Players, NEW v \in inv'[o]
       PROVE  CarriedBy(weapon'[v], o) /\ v \notin listed'
  <2>0. inv \in [Players -> SUBSET Ids]
    BY DEF IInv, Types
  <2>1. CASE v \in inv[o]
    BY <1>3, <1>6, <1>7, <2>1, CarriedFacts
  <2>2. CASE v \notin inv[o]
    <3>1. v = w /\ o = p /\ CarriedBy(q, p)
      BY <1>5, <2>0, <2>2
    <3> QED BY <1>6, <1>7, <3>1
  <2> QED BY <2>1, <2>2
<1>11. \A s \in Spawners : spawner[s].touch => Offers(weapon'[spawner[s].weapon])
  BY <1>4, <1>6, OfferedFacts
<1> QED BY <1>1, <1>6, <1>8, <1>9, <1>10, <1>11, SpawnersIdle

(* A player loses a weapon, which becomes r. *)
LEMMA LosesOne ==
  ASSUME IInv, NEW p \in Players, NEW w \in inv[p], NEW r \in Weapon,
         Loses(p, w), Becomes(w, r), UNCHANGED <<spawner, listed>>, alive' \subseteq Players
  PROVE  IInv'
<1>1. /\ weapon \in [Ids -> Weapon \cup {None}] /\ weapon' = [weapon EXCEPT ![w] = r]
      /\ inv \in [Players -> SUBSET Ids] /\ inv' = [inv EXCEPT ![p] = @ \ {w}]
      /\ w \in Ids
  BY DEF IInv, Types, Loses, Becomes
<1>2. weapon' \in [Ids -> Weapon \cup {None}] /\ inv' \in [Players -> SUBSET Ids]
  BY <1>1
<1>3. weapon'[w] = r /\ \A v \in Ids : v # w => weapon'[v] = weapon[v]
  BY <1>1
<1>4. \A v \in listed' : v \in Ids /\ weapon'[v] # None
  BY <1>3, NoneIsNobody DEF IInv, Types, Exists
<1>5. ASSUME NEW o \in Players, NEW v \in inv'[o]
      PROVE  CarriedBy(weapon'[v], o) /\ v \notin listed'
  <2>1. v \in inv[o] /\ (o = p => v # w)
    BY <1>1
  <2>2. v # w
    BY <2>1, CarriedFacts DEF CarriedBy
  <2> QED BY <1>3, <2>1, <2>2, CarriedFacts
<1>6. \A s \in Spawners : spawner[s].touch => Offers(weapon'[spawner[s].weapon])
  BY <1>3, OfferedFacts
<1> QED BY <1>2, <1>4, <1>5, <1>6, SpawnersIdle

(* A death, which drops what is carried, keeps the invariant. *)
LEMMA DieStep == ASSUME IInv, NEW p \in Players, Die(p) PROVE IInv'
<1>1. alive' \subseteq Players /\ UNCHANGED <<spawner, listed>>
  BY DEF Die, IInv, Types
<1>2. CASE \E w \in inv[p] : Loses(p, w) /\ Becomes(w, Drop(weapon[w]))
  <2>1. PICK w \in inv[p] : Loses(p, w) /\ Becomes(w, Drop(weapon[w]))
    BY <1>2
  <2>2. Drop(weapon[w]) \in Weapon
    BY CarriedFacts, DropType DEF CarriedBy
  <2> QED BY <1>1, <2>1, <2>2, LosesOne
<1>3. CASE UNCHANGED <<inv, weapon>>
  BY <1>1, <1>3 DEF IInv, Types, Carrying, Offering, Distinct, Exists
<1> QED BY <1>2, <1>3 DEF Die

(* Using a weapon up keeps the invariant. *)
LEMMA UseUpStep ==
  ASSUME IInv, NEW p \in Players, NEW w \in Ids, UseUp(p, w) PROVE IInv'
<1>1. w \in inv[p] /\ Loses(p, w) /\ UNCHANGED <<alive, spawner, listed>>
  BY DEF UseUp
<1>2. Becomes(w, UTIL_Remove(Drop(weapon[w])))
  BY DEF UseUp
<1>3. UTIL_Remove(Drop(weapon[w])) \in Weapon
  BY <1>1, CarriedFacts, DropType, RemoveType DEF CarriedBy
<1>4. alive' \subseteq Players
  BY <1>1 DEF IInv, Types
<1> QED BY <1>1, <1>2, <1>3, <1>4, LosesOne

(* Only what p carries changes; everything else is untouched. *)
LEMMA LosesAll ==
  ASSUME IInv, NEW p \in Players, weapon' \in [Ids -> Weapon \cup {None}],
         inv' = [inv EXCEPT ![p] = {}], UNCHANGED <<spawner, listed>>, alive' \subseteq Players,
         \A v \in Ids : Exists(v) => weapon'[v] # None,
         \A v \in Ids : v \notin inv[p] /\ weapon[v] # None /\ weapon[v].owner # p
                        => weapon'[v] = weapon[v]
  PROVE  IInv'
<1>1. inv \in [Players -> SUBSET Ids] /\ inv' \in [Players -> SUBSET Ids]
  BY DEF IInv, Types
<1>2. \A v \in listed' : v \in Ids /\ weapon'[v] # None
  BY DEF IInv, Types
<1>3. ASSUME NEW o \in Players, NEW v \in inv'[o]
      PROVE  CarriedBy(weapon'[v], o) /\ v \notin listed'
  <2>1. v \in inv[o] /\ o # p
    BY <1>1
  <2>2. Exists(v) /\ v \in Ids /\ weapon[v].owner = o /\ v \notin inv[p]
    BY <2>1, CarriedFacts DEF CarriedBy
  <2>3. weapon'[v] = weapon[v]
    BY <2>1, <2>2 DEF Exists
  <2> QED BY <2>1, <2>3, CarriedFacts
<1>4. ASSUME NEW s \in Spawners, spawner[s].touch
      PROVE  Offers(weapon'[spawner[s].weapon])
  <2>1. /\ spawner[s].weapon \in Ids /\ Exists(spawner[s].weapon)
        /\ Offers(weapon[spawner[s].weapon]) /\ spawner[s].weapon \notin inv[p]
    BY <1>4, OfferedFacts
  <2>2. weapon[spawner[s].weapon].owner # p
    BY <2>1, NoneIsNobody DEF Offers
  <2> QED BY <2>1, <2>2 DEF Exists
<1> QED BY <1>1, <1>2, <1>3, <1>4, SpawnersIdle

(* Stripping players changes the weapons they carry and no others. *)
LEMMA StrippedType ==
  ASSUME IInv, NEW P \in SUBSET Players, NEW w \in Ids
  PROVE  /\ Stripped(P)[w] \in Weapon \cup {None} /\ (Exists(w) => Stripped(P)[w] \in Weapon)
         /\ (\A p \in P : w \notin inv[p]) => Stripped(P)[w] = weapon[w]
<1>1. CASE \E p \in P : w \in inv[p]
  <2>1. weapon[w] \in Weapon
    BY <1>1, CarriedFacts DEF CarriedBy
  <2>2. Stripped(P)[w] = Delete(weapon[w])
    BY <1>1 DEF Stripped
  <2> QED BY <1>1, <2>1, <2>2, DeleteType
<1>2. CASE ~\E p \in P : w \in inv[p]
  <2>1. Stripped(P)[w] = weapon[w]
    BY <1>2 DEF Stripped
  <2> QED BY <2>1, ExistsIs DEF IInv, Types
<1> QED BY <1>1, <1>2

(* So does taking everything from a player. *)
LEMMA RemoveAllItemsStep ==
  ASSUME IInv, NEW p \in Players, RemoveAllItems(p) PROVE IInv'
<1>1. /\ weapon' = Stripped({p}) /\ inv' = [inv EXCEPT ![p] = {}]
      /\ UNCHANGED <<spawner, listed, alive>>
  BY DEF RemoveAllItems
<1>2. weapon' \in [Ids -> Weapon \cup {None}]
  <2>1. weapon' = [w \in Ids |-> Stripped({p})[w]]
    BY <1>1 DEF Stripped
  <2> QED BY <2>1, StrippedType
<1>3. \A v \in Ids : Exists(v) => weapon'[v] # None
  BY <1>1, StrippedType, NoneIsNobody
<1>4. \A v \in Ids : v \notin inv[p] => weapon'[v] = weapon[v]
  BY <1>1, StrippedType
<1>5. alive' \subseteq Players
  BY <1>1 DEF IInv, Types
<1> QED BY <1>1, <1>2, <1>3, <1>4, <1>5, LosesAll

(* A player who leaves takes his weapons along: the invariant is kept. *)
LEMMA LeaveStep == ASSUME IInv, NEW p \in Players, Leave(p) PROVE IInv'
<1>1. /\ weapon' = [w \in Ids |-> IF Exists(w) /\ weapon[w].owner = p
                                   THEN UTIL_Remove(Stripped({p})[w]) ELSE weapon[w]]
      /\ inv' = [inv EXCEPT ![p] = {}] /\ UNCHANGED <<spawner, listed>>
      /\ alive' = alive \ {p}
  BY DEF Leave
<1>2. \A w \in Ids : Exists(w) => UTIL_Remove(Stripped({p})[w]) \in Weapon
  BY StrippedType, RemoveType
<1>3. weapon' \in [Ids -> Weapon \cup {None}]
  BY <1>1, <1>2 DEF IInv, Types
<1>4. \A v \in Ids : Exists(v) => weapon'[v] # None
  BY <1>1, <1>2, NoneIsNobody DEF Exists
<1>5. \A v \in Ids : weapon[v] # None /\ weapon[v].owner # p => weapon'[v] = weapon[v]
  BY <1>1
<1>6. alive' \subseteq Players
  BY <1>1 DEF IInv, Types
<1> QED BY <1>1, <1>3, <1>4, <1>5, <1>6, LosesAll

(* A spawn, with the weapon it gives, keeps the invariant. *)
LEMMA SpawnStep == ASSUME IInv, NEW p \in Players, Spawn(p) PROVE IInv'
<1> DEFINE w == CHOOSE v \in Free : TRUE
<1>0. Free # {}
  BY SomeFree DEF Spawn
<1>1. w \in Free
  BY <1>0
<1>2. weapon' = [weapon EXCEPT ![w] = Given(p)] /\ inv' = [inv EXCEPT ![p] = {w}]
  BY DEF Spawn, Becomes
<1> HIDE DEF w
<1>3. w \in Ids /\ ~Exists(w)
  BY <1>1 DEF Free
<1>4. UNCHANGED <<spawner, listed>> /\ alive' \subseteq Players
  BY DEF Spawn, IInv, Types
<1>5. CarriedBy(Given(p), p) /\ Given(p) \in Weapon
  BY GivenCarries DEF CarriedBy
<1>6. weapon' \in [Ids -> Weapon \cup {None}] /\ inv' \in [Players -> SUBSET Ids]
  BY <1>2, <1>3, <1>5 DEF IInv, Types
<1>7. weapon'[w] = Given(p) /\ \A v \in Ids : v # w => weapon'[v] = weapon[v]
  BY <1>2, <1>3 DEF IInv, Types
<1>8. \A v \in listed' : v \in Ids /\ v # w /\ weapon'[v] # None
  BY <1>3, <1>4, <1>7 DEF IInv, Types, Exists
<1>9. ASSUME NEW o \in Players, NEW v \in inv'[o]
      PROVE  CarriedBy(weapon'[v], o) /\ v \notin listed'
  <2>1. CASE o = p
    <3>1. v = w
      BY <1>2, <2>1 DEF IInv, Types
    <3> QED BY <1>5, <1>7, <1>8, <2>1, <3>1
  <2>2. CASE o # p
    <3>1. v \in inv[o]
      BY <1>2, <2>2 DEF IInv, Types
    <3>2. v # w /\ v \in Ids
      BY <1>3, <3>1, CarriedFacts
    <3> QED BY <1>4, <1>7, <3>1, <3>2, CarriedFacts
  <2> QED BY <2>1, <2>2
<1>10. \A s \in Spawners : spawner[s].touch => Offers(weapon'[spawner[s].weapon])
  BY <1>3, <1>7, OfferedFacts
<1> QED BY <1>4, <1>6, <1>8, <1>9, <1>10, SpawnersIdle
-----------------------------------------------------------------------------
(* The spawners and the frame.                                             *)

(* A touch of a spawner keeps the invariant: it gives the weapon or forgets it. *)
LEMMA SpawnerTouchStep ==
  ASSUME IInv, NEW p \in Players, NEW s \in Spawners, SpawnerTouch(p, s) PROVE IInv'
<1> DEFINE w == spawner[s].weapon
           r == [weapon[w] EXCEPT !.at = Away, !.loaded = @ \/ ~Owns(p, weapon[w].class)]
<1>1. /\ w \in Ids /\ Exists(w) /\ Offers(weapon[w]) /\ \A q \in Players : w \notin inv[q]
      /\ spawner[s].touch
  BY OfferedFacts DEF SpawnerTouch
<1>2. Offers(r)
  BY <1>1 DEF Offers, Weapon
<1>3. /\ Free # {} /\ UNCHANGED <<alive>> /\ spawner' = [spawner EXCEPT ![s] = SetWait(s)]
  BY SomeFree DEF SpawnerTouch
<1>4. PICK q \in Weapon :
        /\ weapon' \in [Ids -> Weapon \cup {None}] /\ weapon'[w] = q
        /\ \A v \in Ids : Exists(v) /\ v # w => weapon'[v] = weapon[v]
        /\ \A v \in Ids : Exists(v) => weapon'[v] # None
        /\ listed' \in {listed, listed \ {w}}
        /\ \/ UNCHANGED inv
           \/ /\ CarriedBy(q, p) /\ inv' = [inv EXCEPT ![p] = @ \cup {w}]
              /\ listed' = listed \ {w}
  <2>1. CASE TakeWeapon(p, w, r)
    <3>1. CarriedBy(Equip(r, p), p) /\ Equip(r, p) \in Weapon
      BY <1>2, EquipCarries DEF Offers, CarriedBy
    <3>2. CheckRespawn(w, Equip(r, p)) /\ inv' = [inv EXCEPT ![p] = @ \cup {w}]
      BY <2>1 DEF TakeWeapon
    <3>3. listed' = listed \ {w}
      BY <2>1 DEF TakeWeapon, OnPickedUp
    <3> HIDE DEF w, r
    <3> QED BY <1>1, <1>3, <3>1, <3>2, <3>3, CheckRespawnKeeps
  <2>2. CASE weapon' = [weapon EXCEPT ![w] = r] /\ UNCHANGED <<inv, listed, early>>
    <3>1. r \in Weapon
      BY <1>2 DEF Offers
    <3> HIDE DEF w, r
    <3> QED BY <1>1, <2>2, <3>1, NoneIsNobody DEF IInv, Types, Exists
  <2> QED BY <2>1, <2>2 DEF SpawnerTouch
<1> HIDE DEF w, r
<1>5. /\ SetWait(s) \in SpawnerState /\ SetWait(s).weapon = None
      /\ ~SetWait(s).touch /\ SetWait(s).think
  BY Times DEF SetWait, SpawnerState
<1>6. spawner'[s] = SetWait(s) /\ \A t \in Spawners : t # s => spawner'[t] = spawner[t]
  BY <1>3 DEF IInv, Types
<1>7. \A t \in Spawners : t # s /\ spawner[t].touch => spawner[t].weapon # w
  BY <1>1 DEF IInv, Distinct, w
<1>8. Types'
  <2>1. spawner' \in [Spawners -> SpawnerState]
    BY <1>3, <1>5 DEF IInv, Types
  <2>2. listed' \subseteq {v \in Ids : weapon'[v] # None}
    BY <1>4 DEF IInv, Types
  <2>3. inv' \in [Players -> SUBSET Ids] /\ alive' \subseteq Players
    BY <1>1, <1>3, <1>4 DEF IInv, Types
  <2> QED BY <1>4, <2>1, <2>2, <2>3 DEF Types, Exists
<1>9. Carrying'
  <2> SUFFICES ASSUME NEW o \in Players, NEW v \in inv'[o]
               PROVE  CarriedBy(weapon'[v], o) /\ v \notin listed'
    BY DEF Carrying
  <2>1. CASE v \in inv[o]
    <3>1. v # w
      BY <1>1, <2>1
    <3> QED BY <1>4, <2>1, <3>1, CarriedFacts
  <2>2. CASE v \notin inv[o]
    <3>1. v = w /\ o = p /\ CarriedBy(q, p) /\ listed' = listed \ {w}
      BY <1>4, <2>2 DEF IInv, Types
    <3> QED BY <1>4, <3>1
  <2> QED BY <2>1, <2>2
<1>10. Offering'
  <2> SUFFICES ASSUME NEW t \in Spawners
               PROVE  IF spawner'[t].touch
                        THEN /\ spawner'[t].weapon \in Ids
                             /\ Offers(weapon'[spawner'[t].weapon]) /\ ~spawner'[t].think
                        ELSE spawner'[t].weapon = None /\ (t \in Stocked => spawner'[t].think)
    BY DEF Offering, Stocked
  <2>1. CASE t = s
    BY <1>5, <1>6, <2>1
  <2>2. CASE t # s /\ spawner[t].touch
    <3>1. spawner'[t] = spawner[t] /\ spawner[t].weapon # w
      BY <1>6, <1>7, <2>2
    <3>2. weapon'[spawner[t].weapon] = weapon[spawner[t].weapon]
      BY <1>4, <2>2, <3>1, OfferedFacts
    <3> QED BY <2>2, <3>1, <3>2 DEF IInv, Offering
  <2>3. CASE t # s /\ ~spawner[t].touch
    BY <1>6, <2>3 DEF IInv, Offering
  <2> QED BY <2>1, <2>2, <2>3
<1>11. Distinct'
  BY <1>5, <1>6 DEF IInv, Distinct
<1> QED BY <1>8, <1>9, <1>10, <1>11 DEF IInv

(* A forced spawn keeps the invariant. *)
LEMMA ForceNextSpawnStep ==
  ASSUME IInv, NEW s \in Spawners, ForceNextSpawn(s) PROVE IInv'
<1>1. UNCHANGED <<inv, alive, listed>> /\ spawner[s].think
  BY DEF ForceNextSpawn
<1>2. ~spawner[s].touch
  BY <1>1 DEF IInv, Offering
<1>3. CASE Allowed[s] = {}
  <2>1. spawner' = [spawner EXCEPT ![s].think = FALSE] /\ UNCHANGED weapon
    BY <1>3 DEF ForceNextSpawn
  <2>2. s \notin Stocked
    BY <1>3 DEF Stocked
  <2>3. /\ spawner'[s].touch = FALSE /\ spawner'[s].weapon = None
        /\ \A t \in Spawners : t # s => spawner'[t] = spawner[t]
    BY <1>2, <2>1 DEF IInv, Types, Offering, SpawnerState
  <2>4. Types'
    <3>1. spawner' \in [Spawners -> SpawnerState]
      BY <2>1 DEF IInv, Types, SpawnerState
    <3> QED BY <1>1, <2>1, <3>1 DEF IInv, Types, Exists
  <2>5. Carrying'
    BY <1>1, <2>1 DEF IInv, Carrying
  <2>6. Offering'
    BY <2>1, <2>2, <2>3 DEF IInv, Offering, Stocked
  <2>7. Distinct'
    BY <2>3 DEF IInv, Distinct
  <2> QED BY <2>4, <2>5, <2>6, <2>7 DEF IInv
<1>4. CASE Allowed[s] # {}
  <2> DEFINE w == CHOOSE v \in Free : TRUE
             q == [weapon |-> w, touch |-> TRUE, think |-> FALSE, tick |-> 0]
  <2>1. w \in Free
    BY <1>4 DEF ForceNextSpawn
  <2>2. PICK class \in Allowed[s] : weapon' = [weapon EXCEPT ![w] = Offered(class)]
    BY <1>4 DEF ForceNextSpawn
  <2>3. spawner' = [spawner EXCEPT ![s] = q]
    BY <1>4 DEF ForceNextSpawn
  <2> HIDE DEF w
  <2>4. w \in Ids /\ ~Exists(w)
    BY <2>1 DEF Free
  <2>5. Offers(Offered(class)) /\ Offered(class) \in Weapon
    BY WeaponsAssumption, OfferedOffers DEF Offers
  <2>6. q \in SpawnerState /\ q.weapon = w /\ q.touch /\ ~q.think
    BY <2>4 DEF SpawnerState
  <2> HIDE DEF q
  <2>7. weapon'[w] = Offered(class) /\ \A v \in Ids : v # w => weapon'[v] = weapon[v]
    BY <2>2, <2>4 DEF IInv, Types
  <2>8. spawner'[s] = q /\ \A t \in Spawners : t # s => spawner'[t] = spawner[t]
    BY <2>3 DEF IInv, Types
  <2>9. Types'
    <3>1. /\ weapon' \in [Ids -> Weapon \cup {None}]
          /\ spawner' \in [Spawners -> SpawnerState]
      BY <2>2, <2>3, <2>5, <2>6 DEF IInv, Types
    <3>2. listed' \subseteq {v \in Ids : weapon'[v] # None}
      BY <1>1, <2>4, <2>7 DEF IInv, Types, Exists
    <3> QED BY <1>1, <3>1, <3>2 DEF IInv, Types, Exists
  <2>10. Carrying'
    <3> SUFFICES ASSUME NEW o \in Players, NEW v \in inv[o]
                 PROVE  CarriedBy(weapon'[v], o) /\ v \notin listed
      BY <1>1 DEF Carrying
    <3>1. v # w /\ v \in Ids
      BY <2>4, CarriedFacts
    <3> QED BY <2>7, <3>1, CarriedFacts
  <2>11. Offering'
    <3> SUFFICES ASSUME NEW t \in Spawners
                 PROVE  IF spawner'[t].touch
                          THEN /\ spawner'[t].weapon \in Ids
                               /\ Offers(weapon'[spawner'[t].weapon]) /\ ~spawner'[t].think
                          ELSE spawner'[t].weapon = None /\ (t \in Stocked => spawner'[t].think)
      BY DEF Offering, Stocked
    <3>1. CASE t = s
      BY <2>4, <2>5, <2>6, <2>7, <2>8, <3>1
    <3>2. CASE t # s /\ spawner[t].touch
      BY <2>4, <2>7, <2>8, <3>2, OfferedFacts DEF IInv, Offering
    <3>3. CASE t # s /\ ~spawner[t].touch
      BY <2>8, <3>3 DEF IInv, Offering
    <3> QED BY <3>1, <3>2, <3>3
  <2>12. Distinct'
    <3>1. \A t \in Spawners : t # s /\ spawner[t].touch => spawner[t].weapon # w
      BY <2>4, OfferedFacts
    <3> QED BY <2>6, <2>8, <3>1 DEF IInv, Distinct
  <2> QED BY <2>9, <2>10, <2>11, <2>12 DEF IInv
<1> QED BY <1>3, <1>4

(* The frame: weapons age, and what was marked goes; no more. *)
LEMMA FrameKeeps ==
  ASSUME IInv, Forget(Marked), UNCHANGED alive,
         weapon' \in [Ids -> Weapon \cup {None}],
         \A w \in Ids : w \in Marked \/ (Exists(w) => weapon'[w] # None),
         \A w \in Ids : \A p \in Players :
           CarriedBy(weapon[w], p) => CarriedBy(weapon'[w], p),
         \A w \in Ids : Offers(weapon[w]) => Offers(weapon'[w]),
         spawner' \in [Spawners -> SpawnerState],
         \A s \in Spawners : /\ spawner'[s].weapon = Resolves(spawner[s].weapon)
                             /\ spawner'[s].touch = spawner[s].touch
                             /\ spawner'[s].think = spawner[s].think
  PROVE  IInv'
<1>1. /\ listed' = listed \ Marked /\ inv' = [p \in Players |-> inv[p] \ Marked]
  BY DEF Forget
<1>2. \A s \in Spawners : spawner[s].touch => spawner'[s].weapon = spawner[s].weapon
  BY OfferedFacts DEF Resolves, Marked, Offers
<1>3. \A s \in Spawners : ~spawner[s].touch => spawner'[s].weapon = None
  BY NoneIsNobody DEF IInv, Offering, Resolves, Marked
<1>4. Types'
  <2>1. inv' \in [Players -> SUBSET Ids] /\ alive' \subseteq Players
    BY <1>1 DEF IInv, Types
  <2>2. listed' \subseteq {w \in Ids : weapon'[w] # None}
    BY <1>1 DEF IInv, Types
  <2> QED BY <2>1, <2>2 DEF Types, Exists
<1>5. Carrying'
  <2> SUFFICES ASSUME NEW p \in Players, NEW w \in inv'[p]
               PROVE  CarriedBy(weapon'[w], p) /\ w \notin listed'
    BY DEF Carrying
  <2>1. w \in inv[p]
    BY <1>1
  <2> QED BY <1>1, <2>1, CarriedFacts
<1>6. Offering'
  <2> SUFFICES ASSUME NEW t \in Spawners
               PROVE  IF spawner'[t].touch
                        THEN /\ spawner'[t].weapon \in Ids
                             /\ Offers(weapon'[spawner'[t].weapon]) /\ ~spawner'[t].think
                        ELSE spawner'[t].weapon = None /\ (t \in Stocked => spawner'[t].think)
    BY DEF Offering, Stocked
  <2>1. CASE spawner[t].touch
    BY <1>2, <2>1 DEF IInv, Offering
  <2>2. CASE ~spawner[t].touch
    BY <1>3, <2>2 DEF IInv, Offering
  <2> QED BY <2>1, <2>2
<1>7. Distinct'
  BY <1>2 DEF IInv, Distinct
<1> QED BY <1>4, <1>5, <1>6, <1>7 DEF IInv

(* Time changes nothing that matters of a weapon. *)
LEMMA OlderKeeps ==
  ASSUME NEW r \in Weapon
  PROVE  /\ Older(r) \in Weapon
         /\ \A p : CarriedBy(r, p) => CarriedBy(Older(r), p)
         /\ Offers(r) => Offers(Older(r))
<1>1. r # None
  BY NoneIsNobody
<1>2. CASE r.think = "none"
  BY <1>2 DEF Older
<1>3. CASE r.think # "none"
  <2>1. Older(r) = [r EXCEPT !.tick = @ - 1]
    BY <1>1, <1>3 DEF Older
  <2> QED BY <1>3, <2>1 DEF Weapon, CarriedBy, Offers
<1> QED BY <1>2, <1>3

(* The start of a frame keeps the invariant. *)
LEMMA StartFrameStep == ASSUME IInv, StartFrame PROVE IInv'
<1>1. /\ weapon' = [w \in Ids |-> IF w \in Marked THEN None ELSE Older(weapon[w])]
      /\ spawner' = [s \in Spawners |->
                       [spawner[s] EXCEPT !.weapon = Resolves(@),
                                          !.tick = IF spawner[s].think THEN @ - 1 ELSE @]]
      /\ Forget(Marked) /\ UNCHANGED alive
  BY DEF StartFrame
<1>2. \A w \in Ids : IF Exists(w) THEN Older(weapon[w]) \in Weapon ELSE Older(weapon[w]) = None
  BY ExistsIs, OlderKeeps DEF Exists, Older
<1>3. weapon' \in [Ids -> Weapon \cup {None}]
  BY <1>1, <1>2
<1>4. \A w \in Ids : w \in Marked \/ (Exists(w) => weapon'[w] # None)
  BY <1>1, <1>2, NoneIsNobody
<1>5. \A w \in Ids : \A p \in Players : CarriedBy(weapon[w], p) => CarriedBy(weapon'[w], p)
  BY <1>1, OlderKeeps DEF CarriedBy, Marked
<1>6. \A w \in Ids : Offers(weapon[w]) => Offers(weapon'[w])
  BY <1>1, OlderKeeps DEF Offers, Marked
<1>7. spawner' \in [Spawners -> SpawnerState]
  <2> SUFFICES ASSUME NEW s \in Spawners
               PROVE  [spawner[s] EXCEPT !.weapon = Resolves(@),
                         !.tick = IF spawner[s].think THEN @ - 1 ELSE @] \in SpawnerState
    BY <1>1
  <2>1. spawner[s] \in SpawnerState
    BY DEF IInv, Types
  <2>2. Resolves(spawner[s].weapon) \in Ids \cup {None}
    BY <2>1 DEF Resolves, SpawnerState
  <2>3. (IF spawner[s].think THEN spawner[s].tick - 1 ELSE spawner[s].tick) \in Int
    BY <2>1 DEF SpawnerState
  <2> QED BY <2>1, <2>2, <2>3 DEF SpawnerState
<1>8. \A s \in Spawners : /\ spawner'[s].weapon = Resolves(spawner[s].weapon)
                          /\ spawner'[s].touch = spawner[s].touch
                          /\ spawner'[s].think = spawner[s].think
  BY <1>1 DEF IInv, Types, SpawnerState
<1> QED BY <1>1, <1>3, <1>4, <1>5, <1>6, <1>7, <1>8, FrameKeeps

(* The end of a frame, which deletes what is marked, keeps the invariant. *)
LEMMA EndFrameStep == ASSUME IInv, EndFrame PROVE IInv'
<1>1. /\ weapon' = [w \in Ids |-> IF w \in Marked THEN None ELSE weapon[w]]
      /\ spawner' = [s \in Spawners |-> [spawner[s] EXCEPT !.weapon = Resolves(@)]]
      /\ Forget(Marked) /\ UNCHANGED alive
  BY DEF EndFrame
<1>2. weapon' \in [Ids -> Weapon \cup {None}]
  BY <1>1 DEF IInv, Types
<1>3. \A w \in Ids : w \in Marked \/ (Exists(w) => weapon'[w] # None)
  BY <1>1 DEF Exists
<1>4. \A w \in Ids : \A p \in Players : CarriedBy(weapon[w], p) => CarriedBy(weapon'[w], p)
  BY <1>1 DEF CarriedBy, Marked
<1>5. \A w \in Ids : Offers(weapon[w]) => Offers(weapon'[w])
  BY <1>1 DEF Offers, Marked
<1>6. spawner' \in [Spawners -> SpawnerState]
  BY <1>1 DEF IInv, Types, SpawnerState, Resolves
<1>7. \A s \in Spawners : /\ spawner'[s].weapon = Resolves(spawner[s].weapon)
                          /\ spawner'[s].touch = spawner[s].touch
                          /\ spawner'[s].think = spawner[s].think
  BY <1>1 DEF IInv, Types, SpawnerState
<1> QED BY <1>1, <1>2, <1>3, <1>4, <1>5, <1>6, <1>7, FrameKeeps
-----------------------------------------------------------------------------
(* The map is loaded: every entity has an id of its own.                   *)

(* Places, spawners and players are different things. *)
LEMMA Disjoint ==
  /\ Spots \cap Spawners = {} /\ Spots \cap Players = {} /\ Spawners \cap Players = {}
  /\ Stocked \subseteq Spawners
  BY WeaponsAssumption DEF Stocked

(* An id names one place. *)
LEMMA ChosenName ==
  ASSUME NEW N, NEW ids, NEW f \in Names(N, ids), NEW M \in SUBSET N, NEW n \in M
  PROVE  (CHOOSE m \in M : f[m] = f[n]) = n
  BY NamesAre

(* What a map or a restart makes is a weapon, and on offer if of a spawner. *)
LEMMA MadeType ==
  ASSUME NEW class \in Stocks, NEW n \in Spots \cup Stocked
  PROVE  Made(n, class) \in Weapon /\ (n \in Stocked => Offers(Made(n, class)))
<1>1. CASE n \in Spots
  <2>1. MapClass[n] \in Classes
    BY <1>1, WeaponsAssumption
  <2>2. FALSE \in BOOLEAN /\ n \in Spots \cup {Origin, Away}
    BY <1>1
  <2>3. Spawned(MapClass[n], n, FALSE) \in Weapon
    BY <2>1, <2>2, SpawnedType
  <2> QED BY <1>1, <2>3, Disjoint DEF Made
<1>2. CASE n \in Stocked
  <2>1. n \notin Spots /\ class[n] \in Classes
    BY <1>2, Disjoint DEF Stocks
  <2>2. Offers(Offered(class[n]))
    BY <2>1, OfferedOffers
  <2> QED BY <1>2, <2>1, <2>2 DEF Made, Offers
<1> QED BY <1>1, <1>2

(* Spawners start with their types. *)
LEMMA FreshType ==
  ASSUME NEW f, \A s \in Stocked : f[s] \in Ids
  PROVE  Fresh(f) \in [Spawners -> SpawnerState]
<1>1. ASSUME NEW s \in Spawners
      PROVE  [weapon |-> IF s \in Stocked THEN f[s] ELSE None,
              touch |-> s \in Stocked, think |-> FALSE, tick |-> 0] \in SpawnerState
  BY DEF SpawnerState
<1> QED BY <1>1 DEF Fresh

(* A spawner that has a class starts with an offer, and others with nothing. *)
LEMMA FreshIs ==
  ASSUME NEW f, NEW s \in Spawners
  PROVE  /\ s \in Stocked => Fresh(f)[s].weapon = f[s] /\ Fresh(f)[s].touch
         /\ s \notin Stocked => Fresh(f)[s].weapon = None /\ ~Fresh(f)[s].touch
         /\ ~Fresh(f)[s].think
<1> DEFINE touch == s \in Stocked
           r == [weapon |-> IF s \in Stocked THEN f[s] ELSE None,
                 touch |-> touch, think |-> FALSE, tick |-> 0]
<1>1. Fresh(f)[s] = r
  BY DEF Fresh
<1>2. r.touch = touch
  BY Zenon
<1>3. (s \in Stocked => r.weapon = f[s]) /\ (s \notin Stocked => r.weapon = None) /\ ~r.think
  BY Zenon
<1> HIDE DEF r
<1> QED BY <1>1, <1>2, <1>3, Zenon

(* A map starts with the invariant. *)
LEMMA InitInv == Init => IInv
<1> SUFFICES ASSUME Init PROVE IInv
  OBVIOUS
<1> DEFINE made == Spots \cup Stocked
<1>1. PICK f \in Names(made, Ids), class \in Stocks :
        /\ weapon = [w \in Ids |->
             IF \E n \in made : f[n] = w THEN Made(CHOOSE n \in made : f[n] = w, class) ELSE None]
        /\ spawner = Fresh(f)
  BY DEF Init
<1>2. inv = [p \in Players |-> {}] /\ alive = {} /\ listed = {}
  BY DEF Init
<1>3. f \in [made -> Ids] /\ \A a, b \in made : f[a] = f[b] => a = b
  BY NamesAre
<1>4. \A n \in made : weapon[f[n]] = Made(n, class)
  <2> SUFFICES ASSUME NEW n \in made PROVE weapon[f[n]] = Made(n, class)
    OBVIOUS
  <2>1. (CHOOSE m \in made : f[m] = f[n]) = n
    BY ChosenName
  <2> QED BY <1>1, <1>3, <2>1
<1>5. weapon \in [Ids -> Weapon \cup {None}]
  <2> SUFFICES ASSUME NEW w \in Ids PROVE weapon[w] \in Weapon \cup {None}
    BY <1>1
  <2>1. CASE \E n \in made : f[n] = w
    BY <1>4, <2>1, MadeType
  <2>2. CASE ~\E n \in made : f[n] = w
    BY <1>1, <2>2
  <2> QED BY <2>1, <2>2
<1>6. spawner \in [Spawners -> SpawnerState]
  BY <1>1, <1>3, FreshType
<1>7. Types
  BY <1>2, <1>5, <1>6 DEF Types
<1>8. Carrying
  BY <1>2 DEF Carrying
<1>9. \A s \in Spawners :
        /\ s \in Stocked => spawner[s].weapon = f[s] /\ spawner[s].touch
        /\ s \notin Stocked => spawner[s].weapon = None /\ ~spawner[s].touch
        /\ ~spawner[s].think
  BY <1>1, FreshIs
<1>10. Offering
  BY <1>3, <1>4, <1>9, MadeType DEF Offering
<1>11. Distinct
  BY <1>3, <1>9 DEF Distinct
<1> QED BY <1>7, <1>8, <1>10, <1>11 DEF IInv

(* A restart keeps the invariant: it makes all places and spawners anew. *)
LEMMA RestartStep == ASSUME IInv, RestartGame PROVE IInv'
<1> DEFINE kept == {w \in Ids : Live(w) /\ weapon[w].owner # None}
           made == Spots \cup Stocked
<1>1. PICK D \in SUBSET (Players \ alive) :
        \E f \in Names(made \cup alive \cup D, Ids \ kept), class \in Stocks :
          /\ weapon' = [w \in Ids |->
               IF \E n \in made : f[n] = w THEN Made(CHOOSE n \in made : f[n] = w, class)
               ELSE IF \E p \in alive \cup D : f[p] = w
                      THEN Given(CHOOSE p \in alive \cup D : f[p] = w)
               ELSE IF w \in kept THEN Stripped(Players)[w] ELSE None]
          /\ inv' = [p \in Players |-> IF p \in alive \cup D THEN {f[p]} ELSE {}]
          /\ spawner' = Fresh(f)
          /\ alive' = alive \cup D
  <2>1. \A D : made \cup (alive \cup D) = made \cup alive \cup D
    OBVIOUS
  <2> QED BY <2>1 DEF RestartGame
<1> DEFINE back == alive \cup D
<1>2. PICK f \in Names(made \cup back, Ids \ kept), class \in Stocks :
        /\ weapon' = [w \in Ids |->
             IF \E n \in made : f[n] = w THEN Made(CHOOSE n \in made : f[n] = w, class)
             ELSE IF \E p \in back : f[p] = w THEN Given(CHOOSE p \in back : f[p] = w)
             ELSE IF w \in kept THEN Stripped(Players)[w] ELSE None]
        /\ inv' = [p \in Players |-> IF p \in back THEN {f[p]} ELSE {}]
        /\ spawner' = Fresh(f)
        /\ alive' = back
  BY <1>1
<1>3. back \subseteq Players /\ made \cap back = {}
  BY Disjoint DEF IInv, Types
<1>4. listed' = listed \cap kept
  BY DEF RestartGame
<1>5. /\ f \in [made \cup back -> Ids \ kept]
      /\ \A a, b \in made \cup back : f[a] = f[b] => a = b
  BY NamesAre
<1> HIDE DEF kept, made, back
<1>6. \A n \in made : weapon'[f[n]] = Made(n, class)
  <2> SUFFICES ASSUME NEW n \in made PROVE weapon'[f[n]] = Made(n, class)
    OBVIOUS
  <2>1. (CHOOSE m \in made : f[m] = f[n]) = n
    BY ChosenName
  <2> QED BY <1>2, <1>5, <2>1
<1>7. \A p \in back : weapon'[f[p]] = Given(p)
  <2> SUFFICES ASSUME NEW p \in back PROVE weapon'[f[p]] = Given(p)
    OBVIOUS
  <2>1. (CHOOSE q \in back : f[q] = f[p]) = p
    BY ChosenName
  <2>2. ~\E n \in made : f[n] = f[p]
    BY <1>3, <1>5
  <2> QED BY <1>2, <1>5, <2>1, <2>2
<1>8. ASSUME NEW w \in kept
      PROVE  w \in Ids /\ weapon'[w] \in Weapon
  <2>1. w \in Ids /\ Exists(w)
    BY DEF kept, Live
  <2>2. ~(\E n \in made : f[n] = w) /\ ~(\E p \in back : f[p] = w)
    BY <1>5
  <2>3. weapon'[w] = Stripped(Players)[w]
    BY <1>2, <2>1, <2>2
  <2> QED BY <2>1, <2>3, StrippedType
<1>9. weapon' \in [Ids -> Weapon \cup {None}]
  <2> SUFFICES ASSUME NEW w \in Ids PROVE weapon'[w] \in Weapon \cup {None}
    BY <1>2
  <2>1. CASE \E n \in made : f[n] = w
    BY <1>6, <2>1, MadeType DEF made
  <2>2. CASE \E p \in back : f[p] = w
    BY <1>3, <1>7, <2>2, GivenCarries DEF CarriedBy
  <2>3. CASE w \in kept
    BY <1>8, <2>3
  <2>4. CASE ~(\E n \in made : f[n] = w) /\ ~(\E p \in back : f[p] = w) /\ w \notin kept
    BY <1>2, <2>4
  <2> QED BY <2>1, <2>2, <2>3, <2>4
<1>10. spawner' \in [Spawners -> SpawnerState]
  BY <1>2, <1>5, FreshType DEF made
<1>11. Types'
  <2>1. inv' \in [Players -> SUBSET Ids] /\ alive' \subseteq Players
    BY <1>2, <1>3, <1>5
  <2>2. listed' \subseteq {w \in Ids : weapon'[w] # None}
    BY <1>4, <1>8, NoneIsNobody
  <2> QED BY <1>9, <1>10, <2>1, <2>2 DEF Types, Exists
<1>12. Carrying'
  <2> SUFFICES ASSUME NEW p \in Players, NEW w \in inv'[p]
               PROVE  CarriedBy(weapon'[w], p) /\ w \notin listed'
    BY DEF Carrying
  <2>1. p \in back /\ w = f[p]
    BY <1>2
  <2>2. w \notin kept
    BY <1>5, <2>1
  <2> QED BY <1>4, <1>7, <2>1, <2>2, GivenCarries
<1>13. \A s \in Spawners :
         /\ s \in Stocked => spawner'[s].weapon = f[s] /\ spawner'[s].touch
         /\ s \notin Stocked => spawner'[s].weapon = None /\ ~spawner'[s].touch
         /\ ~spawner'[s].think
  BY <1>2, FreshIs
<1>14. Offering'
  <2> SUFFICES ASSUME NEW t \in Spawners
               PROVE  IF spawner'[t].touch
                        THEN /\ spawner'[t].weapon \in Ids
                             /\ Offers(weapon'[spawner'[t].weapon]) /\ ~spawner'[t].think
                        ELSE spawner'[t].weapon = None /\ (t \in Stocked => spawner'[t].think)
    BY DEF Offering, Stocked
  <2>1. CASE t \in Stocked
    BY <1>5, <1>6, <1>13, <2>1, MadeType DEF made
  <2>2. CASE t \notin Stocked
    BY <1>13, <2>2
  <2> QED BY <2>1, <2>2
<1>15. Distinct'
  BY <1>5, <1>13 DEF Distinct, made
<1> QED BY <1>11, <1>12, <1>14, <1>15 DEF IInv
-----------------------------------------------------------------------------
(* One weapon per place.  Some one-to-one assignment b gives each place    *)
(* the weapon that is there, or on its way; it knows its place, unless one *)
(* was lost there early, and then it will never be at a place again.       *)
IsPlaced(r) == r # None /\ ~r.marked /\ ~r.final /\ r.owner = None

Fits(world, lost, b) ==
  /\ \A s, t \in Spots : b[s] = b[t] => s = t
  /\ \A w \in Ids : IsPlaced(world[w]) <=> \E s \in Spots : b[s] = w
  /\ \A s \in Spots :
       IF s \in lost THEN Place(world[b[s]]) \notin Spots ELSE Place(world[b[s]]) = s

(* It will not be removed, and a relocation or a push does not make it     *)
(* forget its place: what is on the list has noted where it came from.     *)
Lodged(r, isListed) ==
  /\ r.think # "remove"
  /\ isListed /\ r.home = Origin => r.at \notin Spots

WellPlaced(world, list, lost) ==
  /\ \E b \in [Spots -> Ids] : Fits(world, lost, b)
  /\ \A w \in Ids : IsPlaced(world[w]) => Lodged(world[w], w \in list)

SpotInv == WellPlaced(weapon, listed, early)

(* Placed, weapon by weapon. *)
LEMMA PlacedIs == Placed = {w \in Ids : IsPlaced(weapon[w])}
  BY DEF Placed, IsPlaced, Live, Exists

(* What nobody moves, owns or removes anew. *)
Stays(r, q) ==
  /\ q.at = r.at /\ q.home = r.home /\ q.final = r.final
  /\ q.owner = r.owner /\ q.marked = r.marked

(* A think leaves a weapon where it is. *)
LEMMA ThinksStays ==
  ASSUME NEW r \in Weapon, NEW think, NEW tick
  PROVE  Stays(r, Thinks(r, think, tick)) /\ Thinks(r, think, tick).think = think
  BY DEF Thinks, Weapon, Stays

(* So does SetPickupTouch, and one that comes back is not told to go. *)
LEMMA PickupStays ==
  ASSUME NEW r \in Weapon
  PROVE  Stays(r, SetPickupTouch(r)) /\ (~r.final => SetPickupTouch(r).think = r.think)
<1> DEFINE t == Thinks(r, "remove", FadeTime)
<1>1. Stays(r, t) /\ t \in Weapon
  <2>1. "remove" \in Thoughts /\ FadeTime \in Int
    BY Times DEF Thoughts
  <2> QED BY <2>1, ThinksStays, ThinksType
<1> HIDE DEF t
<1>2. CASE r.final
  <2>1. SetPickupTouch(r) = [t EXCEPT !.touch = TRUE]
    BY <1>2 DEF SetPickupTouch, t
  <2> QED BY <1>1, <1>2, <2>1 DEF Weapon, Stays
<1>3. CASE ~r.final
  <2>1. SetPickupTouch(r) = [r EXCEPT !.touch = TRUE]
    BY <1>3 DEF SetPickupTouch
  <2> QED BY <2>1 DEF Weapon, Stays
<1> QED BY <1>2, <1>3

(* So does FallInit. *)
LEMMA FallInitStays == ASSUME NEW r \in Weapon PROVE Stays(r, FallInit(r))
<1> DEFINE q == SetPickupTouch(r)
           t == Thinks(q, "fall", FallTime)
<1>1. q \in Weapon /\ Stays(r, q)
  BY PickupType, PickupStays
<1> HIDE DEF q
<1>2. t \in Weapon /\ Stays(q, t)
  <2>1. "fall" \in Thoughts /\ FallTime \in Int
    BY Times DEF Thoughts
  <2> QED BY <1>1, <2>1, ThinksStays, ThinksType
<1>3. FallInit(r) = [t EXCEPT !.solid = TRUE]
  BY DEF FallInit, t, q
<1> HIDE DEF t
<1>4. Stays(t, FallInit(r))
  BY <1>2, <1>3 DEF Weapon, Stays
<1> QED BY <1>1, <1>2, <1>4 DEF Stays

(* A weapon spawns where it is told to and has noted no place yet. *)
LEMMA SpawnedPlace ==
  ASSUME NEW class \in Classes, NEW at \in Spots \cup {Origin, Away}, NEW final \in BOOLEAN
  PROVE  /\ Spawned(class, at, final).at = at /\ Spawned(class, at, final).home = Origin
         /\ Spawned(class, at, final).final = final
<1> DEFINE r == [class |-> class, owner |-> None, touch |-> FALSE, solid |-> TRUE,
                 think |-> "none", tick |-> 0, final |-> final, at |-> at, home |-> Origin,
                 loaded |-> TRUE, marked |-> FALSE]
<1>1. r \in Weapon
  BY DEF Weapon
<1>2. r.at = at /\ r.home = Origin
  OBVIOUS
<1>3. r.final = final
  BY Zenon
<1> HIDE DEF r
<1>4. Spawned(class, at, final) = FallInit(r)
  BY DEF Spawned, r
<1> QED BY <1>1, <1>2, <1>3, <1>4, FallInitStays DEF Stays

(* The copy of a weapon is placed where that one had noted. *)
LEMMA RespawnPlace ==
  ASSUME NEW r \in Weapon
  PROVE  /\ IsPlaced(Respawn(r)) /\ Place(Respawn(r)) = r.home
         /\ Respawn(r).think = "materialize"
<1> DEFINE q == Spawned(r.class, r.home, FALSE)
           tick == IF stay THEN 1 ELSE RespawnTime
           t == Thinks(q, "materialize", tick)
<1>1. r.class \in Classes /\ r.home \in Spots \cup {Origin, Away} /\ FALSE \in BOOLEAN
  BY DEF Weapon
<1>2. q \in Weapon /\ q.owner = None /\ ~q.marked
  BY <1>1, SpawnedType
<1>3. q.at = r.home /\ q.home = Origin /\ q.final = FALSE
  BY <1>1, SpawnedPlace
<1>4. tick \in Int /\ "materialize" \in Thoughts
  BY Times DEF Thoughts
<1> HIDE DEF q, tick
<1>5. t \in Weapon /\ Stays(q, t) /\ t.think = "materialize"
  BY <1>2, <1>4, ThinksStays, ThinksType
<1>6. Respawn(r) = [t EXCEPT !.touch = FALSE]
  BY DEF Respawn, t, q, tick
<1> HIDE DEF t
<1>7. Stays(t, Respawn(r)) /\ Respawn(r).think = "materialize"
  BY <1>5, <1>6 DEF Weapon, Stays
<1>8. Respawn(r) # None
  BY RespawnType, NoneIsNobody
<1> QED BY <1>2, <1>3, <1>5, <1>7, <1>8 DEF Stays, IsPlaced, Place

(* A weapon that materializes keeps its place, and has noted it. *)
LEMMA MaterializePlace ==
  ASSUME NEW r \in Weapon
  PROVE  /\ IsPlaced(Materialize(r)) <=> IsPlaced(r)
         /\ IsPlaced(r) => /\ Place(Materialize(r)) = Place(r)
                           /\ Lodged(Materialize(r), TRUE)
<1> DEFINE n == NotesHome(r)
           q == SetPickupTouch(n)
           t == Thinks(q, "none", 0)
<1>1. n \in Weapon /\ n.owner = r.owner /\ n.marked = r.marked /\ n.final = r.final
  BY DEF NotesHome, Weapon
<1>2. ~r.final => n.at = r.at /\ n.home = Place(r)
  BY DEF NotesHome, Weapon, Place
<1> HIDE DEF n
<1>3. q \in Weapon /\ Stays(n, q)
  BY <1>1, PickupType, PickupStays
<1> HIDE DEF q
<1>4. t \in Weapon /\ Stays(q, t) /\ t.think = "none"
  <2>1. "none" \in Thoughts /\ 0 \in Int
    BY DEF Thoughts
  <2> QED BY <1>3, <2>1, ThinksStays, ThinksType
<1>5. Materialize(r) = t
  BY DEF Materialize, StopsThinking, t, q, n
<1> HIDE DEF t
<1>6. t # None /\ r # None
  BY <1>4, NoneIsNobody
<1>7. IsPlaced(t) <=> IsPlaced(r)
  BY <1>1, <1>3, <1>4, <1>6 DEF IsPlaced, Stays
<1>8. ASSUME IsPlaced(r)
      PROVE  Place(t) = Place(r) /\ Lodged(t, TRUE)
  <2>1. t.at = r.at /\ t.home = Place(r)
    BY <1>2, <1>3, <1>4, <1>8 DEF IsPlaced, Stays
  <2>2. Place(r) = Origin => r.at = Origin
    BY DEF Place
  <2>3. Origin \notin Spots
    BY WeaponsAssumption
  <2> QED BY <1>4, <2>1, <2>2, <2>3 DEF Place, Lodged
<1> QED BY <1>5, <1>7, <1>8

(* What is dropped will not come back. *)
LEMMA DropFinal == ASSUME NEW r \in Weapon PROVE Drop(r).final
<1> DEFINE q == [r EXCEPT !.final = TRUE]
           t == Thinks(FallInit(q), "pickup", DropTime)
<1>1. q \in Weapon /\ q.final
  BY DEF Weapon
<1> HIDE DEF q
<1>2. FallInit(q) \in Weapon /\ FallInit(q).final
  BY <1>1, FallInitType
<1>3. t \in Weapon /\ t.final
  <2>1. "pickup" \in Thoughts /\ DropTime \in Int
    BY Times DEF Thoughts
  <2> QED BY <1>2, <2>1, ThinksType
<1>4. Drop(r) = [t EXCEPT !.touch = FALSE, !.owner = None, !.loaded = TRUE]
  BY DEF Drop, q
<1> HIDE DEF t
<1> QED BY <1>3, <1>4 DEF Weapon

(* What is stripped keeps its owner. *)
LEMMA DeleteOwner == ASSUME NEW r \in Weapon PROVE Delete(r).owner = r.owner
<1>1. Thinks(r, "remove", StripTime) \in Weapon /\ Thinks(r, "remove", StripTime).owner = r.owner
  <2>1. "remove" \in Thoughts /\ StripTime \in Int
    BY Times DEF Thoughts
  <2> QED BY <2>1, ThinksType
<1> DEFINE t == Thinks(r, "remove", StripTime)
<1>2. Delete(r) = [t EXCEPT !.touch = FALSE]
  BY DEF Delete
<1> HIDE DEF t
<1> QED BY <1>1, <1>2 DEF Weapon, t

(* The places have their weapons as long as each of these stays where it   *)
(* was, or away from all places.                                           *)
LEMMA SpotsKept ==
  ASSUME SpotInv, UNCHANGED early,
         \A w \in Ids : IsPlaced(weapon'[w]) <=> IsPlaced(weapon[w]),
         \A w \in Ids : IsPlaced(weapon[w]) =>
           /\ \/ Place(weapon'[w]) = Place(weapon[w])
              \/ Place(weapon[w]) \notin Spots /\ Place(weapon'[w]) \notin Spots
           /\ Lodged(weapon'[w], w \in listed')
  PROVE  SpotInv'
<1>1. PICK b \in [Spots -> Ids] : Fits(weapon, early, b)
  BY DEF SpotInv, WellPlaced
<1>2. Fits(weapon', early, b)
  <2>1. \A s \in Spots : b[s] \in Ids /\ IsPlaced(weapon[b[s]])
    BY <1>1 DEF Fits
  <2>2. ASSUME NEW s \in Spots
        PROVE  IF s \in early THEN Place(weapon'[b[s]]) \notin Spots ELSE Place(weapon'[b[s]]) = s
    BY <1>1, <2>1 DEF Fits
  <2> QED BY <1>1, <2>2 DEF Fits
<1> QED BY <1>2 DEF SpotInv, WellPlaced

(* So they do if only weapons change that are not placed. *)
LEMMA OthersChange ==
  ASSUME SpotInv, UNCHANGED early, listed' \subseteq listed,
         \A w \in Ids : \/ weapon'[w] = weapon[w]
                        \/ ~IsPlaced(weapon[w]) /\ ~IsPlaced(weapon'[w])
  PROVE  SpotInv'
<1>1. \A w \in Ids : IsPlaced(weapon[w]) => weapon'[w] = weapon[w]
  OBVIOUS
<1>2. ASSUME NEW w \in Ids, IsPlaced(weapon[w])
      PROVE  Lodged(weapon'[w], w \in listed')
  BY <1>1, <1>2 DEF SpotInv, WellPlaced, Lodged
<1>3. \A w \in Ids : IsPlaced(weapon'[w]) <=> IsPlaced(weapon[w])
  OBVIOUS
<1> QED BY <1>1, <1>2, <1>3, SpotsKept

(* What is carried, and what a spawner offers, is not placed. *)
LEMMA CarriedNotPlaced ==
  /\ \A r : \A p \in Players : CarriedBy(r, p) => ~IsPlaced(r)
  /\ \A r : Offers(r) => ~IsPlaced(r)
BY NoneIsNobody DEF CarriedBy, Offers, IsPlaced

(* The thinks of a weapon leave it in its place. *)
LEMMA ThinkSpots == ASSUME IInv, SpotInv, NEW w \in Ids, Think(w) PROVE SpotInv'
<1> DEFINE r == weapon[w]
<1>1. Exists(w) /\ r \in Weapon /\ UNCHANGED early
  BY ExistsIs DEF Think, ThinkDue
<1>2. \A q : Becomes(w, q) =>
        weapon'[w] = q /\ \A v \in Ids : v # w => weapon'[v] = weapon[v]
  BY DEF IInv, Types, Becomes
<1>3. \A v \in Ids : IsPlaced(weapon[v]) => Lodged(weapon[v], v \in listed)
  BY DEF SpotInv, WellPlaced
<1>4. ASSUME NEW q, Becomes(w, q), IsPlaced(q) <=> IsPlaced(r),
             listed' \in {listed, listed \cup {w}},
             IsPlaced(r) => Place(q) = Place(r) /\ Lodged(q, w \in listed')
      PROVE  SpotInv'
  <2>1. weapon'[w] = q /\ \A v \in Ids : v # w => weapon'[v] = weapon[v]
    BY <1>2, <1>4
  <2>2. \A v \in Ids : v # w => (v \in listed' <=> v \in listed)
    BY <1>4
  <2>3. ASSUME NEW v \in Ids, IsPlaced(weapon[v])
        PROVE  Place(weapon'[v]) = Place(weapon[v]) /\ Lodged(weapon'[v], v \in listed')
    <3>1. CASE v = w
      BY <1>4, <2>1, <2>3, <3>1
    <3>2. CASE v # w
      BY <1>3, <2>1, <2>2, <2>3, <3>2 DEF Lodged
    <3> QED BY <3>1, <3>2
  <2>4. \A v \in Ids : IsPlaced(weapon'[v]) <=> IsPlaced(weapon[v])
    BY <1>4, <2>1
  <2> QED BY <1>1, <2>3, <2>4, SpotsKept
<1>5. ASSUME NEW q \in Weapon, Stays(r, q), Becomes(w, q), UNCHANGED listed,
             IsPlaced(r) => q.think # "remove"
      PROVE  SpotInv'
  <2>1. IsPlaced(q) <=> IsPlaced(r)
    BY <1>1, <1>5, NoneIsNobody DEF Stays, IsPlaced
  <2>2. IsPlaced(r) => Place(q) = Place(r) /\ Lodged(q, w \in listed')
    BY <1>3, <1>5 DEF Stays, Place, Lodged
  <2> QED BY <1>4, <1>5, <2>1, <2>2
<1>6. CASE Materializes(w)
  <2>1. Becomes(w, Materialize(r)) /\ listed' \in {listed, listed \cup {w}}
    BY <1>6 DEF Materializes
  <2>2. /\ IsPlaced(Materialize(r)) <=> IsPlaced(r)
        /\ IsPlaced(r) => Place(Materialize(r)) = Place(r) /\ Lodged(Materialize(r), TRUE)
    BY <1>1, MaterializePlace
  <2>3. IsPlaced(r) => Lodged(Materialize(r), w \in listed')
    BY <2>2 DEF Lodged
  <2> QED BY <1>4, <2>1, <2>2, <2>3
<1>7. CASE Becomes(w, Thinks(r, "fall", FallTime)) /\ UNCHANGED listed
  <2>1. "fall" \in Thoughts /\ FallTime \in Int
    BY Times DEF Thoughts
  <2> DEFINE q == Thinks(r, "fall", FallTime)
  <2>2. q \in Weapon /\ Stays(r, q) /\ q.think = "fall"
    BY <1>1, <2>1, ThinksStays, ThinksType
  <2> HIDE DEF q
  <2> QED BY <1>5, <1>7, <2>2 DEF q
<1>8. "none" \in Thoughts /\ 0 \in Int
  BY DEF Thoughts
<1> DEFINE t == StopsThinking(r)
<1>9. t \in Weapon /\ Stays(r, t) /\ t.think = "none"
  BY <1>1, <1>8, ThinksStays, ThinksType DEF StopsThinking
<1> HIDE DEF t
<1>10. CASE Becomes(w, SetPickupTouch(t)) /\ UNCHANGED listed
  <2> DEFINE q == SetPickupTouch(t)
  <2>1. q \in Weapon /\ Stays(t, q) /\ (~t.final => q.think = "none")
    BY <1>9, PickupType, PickupStays
  <2> HIDE DEF q
  <2>2. Stays(r, q) /\ (IsPlaced(r) => q.think = "none")
    BY <1>9, <2>1 DEF Stays, IsPlaced
  <2> QED BY <1>5, <1>10, <2>1, <2>2 DEF q
<1>11. CASE r.think = "remove" /\ Becomes(w, UTIL_Remove(t)) /\ UNCHANGED listed
  <2>1. ~IsPlaced(r)
    BY <1>3, <1>11 DEF Lodged
  <2>2. UTIL_Remove(t).marked
    BY <1>9 DEF UTIL_Remove, Weapon
  <2>3. ~IsPlaced(UTIL_Remove(t))
    BY <2>2 DEF IsPlaced
  <2> QED BY <1>4, <1>11, <2>1, <2>3
<1> QED BY <1>6, <1>7, <1>10, <1>11 DEF Think, t

(* A weapon that has noted its place can be pushed away from it. *)
LEMMA PushSpots == ASSUME IInv, SpotInv, NEW w \in Ids, Push(w) PROVE SpotInv'
<1> DEFINE r == weapon[w]
           q == [r EXCEPT !.at = Away]
<1>1. /\ r \in Weapon /\ w \in listed /\ UNCHANGED <<listed, early>>
      /\ weapon' = [weapon EXCEPT ![w] = q] /\ weapon \in [Ids -> Weapon \cup {None}]
  BY ExistsIs DEF Push, Live, Becomes, IInv, Types
<1>2. weapon'[w] = q /\ \A v \in Ids : v # w => weapon'[v] = weapon[v]
  BY <1>1
<1>3. q \in Weapon /\ q.at = Away /\ q.home = r.home /\ q.think = r.think
      /\ q.owner = r.owner /\ q.final = r.final /\ q.marked = r.marked
  BY <1>1 DEF Weapon
<1>4. Away \notin Spots /\ Origin \notin Spots
  BY WeaponsAssumption
<1> HIDE DEF q
<1>5. \A v \in Ids : IsPlaced(weapon[v]) => Lodged(weapon[v], v \in listed)
  BY DEF SpotInv, WellPlaced
<1>6. IsPlaced(q) <=> IsPlaced(r)
  BY <1>1, <1>3, NoneIsNobody DEF IsPlaced
<1>7. ASSUME IsPlaced(r)
      PROVE  /\ Place(q) = Place(r) \/ (Place(r) \notin Spots /\ Place(q) \notin Spots)
             /\ Lodged(q, w \in listed)
  <2>1. Lodged(r, TRUE)
    BY <1>1, <1>5, <1>7 DEF Lodged
  <2> QED BY <1>3, <1>4, <2>1 DEF Lodged, Place
<1>8. \A v \in Ids : IsPlaced(weapon'[v]) <=> IsPlaced(weapon[v])
  BY <1>2, <1>6
<1>9. ASSUME NEW v \in Ids, IsPlaced(weapon[v])
      PROVE  /\ \/ Place(weapon'[v]) = Place(weapon[v])
                \/ Place(weapon[v]) \notin Spots /\ Place(weapon'[v]) \notin Spots
             /\ Lodged(weapon'[v], v \in listed')
  BY <1>1, <1>2, <1>5, <1>7, <1>9
<1> QED BY <1>1, <1>8, <1>9, SpotsKept

(* And the relocation brings it back. *)
LEMMA RelocationSpots == ASSUME IInv, SpotInv, ManageObjectRelocation PROVE SpotInv'
<1>1. PICK W \in SUBSET {w \in listed : Exists(w) /\ weapon[w].at # weapon[w].home} \ {{}} :
        weapon' = [w \in Ids |-> IF w \in W THEN [weapon[w] EXCEPT !.at = weapon[w].home]
                                            ELSE weapon[w]]
  BY DEF ManageObjectRelocation
<1>2. UNCHANGED <<listed, early>>
  BY DEF ManageObjectRelocation
<1>3. Origin \notin Spots
  BY WeaponsAssumption
<1>4. \A v \in Ids : IsPlaced(weapon[v]) => Lodged(weapon[v], v \in listed)
  BY DEF SpotInv, WellPlaced
<1>5. ASSUME NEW w \in Ids
      PROVE  /\ IsPlaced(weapon'[w]) <=> IsPlaced(weapon[w])
             /\ IsPlaced(weapon[w]) =>
                  /\ \/ Place(weapon'[w]) = Place(weapon[w])
                     \/ Place(weapon[w]) \notin Spots /\ Place(weapon'[w]) \notin Spots
                  /\ Lodged(weapon'[w], w \in listed')
  <2> DEFINE r == weapon[w]
             q == [r EXCEPT !.at = r.home]
  <2>1. CASE w \notin W
    BY <1>1, <1>2, <1>4, <2>1
  <2>2. CASE w \in W
    <3>1. r \in Weapon /\ w \in listed
      BY <1>1, <2>2, ExistsIs
    <3>2. q \in Weapon /\ q.at = r.home /\ q.home = r.home /\ q.think = r.think
          /\ q.owner = r.owner /\ q.final = r.final /\ q.marked = r.marked
      BY <3>1 DEF Weapon
    <3>3. weapon'[w] = q
      BY <1>1, <2>2
    <3> HIDE DEF q
    <3>4. IsPlaced(q) <=> IsPlaced(r)
      BY <3>1, <3>2, NoneIsNobody DEF IsPlaced
    <3>5. ASSUME IsPlaced(r)
          PROVE  /\ Place(q) = Place(r) \/ (Place(r) \notin Spots /\ Place(q) \notin Spots)
                 /\ Lodged(q, w \in listed)
      <4>1. Lodged(r, TRUE)
        BY <1>4, <3>1, <3>5 DEF Lodged
      <4> QED BY <1>3, <3>2, <4>1 DEF Lodged, Place
    <3> QED BY <1>2, <3>3, <3>4, <3>5
  <2> QED BY <2>1, <2>2
<1> QED BY <1>2, <1>5, SpotsKept

(* A taken or used up weapon leaves its copy in its place. *)
LEMMA TakenSpots ==
  ASSUME IInv, SpotInv, NEW w \in Ids, Exists(w), ~weapon[w].marked, weapon[w].owner = None,
         Free # {}, NEW q \in Weapon, ~IsPlaced(q), CheckRespawn(w, q), listed' \subseteq listed
  PROVE  SpotInv'
<1> DEFINE r == weapon[w]
           c == CHOOSE v \in Free : TRUE
           copy == Respawn(r)
<1>1. /\ weapon' = [v \in Ids |-> IF v = w THEN q
                                 ELSE IF v \in CopyOf(w) THEN copy ELSE weapon[v]]
      /\ early' = IF ~r.final /\ r.home = Origin THEN early \cup ({r.at} \cap Spots) ELSE early
  BY DEF CheckRespawn
<1>2. r \in Weapon
  BY ExistsIs
<1>3. c \in Free /\ c \in Ids /\ ~Exists(c) /\ c # w /\ ~IsPlaced(weapon[c]) /\ c \notin listed
  <2>1. c \in Free
    OBVIOUS
  <2> HIDE DEF c
  <2> QED BY <2>1 DEF Free, Exists, IsPlaced, IInv, Types
<1>4. CASE r.final
  <2>1. UNCHANGED early /\ CopyOf(w) = {} /\ ~IsPlaced(r)
    BY <1>1, <1>4 DEF CopyOf, IsPlaced
  <2>2. ASSUME NEW v \in Ids
        PROVE  weapon'[v] = weapon[v] \/ (~IsPlaced(weapon[v]) /\ ~IsPlaced(weapon'[v]))
    BY <1>1, <2>1
  <2> HIDE DEF c, copy
  <2> QED BY <2>1, <2>2, OthersChange
<1>5. CASE ~r.final
  <2>1. CopyOf(w) = {c}
    BY <1>5 DEF CopyOf
  <2> HIDE DEF c
  <2>2. IsPlaced(copy) /\ Place(copy) = r.home /\ copy.think = "materialize"
    BY <1>2, RespawnPlace
  <2> HIDE DEF copy
  <2>3. /\ weapon'[w] = q /\ weapon'[c] = copy
        /\ \A v \in Ids : v # w /\ v # c => weapon'[v] = weapon[v]
    BY <1>1, <1>3, <2>1
  <2>4. IsPlaced(r)
    BY <1>2, <1>5, NoneIsNobody DEF IsPlaced
  <2>5. PICK b \in [Spots -> Ids] : Fits(weapon, early, b)
    BY DEF SpotInv, WellPlaced
  <2>6. /\ \A s, t \in Spots : b[s] = b[t] => s = t
        /\ \A v \in Ids : IsPlaced(weapon[v]) <=> \E s \in Spots : b[s] = v
        /\ \A s \in Spots : IF s \in early THEN Place(weapon[b[s]]) \notin Spots
                            ELSE Place(weapon[b[s]]) = s
    BY <2>5 DEF Fits
  <2>7. PICK here \in Spots : b[here] = w
    BY <2>4, <2>6
  <2> DEFINE d == [b EXCEPT ![here] = c]
  <2>8. /\ d \in [Spots -> Ids] /\ d[here] = c
        /\ \A s \in Spots : s # here => d[s] = b[s] /\ b[s] # w /\ b[s] # c
    <3>1. \A s \in Spots : b[s] # c
      BY <1>3, <2>6
    <3> QED BY <1>3, <2>6, <2>7, <3>1
  <2> HIDE DEF d
  <2>9. Origin \notin Spots
    BY WeaponsAssumption
  <2>10. \A s \in Spots : s # here => (s \in early' <=> s \in early)
    <3> SUFFICES ASSUME r.home = Origin, r.at \in Spots PROVE r.at = here
      BY <1>1
    <3>1. Place(r) = r.at
      BY DEF Place
    <3> QED BY <2>6, <2>7, <3>1
  <2>11. IF here \in early' THEN Place(copy) \notin Spots ELSE Place(copy) = here
    <3>1. CASE r.home = Origin
      <4>1. Place(r) = r.at /\ Place(copy) \notin Spots
        BY <2>2, <2>9, <3>1 DEF Place
      <4>2. here \in early'
        BY <1>1, <1>5, <2>6, <2>7, <3>1, <4>1
      <4> QED BY <4>1, <4>2
    <3>2. CASE r.home # Origin
      <4>1. Place(r) = r.home /\ UNCHANGED early
        BY <1>1, <3>2 DEF Place
      <4> QED BY <2>2, <2>6, <2>7, <4>1
    <3> QED BY <3>1, <3>2
  <2>12. Fits(weapon', early', d)
    <3>1. ASSUME NEW s \in Spots, NEW t \in Spots, d[s] = d[t] PROVE s = t
      BY <2>6, <2>8, <3>1
    <3>2. ASSUME NEW v \in Ids PROVE IsPlaced(weapon'[v]) <=> \E s \in Spots : d[s] = v
      <4>1. CASE v = w
        <5>1. ~\E s \in Spots : d[s] = w
          BY <1>3, <2>8
        <5> QED BY <2>3, <4>1, <5>1
      <4>2. CASE v = c
        BY <2>2, <2>3, <2>8, <4>2
      <4>3. CASE v # w /\ v # c
        <5>1. (\E s \in Spots : b[s] = v) <=> \E s \in Spots : d[s] = v
          BY <2>7, <2>8, <4>3
        <5> QED BY <2>3, <2>6, <4>3, <5>1
      <4> QED BY <4>1, <4>2, <4>3
    <3>3. ASSUME NEW s \in Spots
          PROVE  IF s \in early' THEN Place(weapon'[d[s]]) \notin Spots
                 ELSE Place(weapon'[d[s]]) = s
      <4>1. CASE s = here
        BY <2>3, <2>8, <2>11, <4>1
      <4>2. CASE s # here
        <5>1. d[s] = b[s] /\ weapon'[d[s]] = weapon[b[s]]
          BY <2>3, <2>8, <4>2
        <5> QED BY <2>6, <2>10, <4>2, <5>1
      <4> QED BY <4>1, <4>2
    <3> QED BY <3>1, <3>2, <3>3 DEF Fits
  <2>13. ASSUME NEW v \in Ids, IsPlaced(weapon'[v])
         PROVE  Lodged(weapon'[v], v \in listed')
    <3>1. CASE v = c
      BY <1>3, <2>2, <2>3, <3>1 DEF Lodged
    <3>2. CASE v # c
      <4>1. v # w /\ weapon'[v] = weapon[v] /\ IsPlaced(weapon[v])
        BY <2>3, <2>13, <3>2
      <4> QED BY <4>1 DEF SpotInv, WellPlaced, Lodged
    <3> QED BY <3>1, <3>2
  <2> QED BY <2>8, <2>12, <2>13 DEF SpotInv, WellPlaced
<1> QED BY <1>4, <1>5

(* So does a touch. *)
LEMMA TouchSpots ==
  ASSUME IInv, SpotInv, NEW p \in Players, NEW w \in Ids, Touch(p, w) PROVE SpotInv'
<1>1. /\ Exists(w) /\ ~weapon[w].marked /\ Free # {}
      /\ TakeWeapon(p, w, weapon[w]) \/ TakeAmmo(p, w)
  BY SomeFree DEF Touch, Live
<1>2. weapon[w] \in Weapon
  BY <1>1, ExistsIs
<1>3. /\ weapon[w].owner = None /\ listed' = listed \ {w}
      /\ CheckRespawn(w, Equip(weapon[w], p)) \/ CheckRespawn(w, UTIL_Remove(weapon[w]))
  BY <1>1 DEF TakeWeapon, TakeAmmo, OnPickedUp
<1>4. Equip(weapon[w], p) \in Weapon /\ ~IsPlaced(Equip(weapon[w], p))
  BY <1>1, <1>2, EquipCarries, CarriedNotPlaced DEF CarriedBy
<1>5. UTIL_Remove(weapon[w]) \in Weapon /\ ~IsPlaced(UTIL_Remove(weapon[w]))
  BY <1>2, RemoveType DEF UTIL_Remove, IsPlaced, Weapon
<1> QED BY <1>1, <1>3, <1>4, <1>5, TakenSpots

(* What a spawner gives leaves no copy. *)
LEMMA SpawnerTouchSpots ==
  ASSUME IInv, SpotInv, NEW p \in Players, NEW s \in Spawners, SpawnerTouch(p, s)
  PROVE  SpotInv'
<1> DEFINE w == spawner[s].weapon
           r == [weapon[w] EXCEPT !.at = Away, !.loaded = @ \/ ~Owns(p, weapon[w].class)]
<1>1. w \in Ids /\ Exists(w) /\ Offers(weapon[w]) /\ Free # {}
  BY OfferedFacts, SomeFree DEF SpawnerTouch
<1>2. Offers(r) /\ r \in Weapon
  BY <1>1 DEF Offers, Weapon
<1>3. TakeWeapon(p, w, r) \/ (weapon' = [weapon EXCEPT ![w] = r] /\ UNCHANGED <<listed, early>>)
  BY DEF SpawnerTouch
<1> HIDE DEF w, r
<1>4. CASE TakeWeapon(p, w, r)
  <2>1. CheckRespawn(w, Equip(r, p)) /\ listed' \subseteq listed
    BY <1>4 DEF TakeWeapon, OnPickedUp
  <2>2. CarriedBy(Equip(r, p), p)
    BY <1>2, EquipCarries DEF Offers
  <2>3. Equip(r, p) \in Weapon /\ ~IsPlaced(Equip(r, p))
    BY <2>2, CarriedNotPlaced DEF CarriedBy
  <2> QED BY <1>1, <2>1, <2>3, TakenSpots DEF Offers
<1>5. CASE weapon' = [weapon EXCEPT ![w] = r] /\ UNCHANGED <<listed, early>>
  <2>1. ~IsPlaced(weapon[w]) /\ ~IsPlaced(r)
    BY <1>1, <1>2, CarriedNotPlaced
  <2>2. weapon'[w] = r /\ \A v \in Ids : v # w => weapon'[v] = weapon[v]
    BY <1>1, <1>5 DEF IInv, Types
  <2> QED BY <1>5, <2>1, <2>2, OthersChange
<1> QED BY <1>3, <1>4, <1>5

(* What a spawner puts out is not of a place. *)
LEMMA ForceNextSpawnSpots ==
  ASSUME IInv, SpotInv, NEW s \in Spawners, ForceNextSpawn(s) PROVE SpotInv'
<1>1. UNCHANGED <<listed, early>>
  BY DEF ForceNextSpawn
<1>2. CASE Allowed[s] = {}
  BY <1>1, <1>2, OthersChange DEF ForceNextSpawn
<1>3. CASE Allowed[s] # {}
  <2> DEFINE w == CHOOSE v \in Free : TRUE
  <2>1. w \in Free
    BY <1>3 DEF ForceNextSpawn
  <2>2. PICK class \in Allowed[s] : weapon' = [weapon EXCEPT ![w] = Offered(class)]
    BY <1>3 DEF ForceNextSpawn
  <2> HIDE DEF w
  <2>3. w \in Ids /\ ~IsPlaced(weapon[w])
    BY <2>1 DEF Free, Exists, IsPlaced
  <2>4. ~IsPlaced(Offered(class))
    BY WeaponsAssumption, OfferedOffers, CarriedNotPlaced
  <2>5. weapon'[w] = Offered(class) /\ \A v \in Ids : v # w => weapon'[v] = weapon[v]
    BY <2>2, <2>3 DEF IInv, Types
  <2> QED BY <1>1, <2>3, <2>4, <2>5, OthersChange
<1> QED BY <1>2, <1>3

(* What a player drops or uses up was not of a place, and will not be. *)
LEMMA LosesSpots ==
  ASSUME IInv, SpotInv, NEW p \in Players, NEW w \in inv[p], NEW q, ~IsPlaced(q),
         Becomes(w, q), UNCHANGED <<listed, early>>
  PROVE  SpotInv'
<1>1. w \in Ids /\ ~IsPlaced(weapon[w])
  BY CarriedFacts, CarriedNotPlaced
<1>2. weapon'[w] = q /\ \A v \in Ids : v # w => weapon'[v] = weapon[v]
  BY <1>1 DEF Becomes, IInv, Types
<1> QED BY <1>1, <1>2, OthersChange

(* A death leaves the places alone, *)
LEMMA DieSpots == ASSUME IInv, SpotInv, NEW p \in Players, Die(p) PROVE SpotInv'
<1>1. UNCHANGED <<listed, early>>
  BY DEF Die
<1>2. CASE \E w \in inv[p] : Loses(p, w) /\ Becomes(w, Drop(weapon[w]))
  <2>1. PICK w \in inv[p] : Becomes(w, Drop(weapon[w]))
    BY <1>2
  <2>2. ~IsPlaced(Drop(weapon[w]))
    BY CarriedFacts, DropFinal DEF CarriedBy, IsPlaced
  <2> QED BY <1>1, <2>1, <2>2, LosesSpots
<1>3. CASE UNCHANGED <<inv, weapon>>
  BY <1>1, <1>3, OthersChange
<1> QED BY <1>2, <1>3 DEF Die

(* and so does a weapon that is used up. *)
LEMMA UseUpSpots ==
  ASSUME IInv, SpotInv, NEW p \in Players, NEW w \in Ids, UseUp(p, w) PROVE SpotInv'
<1>1. w \in inv[p] /\ Becomes(w, UTIL_Remove(Drop(weapon[w]))) /\ UNCHANGED <<listed, early>>
  BY DEF UseUp
<1>2. Drop(weapon[w]) \in Weapon
  BY <1>1, CarriedFacts, DropType DEF CarriedBy
<1>3. ~IsPlaced(UTIL_Remove(Drop(weapon[w])))
  BY <1>2 DEF UTIL_Remove, IsPlaced, Weapon
<1> QED BY <1>1, <1>3, LosesSpots

(* What is stripped is the owner's until it is gone. *)
LEMMA StrippedOwner ==
  ASSUME IInv, NEW P \in SUBSET Players, NEW w \in Ids, Exists(w)
  PROVE  Stripped(P)[w] \in Weapon /\ Stripped(P)[w].owner = weapon[w].owner
<1>1. CASE \E p \in P : w \in inv[p]
  <2>1. Stripped(P)[w] = Delete(weapon[w]) /\ weapon[w] \in Weapon
    BY <1>1, ExistsIs DEF Stripped
  <2> QED BY <2>1, DeleteType, DeleteOwner
<1>2. CASE ~\E p \in P : w \in inv[p]
  <2>1. Stripped(P)[w] = weapon[w] /\ weapon[w] \in Weapon
    BY <1>2, ExistsIs DEF Stripped
  <2> QED BY <2>1
<1> QED BY <1>1, <1>2

(* Stripping leaves the places alone. *)
LEMMA RemoveAllItemsSpots ==
  ASSUME IInv, SpotInv, NEW p \in Players, RemoveAllItems(p) PROVE SpotInv'
<1>1. weapon' = Stripped({p}) /\ UNCHANGED <<listed, early>>
  BY DEF RemoveAllItems
<1>2. ASSUME NEW w \in Ids
      PROVE  weapon'[w] = weapon[w] \/ (~IsPlaced(weapon[w]) /\ ~IsPlaced(weapon'[w]))
  <2>1. CASE w \in inv[p]
    <3>1. Exists(w) /\ weapon[w].owner # None
      BY <2>1, CarriedFacts
    <3>2. weapon'[w].owner = weapon[w].owner
      BY <1>1, <3>1, StrippedOwner
    <3> QED BY <3>1, <3>2 DEF IsPlaced
  <2>2. CASE w \notin inv[p]
    BY <1>1, <2>2, StrippedType
  <2> QED BY <2>1, <2>2
<1> QED BY <1>1, <1>2, OthersChange

(* What a player is given is his. *)
LEMMA SpawnSpots == ASSUME IInv, SpotInv, NEW p \in Players, Spawn(p) PROVE SpotInv'
<1> DEFINE w == CHOOSE v \in Free : TRUE
<1>0. Free # {} /\ UNCHANGED <<listed, early>>
  BY SomeFree DEF Spawn
<1>1. w \in Free
  BY <1>0
<1>2. weapon' = [weapon EXCEPT ![w] = Given(p)]
  BY DEF Spawn, Becomes
<1> HIDE DEF w
<1>3. w \in Ids /\ ~IsPlaced(weapon[w])
  BY <1>1 DEF Free, Exists, IsPlaced
<1>4. ~IsPlaced(Given(p))
  BY GivenCarries, CarriedNotPlaced
<1>5. weapon'[w] = Given(p) /\ \A v \in Ids : v # w => weapon'[v] = weapon[v]
  BY <1>2, <1>3 DEF IInv, Types
<1> QED BY <1>0, <1>3, <1>4, <1>5, OthersChange

(* Who leaves takes nothing along that is of a place. *)
LEMMA LeaveSpots == ASSUME IInv, SpotInv, NEW p \in Players, Leave(p) PROVE SpotInv'
<1>1. /\ weapon' = [w \in Ids |-> IF Exists(w) /\ weapon[w].owner = p
                                   THEN UTIL_Remove(Stripped({p})[w]) ELSE weapon[w]]
      /\ UNCHANGED <<listed, early>>
  BY DEF Leave
<1>2. ASSUME NEW w \in Ids
      PROVE  weapon'[w] = weapon[w] \/ (~IsPlaced(weapon[w]) /\ ~IsPlaced(weapon'[w]))
  <2>1. CASE Exists(w) /\ weapon[w].owner = p
    <3>1. Stripped({p})[w] \in Weapon
      BY <2>1, StrippedOwner
    <3>2. UTIL_Remove(Stripped({p})[w]).marked
      BY <3>1 DEF UTIL_Remove, Weapon
    <3>3. weapon'[w] = UTIL_Remove(Stripped({p})[w])
      BY <1>1, <2>1
    <3> QED BY <2>1, <3>2, <3>3, NoneIsNobody DEF IsPlaced
  <2>2. CASE ~(Exists(w) /\ weapon[w].owner = p)
    BY <1>1, <2>2
  <2> QED BY <2>1, <2>2
<1> QED BY <1>1, <1>2, OthersChange

(* Time moves nothing. *)
LEMMA StartFrameSpots == ASSUME IInv, SpotInv, StartFrame PROVE SpotInv'
<1>1. /\ weapon' = [w \in Ids |-> IF w \in Marked THEN None ELSE Older(weapon[w])]
      /\ listed' = listed \ Marked /\ UNCHANGED early
  BY DEF StartFrame, Forget
<1>2. ASSUME NEW w \in Ids
      PROVE  /\ IsPlaced(weapon'[w]) <=> IsPlaced(weapon[w])
             /\ IsPlaced(weapon[w]) =>
                  /\ Place(weapon'[w]) = Place(weapon[w])
                  /\ Lodged(weapon'[w], w \in listed')
  <2>1. CASE w \in Marked
    BY <1>1, <2>1 DEF Marked, IsPlaced
  <2>2. CASE ~Exists(w)
    BY <1>1, <2>2 DEF Marked, Older, Exists, IsPlaced
  <2>3. CASE Exists(w) /\ w \notin Marked
    <3> DEFINE r == weapon[w]
               q == Older(r)
    <3>1. weapon'[w] = q /\ r \in Weapon
      BY <1>1, <2>3, ExistsIs
    <3>2. q \in Weapon /\ Stays(r, q) /\ q.think = r.think
      <4>1. CASE r.think = "none"
        BY <3>1, <4>1 DEF Older, Stays
      <4>2. CASE r.think # "none"
        <5>1. q = [r EXCEPT !.tick = @ - 1]
          BY <3>1, <4>2, NoneIsNobody DEF Older
        <5> QED BY <3>1, <5>1 DEF Weapon, Stays
      <4> QED BY <4>1, <4>2
    <3> HIDE DEF q
    <3>3. IsPlaced(q) <=> IsPlaced(r)
      BY <3>1, <3>2, NoneIsNobody DEF Stays, IsPlaced
    <3>4. ASSUME IsPlaced(r)
          PROVE  Place(q) = Place(r) /\ Lodged(q, w \in listed')
      <4>1. Lodged(r, w \in listed)
        BY <3>4 DEF SpotInv, WellPlaced
      <4> QED BY <1>1, <3>2, <4>1 DEF Stays, Place, Lodged
    <3> QED BY <3>1, <3>3, <3>4
  <2> QED BY <2>1, <2>2, <2>3
<1> QED BY <1>1, <1>2, SpotsKept

(* The clean-up deletes what is marked, and nothing that is placed is. *)
LEMMA EndFrameSpots == ASSUME IInv, SpotInv, EndFrame PROVE SpotInv'
<1>1. /\ weapon' = [w \in Ids |-> IF w \in Marked THEN None ELSE weapon[w]]
      /\ listed' \subseteq listed /\ UNCHANGED early
  BY DEF EndFrame, Forget
<1>2. ASSUME NEW w \in Ids
      PROVE  weapon'[w] = weapon[w] \/ (~IsPlaced(weapon[w]) /\ ~IsPlaced(weapon'[w]))
  BY <1>1 DEF Marked, IsPlaced
<1> QED BY <1>1, <1>2, OthersChange

(* The weapons of a map, each as it spawns at its place. *)
LEMMA SpotsMade ==
  ASSUME NEW world, NEW list, NEW f, \A s \in Spots : f[s] \in Ids \ list,
         \A s, t \in Spots : f[s] = f[t] => s = t,
         \A s \in Spots : world[f[s]] = Spawned(MapClass[s], s, FALSE),
         \A w \in Ids : IsPlaced(world[w]) => \E s \in Spots : f[s] = w
  PROVE  WellPlaced(world, list, {})
<1> DEFINE b == [s \in Spots |-> f[s]]
<1>1. b \in [Spots -> Ids] /\ \A s \in Spots : b[s] = f[s]
  OBVIOUS
<1> HIDE DEF b
<1>2. ASSUME NEW s \in Spots
      PROVE  /\ IsPlaced(world[f[s]]) /\ Place(world[f[s]]) = s
             /\ world[f[s]].think = "fall"
  <2>1. MapClass[s] \in Classes /\ s \in Spots \cup {Origin, Away} /\ FALSE \in BOOLEAN
    BY WeaponsAssumption
  <2> DEFINE r == Spawned(MapClass[s], s, FALSE)
  <2>2. r \in Weapon /\ r.think = "fall" /\ r.owner = None /\ ~r.marked
    BY <2>1, SpawnedType
  <2>3. r.at = s /\ r.home = Origin /\ r.final = FALSE
    BY <2>1, SpawnedPlace
  <2>4. world[f[s]] = r
    OBVIOUS
  <2> HIDE DEF r
  <2> QED BY <2>2, <2>3, <2>4, NoneIsNobody DEF IsPlaced, Place
<1>3. Fits(world, {}, b)
  BY <1>1, <1>2 DEF Fits
<1>4. ASSUME NEW w \in Ids, IsPlaced(world[w])
      PROVE  Lodged(world[w], w \in list)
  BY <1>2, <1>4 DEF Lodged
<1> QED BY <1>1, <1>3, <1>4 DEF WellPlaced

(* What a map makes for a spawner is not of a place. *)
LEMMA MadePlaced ==
  ASSUME NEW class \in Stocks, NEW n \in Stocked
  PROVE  ~IsPlaced(Made(n, class))
BY MadeType, CarriedNotPlaced

(* A map starts with a weapon at each place. *)
LEMMA InitSpots == Init => SpotInv
<1> SUFFICES ASSUME Init PROVE SpotInv
  OBVIOUS
<1> DEFINE made == Spots \cup Stocked
<1>1. PICK f \in Names(made, Ids), class \in Stocks :
        weapon = [w \in Ids |->
          IF \E n \in made : f[n] = w THEN Made(CHOOSE n \in made : f[n] = w, class) ELSE None]
  BY DEF Init
<1>2. listed = {} /\ early = {}
  BY DEF Init
<1>3. f \in [made -> Ids] /\ \A a, b \in made : f[a] = f[b] => a = b
  BY NamesAre
<1>4. ASSUME NEW n \in made PROVE weapon[f[n]] = Made(n, class)
  <2>1. (CHOOSE m \in made : f[m] = f[n]) = n
    BY ChosenName
  <2> QED BY <1>1, <1>3, <2>1
<1>5. \A s \in Spots : weapon[f[s]] = Spawned(MapClass[s], s, FALSE)
  BY <1>4 DEF Made
<1>6. ASSUME NEW w \in Ids, IsPlaced(weapon[w])
      PROVE  \E s \in Spots : f[s] = w
  <2>1. PICK n \in made : f[n] = w
    BY <1>1, <1>6 DEF IsPlaced
  <2>2. n \notin Stocked
    BY <1>4, <1>6, <2>1, MadePlaced
  <2> QED BY <2>1, <2>2
<1>7. /\ \A s \in Spots : f[s] \in Ids \ listed
      /\ \A s, t \in Spots : f[s] = f[t] => s = t
  BY <1>2, <1>3
<1> HIDE DEF made
<1> QED BY <1>2, <1>5, <1>6, <1>7, SpotsMade DEF SpotInv

(* A restart brings a weapon to each place and takes away the old ones. *)
LEMMA RestartSpots == ASSUME IInv, RestartGame PROVE SpotInv'
<1> DEFINE kept == {w \in Ids : Live(w) /\ weapon[w].owner # None}
           made == Spots \cup Stocked
<1>1. PICK D \in SUBSET (Players \ alive) :
        \E f \in Names(made \cup alive \cup D, Ids \ kept), class \in Stocks :
          /\ weapon' = [w \in Ids |->
               IF \E n \in made : f[n] = w THEN Made(CHOOSE n \in made : f[n] = w, class)
               ELSE IF \E p \in alive \cup D : f[p] = w
                      THEN Given(CHOOSE p \in alive \cup D : f[p] = w)
               ELSE IF w \in kept THEN Stripped(Players)[w] ELSE None]
          /\ inv' = [p \in Players |-> IF p \in alive \cup D THEN {f[p]} ELSE {}]
          /\ spawner' = Fresh(f)
          /\ alive' = alive \cup D
  <2>1. \A D : made \cup (alive \cup D) = made \cup alive \cup D
    OBVIOUS
  <2> QED BY <2>1 DEF RestartGame
<1> DEFINE back == alive \cup D
<1>2. PICK f \in Names(made \cup back, Ids \ kept), class \in Stocks :
        /\ weapon' = [w \in Ids |->
             IF \E n \in made : f[n] = w THEN Made(CHOOSE n \in made : f[n] = w, class)
             ELSE IF \E p \in back : f[p] = w THEN Given(CHOOSE p \in back : f[p] = w)
             ELSE IF w \in kept THEN Stripped(Players)[w] ELSE None]
        /\ inv' = [p \in Players |-> IF p \in back THEN {f[p]} ELSE {}]
        /\ spawner' = Fresh(f)
        /\ alive' = back
  BY <1>1
<1>3. back \subseteq Players /\ listed' = listed \cap kept /\ early' = {}
  BY DEF IInv, Types, RestartGame
<1>4. /\ f \in [made \cup back -> Ids \ kept]
      /\ \A a, b \in made \cup back : f[a] = f[b] => a = b
  BY NamesAre
<1>5. Spots \subseteq made /\ Stocked \subseteq made /\ \A n \in made : n \in Spots \cup Stocked
  OBVIOUS
<1>6. \A w \in kept : w \in Ids /\ Exists(w) /\ weapon[w].owner # None
  BY DEF Live
<1> HIDE DEF kept, made, back
<1>7. ASSUME NEW n \in made PROVE weapon'[f[n]] = Made(n, class)
  <2>1. (CHOOSE m \in made : f[m] = f[n]) = n
    BY ChosenName
  <2> QED BY <1>2, <1>4, <2>1
<1>8. \A s \in Spots : weapon'[f[s]] = Spawned(MapClass[s], s, FALSE)
  BY <1>5, <1>7 DEF Made
<1>9. ASSUME NEW w \in Ids, IsPlaced(weapon'[w])
      PROVE  \E s \in Spots : f[s] = w
  <2>1. CASE \E n \in made : f[n] = w
    <3>1. PICK n \in made : f[n] = w
      BY <2>1
    <3>2. n \notin Stocked
      BY <1>7, <1>9, <3>1, MadePlaced
    <3> QED BY <1>5, <3>1, <3>2
  <2>2. CASE ~(\E n \in made : f[n] = w) /\ \E p \in back : f[p] = w
    <3> DEFINE o == CHOOSE p \in back : f[p] = w
    <3>1. o \in back /\ weapon'[w] = Given(o)
      BY <1>2, <2>2
    <3> HIDE DEF o
    <3>2. ~IsPlaced(Given(o))
      BY <1>3, <3>1, GivenCarries, CarriedNotPlaced
    <3> QED BY <1>9, <3>1, <3>2
  <2>3. CASE ~(\E n \in made : f[n] = w) /\ ~\E p \in back : f[p] = w
    <3>1. weapon'[w] = IF w \in kept THEN Stripped(Players)[w] ELSE None
      BY <1>2, <2>3
    <3>2. w \in kept => ~IsPlaced(Stripped(Players)[w])
      BY <1>6, StrippedOwner DEF IsPlaced
    <3> QED BY <1>9, <3>1, <3>2 DEF IsPlaced
  <2> QED BY <2>1, <2>2, <2>3
<1>10. /\ \A s \in Spots : f[s] \in Ids \ listed'
       /\ \A s, t \in Spots : f[s] = f[t] => s = t
  BY <1>3, <1>4, <1>5
<1>11. WellPlaced(weapon', listed', {})
  BY <1>8, <1>9, <1>10, SpotsMade
<1> QED BY <1>3, <1>11 DEF SpotInv
-----------------------------------------------------------------------------
(* Every step keeps the invariant. *)
LEMMA NextInv == IInv /\ [Next]_vars => IInv'
<1> SUFFICES ASSUME IInv, [Next]_vars PROVE IInv'
  OBVIOUS
<1>1. CASE Next
  <2>1. ASSUME NEW p \in Players, NEW w \in Ids, Touch(p, w) \/ UseUp(p, w) PROVE IInv'
    BY <2>1, TouchStep, UseUpStep
  <2>2. ASSUME NEW p \in Players, NEW s \in Spawners, SpawnerTouch(p, s) PROVE IInv'
    BY <2>2, SpawnerTouchStep
  <2>3. ASSUME NEW p \in Players, Die(p) \/ RemoveAllItems(p) \/ Spawn(p) \/ Leave(p)
        PROVE  IInv'
    BY <2>3, DieStep, RemoveAllItemsStep, SpawnStep, LeaveStep
  <2>4. ASSUME NEW w \in Ids, Think(w) \/ Push(w) PROVE IInv'
    BY <2>4, ThinkStep, PushStep
  <2>5. ASSUME NEW s \in Spawners, ForceNextSpawn(s) PROVE IInv'
    BY <2>5, ForceNextSpawnStep
  <2>6. CASE ManageObjectRelocation \/ RestartGame \/ StartFrame \/ EndFrame
    BY <2>6, RelocationStep, RestartStep, StartFrameStep, EndFrameStep
  <2> QED BY <1>1, <2>1, <2>2, <2>3, <2>4, <2>5, <2>6 DEF Next
<1>2. CASE UNCHANGED vars
  BY <1>2 DEF vars, IInv, Types, Carrying, Offering, Distinct, Exists, Stocked
<1> QED BY <1>1, <1>2

(* Nor does any step break the rule of the places. *)
LEMMA NextSpots == IInv /\ SpotInv /\ [Next]_vars => SpotInv'
<1> SUFFICES ASSUME IInv, SpotInv, [Next]_vars PROVE SpotInv'
  OBVIOUS
<1>1. CASE Next
  <2>1. ASSUME NEW p \in Players, NEW w \in Ids, Touch(p, w) \/ UseUp(p, w) PROVE SpotInv'
    BY <2>1, TouchSpots, UseUpSpots
  <2>2. ASSUME NEW p \in Players, NEW s \in Spawners, SpawnerTouch(p, s) PROVE SpotInv'
    BY <2>2, SpawnerTouchSpots
  <2>3. ASSUME NEW p \in Players, Die(p) \/ RemoveAllItems(p) \/ Spawn(p) \/ Leave(p)
        PROVE  SpotInv'
    BY <2>3, DieSpots, RemoveAllItemsSpots, SpawnSpots, LeaveSpots
  <2>4. ASSUME NEW w \in Ids, Think(w) \/ Push(w) PROVE SpotInv'
    BY <2>4, ThinkSpots, PushSpots
  <2>5. ASSUME NEW s \in Spawners, ForceNextSpawn(s) PROVE SpotInv'
    BY <2>5, ForceNextSpawnSpots
  <2>6. CASE ManageObjectRelocation \/ RestartGame \/ StartFrame \/ EndFrame
    BY <2>6, RelocationSpots, RestartSpots, StartFrameSpots, EndFrameSpots
  <2> QED BY <1>1, <2>1, <2>2, <2>3, <2>4, <2>5, <2>6 DEF Next
<1>2. CASE UNCHANGED vars
  BY <1>2 DEF vars, SpotInv, WellPlaced, Fits
<1> QED BY <1>1, <1>2

(* It holds for ever. *)
LEMMA SpecInv == Spec => []IInv
  BY InitInv, NextInv, PTL DEF Spec

(* Whoever carries a weapon, in whatever way he came by it, carries it     *)
(* alone, and no think, touch or relocation of the weapon's earlier life   *)
(* is left to take it from him.                                            *)
THEOREM CarriedSafely == Spec => []CarriedIsSafe
<1>1. IInv => CarriedIsSafe
  BY CarriedFacts DEF CarriedIsSafe, CarriedBy, Live
<1> QED BY <1>1, SpecInv, PTL

(* A spawner that has something to offer either offers a weapon that is    *)
(* there, hidden and touchable, or waits for its think.                    *)
THEOREM SpawnerNeverStuck == Spec => []SpawnerOffersOrWaits
<1>1. ASSUME IInv PROVE SpawnerOffersOrWaits
  <2> SUFFICES ASSUME NEW s \in Stocked
               PROVE  LET w == spawner[s].weapon
                      IN  IF spawner[s].touch
                            THEN /\ w # None /\ Live(w) /\ weapon[w].touch
                                 /\ weapon[w].owner = None /\ ~spawner[s].think
                            ELSE w = None /\ spawner[s].think
    BY DEF SpawnerOffersOrWaits
  <2>1. s \in Spawners
    BY DEF Stocked
  <2>2. CASE spawner[s].touch
    BY <1>1, <2>1, <2>2, OfferedFacts, NoneIsNobody DEF IInv, Offering, Offers, Live
  <2>3. CASE ~spawner[s].touch
    BY <1>1, <2>1, <2>3 DEF IInv, Offering
  <2> QED BY <2>2, <2>3
<1> QED BY <1>1, SpecInv, PTL

(* The map keeps its weapons: whatever is taken, dropped, stripped or      *)
(* pushed around, there are as many that come back as places, and each     *)
(* place has its own, unless it was taken there before it had noted where  *)
(* it was.                                                                 *)
THEOREM EveryPlaceArmed == Spec => []OneWeaponPerSpot
<1>1. ASSUME SpotInv PROVE OneWeaponPerSpot
  <2>1. PICK b \in [Spots -> Ids] : Fits(weapon, early, b)
    BY <1>1 DEF SpotInv, WellPlaced
  <2>2. /\ \A s, t \in Spots : b[s] = b[t] => s = t
        /\ \A w \in Ids : w \in Placed <=> \E s \in Spots : b[s] = w
        /\ Placed \subseteq Ids
    BY <2>1, PlacedIs DEF Fits
  <2>3. Cardinality(Placed) = Cardinality(Spots)
    <3>1. b \in Bijection(Spots, Placed)
      BY <2>2 DEF Bijection, Injection, Surjection, IsInjective
    <3> QED BY <3>1, FS_Bijection, WeaponsAssumption DEF ExistsBijection
  <2>4. ASSUME NEW s \in Spots, s \notin early PROVE Cardinality(PlacedAt(s)) = 1
    <3>1. b[s] \in Placed /\ Place(weapon[b[s]]) = s
      BY <2>1, <2>2, <2>4 DEF Fits
    <3>2. ASSUME NEW w \in Placed, Place(weapon[w]) = s PROVE w = b[s]
      BY <2>1, <2>2, <3>2 DEF Fits
    <3>3. PlacedAt(s) = {b[s]}
      BY <3>1, <3>2 DEF PlacedAt
    <3> QED BY <3>3, FS_Singleton
  <2> QED BY <2>3, <2>4 DEF OneWeaponPerSpot
<1> QED BY <1>1, InitInv, InitSpots, NextInv, NextSpots, PTL DEF Spec
=============================================================================
