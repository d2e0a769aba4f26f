------------------------------- MODULE FFGoal -------------------------------
(***************************************************************************)
(* The goal entities of Fortress Forever: the base goal, and the trigger,  *)
(* info and item goals derived from it                                     *)
(* (shared/ff/entities/ff_sh_*_ff_goal.cpp).                               *)
(*                                                                         *)
(* A goal is a little timed state machine.  A player's touch or an input   *)
(* starts it; after ActiveDelay ticks it becomes activated (OnActive); it  *)
(* stays so for ActiveTime ticks and is deactivated (OnInactive), and may  *)
(* then loop.  The delays run on the entity's one think function, which    *)
(* every handler sets, replaces or clears.  Which players may start it     *)
(* depends on the state of other goals and on who carries which item.      *)
(*                                                                         *)
(* The handlers are operators from the goal's record to its new record;    *)
(* their field "out" collects the outputs they fire.  An action runs one   *)
(* handler and hands the outputs to "fired", where the event queue (module *)
(* GoalNetwork) picks them up.                                             *)
(***************************************************************************)
EXTENDS Integers, Sequences, FiniteSets

CONSTANTS
  Goals,        (* the goal entities of the map                           *)
  Players,      (* the player entities                                    *)
  Teams,        (* the playing teams, FF_TEAM_ONE and up                  *)
  World,        (* the worldspawn entity, Instance(0)                     *)
  Null,         (* a handle that points at nothing; no playing team       *)
  Kind,         (* [Goals -> {"trigger", "info", "item"}]                 *)
  SpawnFlags,   (* [Goals -> SUBSET Flags]                                *)
  ActiveDelay,  (* [Goals -> Nat], ticks; 0 is active_delay <= 0          *)
  ActiveTime,   (* [Goals -> -1 .. ], ticks; -1 is active_time < 0        *)
  TeamsAllowed, (* [Goals -> SUBSET Teams]; {} is the mask 0, everybody   *)
  Criteria,     (* [Goals -> Seq([test, refs])], in the order tested      *)
  MaxRounds     (* bound: how often the map is cleaned up                 *)

Flags == {"START_ACTIVE", "START_ENABLED", "PLAYER_TOUCH", "LOOP"}

ASSUME ConstantsAssumption ==
  /\ World \notin Players /\ Null \notin Players /\ World # Null
  /\ Null \notin Teams
  /\ Kind \in [Goals -> {"trigger", "info", "item"}]
  /\ SpawnFlags \in [Goals -> SUBSET Flags]
  /\ ActiveDelay \in [Goals -> Nat]
  /\ ActiveTime \in [Goals -> Nat \cup {-1}]
  /\ MaxRounds \in Nat

VARIABLES
  goal,    (* [Goals -> GoalState]                                         *)
  team,    (* [Players -> Teams \cup {Null}], the team number              *)
  fired,   (* the outputs the last handler fired, in order                 *)
  server,  (* "up", or how the process died                                *)
  loading, (* the goals spawned but not yet activated                      *)
  rounds   (* how often CleanUpMap ran                                     *)

vars == <<goal, team, fired, server, loading, rounds>>

Entities == Players \cup {World, Null}
Thinks   == {"none", "ActivateGoal", "DeactivateGoal"}
Outputs  == {"OnEnabled", "OnDisabled", "OnActive", "OnInactive"}
Output   == [from : Goals, output : Outputs, activator : Entities]

(* TICK_NEVER_THINK; every other value is the number of ticks left.        *)
Never == -1

GoalState ==
  [spawned   : BOOLEAN,            (* the entity exists                    *)
   enabled   : BOOLEAN,            (* m_bGoalEnabled                       *)
   active    : BOOLEAN,            (* m_bGoalActive: busy                  *)
   activated : BOOLEAN,            (* m_bGoalActivated, networked          *)
   activator : Entities,           (* m_hGoalActivator                     *)
   think     : Thinks,             (* m_pfnThink                           *)
   due       : Nat \cup {Never},   (* m_nNextThinkTick - tickcount         *)
   nodraw    : BOOLEAN,            (* EF_NODRAW                            *)
   solid     : BOOLEAN,            (* not SOLID_NONE: can be touched       *)
   carrier   : Players \cup {Null},(* m_hItemCarrier and the move parent   *)
   away      : BOOLEAN,            (* item: origin # m_vecSpawnOrigin      *)
   out       : Seq(Output)]        (* outputs fired by the handler running *)

HasFlag(g, f) == f \in SpawnFlags[g]

Fire(g, s, o, a) ==
  [s EXCEPT !.out = Append(@, [from |-> g, output |-> o, activator |-> a])]

-----------------------------------------------------------------------------
(* The state machine.                                                      *)

(* ActivateGoalStart with a delay. *)
Arm(g, s) == [s EXCEPT !.think = "ActivateGoal", !.due = ActiveDelay[g]]

(* ActivateGoal down to the sound: the phase, the output and, in an info   *)
(* goal, the effect that hides it.                                         *)
Light(g, s) ==
  Fire(g, [s EXCEPT !.activated = TRUE, !.nodraw = @ \/ Kind[g] # "trigger"],
       "OnActive", s.activator)

(* Mutant of Hold: the think function without its tick. *)
HoldWithoutTick(g, s) ==
  [s EXCEPT !.think = IF ActiveTime[g] < 0 THEN "none" ELSE "DeactivateGoal"]

(* The deactivate timer; active_time < 0 leaves the goal activated.        *)
Hold(g, s) ==
  IF ActiveTime[g] < 0
    THEN [s EXCEPT !.think = "none"]
    ELSE [s EXCEPT !.think = "DeactivateGoal", !.due = ActiveTime[g]]

(* An item goal is drawn again once ActivateGoal has returned. *)
Show(g, s) == [s EXCEPT !.nodraw = @ /\ Kind[g] # "item"]

(* Mutant of Grab: the item stays touchable. *)
GrabStillSolid(g, s, p) ==
  IF Kind[g] = "item" /\ p \in Players THEN [s EXCEPT !.carrier = p] ELSE s

(* An item goal is parented to the player that starts it. *)
Grab(g, s, p) ==
  IF Kind[g] = "item" /\ p \in Players
    THEN [s EXCEPT !.solid = FALSE, !.carrier = p]
    ELSE s

(* Mutant of Unlight: drawn again without asking whether it is enabled. *)
UnlightAndShow(g, s) ==
  Fire(g, [s EXCEPT !.activated = FALSE, !.nodraw = @ /\ Kind[g] = "trigger"],
       "OnInactive", s.activator)

Unlight(g, s) ==
  Fire(g, [s EXCEPT !.activated = FALSE,
                    !.nodraw = @ /\ (Kind[g] = "trigger" \/ ~s.enabled)],
       "OnInactive", s.activator)

(* Mutant of Rest: the think function survives. *)
RestKeepsThink(s) == [s EXCEPT !.active = FALSE]

Rest(s) == [s EXCEPT !.active = FALSE, !.think = "none"]

(* Mutant of Loops: goes on when disabled. *)
LoopsWhenDisabled(g, s) == s.active /\ HasFlag(g, "LOOP")

Loops(g, s) == s.enabled /\ s.active /\ HasFlag(g, "LOOP")

(* A looping goal that neither waits nor holds calls ActivateGoalStart,    *)
(* ActivateGoal and DeactivateGoal from each other without end.            *)
Endless(g) == HasFlag(g, "LOOP") /\ ActiveDelay[g] = 0 /\ ActiveTime[g] = 0

(* Mutant of Restart: the next round skips the delay. *)
RestartAtOnce(g, s) == Grab(g, Show(g, Hold(g, Light(g, s))), s.activator)

(* ActivateGoalStart( m_hGoalActivator ) from DeactivateGoal.              *)
Restart(g, s) ==
  Grab(g, IF ActiveDelay[g] > 0 THEN Arm(g, s)
                                ELSE Show(g, Hold(g, Light(g, s))), s.activator)

DeactivateGoal(g, s) ==
  IF Loops(g, s) THEN Restart(g, Unlight(g, s)) ELSE Rest(Unlight(g, s))

ActivateGoal(g, s) ==
  Show(g, IF ActiveTime[g] = 0 THEN DeactivateGoal(g, Light(g, s))
                               ELSE Hold(g, Light(g, s)))

(* Mutant of ActivateGoalStart: the goal is not marked busy. *)
StartWithoutBusy(g, s, p) ==
  Grab(g, IF ActiveDelay[g] > 0 THEN Arm(g, [s EXCEPT !.activator = p])
                                ELSE ActivateGoal(g, [s EXCEPT !.activator = p]), p)

ActivateGoalStart(g, s, p) ==
  LET busy == [s EXCEPT !.activator = p, !.active = TRUE]
  IN  Grab(g, IF ActiveDelay[g] > 0 THEN Arm(g, busy) ELSE ActivateGoal(g, busy), p)

Enable(g, s, a) ==
  Fire(g, [s EXCEPT !.enabled = TRUE,
                    !.nodraw = @ /\ (Kind[g] = "trigger" \/ s.activated)],
       "OnEnabled", a)

Disable(g, s, a) ==
  Fire(g, [s EXCEPT !.enabled = FALSE, !.nodraw = @ \/ Kind[g] # "trigger"],
       "OnDisabled", a)

(* Mutant of Inactivate: put to rest without DeactivateGoal. *)
InactivateSilently(g, s) == Rest([s EXCEPT !.activated = FALSE])

Inactivate(g, s) == DeactivateGoal(g, [s EXCEPT !.active = FALSE])

(* The think functions, as PhysicsRunSpecificThink runs them: the tick is  *)
(* cleared first, and a cleared function does nothing.                     *)
RunThink(g, s) ==
  LET t == [s EXCEPT !.due = Never]
  IN  CASE s.think = "ActivateGoal"   -> ActivateGoal(g, t)
        [] s.think = "DeactivateGoal" -> DeactivateGoal(g, t)
        [] OTHER -> t

(* The entity as Spawn leaves it, and once it is deleted. *)
Spawned(g) ==
  [spawned |-> TRUE, enabled |-> HasFlag(g, "START_ENABLED"), active |-> FALSE,
   activated |-> FALSE, activator |-> Null, think |-> "none", due |-> Never,
   nodraw |-> FALSE, solid |-> TRUE, carrier |-> Null, away |-> FALSE, out |-> <<>>]

Gone(g) == [Spawned(g) EXCEPT !.spawned = FALSE, !.enabled = FALSE, !.solid = FALSE]

(* Activate, run on every entity once all of them have spawned. *)
Activated(g, s) ==
  LET t == IF HasFlag(g, "START_ACTIVE") THEN ActivateGoalStart(g, s, World) ELSE s
  IN  [t EXCEPT !.nodraw = @ \/ (Kind[g] # "trigger" /\ ~s.enabled)]

-----------------------------------------------------------------------------
(* PassesCriteriaCheck: the checks run in order up to the first that       *)
(* fails.  A check reads its goals through handles nobody tests, so one on *)
(* a deleted goal is a fault.                                              *)

Carrier(r) == goal[r].carrier

(* Mutant of NotByOne: without "pCarrier &&". *)
NotByOneUnguarded(rs) == \E i \in 1 .. Len(rs) : Carrier(rs[i]) # Carrier(rs[1])

(* Not every item of the list is carried by one and the same player. *)
NotByOne(rs) ==
  Carrier(rs[1]) = Null \/ \E i \in 1 .. Len(rs) : Carrier(rs[i]) # Carrier(rs[1])

CheckHolds(c, p) ==
  LET r == c.refs[1]
      n == Len(c.refs)
  IN  CASE c.test = "ItemsCarriedByActivator"    -> Carrier(r) = p
        [] c.test = "ItemsNotCarriedByActivator" -> Carrier(r) # p
        [] c.test = "ItemsCarriedByTeam"         -> Carrier(r) # Null /\ team[Carrier(r)] = team[p]
        [] c.test = "ItemsNotCarriedByTeam"      -> Carrier(r) = Null \/ team[Carrier(r)] # team[p]
        [] c.test = "ItemsCarriedByAny"          -> Carrier(r) # Null
        [] c.test = "ItemsNotCarriedByAny"       -> Carrier(r) = Null
        [] c.test = "ItemsCarriedByOne"          ->
             Carrier(r) # Null /\ \A i \in 1 .. n : Carrier(c.refs[i]) = Carrier(r)
        [] c.test = "ItemsNotCarriedByOne"       -> NotByOne(c.refs)
        [] c.test = "ItemsAtSpawnPoint"          -> ~goal[r].away
        [] c.test = "ItemsNotAtSpawnPoint"       -> goal[r].away
        [] c.test = "GoalsAreActive"             -> goal[r].activated
        [] c.test = "GoalsAreInactive"           -> ~goal[r].activated
        [] c.test = "GoalsAreEnabled"            -> goal[r].enabled
        [] c.test = "GoalsAreDisabled"           -> ~goal[r].enabled

(* The goals a check reads before it is decided: an "..ByOne" check stops  *)
(* at a first item without a carrier, and the positive one at a mismatch.  *)
Reads(c) ==
  LET first == Carrier(c.refs[1])
  IN  {c.refs[i] : i \in {j \in 1 .. Len(c.refs) :
         j = 1 \/ (first # Null /\
                   (c.test = "ItemsCarriedByOne" =>
                      \A k \in 1 .. j - 1 : Carrier(c.refs[k]) = first))}}

PassesCriteriaCheck(g, p) ==
  LET cs     == Criteria[g]
      Bad(i) == (\E r \in Reads(cs[i]) : ~goal[r].spawned) \/ ~CheckHolds(cs[i], p)
      First  == {i \in 1 .. Len(cs) : Bad(i) /\ \A j \in 1 .. i - 1 : ~Bad(j)}
  IN  IF TeamsAllowed[g] # {} /\ team[p] \notin TeamsAllowed[g] THEN "fails"
      ELSE IF First = {} THEN "passes"
      ELSE IF \E i \in First : \E r \in Reads(cs[i]) : ~goal[r].spawned THEN "faults"
      ELSE "fails"

-----------------------------------------------------------------------------
(* The actions.                                                            *)

(* Nothing else runs until every entity of the map has been activated.     *)
Running == server = "up" /\ loading = {}

(* End of a handler on g: its outputs have gone to the event queue. *)
Settle(g, r) ==
  /\ goal' = [goal EXCEPT ![g] = [r EXCEPT !.out = <<>>]]
  /\ fired' = r.out

Stop(how) ==
  server' = how /\ fired' = <<>> /\ UNCHANGED <<goal, team, rounds>>

(* A handler that calls ActivateGoalStart and gives the record r. *)
Launch(g, r) ==
  IF Endless(g) /\ goal[g].enabled
    THEN Stop("overflowed")
    ELSE Settle(g, r) /\ UNCHANGED <<team, server, rounds>>

Activate(g) ==
  /\ server = "up" /\ g \in loading
  /\ IF HasFlag(g, "START_ACTIVE")
       THEN Launch(g, Activated(g, goal[g]))
       ELSE Settle(g, Activated(g, goal[g])) /\ UNCHANGED <<team, server, rounds>>
  /\ loading' = loading \ {g}

(* OnTouching and TryActivateGoal.  Only the bodies of players on a team   *)
(* are solid enough to touch a trigger.                                    *)
Touch(g, p) ==
  /\ Running
  /\ goal[g].spawned /\ goal[g].solid /\ team[p] \in Teams
  /\ HasFlag(g, "PLAYER_TOUCH")
  /\ goal[g].enabled /\ ~goal[g].active
  /\ \/ /\ PassesCriteriaCheck(g, p) = "passes"
        /\ Launch(g, ActivateGoalStart(g, goal[g], p))
     \/ /\ PassesCriteriaCheck(g, p) = "faults"
        /\ Stop("faulted")
  /\ UNCHANGED loading

InputEnable(g, a) ==
  /\ Running /\ goal[g].spawned
  /\ Settle(g, Enable(g, goal[g], a))
  /\ UNCHANGED <<team, server, loading, rounds>>

InputDisable(g, a) ==
  /\ Running /\ goal[g].spawned
  /\ Settle(g, Disable(g, goal[g], a))
  /\ UNCHANGED <<team, server, loading, rounds>>

InputActivate(g) ==
  /\ Running /\ goal[g].spawned
  /\ goal[g].enabled /\ ~goal[g].active
  /\ Launch(g, ActivateGoalStart(g, goal[g], World))
  /\ UNCHANGED loading

InputInactivate(g) ==
  /\ Running /\ goal[g].spawned
  /\ goal[g].enabled /\ goal[g].active
  /\ Settle(g, Inactivate(g, goal[g]))
  /\ UNCHANGED <<team, server, loading, rounds>>

(* Physics_RunThinkFunctions reaches g and its think tick has come.        *)
Think(g) ==
  /\ Running /\ goal[g].spawned /\ goal[g].due = 0
  /\ Settle(g, RunThink(g, goal[g]))
  /\ UNCHANGED <<team, server, loading, rounds>>

(* The frame ends only after every think that was due. *)
Tick ==
  /\ Running
  /\ \A g \in Goals : goal[g].due # 0
  /\ goal' = [g \in Goals |-> [goal[g] EXCEPT !.due = IF @ = Never THEN @ ELSE @ - 1]]
  /\ fired' = <<>>
  /\ UNCHANGED <<team, server, loading, rounds>>

ChangeTeam(p, t) ==
  /\ Running /\ team[p] # t
  /\ team' = [team EXCEPT ![p] = t]
  /\ fired' = <<>>
  /\ UNCHANGED <<goal, server, loading, rounds>>

(* A carried item moves with its carrier, perhaps back to its origin.      *)
CarrierMoves(g) ==
  /\ Running /\ goal[g].carrier # Null
  /\ goal' = [goal EXCEPT ![g].away = ~@]
  /\ fired' = <<>>
  /\ UNCHANGED <<team, server, loading, rounds>>

(* The player's entity is freed: its move children are deleted with it     *)
(* (UpdateOnRemove) and the handles to it read NULL.                       *)
Disconnect(p) ==
  /\ Running
  /\ goal' = [g \in Goals |->
                IF goal[g].carrier = p THEN Gone(g)
                ELSE [goal[g] EXCEPT !.activator = IF @ = p THEN Null ELSE @]]
  /\ team' = [team EXCEPT ![p] = Null]
  /\ fired' = <<>>
  /\ UNCHANGED <<server, loading, rounds>>

(* CleanUpMap deletes every goal and spawns the map's entities again.      *)
CleanUpMap ==
  /\ Running /\ rounds < MaxRounds
  /\ goal' = [g \in Goals |-> Spawned(g)]
  /\ loading' = Goals
  /\ rounds' = rounds + 1
  /\ fired' = <<>>
  /\ UNCHANGED <<team, server>>

-----------------------------------------------------------------------------

Init ==
  /\ goal = [g \in Goals |-> Spawned(g)]
  /\ team \in [Players -> Teams \cup {Null}]
  /\ fired = <<>>
  /\ server = "up"
  /\ loading = Goals
  /\ rounds = 0

Next ==
  \/ \E g \in Goals : Activate(g)
  \/ \E g \in Goals, p \in Players : Touch(g, p)
  \/ \E g \in Goals, a \in Entities : InputEnable(g, a)
  \/ \E g \in Goals, a \in Entities : InputDisable(g, a)
  \/ \E g \in Goals : InputActivate(g)
  \/ \E g \in Goals : InputInactivate(g)
  \/ \E g \in Goals : Think(g)
  \/ Tick
  \/ \E p \in Players, t \in Teams \cup {Null} : ChangeTeam(p, t)
  \/ \E g \in Goals : CarrierMoves(g)
  \/ \E p \in Players : Disconnect(p)
  \/ CleanUpMap

Spec == Init /\ [][Next]_vars

(* The frame loop activates the entities it spawned, calls every think     *)
(* that is due and goes on to the next tick.                               *)
Fairness ==
  /\ \A g \in Goals : WF_vars(Activate(g)) /\ WF_vars(Think(g))
  /\ WF_vars(Tick)

FairSpec == Spec /\ Fairness
-----------------------------------------------------------------------------
(* Properties.                                                             *)

TypeOK ==
  /\ goal \in [Goals -> GoalState]
  /\ team \in [Players -> Teams \cup {Null}]
  /\ fired \in Seq(Output)
  /\ server \in {"up", "overflowed", "faulted"}
  /\ loading \subseteq Goals
  /\ rounds \in 0 .. MaxRounds

(* The two flags, the think function and its tick always tell the same     *)
(* story: a resting goal has no function to run (a tick left over from an  *)
(* interrupted activation must find nothing); a waiting goal will run      *)
(* ActivateGoal; an activated one will run DeactivateGoal, or none at all  *)
(* if its active_time is negative; and a function to run always has a      *)
(* tick.  Every handler of ff_sh_base_ff_goal.cpp has a part in this.      *)
GoalCoherent(g, s) ==
  /\ s.think = "ActivateGoal" <=> s.active /\ ~s.activated
  /\ s.activated => s.active
  /\ s.activated => s.think = IF ActiveTime[g] < 0 THEN "none" ELSE "DeactivateGoal"
  /\ ~s.active => s.think = "none"
  /\ s.think # "none" => s.due # Never

PhaseMatchesTimer == \A g \in Goals : GoalCoherent(g, goal[g])

(* An info goal is drawn exactly while it is enabled and not activated,    *)
(* whatever the order of enabling, activation, timers and looping          *)
(* (ff_sh_info_ff_goal.cpp).                                               *)
InfoDrawnWhileOffered ==
  \A g \in Goals \ loading :
    Kind[g] = "info" /\ goal[g].spawned =>
      (goal[g].nodraw <=> ~goal[g].enabled \/ goal[g].activated)

(* An item goal that is enabled and not activated is drawn; an item that   *)
(* somebody carries can no longer be touched (ff_sh_item_ff_goal.cpp).     *)
ItemDrawnOrCarried ==
  \A g \in Goals :
    Kind[g] = "item" /\ goal[g].spawned =>
      /\ goal[g].enabled /\ ~goal[g].activated => ~goal[g].nodraw
      /\ goal[g].carrier # Null => ~goal[g].solid

(* An item never passes from one player to another: a carrier keeps it     *)
(* until the item is deleted or the map cleaned up.                        *)
CarrierKeepsItem ==
  [][\A g \in Goals :
       goal[g].carrier # Null /\ rounds' = rounds =>
         goal'[g].carrier = goal[g].carrier \/ ~goal'[g].spawned]_vars

(* The phase outputs that g fired, of a sequence of outputs: their places. *)
PhaseOutputs(g, outs) ==
  {i \in 1 .. Len(outs) : outs[i].from = g /\ outs[i].output \in {"OnActive", "OnInactive"}}

(* What the first n outputs tell of g's phase, to whom knew it before.     *)
Heard(g, was, outs, n) ==
  LET told == {i \in PhaseOutputs(g, outs) : i <= n}
  IN  IF told = {} THEN was
      ELSE \E i \in told : outs[i].output = "OnActive" /\ \A j \in told : j <= i

(* The map's logic can follow m_bGoalActivated by the outputs alone: it    *)
(* changes only with an output, no two OnActive come without an OnInactive *)
(* in between, and after a step the last output tells the phase.           *)
OutputsTellThePhase ==
  [][\A g \in Goals :
       rounds' = rounds /\ goal'[g].spawned =>
         /\ \A i \in PhaseOutputs(g, fired') :
              fired'[i].output = "OnActive" => ~Heard(g, goal[g].activated, fired', i - 1)
         /\ goal'[g].activated <=> Heard(g, goal[g].activated, fired', Len(fired'))]_vars

(* A goal that rests while disabled stays at rest until it is enabled: no  *)
(* touch, input or left-over timer starts it.                              *)
DisabledStaysAtRest ==
  [][\A g \in Goals \ loading :
       ~goal[g].enabled /\ ~goal[g].active /\ rounds' = rounds =>
         ~goal'[g].active /\ ~goal'[g].activated]_vars

(* The tests of a criteria list agree with each other in every state: a    *)
(* test and its opposite never both hold nor both fail, even of items that *)
(* nobody carries (two empty handles compare equal), and "carried by one"  *)
(* and "carried by the activator" mean the same player.                    *)
CriteriaAgree ==
  LET Items    == {g \in Goals : Kind[g] = "item" /\ goal[g].spawned}
      Test(t, rs, p) == CheckHolds([test |-> t, refs |-> rs], p)
  IN  \A a \in Items, b \in Items, p \in {q \in Players : team[q] \in Teams} :
        /\ Test("ItemsCarriedByActivator", <<a>>, p) # Test("ItemsNotCarriedByActivator", <<a>>, p)
        /\ Test("ItemsCarriedByTeam", <<a>>, p) # Test("ItemsNotCarriedByTeam", <<a>>, p)
        /\ Test("ItemsCarriedByAny", <<a>>, p) # Test("ItemsNotCarriedByAny", <<a>>, p)
        /\ Test("ItemsCarriedByOne", <<a, b>>, p) # Test("ItemsNotCarriedByOne", <<a, b>>, p)
        /\ Test("ItemsCarriedByActivator", <<a>>, p) => Test("ItemsCarriedByTeam", <<a>>, p)
        /\ Test("ItemsCarriedByOne", <<a, b>>, p) =>
             (Test("ItemsCarriedByActivator", <<a>>, p) <=> Test("ItemsCarriedByActivator", <<b>>, p))

(* The goal seen without its think function: the timer that is running, if *)
(* any.  FFGoal implements the cycle a map maker relies on: no interrupted *)
(* or stale timer ever shows.                                              *)
Phase(s) == IF ~s.active THEN "rest" ELSE IF s.activated THEN "lit" ELSE "waiting"
Left(s)  == IF s.think = "none" THEN Never ELSE s.due

Cycle == INSTANCE GoalCycle WITH
  Delay   <- ActiveDelay,
  Time    <- ActiveTime,
  Looping <- {g \in Goals : HasFlag(g, "LOOP")},
  AtLoad  <- {g \in Goals : HasFlag(g, "START_ACTIVE")},
  Initial <- {g \in Goals : HasFlag(g, "START_ENABLED")},
  phase   <- [g \in Goals |-> Phase(goal[g])],
  left    <- [g \in Goals |-> Left(goal[g])],
  enabled <- [g \in Goals |-> goal[g].enabled]

(* The goals of the code keep the cycle's promise: from start through wait *)
(* and lit phase to rest or to the next round, each for its exact time.    *)
ImplementsCycle == Cycle!Spec

(* An activation of a goal that has an active_time comes to its end (but   *)
(* a goal that loops without a delay goes straight on to the next one).    *)
ActivationEnds ==
  \A g \in Goals :
    ActiveTime[g] >= 0 /\ (HasFlag(g, "LOOP") => ActiveDelay[g] > 0) =>
      (goal[g].activated ~> (~goal[g].activated \/ ~Running))

(* GSF_LOOP_ACTIVATION_UNTIL_DISABLED: once disabled, a looping goal comes *)
(* to rest unless it is enabled again.                                     *)
DisabledLoopStops ==
  \A g \in Goals :
    ActiveTime[g] >= 0 =>
      (~goal[g].enabled /\ goal[g].active
         ~> (~goal[g].active \/ goal[g].enabled \/ ~Running))
=============================================================================
