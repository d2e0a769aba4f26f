---------------------------- MODULE FFGoalProofs ----------------------------
(***************************************************************************)
(* Proofs about the goal entities and their network, for every map: any    *)
(* set of goals with any flags, delays, times and criteria, wired to each  *)
(* other in any way, and any number of players.                            *)
(***************************************************************************)
EXTENDS GoalNetwork, EventListProofs, TLAPS

-----------------------------------------------------------------------------
(* What the parts of the handlers do to one goal's record.                 *)

(* The effects of info and item goals, and the solidity of carried items.  *)
Shown(g, s) ==
  /\ Kind[g] = "info" => (s.nodraw <=> ~s.enabled \/ s.activated)
  /\ Kind[g] = "item" /\ s.enabled /\ ~s.activated => ~s.nodraw

Held(s) == s.carrier # Null => ~s.solid

(* The fields that only inputs and the engine write, and what is kept up.  *)
Keeps(g, s, t) ==
  /\ t.enabled = s.enabled /\ t.spawned = s.spawned
  /\ Shown(g, s) => Shown(g, t)
  /\ Held(s) => Held(t)

(* FireOutput only adds to what the goal has to send.                      *)
LEMMA Firing ==
  ASSUME NEW g \in Goals, NEW s \in GoalState, NEW o \in Outputs, NEW a \in Entities
  PROVE  /\ Fire(g, s, o, a) \in GoalState
         /\ Fire(g, s, o, a).active = s.active /\ Fire(g, s, o, a).activated = s.activated
         /\ Fire(g, s, o, a).activator = s.activator
         /\ Fire(g, s, o, a).think = s.think /\ Fire(g, s, o, a).due = s.due
         /\ Keeps(g, s, Fire(g, s, o, a)) /\ (Shown(g, Fire(g, s, o, a)) <=> Shown(g, s))
<1> DEFINE f == [from |-> g, output |-> o, activator |-> a]
<1>1. f \in Output
  BY DEF Output
<1>2. Append(s.out, f) \in Seq(Output)
  BY <1>1 DEF GoalState
<1>3. Fire(g, s, o, a) \in GoalState
  BY <1>2 DEF Fire, GoalState
<1>4. QED
  BY <1>3 DEF Fire, GoalState, Keeps, Shown, Held

(* A busy goal that waits for its delay is left with its think function and*)
(* a tick that agree.                                                      *)
LEMMA Arming ==
  ASSUME NEW g \in Goals, NEW s \in GoalState, s.active, ~s.activated
  PROVE  Arm(g, s) \in GoalState /\ GoalCoherent(g, Arm(g, s)) /\ Keeps(g, s, Arm(g, s))
<1>1. Arm(g, s) \in GoalState
  BY ConstantsAssumption DEF Arm, GoalState, Thinks
<1>2. GoalCoherent(g, Arm(g, s))
  BY ConstantsAssumption DEF Arm, GoalState, GoalCoherent, Never
<1>3. Keeps(g, s, Arm(g, s))
  BY DEF Arm, GoalState, Keeps, Shown, Held
<1>4. QED
  BY <1>1, <1>2, <1>3

(* An activated goal is left with the think that will end it, or with none *)
(* when its time is endless.                                               *)
LEMMA Holding ==
  ASSUME NEW g \in Goals, NEW s \in GoalState, s.active, s.activated
  PROVE  Hold(g, s) \in GoalState /\ GoalCoherent(g, Hold(g, s)) /\ Keeps(g, s, Hold(g, s))
<1>1. ActiveTime[g] \in Nat \cup {-1}
  BY ConstantsAssumption
<1>2. Hold(g, s) \in GoalState
  BY <1>1 DEF Hold, GoalState, Thinks, Never
<1>3. GoalCoherent(g, Hold(g, s))
  <2>1. CASE ActiveTime[g] < 0
    BY <2>1 DEF Hold, GoalState, GoalCoherent
  <2>2. CASE ~(ActiveTime[g] < 0)
    <3>1. Hold(g, s) = [s EXCEPT !.think = "DeactivateGoal", !.due = ActiveTime[g]]
      BY <2>2 DEF Hold
    <3>2. ActiveTime[g] # Never
      BY <1>1, <2>2 DEF Never
    <3>3. QED
      BY <3>1, <3>2, <2>2 DEF GoalState, GoalCoherent
  <2>3. QED
    BY <2>1, <2>2
<1>4. Keeps(g, s, Hold(g, s))
  BY DEF Hold, GoalState, Keeps, Shown, Held
<1>5. QED
  BY <1>2, <1>3, <1>4

(* Drawing a goal disturbs nothing but its looks.                          *)
LEMMA Showing ==
  ASSUME NEW g \in Goals, NEW s \in GoalState
  PROVE  /\ Show(g, s) \in GoalState /\ Keeps(g, s, Show(g, s))
         /\ GoalCoherent(g, s) => GoalCoherent(g, Show(g, s))
<1>1. Show(g, s) \in GoalState
  BY DEF Show, GoalState
<1>2. Keeps(g, s, Show(g, s))
  BY DEF Show, GoalState, Keeps, Shown, Held
<1>3. GoalCoherent(g, s) => GoalCoherent(g, Show(g, s))
  BY DEF Show, GoalState, GoalCoherent
<1>4. QED
  BY <1>1, <1>2, <1>3

(* Handing an item to a player disturbs nothing of its timing.             *)
LEMMA Grabbing ==
  ASSUME NEW g \in Goals, NEW s \in GoalState, NEW p
  PROVE  /\ Grab(g, s, p) \in GoalState /\ Keeps(g, s, Grab(g, s, p))
         /\ GoalCoherent(g, s) => GoalCoherent(g, Grab(g, s, p))
<1>1. Grab(g, s, p) \in GoalState
  BY DEF Grab, GoalState
<1>2. Keeps(g, s, Grab(g, s, p))
  BY DEF Grab, GoalState, Keeps, Shown, Held
<1>3. GoalCoherent(g, s) => GoalCoherent(g, Grab(g, s, p))
  BY DEF Grab, GoalState, GoalCoherent
<1>4. QED
  BY <1>1, <1>2, <1>3

(* OnActive: the goal is activated, its other flags and its activator stay.*)
LEMMA Lighting ==
  ASSUME NEW g \in Goals, NEW s \in GoalState
  PROVE  /\ Light(g, s) \in GoalState /\ Light(g, s).activated
         /\ Light(g, s).active = s.active /\ Light(g, s).activator = s.activator
         /\ Keeps(g, s, Light(g, s))
<1> DEFINE t == [s EXCEPT !.activated = TRUE, !.nodraw = @ \/ Kind[g] # "trigger"]
<1>1. t \in GoalState /\ s.activator \in Entities
  BY DEF GoalState
<1>2. /\ t.activated /\ t.active = s.active /\ t.activator = s.activator
      /\ Keeps(g, s, t)
  BY DEF GoalState, Keeps, Shown, Held
<1>3. Light(g, s) = Fire(g, t, "OnActive", s.activator)
  BY DEF Light
<1> HIDE DEF t
<1>4. "OnActive" \in Outputs
  BY DEF Outputs
<1>5. QED
  BY <1>1, <1>2, <1>3, <1>4, Firing DEF Keeps

(* OnInactive: the goal is no longer activated, its other flags stay.      *)
LEMMA Unlighting ==
  ASSUME NEW g \in Goals, NEW s \in GoalState
  PROVE  /\ Unlight(g, s) \in GoalState /\ ~Unlight(g, s).activated
         /\ Unlight(g, s).active = s.active /\ Unlight(g, s).activator = s.activator
         /\ Keeps(g, s, Unlight(g, s))
<1> DEFINE t == [s EXCEPT !.activated = FALSE,
                          !.nodraw = @ /\ (Kind[g] = "trigger" \/ ~s.enabled)]
<1>1. t \in GoalState /\ s.activator \in Entities
  BY DEF GoalState
<1>2. /\ ~t.activated /\ t.active = s.active /\ t.activator = s.activator
      /\ Keeps(g, s, t)
  BY DEF GoalState, Keeps, Shown, Held
<1>3. Unlight(g, s) = Fire(g, t, "OnInactive", s.activator)
  BY DEF Unlight
<1> HIDE DEF t
<1>4. "OnInactive" \in Outputs
  BY DEF Outputs
<1>5. QED
  BY <1>1, <1>2, <1>3, <1>4, Firing DEF Keeps

(* A goal at rest has no think to come.                                    *)
LEMMA Resting ==
  ASSUME NEW g \in Goals, NEW s \in GoalState, ~s.activated
  PROVE  Rest(s) \in GoalState /\ GoalCoherent(g, Rest(s)) /\ Keeps(g, s, Rest(s))
<1>1. Rest(s) \in GoalState
  BY DEF Rest, GoalState, Thinks
<1>2. GoalCoherent(g, Rest(s))
  BY DEF Rest, GoalState, GoalCoherent
<1>3. Keeps(g, s, Rest(s))
  BY DEF Rest, GoalState, Keeps, Shown, Held
<1>4. QED
  BY <1>1, <1>2, <1>3

-----------------------------------------------------------------------------
(* What the handlers do.                                                   *)

(* A looping goal goes round again into a coherent state, through its delay*)
(* or at once.                                                             *)
LEMMA Restarting ==
  ASSUME NEW g \in Goals, NEW s \in GoalState, s.active, ~s.activated
  PROVE  /\ Restart(g, s) \in GoalState /\ GoalCoherent(g, Restart(g, s))
         /\ Keeps(g, s, Restart(g, s))
<1> DEFINE lit == Light(g, s)
           t   == IF ActiveDelay[g] > 0 THEN Arm(g, s) ELSE Show(g, Hold(g, lit))
<1>1. t \in GoalState /\ GoalCoherent(g, t) /\ Keeps(g, s, t)
  <2>1. CASE ActiveDelay[g] > 0
    BY <2>1, Arming
  <2>2. CASE ~(ActiveDelay[g] > 0)
    <3>1. lit \in GoalState /\ lit.active /\ lit.activated /\ Keeps(g, s, lit)
      BY Lighting
    <3> HIDE DEF lit
    <3>2. /\ Hold(g, lit) \in GoalState /\ GoalCoherent(g, Hold(g, lit))
          /\ Keeps(g, lit, Hold(g, lit))
      BY <3>1, Holding
    <3>3. /\ Show(g, Hold(g, lit)) \in GoalState /\ GoalCoherent(g, Show(g, Hold(g, lit)))
          /\ Keeps(g, Hold(g, lit), Show(g, Hold(g, lit)))
      BY <3>2, Showing
    <3>4. QED
      BY <2>2, <3>1, <3>2, <3>3 DEF Keeps
  <2>3. QED
    BY <2>1, <2>2
<1>2. Restart(g, s) = Grab(g, t, s.activator)
  BY DEF Restart
<1> HIDE DEF t
<1>3. QED
  BY <1>1, <1>2, Grabbing DEF Keeps

(* DeactivateGoal leaves every goal coherent, whatever it was doing.       *)
LEMMA Deactivating ==
  ASSUME NEW g \in Goals, NEW s \in GoalState
  PROVE  /\ DeactivateGoal(g, s) \in GoalState /\ GoalCoherent(g, DeactivateGoal(g, s))
         /\ Keeps(g, s, DeactivateGoal(g, s))
<1> DEFINE dark == Unlight(g, s)
<1>1. dark \in GoalState /\ ~dark.activated /\ dark.active = s.active /\ Keeps(g, s, dark)
  BY Unlighting
<1>2. DeactivateGoal(g, s) = IF Loops(g, s) THEN Restart(g, dark) ELSE Rest(dark)
  BY DEF DeactivateGoal
<1> HIDE DEF dark
<1>3. CASE Loops(g, s)
  <2>1. dark.active
    BY <1>1, <1>3 DEF Loops
  <2>2. QED
    BY <1>1, <1>2, <1>3, <2>1, Restarting DEF Keeps
<1>4. CASE ~Loops(g, s)
  BY <1>1, <1>2, <1>4, Resting DEF Keeps
<1>5. QED
  BY <1>3, <1>4

(* ActivateGoal leaves a busy goal coherent, held for its time or          *)
(* deactivated at once.                                                    *)
LEMMA Activating ==
  ASSUME NEW g \in Goals, NEW s \in GoalState, s.active
  PROVE  /\ ActivateGoal(g, s) \in GoalState /\ GoalCoherent(g, ActivateGoal(g, s))
         /\ Keeps(g, s, ActivateGoal(g, s))
<1> DEFINE lit == Light(g, s)
           t   == IF ActiveTime[g] = 0 THEN DeactivateGoal(g, lit) ELSE Hold(g, lit)
<1>1. lit \in GoalState /\ lit.active /\ lit.activated /\ Keeps(g, s, lit)
  BY Lighting
<1>2. ActivateGoal(g, s) = Show(g, t)
  BY DEF ActivateGoal
<1> HIDE DEF lit
<1>3. t \in GoalState /\ GoalCoherent(g, t) /\ Keeps(g, lit, t)
  BY <1>1, Deactivating, Holding
<1> HIDE DEF t
<1>4. QED
  BY <1>1, <1>2, <1>3, Showing DEF Keeps

(* ActivateGoalStart turns an idle coherent goal into a busy coherent one. *)
LEMMA Starting ==
  ASSUME NEW g \in Goals, NEW s \in GoalState, ~s.active, GoalCoherent(g, s), NEW p \in Entities
  PROVE  LET r == ActivateGoalStart(g, s, p)
         IN  r \in GoalState /\ GoalCoherent(g, r) /\ Keeps(g, s, r)
<1> DEFINE busy == [s EXCEPT !.activator = p, !.active = TRUE]
           t    == IF ActiveDelay[g] > 0 THEN Arm(g, busy) ELSE ActivateGoal(g, busy)
<1>1. busy \in GoalState
  BY DEF GoalState
<1>2. busy.active /\ ~busy.activated /\ Keeps(g, s, busy)
  BY DEF GoalState, GoalCoherent, Keeps, Shown, Held
<1>3. ActivateGoalStart(g, s, p) = Grab(g, t, p)
  BY DEF ActivateGoalStart
<1> HIDE DEF busy
<1>4. t \in GoalState /\ GoalCoherent(g, t) /\ Keeps(g, busy, t)
  BY <1>1, <1>2, Arming, Activating
<1> HIDE DEF t
<1>5. QED
  BY <1>2, <1>3, <1>4, Grabbing DEF Keeps

(* InputEnable keeps flags, think and tick in agreement.                   *)
LEMMA Enabling ==
  ASSUME NEW g \in Goals, NEW s \in GoalState, NEW a \in Entities
  PROVE  LET r == Enable(g, s, a)
         IN  /\ r \in GoalState /\ r.spawned = s.spawned
             /\ GoalCoherent(g, s) => GoalCoherent(g, r)
             /\ Shown(g, s) => Shown(g, r)
             /\ Held(s) => Held(r)
<1> DEFINE t == [s EXCEPT !.enabled = TRUE,
                          !.nodraw = @ /\ (Kind[g] = "trigger" \/ s.activated)]
<1>1. t \in GoalState
  BY DEF GoalState
<1>2. /\ t.spawned = s.spawned /\ t.active = s.active /\ t.activated = s.activated
      /\ t.think = s.think /\ t.due = s.due
      /\ Shown(g, s) => Shown(g, t)
      /\ Held(s) => Held(t)
  BY DEF GoalState, Shown, Held
<1>3. Enable(g, s, a) = Fire(g, t, "OnEnabled", a) /\ "OnEnabled" \in Outputs
  BY DEF Enable, Outputs
<1> HIDE DEF t
<1>4. QED
  BY <1>1, <1>2, <1>3, Firing DEF Keeps, GoalCoherent

(* InputDisable keeps flags, think and tick in agreement.                  *)
LEMMA Disabling ==
  ASSUME NEW g \in Goals, NEW s \in GoalState, NEW a \in Entities
  PROVE  LET r == Disable(g, s, a)
         IN  /\ r \in GoalState /\ r.spawned = s.spawned
             /\ GoalCoherent(g, s) => GoalCoherent(g, r)
             /\ Shown(g, s) => Shown(g, r)
             /\ Held(s) => Held(r)
<1> DEFINE t == [s EXCEPT !.enabled = FALSE, !.nodraw = @ \/ Kind[g] # "trigger"]
<1>1. t \in GoalState
  BY DEF GoalState
<1>2. /\ t.spawned = s.spawned /\ t.active = s.active /\ t.activated = s.activated
      /\ t.think = s.think /\ t.due = s.due
      /\ Shown(g, s) => Shown(g, t)
      /\ Held(s) => Held(t)
  BY DEF GoalState, Shown, Held
<1>3. Disable(g, s, a) = Fire(g, t, "OnDisabled", a) /\ "OnDisabled" \in Outputs
  BY DEF Disable, Outputs
<1> HIDE DEF t
<1>4. QED
  BY <1>1, <1>2, <1>3, Firing DEF Keeps, GoalCoherent

(* InputInactivate leaves every goal coherent, whatever it was doing.      *)
LEMMA Inactivating ==
  ASSUME NEW g \in Goals, NEW s \in GoalState
  PROVE  LET r == Inactivate(g, s)
         IN  r \in GoalState /\ GoalCoherent(g, r) /\ Keeps(g, s, r)
<1> DEFINE t == [s EXCEPT !.active = FALSE]
<1>1. t \in GoalState /\ Keeps(g, s, t)
  BY DEF GoalState, Keeps, Shown, Held
<1>2. Inactivate(g, s) = DeactivateGoal(g, t)
  BY DEF Inactivate
<1> HIDE DEF t
<1>3. QED
  BY <1>1, <1>2, Deactivating DEF Keeps

(* A think function that runs when its tick has come leaves the goal       *)
(* coherent.                                                               *)
LEMMA Thinking ==
  ASSUME NEW g \in Goals, NEW s \in GoalState, GoalCoherent(g, s)
  PROVE  LET r == RunThink(g, s)
         IN  r \in GoalState /\ GoalCoherent(g, r) /\ Keeps(g, s, r)
<1> DEFINE t == [s EXCEPT !.due = Never]
<1>1. t \in GoalState
  BY DEF GoalState
<1>2. Keeps(g, s, t) /\ t.active = s.active /\ t.think = s.think /\ t.activated = s.activated
  BY DEF GoalState, Keeps, Shown, Held
<1>3. RunThink(g, s) = CASE s.think = "ActivateGoal"   -> ActivateGoal(g, t)
                         [] s.think = "DeactivateGoal" -> DeactivateGoal(g, t)
                         [] OTHER -> t
  BY DEF RunThink
<1> HIDE DEF t
<1>4. CASE s.think = "ActivateGoal"
  <2>1. t.active
    BY <1>2, <1>4 DEF GoalCoherent
  <2>2. QED
    BY <1>1, <1>2, <1>3, <1>4, <2>1, Activating DEF Keeps
<1>5. CASE s.think = "DeactivateGoal"
  BY <1>1, <1>2, <1>3, <1>5, Deactivating DEF Keeps
<1>6. CASE s.think \notin {"ActivateGoal", "DeactivateGoal"}
  <2>1. s.think = "none"
    BY <1>6 DEF GoalState, Thinks
  <2>2. GoalCoherent(g, t)
    BY <1>2, <2>1 DEF GoalCoherent
  <2>3. QED
    BY <1>1, <1>2, <1>3, <1>6, <2>2
<1>7. QED
  BY <1>4, <1>5, <1>6

(* Spawn begins with an idle goal that nobody carries.                     *)
LEMMA Spawning ==
  ASSUME NEW g \in Goals
  PROVE  /\ Spawned(g) \in GoalState /\ GoalCoherent(g, Spawned(g))
         /\ Held(Spawned(g)) /\ (Kind[g] = "item" => ~Spawned(g).nodraw)
         /\ ~Spawned(g).active /\ Spawned(g).spawned
         /\ Spawned(g).enabled => Shown(g, Spawned(g))
<1>1. Spawned(g) \in GoalState
  <2>1. /\ <<>> \in Seq(Output) /\ Null \in Entities /\ "none" \in Thinks
        /\ HasFlag(g, "START_ENABLED") \in BOOLEAN
    BY DEF Entities, Thinks, HasFlag
  <2>2. QED
    BY <2>1 DEF Spawned, GoalState
<1>2. QED
  BY <1>1 DEF Spawned, GoalCoherent, Held, Shown

(* A goal the clean-up has removed has no timer left to fire.              *)
LEMMA Going ==
  ASSUME NEW g \in Goals
  PROVE  Gone(g) \in GoalState /\ GoalCoherent(g, Gone(g)) /\ ~Gone(g).spawned
<1>1. Gone(g) \in GoalState
  BY Spawning DEF Gone, GoalState
<1>2. QED
  BY <1>1 DEF Gone, Spawned, GoalCoherent

(* Activate, run once the map is loaded, turns a spawned goal into a       *)
(* coherent one.                                                           *)
LEMMA Entering ==
  ASSUME NEW g \in Goals
  PROVE  LET r == Activated(g, Spawned(g))
         IN  r \in GoalState /\ GoalCoherent(g, r) /\ Shown(g, r) /\ Held(r)
<1> DEFINE s == Spawned(g)
           t == IF HasFlag(g, "START_ACTIVE") THEN ActivateGoalStart(g, s, World) ELSE s
           r == [t EXCEPT !.nodraw = @ \/ (Kind[g] # "trigger" /\ ~s.enabled)]
<1>1. /\ s \in GoalState /\ GoalCoherent(g, s) /\ Held(s) /\ ~s.active
      /\ s.enabled => Shown(g, s)
  BY Spawning
<1>2. Activated(g, Spawned(g)) = r
  BY DEF Activated
<1> HIDE DEF s
<1>3. t \in GoalState /\ GoalCoherent(g, t) /\ Keeps(g, s, t)
  <2>1. World \in Entities
    BY DEF Entities
  <2>2. Keeps(g, s, s)
    BY DEF Keeps
  <2>3. QED
    BY <1>1, <2>1, <2>2, Starting
<1>4. t.enabled = s.enabled /\ Held(t) /\ (s.enabled => Shown(g, t))
  BY <1>1, <1>3 DEF Keeps
<1> HIDE DEF t
<1>5. r \in GoalState
  BY <1>1, <1>3 DEF GoalState
<1>6. GoalCoherent(g, r) /\ Held(r)
  BY <1>3, <1>4 DEF GoalState, GoalCoherent, Held
<1>7. Shown(g, r)
  BY <1>1, <1>3, <1>4 DEF GoalState, Shown
<1>8. QED
  BY <1>2, <1>5, <1>6, <1>7

-----------------------------------------------------------------------------
(* The inductive invariant.                                                *)

(* A record a handler may leave behind. *)
Settled(g, s) ==
  /\ s \in GoalState /\ GoalCoherent(g, s) /\ Held(s)
  /\ s.spawned => Shown(g, s)

(* A goal that has not been activated yet is as Spawn left it: that is     *)
(* what makes its start by the START_ACTIVE flag legal; every other goal   *)
(* is settled.                                                             *)
IInv ==
  /\ TypeOK
  /\ \A g \in Goals :
       IF g \in loading THEN goal[g] = Spawned(g) ELSE Settled(g, goal[g])

(* Emptying the list of outputs changes nothing else. *)
LEMMA Emptying ==
  ASSUME NEW g \in Goals, NEW s, Settled(g, s)
  PROVE  Settled(g, [s EXCEPT !.out = <<>>])
<1>1. <<>> \in Seq(Output)
  OBVIOUS
<1>2. [s EXCEPT !.out = <<>>] \in GoalState
  BY <1>1 DEF Settled, GoalState
<1>3. QED
  BY <1>2 DEF Settled, GoalState, GoalCoherent, Held, Shown

(* A handler run on a goal while no goal is loading, or the activation of  *)
(* a loading one.                                                          *)
LEMMA Settling ==
  ASSUME IInv, NEW g \in Goals, NEW r, Settled(g, r), Settle(g, r),
         loading' \in {loading, loading \ {g}}, g \in loading => loading' = loading \ {g},
         UNCHANGED <<team, server, rounds>>
  PROVE  IInv'
<1> DEFINE e == [r EXCEPT !.out = <<>>]
<1>1. Settled(g, e)
  BY Emptying
<1>2. goal' = [goal EXCEPT ![g] = e] /\ fired' = r.out
  BY DEF Settle
<1> HIDE DEF e
<1>3. goal' \in [Goals -> GoalState] /\ fired' \in Seq(Output)
  BY <1>1, <1>2 DEF IInv, TypeOK, Settled, GoalState
<1>4. ASSUME NEW h \in Goals
      PROVE  IF h \in loading' THEN goal'[h] = Spawned(h) ELSE Settled(h, goal'[h])
  <2>1. CASE h = g
    BY <1>1, <1>2, <2>1 DEF IInv, TypeOK
  <2>2. CASE h # g
    <3>1. goal'[h] = goal[h] /\ (h \in loading' <=> h \in loading)
      BY <1>2, <2>2 DEF IInv, TypeOK
    <3>2. QED
      BY <3>1 DEF IInv
  <2>3. QED
    BY <2>1, <2>2
<1>5. QED
  BY <1>3, <1>4 DEF IInv, TypeOK

(* The process dies: the entities stay as they were. *)
LEMMA Stopping ==
  ASSUME IInv, NEW how \in {"overflowed", "faulted"}, Stop(how),
         loading' = loading
  PROVE  IInv'
<1>1. TypeOK'
  BY DEF IInv, TypeOK, Stop
<1>2. QED
  BY <1>1 DEF IInv, Stop, Settled, Held, Shown, GoalCoherent

(* Every step but those of the engine leaves the other goals alone. *)
LEMMA Launching ==
  ASSUME IInv, NEW g \in Goals, NEW r, Settled(g, r), Launch(g, r),
         g \notin loading, loading' = loading
  PROVE  IInv'
<1>1. CASE Stop("overflowed")
  BY <1>1, Stopping
<1>2. CASE Settle(g, r) /\ UNCHANGED <<team, server, rounds>>
  BY <1>2, Settling
<1>3. QED
  BY <1>1, <1>2 DEF Launch

(* The inductive invariant holds of a map that is being loaded.            *)
LEMMA Beginning == Init => IInv
<1> SUFFICES ASSUME Init PROVE IInv
  OBVIOUS
<1>1. goal \in [Goals -> GoalState]
  BY Spawning DEF Init
<1>2. <<>> \in Seq(Output) /\ 0 \in 0 .. MaxRounds
  BY ConstantsAssumption
<1>3. QED
  BY <1>1, <1>2 DEF Init, IInv, TypeOK

(* Every handler, think and engine step keeps the inductive invariant.     *)
LEMMA Stepping == IInv /\ [Next]_vars => IInv'
<1> SUFFICES ASSUME IInv, [Next]_vars PROVE IInv'
  OBVIOUS
<1>1. ASSUME Running, NEW g \in Goals, goal[g].spawned
      PROVE  /\ g \notin loading /\ goal[g] \in GoalState /\ GoalCoherent(g, goal[g])
             /\ Shown(g, goal[g]) /\ Held(goal[g])
  BY <1>1 DEF IInv, Running, Settled
<1>2. World \in Entities /\ Players \subseteq Entities
  BY DEF Entities
<1>3. ASSUME NEW g \in Goals, Activate(g)
      PROVE  IInv'
  <2> DEFINE r == Activated(g, goal[g])
  <2>1. goal[g] = Spawned(g) /\ g \in loading /\ loading' = loading \ {g}
    BY <1>3 DEF IInv, Activate
  <2>2. Settled(g, r)
    BY <2>1, Entering DEF Settled
  <2>3. \/ Settle(g, r) /\ UNCHANGED <<team, server, rounds>>
        \/ Stop("overflowed") /\ goal[g].enabled
    BY <1>3 DEF Activate, Launch
  <2> HIDE DEF r
  <2>4. CASE Settle(g, r) /\ UNCHANGED <<team, server, rounds>>
    BY <2>1, <2>2, <2>4, Settling
  <2>5. CASE Stop("overflowed") /\ goal[g].enabled
    <3>1. TypeOK'
      BY <2>1, <2>5 DEF IInv, TypeOK, Stop
    <3>2. Settled(g, goal'[g])
      BY <2>1, <2>5, Spawning DEF Settled, Stop
    <3>3. ASSUME NEW h \in Goals
          PROVE  IF h \in loading' THEN goal'[h] = Spawned(h) ELSE Settled(h, goal'[h])
      <4>1. CASE h = g
        BY <2>1, <3>2, <4>1
      <4>2. CASE h # g
        BY <2>1, <2>5, <4>2 DEF IInv, Stop
      <4>3. QED
        BY <4>1, <4>2
    <3>4. QED
      BY <3>1, <3>3 DEF IInv
  <2>6. QED
    BY <2>3, <2>4, <2>5
<1>4. ASSUME NEW g \in Goals, NEW p \in Players, Touch(g, p)
      PROVE  IInv'
  <2> DEFINE r == ActivateGoalStart(g, goal[g], p)
  <2>1. Running /\ goal[g].spawned /\ ~goal[g].active /\ loading' = loading
    BY <1>4 DEF Touch
  <2>2. Launch(g, r) \/ Stop("faulted")
    BY <1>4 DEF Touch
  <2>3. Settled(g, r)
    BY <1>1, <1>2, <2>1, Starting DEF Keeps, Settled
  <2> HIDE DEF r
  <2>4. QED
    BY <1>1, <2>1, <2>2, <2>3, Launching, Stopping
<1>5. ASSUME NEW g \in Goals, NEW a \in Entities, InputEnable(g, a)
      PROVE  IInv'
  <2> DEFINE r == Enable(g, goal[g], a)
  <2>1. /\ Running /\ goal[g].spawned /\ Settle(g, r) /\ loading' = loading
        /\ UNCHANGED <<team, server, rounds>>
    BY <1>5 DEF InputEnable
  <2>2. Settled(g, r)
    BY <1>1, <2>1, Enabling DEF Settled
  <2> HIDE DEF r
  <2>3. QED
    BY <1>1, <2>1, <2>2, Settling
<1>6. ASSUME NEW g \in Goals, NEW a \in Entities, InputDisable(g, a)
      PROVE  IInv'
  <2> DEFINE r == Disable(g, goal[g], a)
  <2>1. /\ Running /\ goal[g].spawned /\ Settle(g, r) /\ loading' = loading
        /\ UNCHANGED <<team, server, rounds>>
    BY <1>6 DEF InputDisable
  <2>2. Settled(g, r)
    BY <1>1, <2>1, Disabling DEF Settled
  <2> HIDE DEF r
  <2>3. QED
    BY <1>1, <2>1, <2>2, Settling
<1>7. ASSUME NEW g \in Goals, InputActivate(g)
      PROVE  IInv'
  <2> DEFINE r == ActivateGoalStart(g, goal[g], World)
  <2>1. Running /\ goal[g].spawned /\ ~goal[g].active /\ loading' = loading /\ Launch(g, r)
    BY <1>7 DEF InputActivate
  <2>2. Settled(g, r)
    BY <1>1, <1>2, <2>1, Starting DEF Keeps, Settled
  <2> HIDE DEF r
  <2>3. QED
    BY <1>1, <2>1, <2>2, Launching
<1>8. ASSUME NEW g \in Goals, InputInactivate(g)
      PROVE  IInv'
  <2> DEFINE r == Inactivate(g, goal[g])
  <2>1. /\ Running /\ goal[g].spawned /\ Settle(g, r) /\ loading' = loading
        /\ UNCHANGED <<team, server, rounds>>
    BY <1>8 DEF InputInactivate
  <2>2. Settled(g, r)
    BY <1>1, <2>1, Inactivating DEF Keeps, Settled
  <2> HIDE DEF r
  <2>3. QED
    BY <1>1, <2>1, <2>2, Settling
<1>9. ASSUME NEW g \in Goals, Think(g)
      PROVE  IInv'
  <2> DEFINE r == RunThink(g, goal[g])
  <2>1. /\ Running /\ goal[g].spawned /\ Settle(g, r) /\ loading' = loading
        /\ UNCHANGED <<team, server, rounds>>
    BY <1>9 DEF Think
  <2>2. Settled(g, r)
    BY <1>1, <2>1, Thinking DEF Keeps, Settled
  <2> HIDE DEF r
  <2>3. QED
    BY <1>1, <2>1, <2>2, Settling
<1>10. ASSUME Running, UNCHANGED <<loading, server, rounds>>, fired' = <<>>,
              team' \in [Players -> Teams \cup {Null}], DOMAIN goal' = Goals,
              goal' = [g \in Goals |-> goal'[g]], \A g \in Goals : Settled(g, goal'[g])
       PROVE  IInv'
  <2>1. goal' \in [Goals -> GoalState] /\ fired' \in Seq(Output)
    BY <1>10 DEF Settled
  <2>2. TypeOK' /\ loading' = {}
    BY <1>10, <2>1 DEF IInv, TypeOK, Running
  <2>3. QED
    BY <1>10, <2>2 DEF IInv
<1>11. ASSUME Running, NEW g \in Goals
       PROVE  Settled(g, goal[g])
  BY <1>11 DEF IInv, Running
<1>12. ASSUME Tick
       PROVE  IInv'
  <2>1. ASSUME NEW g \in Goals
        PROVE  Settled(g, goal'[g])
    <3> DEFINE d == IF goal[g].due = Never THEN Never ELSE goal[g].due - 1
               t == [goal[g] EXCEPT !.due = d]
    <3>1. goal'[g] = t /\ Settled(g, goal[g]) /\ goal[g].due # 0
      BY <1>11, <1>12 DEF Tick
    <3>2. d \in Nat \cup {Never} /\ (goal[g].due # Never => d # Never)
      BY <3>1 DEF Settled, GoalState, Never
    <3> HIDE DEF d
    <3>3. t \in GoalState
      BY <3>1, <3>2 DEF Settled, GoalState
    <3>4. Settled(g, t)
      BY <3>1, <3>2, <3>3 DEF Settled, GoalState, GoalCoherent, Held, Shown
    <3>5. QED
      BY <3>1, <3>4
  <2>2. team \in [Players -> Teams \cup {Null}]
    BY DEF IInv, TypeOK
  <2>3. QED
    BY <1>10, <1>12, <2>1, <2>2 DEF Tick
<1>13. ASSUME NEW p \in Players, NEW t \in Teams \cup {Null}, ChangeTeam(p, t)
       PROVE  IInv'
  <2>1. team' \in [Players -> Teams \cup {Null}]
    BY <1>13 DEF IInv, TypeOK, ChangeTeam
  <2>2. goal' = goal /\ goal \in [Goals -> GoalState]
    BY <1>13 DEF IInv, TypeOK, ChangeTeam
  <2>3. QED
    BY <1>10, <1>11, <1>13, <2>1, <2>2 DEF ChangeTeam
<1>14. ASSUME NEW g \in Goals, CarrierMoves(g)
       PROVE  IInv'
  <2> DEFINE t == [goal[g] EXCEPT !.away = ~@]
  <2>1. goal \in [Goals -> GoalState] /\ team \in [Players -> Teams \cup {Null}]
    BY DEF IInv, TypeOK
  <2>2. Running /\ goal' = [goal EXCEPT ![g] = t]
    BY <1>14 DEF CarrierMoves
  <2>3. Settled(g, t)
    <3>1. Settled(g, goal[g])
      BY <1>11, <2>2
    <3>2. t \in GoalState
      BY <3>1 DEF Settled, GoalState
    <3>3. QED
      BY <3>1, <3>2 DEF Settled, GoalState, GoalCoherent, Held, Shown
  <2> HIDE DEF t
  <2>4. \A h \in Goals : Settled(h, goal'[h])
    BY <1>11, <2>1, <2>2, <2>3
  <2>5. QED
    BY <1>10, <1>14, <2>1, <2>2, <2>4 DEF CarrierMoves
<1>15. ASSUME NEW p \in Players, Disconnect(p)
       PROVE  IInv'
  <2>1. ASSUME NEW g \in Goals
        PROVE  Settled(g, goal'[g])
    <3> DEFINE a == IF goal[g].activator = p THEN Null ELSE goal[g].activator
               t == [goal[g] EXCEPT !.activator = a]
    <3>1. Settled(g, goal[g])
      BY <1>11, <1>15 DEF Disconnect
    <3>2. CASE goal[g].carrier = p
      BY <1>15, <3>2, Going DEF Disconnect, Settled, Held, Gone, Spawned
    <3>3. CASE goal[g].carrier # p
      <4>1. goal'[g] = t
        BY <1>15, <3>3 DEF Disconnect
      <4>2. a \in Entities
        BY <3>1 DEF Settled, GoalState, Entities
      <4> HIDE DEF a
      <4>3. t \in GoalState
        BY <3>1, <4>2 DEF Settled, GoalState
      <4>4. Settled(g, t)
        BY <3>1, <4>3 DEF Settled, GoalState, GoalCoherent, Held, Shown
      <4>5. QED
        BY <4>1, <4>4
    <3>4. QED
      BY <3>2, <3>3
  <2>2. team' \in [Players -> Teams \cup {Null}]
    BY <1>15 DEF IInv, TypeOK, Disconnect
  <2>3. QED
    BY <1>10, <1>15, <2>1, <2>2 DEF Disconnect
<1>16. ASSUME CleanUpMap
       PROVE  IInv'
  <2>1. goal' \in [Goals -> GoalState]
    BY <1>16, Spawning DEF CleanUpMap
  <2>2. rounds' \in 0 .. MaxRounds
    BY <1>16, ConstantsAssumption DEF IInv, TypeOK, CleanUpMap
  <2>3. QED
    BY <1>16, <2>1, <2>2 DEF IInv, TypeOK, CleanUpMap
<1>17. ASSUME UNCHANGED vars
       PROVE  IInv'
  BY <1>17 DEF IInv, TypeOK, vars
<1>18. QED
  BY <1>3, <1>4, <1>5, <1>6, <1>7, <1>8, <1>9, <1>12, <1>13, <1>14, <1>15, <1>16,
     <1>17 DEF Next
-----------------------------------------------------------------------------

(* The invariant holds for ever.                                           *)
LEMMA Inductive == Spec => []IInv
  BY Beginning, Stepping, PTL DEF Spec

(* Every variable keeps its type, and the server never counts a round too  *)
(* many: no handler of a goal leaves a record half written.                *)
THEOREM TypeCorrect == Spec => []TypeOK
<1>1. IInv => TypeOK
  BY DEF IInv
<1>2. QED
  BY <1>1, Inductive, PTL

(* The flags, the think function and its tick of a goal always agree, on   *)
(* every map, whatever its goals' delays, times and flags.                 *)
THEOREM TimersCoherent == Spec => []PhaseMatchesTimer
<1>1. IInv => PhaseMatchesTimer
  BY Spawning DEF IInv, Settled, PhaseMatchesTimer
<1>2. QED
  BY <1>1, Inductive, PTL

(* An info goal that has been activated is drawn exactly while it is       *)
(* enabled and not activated.                                              *)
THEOREM InfoGoalsDrawn == Spec => []InfoDrawnWhileOffered
<1>1. IInv => InfoDrawnWhileOffered
  BY DEF IInv, Settled, Shown, InfoDrawnWhileOffered
<1>2. QED
  BY <1>1, Inductive, PTL

(* An item goal on offer is drawn, and nobody can touch an item that is    *)
(* carried: two players never hold one item.                               *)
THEOREM ItemsDrawnOrCarried == Spec => []ItemDrawnOrCarried
<1>1. IInv => ItemDrawnOrCarried
  BY Spawning DEF IInv, Settled, Shown, Held, ItemDrawnOrCarried
<1>2. QED
  BY <1>1, Inductive, PTL
-----------------------------------------------------------------------------
(* The refinement: what a goal shows of its phase and of its timer.        *)

Seen(s, next) == Phase(s) = next[1] /\ Left(s) = next[2]

(* Records that differ in nothing that the cycle knows of. *)
Alike(s, t) ==
  /\ t.active = s.active /\ t.activated = s.activated /\ t.enabled = s.enabled
  /\ t.think = s.think /\ t.due = s.due

(* Goals alike look the same to the abstract cycle. *)
LEMMA AlikeSeen ==
  ASSUME NEW s, NEW t, Alike(s, t)
  PROVE  Phase(t) = Phase(s) /\ Left(t) = Left(s) /\ t.enabled = s.enabled
  BY DEF Alike, Phase, Left

(* The effects of items leave the timers alone.                            *)
LEMMA EffectsAlike ==
  ASSUME NEW g \in Goals, NEW s \in GoalState, NEW p
  PROVE  Alike(s, Show(g, s)) /\ Alike(s, Grab(g, s, p)) /\ Alike(s, [s EXCEPT !.out = <<>>])
  BY DEF Alike, Show, Grab, GoalState

(* A goal that waits for its delay.                                        *)
LEMMA ArmSeen ==
  ASSUME NEW g \in Goals, NEW s \in GoalState, s.active, ~s.activated
  PROVE  Seen(Arm(g, s), Cycle!Waiting(g))
<1>1. /\ Arm(g, s).active /\ ~Arm(g, s).activated
      /\ Arm(g, s).think = "ActivateGoal" /\ Arm(g, s).due = ActiveDelay[g]
  BY DEF Arm, GoalState
<1>2. Phase(Arm(g, s)) = "waiting" /\ Left(Arm(g, s)) = ActiveDelay[g]
  BY <1>1 DEF Phase, Left
<1>3. QED
  BY <1>2 DEF Seen, Cycle!Waiting

(* A lit goal has its time before it, or no timer.                         *)
LEMMA HoldSeen ==
  ASSUME NEW g \in Goals, NEW s \in GoalState, s.active, s.activated
  PROVE  Seen(Hold(g, s), Cycle!Lit(g))
<1>1. /\ Hold(g, s).active /\ Hold(g, s).activated
      /\ IF ActiveTime[g] < 0 THEN Hold(g, s).think = "none"
                              ELSE Hold(g, s).think # "none" /\ Hold(g, s).due = ActiveTime[g]
  BY DEF Hold, GoalState
<1>2. /\ Phase(Hold(g, s)) = "lit"
      /\ Left(Hold(g, s)) = IF ActiveTime[g] < 0 THEN Never ELSE ActiveTime[g]
  BY <1>1 DEF Phase, Left
<1>3. QED
  BY <1>2 DEF Seen, Cycle!Lit, Cycle!NoTimer, Never

(* A goal at rest has no timer.                                            *)
LEMMA RestSeen ==
  ASSUME NEW s \in GoalState
  PROVE  Seen(Rest(s), Cycle!Rest)
<1>1. ~Rest(s).active /\ Rest(s).think = "none"
  BY DEF Rest, GoalState
<1>2. Phase(Rest(s)) = "rest" /\ Left(Rest(s)) = Never
  BY <1>1 DEF Phase, Left
<1>3. QED
  BY <1>2 DEF Seen, Cycle!Rest, Cycle!NoTimer, Never

(* The next round begins with the wait, or is lit at once.                 *)
LEMMA RestartSeen ==
  ASSUME NEW g \in Goals, NEW s \in GoalState, s.active, ~s.activated
  PROVE  Seen(Restart(g, s), IF ActiveDelay[g] > 0 THEN Cycle!Waiting(g) ELSE Cycle!Lit(g))
<1> DEFINE lit == Light(g, s)
           t   == IF ActiveDelay[g] > 0 THEN Arm(g, s) ELSE Show(g, Hold(g, lit))
<1>1. t \in GoalState /\ Seen(t, IF ActiveDelay[g] > 0 THEN Cycle!Waiting(g) ELSE Cycle!Lit(g))
  <2>1. CASE ActiveDelay[g] > 0
    BY <2>1, Arming, ArmSeen
  <2>2. CASE ~(ActiveDelay[g] > 0)
    <3>1. lit \in GoalState /\ lit.active /\ lit.activated
      BY Lighting
    <3> HIDE DEF lit
    <3>2. Hold(g, lit) \in GoalState /\ Seen(Hold(g, lit), Cycle!Lit(g))
      BY <3>1, Holding, HoldSeen
    <3>3. Show(g, Hold(g, lit)) \in GoalState /\ Alike(Hold(g, lit), Show(g, Hold(g, lit)))
      BY <3>2, Showing, EffectsAlike
    <3>4. Seen(Show(g, Hold(g, lit)), Cycle!Lit(g))
      BY <3>2, <3>3, AlikeSeen DEF Seen
    <3>5. QED
      BY <2>2, <3>3, <3>4
  <2>3. QED
    BY <2>1, <2>2
<1>2. Restart(g, s) = Grab(g, t, s.activator)
  BY DEF Restart
<1> HIDE DEF t
<1>3. Alike(t, Restart(g, s))
  BY <1>1, <1>2, EffectsAlike
<1>4. QED
  BY <1>1, <1>3, AlikeSeen DEF Seen

(* A goal whose time is over goes round again or rests; one that has been  *)
(* interrupted rests.                                                      *)
LEMMA DeactivateSeen ==
  ASSUME NEW g \in Goals, NEW s \in GoalState
  PROVE  /\ s.active => Seen(DeactivateGoal(g, s), Cycle!AfterLit(g, s.enabled))
         /\ ~s.active => Seen(DeactivateGoal(g, s), Cycle!Rest)
<1> DEFINE dark == Unlight(g, s)
           again == IF ActiveDelay[g] > 0 THEN Cycle!Waiting(g) ELSE Cycle!Lit(g)
<1>1. dark \in GoalState /\ ~dark.activated /\ dark.active = s.active
  BY Unlighting
<1>2. DeactivateGoal(g, s) = IF Loops(g, s) THEN Restart(g, dark) ELSE Rest(dark)
  BY DEF DeactivateGoal
<1> HIDE DEF dark
<1>3. CASE Loops(g, s)
  <2>1. dark.active /\ s.active
    BY <1>1, <1>3 DEF Loops
  <2>2. Seen(DeactivateGoal(g, s), again)
    BY <1>1, <1>2, <1>3, <2>1, RestartSeen
  <2>3. Cycle!AfterLit(g, s.enabled) = again
    BY <1>3 DEF Loops, Cycle!AfterLit
  <2>4. QED
    BY <2>1, <2>2, <2>3
<1>4. CASE ~Loops(g, s)
  <2>1. Seen(DeactivateGoal(g, s), Cycle!Rest)
    BY <1>1, <1>2, <1>4, RestSeen
  <2>2. s.active => Cycle!AfterLit(g, s.enabled) = Cycle!Rest
    BY <1>4 DEF Loops, Cycle!AfterLit
  <2>3. QED
    BY <2>1, <2>2
<1>5. QED
  BY <1>3, <1>4

(* When the wait is over the goal is lit, or past it if it has no time.    *)
LEMMA ActivateSeen ==
  ASSUME NEW g \in Goals, NEW s \in GoalState, s.active
  PROVE  Seen(ActivateGoal(g, s), Cycle!AfterWait(g, s.enabled))
<1> DEFINE lit == Light(g, s)
           t   == IF ActiveTime[g] = 0 THEN DeactivateGoal(g, lit) ELSE Hold(g, lit)
<1>1. lit \in GoalState /\ lit.active /\ lit.activated /\ lit.enabled = s.enabled
  BY Lighting DEF Keeps
<1>2. ActivateGoal(g, s) = Show(g, t)
  BY DEF ActivateGoal
<1> HIDE DEF lit
<1>3. t \in GoalState /\ Seen(t, Cycle!AfterWait(g, s.enabled))
  <2>1. CASE ActiveTime[g] = 0
    <3>1. Seen(DeactivateGoal(g, lit), Cycle!AfterLit(g, s.enabled))
      BY <1>1, DeactivateSeen
    <3>2. Cycle!AfterWait(g, s.enabled) = Cycle!AfterLit(g, s.enabled)
      BY <2>1 DEF Cycle!AfterWait
    <3>3. QED
      BY <1>1, <2>1, <3>1, <3>2, Deactivating
  <2>2. CASE ActiveTime[g] # 0
    <3>1. Seen(Hold(g, lit), Cycle!Lit(g))
      BY <1>1, HoldSeen
    <3>2. Cycle!AfterWait(g, s.enabled) = Cycle!Lit(g)
      BY <2>2 DEF Cycle!AfterWait
    <3>3. QED
      BY <1>1, <2>2, <3>1, <3>2, Holding
  <2>3. QED
    BY <2>1, <2>2
<1> HIDE DEF t
<1>4. Alike(t, ActivateGoal(g, s))
  BY <1>2, <1>3, EffectsAlike
<1>5. QED
  BY <1>3, <1>4, AlikeSeen DEF Seen

(* A start leads into the wait, or through it at once.                     *)
LEMMA StartSeen ==
  ASSUME NEW g \in Goals, NEW s \in GoalState, ~s.active, GoalCoherent(g, s), NEW p \in Entities
  PROVE  Seen(ActivateGoalStart(g, s, p), Cycle!AfterStart(g, s.enabled))
<1> DEFINE busy == [s EXCEPT !.activator = p, !.active = TRUE]
           t    == IF ActiveDelay[g] > 0 THEN Arm(g, busy) ELSE ActivateGoal(g, busy)
<1>1. busy \in GoalState /\ busy.active /\ ~busy.activated /\ busy.enabled = s.enabled
  BY DEF GoalState, GoalCoherent
<1>2. ActivateGoalStart(g, s, p) = Grab(g, t, p)
  BY DEF ActivateGoalStart
<1> HIDE DEF busy
<1>3. t \in GoalState /\ Seen(t, Cycle!AfterStart(g, s.enabled))
  <2>1. CASE ActiveDelay[g] > 0
    <3>1. Cycle!AfterStart(g, s.enabled) = Cycle!Waiting(g)
      BY <2>1 DEF Cycle!AfterStart
    <3>2. QED
      BY <1>1, <2>1, <3>1, Arming, ArmSeen
  <2>2. CASE ~(ActiveDelay[g] > 0)
    <3>1. Cycle!AfterStart(g, s.enabled) = Cycle!AfterWait(g, s.enabled)
      BY <2>2 DEF Cycle!AfterStart
    <3>2. QED
      BY <1>1, <2>2, <3>1, Activating, ActivateSeen
  <2>3. QED
    BY <2>1, <2>2
<1> HIDE DEF t
<1>4. Alike(t, ActivateGoalStart(g, s, p))
  BY <1>2, <1>3, EffectsAlike
<1>5. QED
  BY <1>3, <1>4, AlikeSeen DEF Seen
-----------------------------------------------------------------------------
(* The steps of a goal are steps of the cycle.                             *)

View == <<[g \in Goals |-> Phase(goal[g])], [g \in Goals |-> Left(goal[g])],
          [g \in Goals |-> goal[g].enabled]>>

(* A handler ran on g: the phase and the timer of g become what it left.   *)
LEMMA Becoming ==
  ASSUME goal \in [Goals -> GoalState], NEW g \in Goals, NEW r \in GoalState, NEW next,
         Settle(g, r), r.enabled = goal[g].enabled, Seen(r, next)
  PROVE  Cycle!Become(g, next)
<1> DEFINE e == [r EXCEPT !.out = <<>>]
<1>1. goal' = [goal EXCEPT ![g] = e] /\ Alike(r, e)
  BY EffectsAlike DEF Settle
<1>2. Phase(e) = next[1] /\ Left(e) = next[2] /\ e.enabled = goal[g].enabled
  BY <1>1, AlikeSeen DEF Seen
<1> HIDE DEF e
<1>3. goal'[g] = e /\ \A h \in Goals : h # g => goal'[h] = goal[h]
  BY <1>1
<1>4. [h \in Goals |-> Phase(goal'[h])] = [[h \in Goals |-> Phase(goal[h])] EXCEPT ![g] = next[1]]
  BY <1>2, <1>3
<1>5. [h \in Goals |-> Left(goal'[h])] = [[h \in Goals |-> Left(goal[h])] EXCEPT ![g] = next[2]]
  BY <1>2, <1>3
<1>6. [h \in Goals |-> goal'[h].enabled] = [h \in Goals |-> goal[h].enabled]
  BY <1>2, <1>3
<1>7. QED
  BY <1>4, <1>5, <1>6 DEF Cycle!Become

(* A handler that changes nothing the cycle knows of.                      *)
LEMMA Unseen ==
  ASSUME goal \in [Goals -> GoalState], NEW g \in Goals, NEW r \in GoalState,
         Settle(g, r), Phase(r) = Phase(goal[g]), Left(r) = Left(goal[g]),
         r.enabled = goal[g].enabled
  PROVE  UNCHANGED View
<1> DEFINE e == [r EXCEPT !.out = <<>>]
<1>1. goal' = [goal EXCEPT ![g] = e] /\ Alike(r, e)
  BY EffectsAlike DEF Settle
<1>2. Phase(e) = Phase(goal[g]) /\ Left(e) = Left(goal[g]) /\ e.enabled = goal[g].enabled
  BY <1>1, AlikeSeen
<1> HIDE DEF e
<1>3. goal'[g] = e /\ \A h \in Goals : h # g => goal'[h] = goal[h]
  BY <1>1
<1>4. QED
  BY <1>2, <1>3 DEF View

(* An input that only enables or disables.                                 *)
LEMMA Switching ==
  ASSUME goal \in [Goals -> GoalState], NEW g \in Goals, NEW r \in GoalState, NEW on \in BOOLEAN,
         Settle(g, r), Phase(r) = Phase(goal[g]), Left(r) = Left(goal[g]), r.enabled = on
  PROVE  Cycle!Switch(g, on)
<1> DEFINE e == [r EXCEPT !.out = <<>>]
<1>1. goal' = [goal EXCEPT ![g] = e] /\ Alike(r, e)
  BY EffectsAlike DEF Settle
<1>2. Phase(e) = Phase(goal[g]) /\ Left(e) = Left(goal[g]) /\ e.enabled = on
  BY <1>1, AlikeSeen
<1> HIDE DEF e
<1>3. goal'[g] = e /\ \A h \in Goals : h # g => goal'[h] = goal[h]
  BY <1>1
<1>4. /\ [h \in Goals |-> Phase(goal'[h])] = [h \in Goals |-> Phase(goal[h])]
      /\ [h \in Goals |-> Left(goal'[h])] = [h \in Goals |-> Left(goal[h])]
  BY <1>2, <1>3
<1>5. [h \in Goals |-> goal'[h].enabled] = [[h \in Goals |-> goal[h].enabled] EXCEPT ![g] = on]
  BY <1>2, <1>3
<1>6. QED
  BY <1>4, <1>5 DEF Cycle!Switch

(* What the cycle sees of Enable and Disable.                              *)
LEMMA InputsSeen ==
  ASSUME NEW g \in Goals, NEW s \in GoalState, NEW a \in Entities
  PROVE  /\ Phase(Enable(g, s, a)) = Phase(s) /\ Left(Enable(g, s, a)) = Left(s)
         /\ Enable(g, s, a).enabled = TRUE
         /\ Phase(Disable(g, s, a)) = Phase(s) /\ Left(Disable(g, s, a)) = Left(s)
         /\ Disable(g, s, a).enabled = FALSE
<1> DEFINE t == [s EXCEPT !.enabled = TRUE,
                          !.nodraw = @ /\ (Kind[g] = "trigger" \/ s.activated)]
           u == [s EXCEPT !.enabled = FALSE, !.nodraw = @ \/ Kind[g] # "trigger"]
<1>1. /\ t \in GoalState /\ t.active = s.active /\ t.activated = s.activated
      /\ t.think = s.think /\ t.due = s.due /\ t.enabled = TRUE
  BY DEF GoalState
<1>2. /\ u \in GoalState /\ u.active = s.active /\ u.activated = s.activated
      /\ u.think = s.think /\ u.due = s.due /\ u.enabled = FALSE
  BY DEF GoalState
<1>3. /\ Enable(g, s, a) = Fire(g, t, "OnEnabled", a)
      /\ Disable(g, s, a) = Fire(g, u, "OnDisabled", a)
      /\ "OnEnabled" \in Outputs /\ "OnDisabled" \in Outputs
  BY DEF Enable, Disable, Outputs
<1> HIDE DEF t, u
<1>4. Alike(t, Enable(g, s, a)) /\ Alike(u, Disable(g, s, a))
  BY <1>1, <1>2, <1>3, Firing DEF Alike, Keeps
<1>5. Phase(t) = Phase(s) /\ Left(t) = Left(s) /\ Phase(u) = Phase(s) /\ Left(u) = Left(s)
  BY <1>1, <1>2 DEF Phase, Left
<1>6. QED
  BY <1>1, <1>2, <1>4, <1>5, AlikeSeen DEF Alike

(* A start, and how the cycle sees it. *)
LEMMA StartRefines ==
  ASSUME IInv, NEW g \in Goals, goal[g] \in GoalState, ~goal[g].active,
         goal[g].enabled \/ HasFlag(g, "START_ACTIVE"),
         NEW r \in GoalState, r.enabled = goal[g].enabled,
         Seen(r, Cycle!AfterStart(g, goal[g].enabled)), Settle(g, r)
  PROVE  Cycle!Start(g)
<1>1. goal \in [Goals -> GoalState]
  BY DEF IInv, TypeOK
<1>2. Cycle!Become(g, Cycle!AfterStart(g, goal[g].enabled))
  BY <1>1, Becoming
<1>3. Phase(goal[g]) = "rest"
  BY DEF Phase
<1>4. QED
  BY <1>2, <1>3 DEF Cycle!Start

(* What a start leaves, and that its launch is a start or the server stops. *)
LEMMA LaunchRefines ==
  ASSUME IInv, Running, NEW g \in Goals, goal[g].spawned, ~goal[g].active, goal[g].enabled,
         NEW p \in Entities, Launch(g, ActivateGoalStart(g, goal[g], p))
  PROVE  Cycle!Start(g) \/ UNCHANGED View
<1> DEFINE r == ActivateGoalStart(g, goal[g], p)
<1>1. goal[g] \in GoalState /\ GoalCoherent(g, goal[g])
  BY DEF IInv, Running, Settled
<1>2. r \in GoalState /\ r.enabled = goal[g].enabled
  BY <1>1, Starting DEF Keeps
<1>3. Seen(r, Cycle!AfterStart(g, goal[g].enabled))
  BY <1>1, StartSeen
<1>4. CASE Stop("overflowed")
  BY <1>4 DEF Stop, View
<1>5. CASE Settle(g, r)
  <2> HIDE DEF r
  <2>1. QED
    BY <1>1, <1>2, <1>3, <1>5, StartRefines
<1>6. QED
  BY <1>4, <1>5 DEF Launch

(* The activation at load starts the cycle or shows nothing. *)
LEMMA ActivateRefines ==
  ASSUME IInv, NEW g \in Goals, Activate(g)
  PROVE  Cycle!Start(g) \/ UNCHANGED View
<1> DEFINE s == Spawned(g)
           t == ActivateGoalStart(g, s, World)
           r == Activated(g, s)
<1>1. goal[g] = s /\ goal \in [Goals -> GoalState]
  BY DEF IInv, TypeOK, Activate
<1>2. s \in GoalState /\ GoalCoherent(g, s) /\ ~s.active /\ World \in Entities
  BY Spawning DEF Entities
<1>3. r \in GoalState
  BY Entering
<1>4. \/ Stop("overflowed")
      \/ Settle(g, r)
  BY <1>1 DEF Activate, Launch
<1>5. CASE Stop("overflowed")
  BY <1>5 DEF Stop, View
<1>6. CASE Settle(g, r) /\ HasFlag(g, "START_ACTIVE")
  <2>1. t \in GoalState /\ t.enabled = s.enabled /\ Seen(t, Cycle!AfterStart(g, s.enabled))
    BY <1>2, Starting, StartSeen DEF Keeps
  <2>2. r = [t EXCEPT !.nodraw = @ \/ (Kind[g] # "trigger" /\ ~s.enabled)]
    BY <1>6 DEF Activated
  <2> HIDE DEF t, s
  <2>3. Alike(t, r)
    BY <2>1, <2>2 DEF Alike, GoalState
  <2> HIDE DEF r
  <2>4. Seen(r, Cycle!AfterStart(g, s.enabled)) /\ r.enabled = s.enabled
    BY <2>1, <2>3, AlikeSeen DEF Seen
  <2>5. QED
    BY <1>1, <1>2, <1>3, <1>6, <2>4, StartRefines
<1>7. CASE Settle(g, r) /\ ~HasFlag(g, "START_ACTIVE")
  <2>1. r = [s EXCEPT !.nodraw = @ \/ (Kind[g] # "trigger" /\ ~s.enabled)]
    BY <1>7 DEF Activated
  <2> HIDE DEF s
  <2>2. Alike(s, r)
    BY <1>2, <2>1 DEF Alike, GoalState
  <2> HIDE DEF r
  <2>3. QED
    BY <1>1, <1>3, <1>7, <2>2, AlikeSeen, Unseen
<1>8. QED
  BY <1>4, <1>5, <1>6, <1>7

(* Input_Inactivate interrupts the cycle. *)
LEMMA InactivateRefines ==
  ASSUME IInv, NEW g \in Goals, InputInactivate(g)
  PROVE  Cycle!Interrupt(g)
<1> DEFINE t == [goal[g] EXCEPT !.active = FALSE]
           r == Inactivate(g, goal[g])
<1>1. /\ Running /\ goal[g].spawned /\ goal[g].enabled /\ goal[g].active /\ Settle(g, r)
  BY DEF InputInactivate
<1>2. goal \in [Goals -> GoalState] /\ goal[g] \in GoalState
  BY DEF IInv, TypeOK
<1>3. r \in GoalState /\ r.enabled = goal[g].enabled
  BY <1>2, Inactivating DEF Keeps
<1>4. t \in GoalState /\ ~t.active
  BY <1>2 DEF GoalState
<1>5. Seen(r, Cycle!Rest)
  <2>1. r = DeactivateGoal(g, t)
    BY DEF Inactivate
  <2> HIDE DEF r, t
  <2>2. QED
    BY <1>4, <2>1, DeactivateSeen
<1> HIDE DEF r
<1>6. Cycle!Become(g, Cycle!Rest)
  BY <1>1, <1>2, <1>3, <1>5, Becoming
<1>7. Phase(goal[g]) # "rest"
  BY <1>1 DEF Phase
<1>8. QED
  BY <1>1, <1>6, <1>7 DEF Cycle!Interrupt

(* A think is the end of a phase or shows nothing. *)
LEMMA ThinkRefines ==
  ASSUME IInv, NEW g \in Goals, Think(g)
  PROVE  Cycle!Elapse(g) \/ UNCHANGED View
<1> DEFINE s == goal[g]
           t == [s EXCEPT !.due = Never]
           r == RunThink(g, s)
<1>1. Running /\ s.spawned /\ s.due = 0 /\ Settle(g, r)
  BY DEF Think
<1>2. goal \in [Goals -> GoalState] /\ s \in GoalState /\ GoalCoherent(g, s)
  BY <1>1 DEF IInv, TypeOK, Running, Settled
<1>3. r \in GoalState /\ r.enabled = s.enabled
  BY <1>2, Thinking DEF Keeps
<1>4. /\ t \in GoalState /\ t.active = s.active /\ t.enabled = s.enabled
      /\ t.activated = s.activated /\ t.think = s.think
  BY <1>2 DEF GoalState
<1>5. r = CASE s.think = "ActivateGoal"   -> ActivateGoal(g, t)
            [] s.think = "DeactivateGoal" -> DeactivateGoal(g, t)
            [] OTHER -> t
  BY DEF RunThink
<1> HIDE DEF r, t
<1>6. CASE s.think = "ActivateGoal"
  <2>1. Phase(s) = "waiting" /\ Left(s) = 0 /\ s.active
    BY <1>1, <1>2, <1>6 DEF GoalCoherent, Phase, Left
  <2>2. Seen(r, Cycle!AfterWait(g, s.enabled))
    BY <1>4, <1>5, <1>6, <2>1, ActivateSeen
  <2>3. Cycle!Become(g, Cycle!AfterWait(g, s.enabled))
    BY <1>1, <1>2, <1>3, <2>2, Becoming
  <2>4. QED
    BY <2>1, <2>3 DEF Cycle!Elapse
<1>7. CASE s.think = "DeactivateGoal"
  <2>1. Phase(s) = "lit" /\ Left(s) = 0 /\ s.active
    BY <1>1, <1>2, <1>7 DEF GoalCoherent, Phase, Left
  <2>2. Seen(r, Cycle!AfterLit(g, s.enabled))
    BY <1>4, <1>5, <1>7, <2>1, DeactivateSeen
  <2>3. Cycle!Become(g, Cycle!AfterLit(g, s.enabled))
    BY <1>1, <1>2, <1>3, <2>2, Becoming
  <2>4. QED
    BY <2>1, <2>3 DEF Cycle!Elapse
<1>8. CASE s.think \notin {"ActivateGoal", "DeactivateGoal"}
  <2>1. s.think = "none" /\ r = t
    BY <1>2, <1>5, <1>8 DEF GoalState, Thinks
  <2>2. Phase(r) = Phase(s) /\ Left(r) = Left(s)
    BY <1>4, <2>1 DEF Phase, Left
  <2>3. QED
    BY <1>1, <1>2, <1>3, <2>2, Unseen
<1>9. QED
  BY <1>6, <1>7, <1>8

(* A tick is a tick of the abstract cycles. *)
LEMMA TickRefines == ASSUME IInv, Tick PROVE Cycle!PassTick
<1>1. \A g \in Goals : goal[g] \in GoalState /\ GoalCoherent(g, goal[g]) /\ goal[g].due # 0
  BY DEF IInv, Running, Settled, Tick
<1>2. ASSUME NEW g \in Goals
      PROVE  /\ Phase(goal'[g]) = Phase(goal[g]) /\ goal'[g].enabled = goal[g].enabled
             /\ Left(goal[g]) # 0
             /\ Left(goal'[g]) = IF Left(goal[g]) = Never THEN Never ELSE Left(goal[g]) - 1
  <2> DEFINE s == goal[g]
             t == [s EXCEPT !.due = IF @ = Never THEN @ ELSE @ - 1]
  <2>1. goal'[g] = t
    BY DEF Tick
  <2>2. /\ t.active = s.active /\ t.activated = s.activated /\ t.enabled = s.enabled
        /\ t.think = s.think /\ t.due = IF s.due = Never THEN Never ELSE s.due - 1
    BY <1>1 DEF GoalState
  <2>3. s.think # "none" => s.due # Never
    BY <1>1 DEF GoalCoherent
  <2>4. s.due # 0 /\ Never # 0
    BY <1>1 DEF Never
  <2> HIDE DEF s, t
  <2>5. Phase(t) = Phase(s) /\ Left(s) # 0
    BY <2>2, <2>4 DEF Phase, Left
  <2>6. Left(t) = IF Left(s) = Never THEN Never ELSE Left(s) - 1
    BY <2>2, <2>3 DEF Left
  <2>7. QED
    BY <2>1, <2>2, <2>5, <2>6 DEF s
<1>3. [g \in Goals |-> Phase(goal'[g])] = [g \in Goals |-> Phase(goal[g])]
  BY <1>2
<1>4. [g \in Goals |-> goal'[g].enabled] = [g \in Goals |-> goal[g].enabled]
  BY <1>2
<1>5. [g \in Goals |-> Left(goal'[g])]
        = [g \in Goals |-> IF Left(goal[g]) = Never THEN Never ELSE Left(goal[g]) - 1]
  BY <1>2
<1>6. QED
  BY <1>2, <1>3, <1>4, <1>5 DEF Cycle!PassTick, Cycle!NoTimer, Never

(* A spawned goal and a deleted one are at rest. *)
LEMMA SpawnedSeen ==
  ASSUME NEW g \in Goals
  PROVE  /\ Phase(Spawned(g)) = "rest" /\ Left(Spawned(g)) = Never
         /\ Spawned(g).enabled = HasFlag(g, "START_ENABLED")
         /\ Phase(Gone(g)) = "rest" /\ Left(Gone(g)) = Never /\ Gone(g).enabled = FALSE
<1>1. /\ Spawned(g).active = FALSE /\ Spawned(g).think = "none"
      /\ Spawned(g).enabled = HasFlag(g, "START_ENABLED")
  BY Zenon DEF Spawned
<1>2. Gone(g).active = FALSE /\ Gone(g).think = "none" /\ Gone(g).enabled = FALSE
  BY DEF Gone, Spawned
<1>3. QED
  BY <1>1, <1>2 DEF Phase, Left

(* The items that go with a player are deleted. *)
LEMMA DisconnectRefines ==
  ASSUME IInv, NEW p \in Players, Disconnect(p)
  PROVE  \E gs \in SUBSET Goals : Cycle!Delete(gs)
<1> DEFINE gs == {g \in Goals : goal[g].carrier = p}
<1>1. ASSUME NEW g \in Goals
      PROVE  IF g \in gs THEN goal'[g] = Gone(g) ELSE Alike(goal[g], goal'[g])
  <2>1. goal[g] \in GoalState
    BY DEF IInv, TypeOK
  <2>2. QED
    BY <2>1 DEF Disconnect, Alike, GoalState
<1> HIDE DEF gs
<1>2. [g \in Goals |-> Phase(goal'[g])] = [g \in Goals |-> IF g \in gs THEN "rest" ELSE Phase(goal[g])]
  BY <1>1, SpawnedSeen, AlikeSeen
<1>3. [g \in Goals |-> Left(goal'[g])] = [g \in Goals |-> IF g \in gs THEN Never ELSE Left(goal[g])]
  BY <1>1, SpawnedSeen, AlikeSeen
<1>4. [g \in Goals |-> goal'[g].enabled] = [g \in Goals |-> g \notin gs /\ goal[g].enabled]
  <2>1. \A g \in Goals : goal[g].enabled \in BOOLEAN
    BY DEF IInv, TypeOK, GoalState
  <2>2. QED
    BY <1>1, <2>1, SpawnedSeen, AlikeSeen
<1>5. gs \in SUBSET Goals
  BY DEF gs
<1>6. QED
  BY <1>2, <1>3, <1>4, <1>5 DEF Cycle!Delete, Cycle!NoTimer, Never

(* A map that has just been loaded, first or again. *)
LEMMA LoadedSeen ==
  ASSUME NEW G, G = [g \in Goals |-> Spawned(g)]
  PROVE  /\ [g \in Goals |-> Phase(G[g])] = [g \in Goals |-> "rest"]
         /\ [g \in Goals |-> Left(G[g])] = [g \in Goals |-> Cycle!NoTimer]
         /\ [g \in Goals |-> G[g].enabled]
              = [g \in Goals |-> g \in {h \in Goals : HasFlag(h, "START_ENABLED")}]
<1>1. ASSUME NEW g \in Goals
      PROVE  /\ Phase(G[g]) = "rest" /\ Left(G[g]) = Cycle!NoTimer
             /\ G[g].enabled = (g \in {h \in Goals : HasFlag(h, "START_ENABLED")})
  <2>1. G[g] = Spawned(g)
    OBVIOUS
  <2>2. HasFlag(g, "START_ENABLED") = (g \in {h \in Goals : HasFlag(h, "START_ENABLED")})
    BY DEF HasFlag
  <2>3. QED
    BY <2>1, <2>2, SpawnedSeen DEF Cycle!NoTimer, Never
<1>2. QED
  BY <1>1

(* Initial states are initial states of the abstract cycle. *)
LEMMA BeginningRefines == Init => Cycle!Init
  BY LoadedSeen DEF Init, Cycle!Init

(* A clean-up loads the map again. *)
LEMMA CleanUpRefines == CleanUpMap => Cycle!Reload
  BY LoadedSeen DEF CleanUpMap, Cycle!Reload

(* Every step is a step of the abstract cycle or shows nothing. *)
LEMMA SteppingRefines == IInv /\ [Next]_vars => [Cycle!Next]_(Cycle!cvars)
<1> SUFFICES ASSUME IInv, [Next]_vars PROVE Cycle!Next \/ UNCHANGED View
  BY DEF View, Cycle!cvars
<1>0. goal \in [Goals -> GoalState] /\ World \in Entities /\ Players \subseteq Entities
  BY DEF IInv, TypeOK, Entities
<1>1. ASSUME NEW g \in Goals, Activate(g) PROVE Cycle!Next \/ UNCHANGED View
  BY <1>1, ActivateRefines DEF Cycle!Next
<1>2. ASSUME NEW g \in Goals, NEW p \in Players, Touch(g, p) PROVE Cycle!Next \/ UNCHANGED View
  <2>1. CASE Launch(g, ActivateGoalStart(g, goal[g], p))
    BY <1>0, <1>2, <2>1, LaunchRefines DEF Touch, Cycle!Next
  <2>2. CASE Stop("faulted")
    BY <2>2 DEF Stop, View
  <2>3. QED
    BY <1>2, <2>1, <2>2 DEF Touch
<1>3. ASSUME NEW g \in Goals, NEW a \in Entities, InputEnable(g, a)
      PROVE  Cycle!Next \/ UNCHANGED View
  <2> DEFINE r == Enable(g, goal[g], a)
  <2>1. r \in GoalState
    BY <1>0, Enabling
  <2>2. Phase(r) = Phase(goal[g]) /\ Left(r) = Left(goal[g]) /\ r.enabled = TRUE /\ Settle(g, r)
    <3>1. goal[g] \in GoalState
      BY <1>0, <1>3 DEF InputEnable
    <3>2. Phase(r) = Phase(goal[g]) /\ Left(r) = Left(goal[g]) /\ r.enabled = TRUE
      BY <3>1, InputsSeen, ZenonT(30)
    <3>3. Settle(g, r)
      BY <1>3 DEF InputEnable
    <3> QED BY <3>2, <3>3
  <2> HIDE DEF r
  <2>3. Cycle!Switch(g, TRUE)
    BY <1>0, <2>1, <2>2, Switching
  <2>4. QED
    BY <2>3 DEF Cycle!Next
<1>4. ASSUME NEW g \in Goals, NEW a \in Entities, InputDisable(g, a)
      PROVE  Cycle!Next \/ UNCHANGED View
  <2> DEFINE r == Disable(g, goal[g], a)
  <2>1. r \in GoalState
    BY <1>0, Disabling
  <2>2. Phase(r) = Phase(goal[g]) /\ Left(r) = Left(goal[g]) /\ r.enabled = FALSE /\ Settle(g, r)
    <3>1. goal[g] \in GoalState
      BY <1>0, <1>4 DEF InputDisable
    <3>2. Phase(r) = Phase(goal[g]) /\ Left(r) = Left(goal[g]) /\ r.enabled = FALSE
      BY <3>1, InputsSeen, ZenonT(30)
    <3>3. Settle(g, r)
      BY <1>4 DEF InputDisable
    <3> QED BY <3>2, <3>3
  <2> HIDE DEF r
  <2>3. Cycle!Switch(g, FALSE)
    BY <1>0, <2>1, <2>2, Switching
  <2>4. QED
    BY <2>3 DEF Cycle!Next
<1>5. ASSUME NEW g \in Goals, InputActivate(g) PROVE Cycle!Next \/ UNCHANGED View
  BY <1>0, <1>5, LaunchRefines DEF InputActivate, Cycle!Next
<1>6. ASSUME NEW g \in Goals, InputInactivate(g) PROVE Cycle!Next
  BY <1>6, InactivateRefines DEF Cycle!Next
<1>7. ASSUME NEW g \in Goals, Think(g) PROVE Cycle!Next \/ UNCHANGED View
  BY <1>7, ThinkRefines DEF Cycle!Next
<1>8. CASE Tick
  BY <1>8, TickRefines DEF Cycle!Next
<1>9. ASSUME NEW p \in Players, NEW t \in Teams \cup {Null}, ChangeTeam(p, t) PROVE UNCHANGED View
  BY <1>9 DEF ChangeTeam, View
<1>10. ASSUME NEW g \in Goals, CarrierMoves(g) PROVE UNCHANGED View
  <2>1. goal' = [goal EXCEPT ![g].away = ~@]
    BY <1>10 DEF CarrierMoves
  <2>2. ASSUME NEW h \in Goals PROVE Alike(goal[h], goal'[h])
    BY <1>0, <2>1 DEF Alike, GoalState
  <2>3. QED
    BY <2>2, AlikeSeen DEF View
<1>11. ASSUME NEW p \in Players, Disconnect(p) PROVE Cycle!Next
  BY <1>11, DisconnectRefines DEF Cycle!Next
<1>12. CASE CleanUpMap
  BY <1>12, CleanUpRefines DEF Cycle!Next
<1>13. CASE UNCHANGED vars
  BY <1>13 DEF vars, View
<1>14. QED
  BY <1>1, <1>2, <1>3, <1>4, <1>5, <1>6, <1>7, <1>8, <1>9, <1>10, <1>11, <1>12, <1>13 DEF Next

(* On every map, whatever the delays, times, flags and criteria of its     *)
(* goals, the think functions of the code keep the cycle's promise: every  *)
(* wait and every lit phase lasts exactly its time, unless an enabled goal *)
(* is interrupted, and only an enabled goal starts or loops.               *)
THEOREM CycleImplemented == Spec => ImplementsCycle
  BY BeginningRefines, SteppingRefines, Inductive, PTL DEF Spec, ImplementsCycle, Cycle!Spec
-----------------------------------------------------------------------------
(* Criteria: what the tests say of one item or two.                        *)

(* What the criteria about one item test. *)
LEMMA OneItem ==
  ASSUME NEW a, NEW p
  PROVE  LET Test(t) == CheckHolds([test |-> t, refs |-> <<a>>], p)
         IN  /\ Test("ItemsCarriedByActivator") <=> Carrier(a) = p
             /\ Test("ItemsNotCarriedByActivator") <=> Carrier(a) # p
             /\ Test("ItemsCarriedByTeam") <=> Carrier(a) # Null /\ team[Carrier(a)] = team[p]
             /\ Test("ItemsNotCarriedByTeam") <=> Carrier(a) = Null \/ team[Carrier(a)] # team[p]
             /\ Test("ItemsCarriedByAny") <=> Carrier(a) # Null
             /\ Test("ItemsNotCarriedByAny") <=> Carrier(a) = Null
  BY DEF CheckHolds

(* What the criteria about one carrier of two items test. *)
LEMMA TwoItems ==
  ASSUME NEW a, NEW b, NEW p
  PROVE  LET Test(t) == CheckHolds([test |-> t, refs |-> <<a, b>>], p)
         IN  /\ Test("ItemsCarriedByOne") <=> Carrier(a) # Null /\ Carrier(b) = Carrier(a)
             /\ Test("ItemsNotCarriedByOne") <=> Carrier(a) = Null \/ Carrier(b) # Carrier(a)
<1>1. Len(<<a, b>>) = 2 /\ <<a, b>>[1] = a /\ <<a, b>>[2] = b /\ 1 .. 2 = {1, 2}
  OBVIOUS
<1>2. CheckHolds([test |-> "ItemsCarriedByOne", refs |-> <<a, b>>], p)
        <=> Carrier(a) # Null /\ \A i \in 1 .. Len(<<a, b>>) : Carrier(<<a, b>>[i]) = Carrier(a)
  BY <1>1 DEF CheckHolds
<1>3. CheckHolds([test |-> "ItemsNotCarriedByOne", refs |-> <<a, b>>], p) <=> NotByOne(<<a, b>>)
  BY DEF CheckHolds
<1>4. QED
  BY <1>1, <1>2, <1>3 DEF NotByOne

(* Whoever carries what, a test and its opposite never agree, and carried  *)
(* by one, by the activator and by his team mean what they say.            *)
THEOREM CriteriaConsistent == Spec => []CriteriaAgree
<1>1. ASSUME IInv PROVE CriteriaAgree
  <2> DEFINE Test(t, rs, p) == CheckHolds([test |-> t, refs |-> rs], p)
  <2>1. ASSUME NEW a, NEW b, NEW p \in Players
        PROVE  /\ Test("ItemsCarriedByActivator", <<a>>, p) # Test("ItemsNotCarriedByActivator", <<a>>, p)
               /\ Test("ItemsCarriedByTeam", <<a>>, p) # Test("ItemsNotCarriedByTeam", <<a>>, p)
               /\ Test("ItemsCarriedByAny", <<a>>, p) # Test("ItemsNotCarriedByAny", <<a>>, p)
               /\ Test("ItemsCarriedByOne", <<a, b>>, p) # Test("ItemsNotCarriedByOne", <<a, b>>, p)
               /\ Test("ItemsCarriedByActivator", <<a>>, p) => Test("ItemsCarriedByTeam", <<a>>, p)
               /\ Test("ItemsCarriedByOne", <<a, b>>, p) =>
                    (Test("ItemsCarriedByActivator", <<a>>, p) <=> Test("ItemsCarriedByActivator", <<b>>, p))
    <3>1. p # Null
      BY ConstantsAssumption
    <3> HIDE DEF Test
    <3>2. QED
      BY <3>1, OneItem, TwoItems DEF Test
  <2>2. QED
    BY <2>1 DEF CriteriaAgree
<1>2. QED
  BY <1>1, Inductive, PTL
-----------------------------------------------------------------------------
(* A goal at rest and disabled stays at rest.                              *)

(* A handler of one goal leaves the others alone. *)
LEMMA OnlyOne ==
  ASSUME goal \in [Goals -> GoalState], NEW h \in Goals, NEW g \in Goals, g # h, NEW r, Settle(h, r)
  PROVE  goal'[g] = goal[g]
  BY DEF Settle

(* No step starts a disabled goal at rest. *)
LEMMA AtRest ==
  ASSUME IInv, [Next]_vars, NEW g \in Goals \ loading, rounds' = rounds,
         ~goal[g].enabled, ~goal[g].active
  PROVE  ~goal'[g].active
<1>0. goal \in [Goals -> GoalState] /\ GoalCoherent(g, goal[g]) /\ goal[g] \in GoalState
  BY DEF IInv, TypeOK, Settled
<1>1. ASSUME NEW h \in Goals, Activate(h) PROVE goal'[g] = goal[g]
  BY <1>0, <1>1, OnlyOne DEF Activate, Launch, Stop
<1>2. ASSUME NEW h \in Goals, NEW p \in Players, Touch(h, p) PROVE goal'[g] = goal[g]
  BY <1>0, <1>2, OnlyOne DEF Touch, Launch, Stop
<1>3. ASSUME NEW h \in Goals, InputActivate(h) PROVE goal'[g] = goal[g]
  BY <1>0, <1>3, OnlyOne DEF InputActivate, Launch, Stop
<1>4. ASSUME NEW h \in Goals, InputInactivate(h) PROVE goal'[g] = goal[g]
  BY <1>0, <1>4, OnlyOne DEF InputInactivate
<1>5. ASSUME NEW h \in Goals, NEW a \in Entities, InputEnable(h, a) \/ InputDisable(h, a)
      PROVE  ~goal'[g].active
  <2>1. CASE h # g
    BY <1>0, <1>5, <2>1, OnlyOne DEF InputEnable, InputDisable
  <2>2. CASE h = g
    <3>1. /\ Enable(g, goal[g], a) \in GoalState /\ Phase(Enable(g, goal[g], a)) = "rest"
          /\ Disable(g, goal[g], a) \in GoalState /\ Phase(Disable(g, goal[g], a)) = "rest"
      BY <1>0, InputsSeen, Enabling, Disabling DEF Phase
    <3>2. PICK r \in GoalState : Settle(g, r) /\ Phase(r) = "rest"
      BY <1>5, <2>2, <3>1 DEF InputEnable, InputDisable
    <3>3. ~r.active
      BY <3>2 DEF Phase
    <3>4. QED
      BY <1>0, <3>2, <3>3 DEF Settle, GoalState
  <2>3. QED
    BY <2>1, <2>2
<1>6. ASSUME NEW h \in Goals, Think(h) PROVE ~goal'[g].active
  <2>1. CASE h # g
    BY <1>0, <1>6, <2>1, OnlyOne DEF Think
  <2>2. CASE h = g
    <3> DEFINE t == [goal[g] EXCEPT !.due = Never]
    <3>1. goal[g].think = "none"
      BY <1>0 DEF GoalCoherent
    <3>2. RunThink(g, goal[g]) = t
      BY <3>1 DEF RunThink
    <3>3. t \in GoalState /\ ~t.active
      BY <1>0 DEF GoalState
    <3> HIDE DEF t
    <3>4. goal' = [goal EXCEPT ![g] = [t EXCEPT !.out = <<>>]]
      BY <1>6, <2>2, <3>2 DEF Think, Settle
    <3>5. QED
      BY <1>0, <3>3, <3>4 DEF GoalState
  <2>3. QED
    BY <2>1, <2>2
<1>7. CASE Tick
  BY <1>0, <1>7 DEF Tick, GoalState
<1>8. ASSUME NEW p \in Players, NEW t \in Teams \cup {Null}, ChangeTeam(p, t) PROVE goal'[g] = goal[g]
  BY <1>8 DEF ChangeTeam
<1>9. ASSUME NEW h \in Goals, CarrierMoves(h) PROVE ~goal'[g].active
  BY <1>0, <1>9 DEF CarrierMoves, GoalState
<1>10. ASSUME NEW p \in Players, Disconnect(p) PROVE ~goal'[g].active
  BY <1>0, <1>10 DEF Disconnect, Gone, Spawned, GoalState
<1>11. CASE CleanUpMap
  BY <1>11 DEF CleanUpMap, Spawned
<1>12. CASE UNCHANGED vars
  BY <1>12 DEF vars
<1>13. QED
  BY <1>1, <1>2, <1>3, <1>4, <1>5, <1>6, <1>7, <1>8, <1>9, <1>10, <1>11, <1>12 DEF Next

(* No touch, input or left-over timer starts a goal that rests disabled.   *)
THEOREM DisabledRest == Spec => DisabledStaysAtRest
<1>1. IInv /\ [Next]_vars =>
        [\A g \in Goals \ loading :
           ~goal[g].enabled /\ ~goal[g].active /\ rounds' = rounds =>
             ~goal'[g].active /\ ~goal'[g].activated]_vars
  <2> SUFFICES ASSUME IInv, [Next]_vars, NEW g \in Goals \ loading,
                      ~goal[g].enabled, ~goal[g].active, rounds' = rounds
               PROVE  ~goal'[g].active /\ ~goal'[g].activated
    OBVIOUS
  <2>1. ~goal'[g].active
    BY AtRest
  <2>2. IInv'
    BY Stepping
  <2>3. GoalCoherent(g, goal'[g])
    BY <2>2, Spawning DEF IInv, Settled
  <2>4. QED
    BY <2>1, <2>3 DEF GoalCoherent
<1>2. QED
  BY <1>1, Inductive, PTL DEF Spec, DisabledStaysAtRest
-----------------------------------------------------------------------------
(* Who carries an item.                                                    *)

(* An item is handed to the activator alone. *)
Hands(g, s, t) ==
  /\ t.activator = s.activator
  /\ \/ t.carrier = s.carrier
     \/ Kind[g] = "item" /\ s.activator \in Players /\ t.carrier = s.activator

(* Nobody but its carrier activates an item that is carried. *)
ByCarrier(s) == s.carrier # Null => s.activator \in {s.carrier, World, Null}

(* Who hands an item on as Hands says takes it from nobody. *)
LEMMA HandsKeeps ==
  ASSUME NEW g, NEW s, NEW t, Hands(g, s, t), ByCarrier(s)
  PROVE  ByCarrier(t) /\ (s.carrier # Null => t.carrier = s.carrier)
  BY ConstantsAssumption DEF Hands, ByCarrier

(* Every part of a handler does. *)
LEMMA PartsHand ==
  ASSUME NEW g \in Goals, NEW s \in GoalState
  PROVE  /\ Hands(g, s, Arm(g, s)) /\ Hands(g, s, Hold(g, s)) /\ Hands(g, s, Show(g, s))
         /\ Hands(g, s, Rest(s)) /\ Hands(g, s, Light(g, s)) /\ Hands(g, s, Unlight(g, s))
         /\ Hands(g, s, Grab(g, s, s.activator))
<1>1. Hands(g, s, Arm(g, s)) /\ Hands(g, s, Hold(g, s)) /\ Hands(g, s, Show(g, s)) /\ Hands(g, s, Rest(s))
  BY DEF Hands, Arm, Hold, Show, Rest, GoalState
<1>2. Hands(g, s, Light(g, s)) /\ Hands(g, s, Unlight(g, s))
  BY DEF Hands, Light, Unlight, Fire, GoalState
<1>3. Hands(g, s, Grab(g, s, s.activator))
  BY DEF Hands, Grab, GoalState
<1>4. QED
  BY <1>1, <1>2, <1>3

(* One part after the other does. *)
LEMMA HandsOn ==
  ASSUME NEW g, NEW r, NEW s, NEW t, Hands(g, r, s), Hands(g, s, t)
  PROVE  Hands(g, r, t)
  BY DEF Hands

(* A loop that starts again does. *)
LEMMA RestartHands ==
  ASSUME NEW g \in Goals, NEW s \in GoalState, s.active, ~s.activated
  PROVE  Hands(g, s, Restart(g, s))
<1> DEFINE lit == Light(g, s)
           t   == IF ActiveDelay[g] > 0 THEN Arm(g, s) ELSE Show(g, Hold(g, lit))
<1>1. t \in GoalState /\ Hands(g, s, t)
  <2>1. CASE ActiveDelay[g] > 0
    BY <2>1, Arming, PartsHand
  <2>2. CASE ~(ActiveDelay[g] > 0)
    <3>1. lit \in GoalState /\ lit.active /\ lit.activated /\ Hands(g, s, lit)
      BY Lighting, PartsHand
    <3> HIDE DEF lit
    <3>2. Hold(g, lit) \in GoalState /\ Hands(g, s, Hold(g, lit))
      BY <3>1, Holding, PartsHand, HandsOn
    <3>3. Show(g, Hold(g, lit)) \in GoalState /\ Hands(g, s, Show(g, Hold(g, lit)))
      BY <3>2, Showing, PartsHand, HandsOn
    <3>4. QED
      BY <2>2, <3>3
  <2>3. QED
    BY <2>1, <2>2
<1>2. Restart(g, s) = Grab(g, t, t.activator)
  BY <1>1 DEF Restart, Hands
<1> HIDE DEF t
<1>3. QED
  BY <1>1, <1>2, PartsHand, HandsOn

(* DeactivateGoal does. *)
LEMMA DeactivateHands ==
  ASSUME NEW g \in Goals, NEW s \in GoalState
  PROVE  Hands(g, s, DeactivateGoal(g, s))
<1> DEFINE dark == Unlight(g, s)
<1>1. /\ dark \in GoalState /\ ~dark.activated /\ dark.active = s.active
      /\ Hands(g, s, dark)
  BY Unlighting, PartsHand
<1>2. DeactivateGoal(g, s) = IF Loops(g, s) THEN Restart(g, dark) ELSE Rest(dark)
  BY DEF DeactivateGoal
<1> HIDE DEF dark
<1>3. CASE Loops(g, s)
  <2>1. dark.active
    BY <1>1, <1>3 DEF Loops
  <2>2. Hands(g, dark, Restart(g, dark))
    BY <1>1, <2>1, RestartHands
  <2>3. QED
    BY <1>1, <1>2, <1>3, <2>2, HandsOn
<1>4. CASE ~Loops(g, s)
  BY <1>1, <1>2, <1>4, PartsHand, HandsOn
<1>5. QED
  BY <1>3, <1>4

(* ActivateGoal does. *)
LEMMA ActivateHands ==
  ASSUME NEW g \in Goals, NEW s \in GoalState, s.active
  PROVE  Hands(g, s, ActivateGoal(g, s))
<1> DEFINE lit == Light(g, s)
           t   == IF ActiveTime[g] = 0 THEN DeactivateGoal(g, lit) ELSE Hold(g, lit)
<1>1. lit \in GoalState /\ lit.active /\ lit.activated /\ Hands(g, s, lit)
  BY Lighting, PartsHand
<1>2. ActivateGoal(g, s) = Show(g, t)
  BY DEF ActivateGoal
<1> HIDE DEF lit
<1>3. t \in GoalState /\ Hands(g, lit, t)
  BY <1>1, Deactivating, Holding, DeactivateHands, PartsHand
<1> HIDE DEF t
<1>4. Hands(g, s, t)
  BY <1>1, <1>3, HandsOn
<1>5. QED
  BY <1>2, <1>3, <1>4, PartsHand, HandsOn

(* A start makes p the activator, and the carrier if he is a player. *)
LEMMA StartHands ==
  ASSUME NEW g \in Goals, NEW s \in GoalState, ~s.active, GoalCoherent(g, s), NEW p \in Entities
  PROVE  LET r == ActivateGoalStart(g, s, p)
         IN  /\ r.activator = p
             /\ r.carrier = IF Kind[g] = "item" /\ p \in Players THEN p ELSE s.carrier
<1> DEFINE busy == [s EXCEPT !.activator = p, !.active = TRUE]
           t    == IF ActiveDelay[g] > 0 THEN Arm(g, busy) ELSE ActivateGoal(g, busy)
<1>1. /\ busy \in GoalState /\ busy.active /\ ~busy.activated
      /\ busy.activator = p /\ busy.carrier = s.carrier
  BY DEF GoalState, GoalCoherent
<1>2. ActivateGoalStart(g, s, p) = Grab(g, t, p)
  BY DEF ActivateGoalStart
<1> HIDE DEF busy
<1>3. t \in GoalState /\ Hands(g, busy, t)
  BY <1>1, Arming, Activating, PartsHand, ActivateHands
<1> HIDE DEF t
<1>4. t.activator = p /\ (t.carrier = s.carrier \/ (Kind[g] = "item" /\ p \in Players))
  BY <1>1, <1>3 DEF Hands
<1>5. QED
  BY <1>2, <1>3, <1>4 DEF Grab, GoalState

CarriersActivate == \A g \in Goals : ByCarrier(goal[g])

(* What a step does to the carrier of one goal, and to who activated it. *)
Carries(g) ==
  /\ ByCarrier(goal'[g])
  /\ goal[g].carrier # Null /\ rounds' = rounds =>
       goal'[g].carrier = goal[g].carrier \/ ~goal'[g].spawned

(* The goal a handler ran on, and the others. *)
LEMMA SettleCarries ==
  ASSUME IInv, CarriersActivate, NEW h \in Goals, NEW r \in GoalState, Settle(h, r),
         ByCarrier(r), goal[h].carrier # Null => r.carrier = goal[h].carrier, NEW g \in Goals
  PROVE  Carries(g)
<1>1. goal \in [Goals -> GoalState]
  BY DEF IInv, TypeOK
<1>2. CASE g # h
  BY <1>1, <1>2, OnlyOne DEF Carries, CarriersActivate
<1>3. CASE g = h
  <2> DEFINE e == [r EXCEPT !.out = <<>>]
  <2>1. goal'[g] = e
    BY <1>1, <1>3 DEF Settle
  <2>2. e.carrier = r.carrier /\ e.activator = r.activator
    BY DEF GoalState
  <2> HIDE DEF e
  <2>3. QED
    BY <1>3, <2>1, <2>2 DEF Carries, ByCarrier
<1>4. QED
  BY <1>2, <1>3

(* A start by a player finds the item uncarried: a carried one cannot be   *)
(* touched.                                                                *)
LEMMA LaunchCarries ==
  ASSUME IInv, CarriersActivate, NEW h \in Goals, ~goal[h].active, GoalCoherent(h, goal[h]),
         NEW p \in Entities, p = World \/ goal[h].carrier = Null,
         Launch(h, ActivateGoalStart(h, goal[h], p)), NEW g \in Goals
  PROVE  Carries(g)
<1> DEFINE r == ActivateGoalStart(h, goal[h], p)
<1>1. goal[h] \in GoalState
  BY DEF IInv, TypeOK
<1>2. r \in GoalState
  BY <1>1, Starting
<1>3. /\ r.activator = p
      /\ r.carrier = IF Kind[h] = "item" /\ p \in Players THEN p ELSE goal[h].carrier
  BY <1>1, StartHands
<1>4. ByCarrier(r) /\ (goal[h].carrier # Null => r.carrier = goal[h].carrier)
  BY <1>3, ConstantsAssumption DEF ByCarrier
<1>5. CASE Stop("overflowed")
  BY <1>5 DEF Stop, Carries, CarriersActivate
<1>6. CASE Settle(h, r)
  <2> HIDE DEF r
  <2>1. QED
    BY <1>2, <1>4, <1>6, SettleCarries
<1>7. QED
  BY <1>5, <1>6 DEF Launch

(* Every step takes an item from no carrier. *)
LEMMA CarryingStep ==
  ASSUME IInv, CarriersActivate, [Next]_vars, NEW g \in Goals
  PROVE  Carries(g)
<1>0. /\ goal \in [Goals -> GoalState] /\ World \in Entities /\ Players \subseteq Entities
      /\ \A h \in Goals : goal[h] \in GoalState
  BY DEF IInv, TypeOK, Entities
<1>1. ASSUME goal'[g].carrier = goal[g].carrier, goal'[g].activator = goal[g].activator
      PROVE  Carries(g)
  BY <1>1 DEF Carries, CarriersActivate, ByCarrier
<1>2. ASSUME NEW h \in Goals, Activate(h) PROVE Carries(g)
  <2>1. goal[h] = Spawned(h) /\ (Stop("overflowed") \/ Settle(h, Activated(h, Spawned(h))))
    BY <1>2 DEF IInv, Activate, Launch
  <2>2. CASE Stop("overflowed")
    BY <1>1, <2>2 DEF Stop
  <2>3. CASE Settle(h, Activated(h, Spawned(h)))
    <3> DEFINE s == Spawned(h)
               t == IF HasFlag(h, "START_ACTIVE") THEN ActivateGoalStart(h, s, World) ELSE s
               r == [t EXCEPT !.nodraw = @ \/ (Kind[h] # "trigger" /\ ~s.enabled)]
    <3>1. Activated(h, s) = r
      BY DEF Activated
    <3>2. s \in GoalState /\ GoalCoherent(h, s) /\ ~s.active
      BY Spawning
    <3>3. s.carrier = Null
      BY DEF Spawned
    <3> HIDE DEF s
    <3>4. t \in GoalState /\ t.carrier = Null
      BY <1>0, <3>2, <3>3, Starting, StartHands, ConstantsAssumption
    <3> HIDE DEF t
    <3>5. r \in GoalState /\ r.carrier = Null
      BY <3>4 DEF GoalState
    <3> HIDE DEF r
    <3>6. goal[h].carrier = Null /\ Settle(h, r)
      BY <2>1, <2>3, <3>1, <3>3 DEF s
    <3>7. QED
      BY <3>5, <3>6, SettleCarries DEF ByCarrier
  <2>4. QED
    BY <2>1, <2>2, <2>3
<1>3. ASSUME NEW h \in Goals, NEW p \in Players, Touch(h, p) PROVE Carries(g)
  <2>1. CASE Stop("faulted")
    BY <1>1, <2>1 DEF Stop
  <2>2. CASE Launch(h, ActivateGoalStart(h, goal[h], p))
    <3>1. /\ ~goal[h].active /\ GoalCoherent(h, goal[h]) /\ goal[h].carrier = Null
      BY <1>3 DEF Touch, IInv, Running, Settled, Held
    <3>2. QED
      BY <1>0, <2>2, <3>1, LaunchCarries
  <2>3. QED
    BY <1>3, <2>1, <2>2 DEF Touch
<1>4. ASSUME NEW h \in Goals, InputActivate(h) PROVE Carries(g)
  <2>1. ~goal[h].active /\ GoalCoherent(h, goal[h])
    BY <1>4 DEF InputActivate, IInv, Running, Settled
  <2>2. Launch(h, ActivateGoalStart(h, goal[h], World))
    BY <1>4 DEF InputActivate
  <2>3. QED
    BY <1>0, <2>1, <2>2, LaunchCarries
<1>5. ASSUME NEW h \in Goals, NEW r \in GoalState, NEW s, Hands(h, s, r), Settle(h, r),
             s.activator = goal[h].activator, s.carrier = goal[h].carrier
      PROVE  Carries(g)
  <2>1. ByCarrier(s)
    BY <1>5 DEF CarriersActivate, ByCarrier
  <2>2. QED
    BY <1>5, <2>1, HandsKeeps, SettleCarries
<1>6. ASSUME NEW h \in Goals, NEW a \in Entities, InputEnable(h, a) \/ InputDisable(h, a)
      PROVE  Carries(g)
  <2> DEFINE e == Enable(h, goal[h], a)
             d == Disable(h, goal[h], a)
  <2>1. e \in GoalState /\ d \in GoalState
    BY <1>0, Enabling, Disabling
  <2>2. Hands(h, goal[h], e) /\ Hands(h, goal[h], d)
    BY <1>0 DEF Hands, Enable, Disable, Fire, GoalState
  <2>3. Settle(h, e) \/ Settle(h, d)
    BY <1>6 DEF InputEnable, InputDisable
  <2> HIDE DEF e, d
  <2>4. QED
    BY <1>5, <2>1, <2>2, <2>3
<1>7. ASSUME NEW h \in Goals, InputInactivate(h) PROVE Carries(g)
  <2> DEFINE t == [goal[h] EXCEPT !.active = FALSE]
             r == DeactivateGoal(h, t)
  <2>1. t \in GoalState /\ t.activator = goal[h].activator /\ t.carrier = goal[h].carrier
    BY <1>0 DEF GoalState
  <2>2. Settle(h, r)
    BY <1>7 DEF InputInactivate, Inactivate
  <2> HIDE DEF t
  <2>3. r \in GoalState /\ Hands(h, t, r)
    BY <2>1, Deactivating, DeactivateHands
  <2> HIDE DEF r
  <2>4. QED
    BY <1>5, <2>1, <2>2, <2>3
<1>8. ASSUME NEW h \in Goals, Think(h) PROVE Carries(g)
  <2> DEFINE t == [goal[h] EXCEPT !.due = Never]
             r == RunThink(h, goal[h])
  <2>1. /\ t \in GoalState /\ t.activator = goal[h].activator /\ t.carrier = goal[h].carrier
        /\ t.active = goal[h].active
    BY <1>0 DEF GoalState
  <2>2. Settle(h, r) /\ GoalCoherent(h, goal[h])
    BY <1>8 DEF Think, IInv, Running, Settled
  <2>3. r = CASE goal[h].think = "ActivateGoal"   -> ActivateGoal(h, t)
              [] goal[h].think = "DeactivateGoal" -> DeactivateGoal(h, t)
              [] OTHER -> t
    BY DEF RunThink
  <2>4. r \in GoalState
    BY <1>0, <2>2, Thinking
  <2> HIDE DEF r, t
  <2>5. goal[h].think = "ActivateGoal" => t.active
    BY <2>1, <2>2 DEF GoalCoherent
  <2>6. Hands(h, t, t)
    BY DEF Hands
  <2>7. Hands(h, t, r)
    BY <2>1, <2>3, <2>5, <2>6, ActivateHands, DeactivateHands
  <2>8. QED
    BY <1>5, <2>1, <2>2, <2>4, <2>7
<1>9. CASE Tick
  <2>1. goal'[g] = [goal[g] EXCEPT !.due = IF @ = Never THEN @ ELSE @ - 1]
    BY <1>9 DEF Tick
  <2>2. goal'[g].carrier = goal[g].carrier /\ goal'[g].activator = goal[g].activator
    BY <1>0, <2>1 DEF GoalState
  <2>3. QED
    BY <1>1, <2>2
<1>10. ASSUME NEW p \in Players, NEW t \in Teams \cup {Null}, ChangeTeam(p, t) PROVE Carries(g)
  BY <1>1, <1>10 DEF ChangeTeam
<1>11. ASSUME NEW h \in Goals, CarrierMoves(h) PROVE Carries(g)
  <2>1. goal'[g].carrier = goal[g].carrier /\ goal'[g].activator = goal[g].activator
    BY <1>0, <1>11 DEF CarrierMoves, GoalState
  <2>2. QED
    BY <1>1, <2>1
<1>12. ASSUME NEW p \in Players, Disconnect(p) PROVE Carries(g)
  <2>1. CASE goal[g].carrier = p
    BY <1>12, <2>1, Going DEF Disconnect, Carries, ByCarrier, Gone, Spawned
  <2>2. CASE goal[g].carrier # p
    <3>1. /\ goal'[g].carrier = goal[g].carrier
          /\ goal'[g].activator \in {goal[g].activator, Null}
      BY <1>0, <1>12, <2>2 DEF Disconnect, GoalState
    <3>2. QED
      BY <3>1 DEF Carries, CarriersActivate, ByCarrier
  <2>3. QED
    BY <2>1, <2>2
<1>13. CASE CleanUpMap
  <2>1. goal'[g].carrier = Null /\ rounds' # rounds
    BY <1>13 DEF CleanUpMap, Spawned, IInv, TypeOK
  <2>2. QED
    BY <2>1 DEF Carries, ByCarrier
<1>14. CASE UNCHANGED vars
  BY <1>1, <1>14 DEF vars
<1>15. QED
  BY <1>2, <1>3, <1>4, <1>6, <1>7, <1>8, <1>9, <1>10, <1>11, <1>12, <1>13, <1>14 DEF Next

(* However touches, inputs, timers and loops interleave, an item keeps its *)
(* carrier until it or the map is gone: ActivateGoalStart takes its        *)
(* activator's word, and only its carrier can be the activator of an item  *)
(* that is carried.                                                        *)
THEOREM CarriersKeepItems == Spec => CarrierKeepsItem
<1>1. Init => CarriersActivate
  BY DEF Init, CarriersActivate, ByCarrier, Spawned
<1>2. IInv /\ CarriersActivate /\ [Next]_vars => CarriersActivate'
  BY CarryingStep DEF Carries, CarriersActivate
<1>3. Spec => []CarriersActivate
  BY <1>1, <1>2, Inductive, PTL DEF Spec
<1>4. IInv /\ CarriersActivate /\ [Next]_vars =>
        [\A g \in Goals :
           goal[g].carrier # Null /\ rounds' = rounds =>
             goal'[g].carrier = goal[g].carrier \/ ~goal'[g].spawned]_vars
  BY CarryingStep DEF Carries
<1>5. QED
  BY <1>3, <1>4, Inductive, PTL DEF Spec, CarrierKeepsItem
-----------------------------------------------------------------------------
(* The outputs tell the phase.                                             *)

(* A record whose outputs, all fired by g, tell its phase to whom knew it  *)
(* before.                                                                 *)
InTurn(g, was, outs) ==
  \A i \in PhaseOutputs(g, outs) : outs[i].output = "OnActive" => ~Heard(g, was, outs, i - 1)

Speaks(g, was, s) ==
  /\ \A i \in 1 .. Len(s.out) : s.out[i].from = g
  /\ InTurn(g, was, s.out)
  /\ (s.activated <=> Heard(g, was, s.out, Len(s.out)))

(* Before anything is fired the phase is the one known. *)
LEMMA SilenceSpeaks ==
  ASSUME NEW g, NEW was, NEW s, s.out = <<>>, s.activated <=> was
  PROVE  Speaks(g, was, s)
<1>1. Len(s.out) = 0 /\ PhaseOutputs(g, s.out) = {} /\ 1 .. Len(s.out) = {}
  BY DEF PhaseOutputs
<1>2. {i \in PhaseOutputs(g, s.out) : i <= Len(s.out)} = {}
  BY <1>1
<1>3. Heard(g, was, s.out, Len(s.out)) <=> was
  BY <1>2, Zenon DEF Heard
<1>4. InTurn(g, was, s.out)
  BY <1>1, Zenon DEF InTurn
<1>5. \A i \in 1 .. Len(s.out) : s.out[i].from = g
  BY <1>1, Zenon
<1> QED BY <1>3, <1>4, <1>5, Zenon DEF Speaks

(* Nothing is told while neither the phase nor the outputs change. *)
LEMMA SameSpeaks ==
  ASSUME NEW g, NEW was, NEW s, NEW t, Speaks(g, was, s), t.out = s.out, t.activated = s.activated
  PROVE  Speaks(g, was, t)
  BY DEF Speaks

(* An output more: what was heard before it was heard without it, and what *)
(* it says is heard last.                                                  *)
LEMMA HeardMore ==
  ASSUME NEW g \in Goals, NEW was, NEW outs \in Seq(Output), NEW e \in Output, e.from = g
  PROVE  LET more == Append(outs, e)
             n    == Len(outs)
         IN  /\ \A k \in 0 .. n : Heard(g, was, more, k) <=> Heard(g, was, outs, k)
             /\ e.output \notin {"OnActive", "OnInactive"} =>
                  /\ PhaseOutputs(g, more) = PhaseOutputs(g, outs)
                  /\ (Heard(g, was, more, n + 1) <=> Heard(g, was, outs, n))
             /\ e.output \in {"OnActive", "OnInactive"} =>
                  /\ PhaseOutputs(g, more) = PhaseOutputs(g, outs) \cup {n + 1}
                  /\ Heard(g, was, more, n + 1) <=> e.output = "OnActive"
<1> DEFINE more == Append(outs, e)
           n    == Len(outs)
           Old  == PhaseOutputs(g, outs)
           New  == PhaseOutputs(g, more)
           said == e.output \in {"OnActive", "OnInactive"}
<1>1. /\ n \in Nat /\ Len(more) = n + 1 /\ more[n + 1] = e
      /\ \A i \in 1 .. n : more[i] = outs[i]
      /\ \A i \in 1 .. n + 1 : i = n + 1 \/ i \in 1 .. n
      /\ \A i \in 1 .. n : i \in 1 .. n + 1 /\ i # n + 1
      /\ n + 1 \in 1 .. n + 1
  OBVIOUS
<1> HIDE DEF more, n
<1>2. Old \subseteq 1 .. n /\ New = IF said THEN Old \cup {n + 1} ELSE Old
  <2>1. Old = {i \in 1 .. n : outs[i].from = g /\ outs[i].output \in {"OnActive", "OnInactive"}}
    BY DEF PhaseOutputs, n
  <2>2. New = {i \in 1 .. n + 1 : more[i].from = g /\ more[i].output \in {"OnActive", "OnInactive"}}
    BY <1>1 DEF PhaseOutputs
  <2> HIDE DEF Old, New
  <2> QED BY <1>1, <2>1, <2>2
<1> HIDE DEF Old, New, said
<1>3. ASSUME NEW k \in 0 .. n
      PROVE  Heard(g, was, more, k) <=> Heard(g, was, outs, k)
  <2>1. {i \in New : i <= k} = {i \in Old : i <= k}
    BY <1>1, <1>2
  <2>2. \A i \in {j \in Old : j <= k} : more[i] = outs[i]
    BY <1>1, <1>2
  <2> QED BY <2>1, <2>2 DEF Heard, Old, New
<1>4. CASE ~said
  <2>0. New = Old /\ \A i \in Old : i <= n /\ i <= n + 1
    BY <1>1, <1>2, <1>4
  <2>1. {i \in New : i <= n + 1} = {i \in Old : i <= n}
    BY <2>0
  <2>2. \A i \in {j \in Old : j <= n} : more[i] = outs[i]
    BY <1>1, <1>2
  <2>3. (Heard(g, was, more, n + 1) <=> Heard(g, was, outs, n))
    BY <2>1, <2>2 DEF Heard, Old, New
  <2> QED BY <1>2, <1>3, <1>4, <2>3 DEF Old, New, said, more, n
<1>5. CASE said
  <2> DEFINE T == {i \in New : i <= n + 1}
  <2>1. n + 1 \in T /\ \A i \in T : i \in Nat /\ i <= n + 1
    BY <1>1, <1>2, <1>5
  <2>2. Heard(g, was, more, n + 1) =
          IF T = {} THEN was ELSE \E i \in T : more[i].output = "OnActive" /\ \A j \in T : j <= i
    BY DEF Heard, New
  <2> HIDE DEF T
  <2>3. \A i \in T : (\A j \in T : j <= i) => i = n + 1
    BY <1>1, <2>1
  <2>4. Heard(g, was, more, n + 1) <=> e.output = "OnActive"
    BY <1>1, <2>1, <2>2, <2>3
  <2> QED BY <1>2, <1>3, <1>5, <2>4 DEF Old, New, said, more, n
<1> QED BY <1>4, <1>5

(* An output that says what happens to the phase, or nothing of it. *)
LEMMA FireSpeaks ==
  ASSUME NEW g \in Goals, NEW was \in BOOLEAN, NEW s \in GoalState, Speaks(g, was, s),
         NEW t \in GoalState, t.out = s.out, NEW o \in Outputs, NEW a \in Entities,
         t.activated = IF o = "OnActive" THEN TRUE ELSE IF o = "OnInactive" THEN FALSE ELSE s.activated,
         o = "OnActive" => ~s.activated
  PROVE  Speaks(g, was, Fire(g, t, o, a))
<1> DEFINE e    == [from |-> g, output |-> o, activator |-> a]
           r    == Fire(g, t, o, a)
           outs == s.out
           n    == Len(outs)
<1>1. e \in Output /\ e.from = g /\ e.output = o /\ outs \in Seq(Output) /\ n \in Nat
  BY DEF Output, GoalState
<1>2. r.out = Append(outs, e) /\ r.activated = t.activated
  BY DEF Fire, GoalState
<1> HIDE DEF e, r
<1>3. /\ Len(r.out) = n + 1 /\ r.out[n + 1] = e /\ \A i \in 1 .. n : r.out[i] = outs[i]
      /\ \A i \in 1 .. n + 1 : i = n + 1 \/ i \in 1 .. n
  BY <1>1, <1>2
<1>4. /\ \A k \in 0 .. n : (Heard(g, was, r.out, k) <=> Heard(g, was, outs, k))
      /\ o \notin {"OnActive", "OnInactive"} =>
           /\ PhaseOutputs(g, r.out) = PhaseOutputs(g, outs)
           /\ (Heard(g, was, r.out, n + 1) <=> Heard(g, was, outs, n))
      /\ o \in {"OnActive", "OnInactive"} =>
           /\ PhaseOutputs(g, r.out) = PhaseOutputs(g, outs) \cup {n + 1}
           /\ Heard(g, was, r.out, n + 1) <=> o = "OnActive"
  <2>1. r.out = Append(outs, e)
    BY <1>2
  <2> HIDE DEF outs
  <2>2. /\ \A k \in 0 .. n : (Heard(g, was, Append(outs, e), k) <=> Heard(g, was, outs, k))
        /\ e.output \notin {"OnActive", "OnInactive"} =>
             /\ PhaseOutputs(g, Append(outs, e)) = PhaseOutputs(g, outs)
             /\ (Heard(g, was, Append(outs, e), n + 1) <=> Heard(g, was, outs, n))
        /\ e.output \in {"OnActive", "OnInactive"} =>
             /\ PhaseOutputs(g, Append(outs, e)) = PhaseOutputs(g, outs) \cup {n + 1}
             /\ Heard(g, was, Append(outs, e), n + 1) <=> e.output = "OnActive"
    BY <1>1, HeardMore, Zenon
  <2> QED BY <1>1, <2>1, <2>2, Zenon
<1>5. /\ \A i \in 1 .. n : outs[i].from = g
      /\ InTurn(g, was, outs) /\ (s.activated <=> Heard(g, was, outs, n))
  BY DEF Speaks
<1> HIDE DEF outs, n
<1>6. \A i \in 1 .. Len(r.out) : r.out[i].from = g
  BY <1>1, <1>3, <1>5
<1>7. InTurn(g, was, r.out)
  <2> SUFFICES ASSUME NEW i \in PhaseOutputs(g, r.out), r.out[i].output = "OnActive"
               PROVE  ~Heard(g, was, r.out, i - 1)
    BY DEF InTurn
  <2>1. i \in 1 .. n + 1
    BY <1>3 DEF PhaseOutputs
  <2>2. CASE i = n + 1
    <3>1. o = "OnActive"
      BY <1>1, <1>3, <2>2, Zenon
    <3>2. i - 1 = n /\ n \in 0 .. n
      BY <1>1, <2>2
    <3> QED BY <1>4, <1>5, <3>1, <3>2
  <2>3. CASE i # n + 1
    <3>1. i \in 1 .. n /\ i \in PhaseOutputs(g, outs) /\ i - 1 \in 0 .. n
      BY <1>1, <1>3, <1>4, <2>1, <2>3
    <3> QED BY <1>3, <1>4, <1>5, <3>1 DEF InTurn
  <2> QED BY <2>2, <2>3
<1>8. r.activated <=> Heard(g, was, r.out, Len(r.out))
  <2>1. CASE o \in {"OnActive", "OnInactive"}
    <3>1. Heard(g, was, r.out, n + 1) \in BOOLEAN
      <4>1. n + 1 \in {i \in PhaseOutputs(g, r.out) : i <= n + 1}
        BY <1>1, <1>4, <2>1
      <4> QED BY <4>1 DEF Heard
    <3> QED BY <1>2, <1>3, <1>4, <2>1, <3>1
  <2>2. CASE o \notin {"OnActive", "OnInactive"}
    BY <1>2, <1>3, <1>4, <1>5, <2>2
  <2> QED BY <2>1, <2>2
<1> QED BY <1>6, <1>7, <1>8 DEF Speaks, r

(* Every part of a handler but the two that fire an output is silent.      *)
LEMMA PartsSpeak ==
  ASSUME NEW g \in Goals, NEW was, NEW s \in GoalState, NEW p, Speaks(g, was, s)
  PROVE  /\ Speaks(g, was, Arm(g, s)) /\ Speaks(g, was, Hold(g, s)) /\ Speaks(g, was, Show(g, s))
         /\ Speaks(g, was, Rest(s)) /\ Speaks(g, was, Grab(g, s, p))
<1>1. Arm(g, s).out = s.out /\ Arm(g, s).activated = s.activated
  BY DEF Arm, GoalState
<1>2. Hold(g, s).out = s.out /\ Hold(g, s).activated = s.activated
  BY DEF Hold, GoalState
<1>3. Show(g, s).out = s.out /\ Show(g, s).activated = s.activated
  BY DEF Show, GoalState
<1>4. Rest(s).out = s.out /\ Rest(s).activated = s.activated
  BY DEF Rest, GoalState
<1>5. Grab(g, s, p).out = s.out /\ Grab(g, s, p).activated = s.activated
  BY DEF Grab, GoalState
<1> QED BY <1>1, <1>2, <1>3, <1>4, <1>5, SameSpeaks

(* OnActive is told only of a goal that is not activated. *)
LEMMA LightSpeaks ==
  ASSUME NEW g \in Goals, NEW was \in BOOLEAN, NEW s \in GoalState, Speaks(g, was, s), ~s.activated
  PROVE  Speaks(g, was, Light(g, s))
<1> DEFINE t == [s EXCEPT !.activated = TRUE, !.nodraw = @ \/ Kind[g] # "trigger"]
<1>1. t \in GoalState /\ s.activator \in Entities /\ t.out = s.out /\ t.activated = TRUE
  BY DEF GoalState
<1>2. Light(g, s) = Fire(g, t, "OnActive", s.activator) /\ "OnActive" \in Outputs
  BY DEF Light, Outputs
<1> HIDE DEF t
<1> QED BY <1>1, <1>2, FireSpeaks

(* OnInactive is told of any. *)
LEMMA UnlightSpeaks ==
  ASSUME NEW g \in Goals, NEW was \in BOOLEAN, NEW s \in GoalState, Speaks(g, was, s)
  PROVE  Speaks(g, was, Unlight(g, s))
<1> DEFINE t == [s EXCEPT !.activated = FALSE,
                          !.nodraw = @ /\ (Kind[g] = "trigger" \/ ~s.enabled)]
<1>1. t \in GoalState /\ s.activator \in Entities /\ t.out = s.out /\ t.activated = FALSE
  BY DEF GoalState
<1>2. Unlight(g, s) = Fire(g, t, "OnInactive", s.activator) /\ "OnInactive" \in Outputs
  BY DEF Unlight, Outputs
<1> HIDE DEF t
<1> QED BY <1>1, <1>2, FireSpeaks

(* A loop that starts again tells of it. *)
LEMMA RestartSpeaks ==
  ASSUME NEW g \in Goals, NEW was \in BOOLEAN, NEW s \in GoalState, Speaks(g, was, s),
         s.active, ~s.activated
  PROVE  Speaks(g, was, Restart(g, s))
<1> DEFINE lit == Light(g, s)
           t   == IF ActiveDelay[g] > 0 THEN Arm(g, s) ELSE Show(g, Hold(g, lit))
<1>1. t \in GoalState /\ Speaks(g, was, t)
  <2>1. CASE ActiveDelay[g] > 0
    BY <2>1, Arming, PartsSpeak
  <2>2. CASE ~(ActiveDelay[g] > 0)
    <3>1. lit \in GoalState /\ lit.active /\ lit.activated /\ Speaks(g, was, lit)
      BY Lighting, LightSpeaks
    <3> HIDE DEF lit
    <3>2. Hold(g, lit) \in GoalState /\ Speaks(g, was, Hold(g, lit))
      BY <3>1, Holding, PartsSpeak
    <3>3. Show(g, Hold(g, lit)) \in GoalState /\ Speaks(g, was, Show(g, Hold(g, lit)))
      BY <3>2, Showing, PartsSpeak
    <3> QED BY <2>2, <3>3
  <2> QED BY <2>1, <2>2
<1>2. Restart(g, s) = Grab(g, t, s.activator)
  BY DEF Restart
<1> HIDE DEF t
<1> QED BY <1>1, <1>2, PartsSpeak

(* So does DeactivateGoal. *)
LEMMA DeactivateSpeaks ==
  ASSUME NEW g \in Goals, NEW was \in BOOLEAN, NEW s \in GoalState, Speaks(g, was, s)
  PROVE  Speaks(g, was, DeactivateGoal(g, s))
<1> DEFINE dark == Unlight(g, s)
<1>1. /\ dark \in GoalState /\ ~dark.activated /\ dark.active = s.active
      /\ Speaks(g, was, dark)
  BY Unlighting, UnlightSpeaks
<1>2. DeactivateGoal(g, s) = IF Loops(g, s) THEN Restart(g, dark) ELSE Rest(dark)
  BY DEF DeactivateGoal
<1> HIDE DEF dark
<1>3. CASE Loops(g, s)
  <2>1. dark.active
    BY <1>1, <1>3 DEF Loops
  <2> QED BY <1>1, <1>2, <1>3, <2>1, RestartSpeaks
<1>4. CASE ~Loops(g, s)
  BY <1>1, <1>2, <1>4, PartsSpeak
<1> QED BY <1>3, <1>4

(* So does ActivateGoal, which may call it. *)
LEMMA ActivateSpeaks ==
  ASSUME NEW g \in Goals, NEW was \in BOOLEAN, NEW s \in GoalState, Speaks(g, was, s),
         s.active, ~s.activated
  PROVE  Speaks(g, was, ActivateGoal(g, s))
<1> DEFINE lit == Light(g, s)
           t   == IF ActiveTime[g] = 0 THEN DeactivateGoal(g, lit) ELSE Hold(g, lit)
<1>1. lit \in GoalState /\ lit.active /\ lit.activated /\ Speaks(g, was, lit)
  BY Lighting, LightSpeaks
<1>2. ActivateGoal(g, s) = Show(g, t)
  BY DEF ActivateGoal
<1> HIDE DEF lit
<1>3. t \in GoalState /\ Speaks(g, was, t)
  BY <1>1, Deactivating, Holding, DeactivateSpeaks, PartsSpeak
<1> HIDE DEF t
<1> QED BY <1>2, <1>3, PartsSpeak

(* So does a start, because only a goal at rest is started. *)
LEMMA StartSpeaks ==
  ASSUME NEW g \in Goals, NEW s \in GoalState, s.out = <<>>, ~s.active, GoalCoherent(g, s),
         NEW p \in Entities
  PROVE  Speaks(g, s.activated, ActivateGoalStart(g, s, p))
<1> DEFINE busy == [s EXCEPT !.activator = p, !.active = TRUE]
           t    == IF ActiveDelay[g] > 0 THEN Arm(g, busy) ELSE ActivateGoal(g, busy)
<1>1. /\ busy \in GoalState /\ busy.active /\ ~busy.activated
      /\ busy.out = <<>> /\ busy.activated = s.activated /\ s.activated \in BOOLEAN
  BY DEF GoalState, GoalCoherent
<1>2. ActivateGoalStart(g, s, p) = Grab(g, t, p)
  BY DEF ActivateGoalStart
<1> HIDE DEF busy
<1>3. Speaks(g, s.activated, busy)
  BY <1>1, SilenceSpeaks
<1>4. t \in GoalState /\ Speaks(g, s.activated, t)
  BY <1>1, <1>3, Arming, Activating, PartsSpeak, ActivateSpeaks
<1> HIDE DEF t
<1> QED BY <1>2, <1>4, PartsSpeak

(* What a step tells of one goal: every output in its turn, and its phase. *)
Tells(g) ==
  rounds' = rounds /\ goal'[g].spawned =>
    /\ InTurn(g, goal[g].activated, fired')
    /\ goal'[g].activated <=> Heard(g, goal[g].activated, fired', Len(fired'))

(* Between handlers no output is left to be fired. *)
Silent == \A g \in Goals : goal[g].out = <<>>

(* The goal a handler ran on tells of itself, and of nobody else. *)
LEMMA SettleTells ==
  ASSUME IInv, NEW h \in Goals, NEW r \in GoalState, Settle(h, r),
         Speaks(h, goal[h].activated, r), NEW g \in Goals
  PROVE  Tells(g) /\ goal'[h].out = <<>> /\ (Silent => Silent')
<1>1. goal \in [Goals -> GoalState] /\ fired' = r.out
  BY DEF IInv, TypeOK, Settle
<1>2. goal'[h].out = <<>> /\ (goal'[h].activated = r.activated)
  <2> DEFINE e == [r EXCEPT !.out = <<>>]
  <2>1. goal'[h] = e
    BY <1>1 DEF Settle
  <2>2. e.out = <<>> /\ e.activated = r.activated
    BY DEF GoalState
  <2> QED BY <2>1, <2>2
<1>3. \A k \in Goals : k # h => goal'[k] = goal[k]
  BY <1>1, OnlyOne
<1>4. Silent => Silent'
  BY <1>2, <1>3 DEF Silent
<1>5. ASSUME g = h PROVE Tells(g)
  <2>1. /\ InTurn(h, goal[h].activated, fired')
        /\ r.activated <=> Heard(h, goal[h].activated, fired', Len(fired'))
    BY <1>1 DEF Speaks
  <2> QED BY <1>2, <1>5, <2>1 DEF Tells
<1>6. ASSUME g # h PROVE Tells(g)
  <2>1. PhaseOutputs(g, fired') = {}
    BY <1>1, <1>6 DEF Speaks, PhaseOutputs
  <2>2. InTurn(g, goal[g].activated, fired')
    BY <2>1, Zenon DEF InTurn
  <2>3. {i \in PhaseOutputs(g, fired') : i <= Len(fired')} = {}
    BY <2>1
  <2>4. Heard(g, goal[g].activated, fired', Len(fired')) <=> goal[g].activated
    BY <2>3, Zenon DEF Heard
  <2>5. goal'[g].activated = goal[g].activated
    BY <1>3, <1>6
  <2> QED BY <2>2, <2>4, <2>5 DEF Tells
<1> QED BY <1>2, <1>4, <1>5, <1>6

(* A step that fires nothing leaves the phase as it was, or the goal is    *)
(* gone.                                                                   *)
LEMMA QuietTells ==
  ASSUME NEW g \in Goals, fired' = <<>>,
         rounds' # rounds \/ ~goal'[g].spawned \/ (goal'[g].activated <=> goal[g].activated)
  PROVE  Tells(g)
<1>1. Len(fired') = 0 /\ PhaseOutputs(g, fired') = {}
  BY DEF PhaseOutputs
<1>2. InTurn(g, goal[g].activated, fired')
  BY <1>1, Zenon DEF InTurn
<1>3. {i \in PhaseOutputs(g, fired') : i <= Len(fired')} = {}
  BY <1>1
<1>4. Heard(g, goal[g].activated, fired', Len(fired')) <=> goal[g].activated
  BY <1>3, Zenon DEF Heard
<1> QED BY <1>2, <1>4 DEF Tells

(* What inputs and thinks leave behind tells of the goal, too. *)
LEMMA HandlersSpeak ==
  ASSUME NEW g \in Goals, NEW s \in GoalState, s.out = <<>>, GoalCoherent(g, s), NEW a \in Entities
  PROVE  /\ Speaks(g, s.activated, Enable(g, s, a)) /\ Speaks(g, s.activated, Disable(g, s, a))
         /\ Speaks(g, s.activated, Inactivate(g, s)) /\ Speaks(g, s.activated, RunThink(g, s))
<1>0. s.activated \in BOOLEAN /\ Speaks(g, s.activated, s)
  BY SilenceSpeaks DEF GoalState
<1>1. Speaks(g, s.activated, Enable(g, s, a))
  <2> DEFINE t == [s EXCEPT !.enabled = TRUE, !.nodraw = @ /\ (Kind[g] = "trigger" \/ s.activated)]
  <2>1. t \in GoalState /\ t.out = s.out /\ t.activated = s.activated
    BY DEF GoalState
  <2>2. Enable(g, s, a) = Fire(g, t, "OnEnabled", a) /\ "OnEnabled" \in Outputs
    BY DEF Enable, Outputs
  <2> HIDE DEF t
  <2> QED BY <1>0, <2>1, <2>2, FireSpeaks
<1>2. Speaks(g, s.activated, Disable(g, s, a))
  <2> DEFINE t == [s EXCEPT !.enabled = FALSE, !.nodraw = @ \/ Kind[g] # "trigger"]
  <2>1. t \in GoalState /\ t.out = s.out /\ t.activated = s.activated
    BY DEF GoalState
  <2>2. Disable(g, s, a) = Fire(g, t, "OnDisabled", a) /\ "OnDisabled" \in Outputs
    BY DEF Disable, Outputs
  <2> HIDE DEF t
  <2> QED BY <1>0, <2>1, <2>2, FireSpeaks
<1>3. Speaks(g, s.activated, Inactivate(g, s))
  <2> DEFINE t == [s EXCEPT !.active = FALSE]
  <2>1. t \in GoalState /\ t.out = s.out /\ t.activated = s.activated
    BY DEF GoalState
  <2>2. Inactivate(g, s) = DeactivateGoal(g, t)
    BY DEF Inactivate
  <2> HIDE DEF t
  <2>3. Speaks(g, s.activated, t)
    BY <1>0, <2>1, SameSpeaks
  <2> QED BY <1>0, <2>1, <2>2, <2>3, DeactivateSpeaks
<1>4. Speaks(g, s.activated, RunThink(g, s))
  <2> DEFINE t == [s EXCEPT !.due = Never]
  <2>1. /\ t \in GoalState /\ t.out = s.out /\ t.activated = s.activated /\ t.active = s.active
    BY DEF GoalState
  <2>2. RunThink(g, s) = CASE s.think = "ActivateGoal"   -> ActivateGoal(g, t)
                           [] s.think = "DeactivateGoal" -> DeactivateGoal(g, t)
                           [] OTHER -> t
    BY DEF RunThink
  <2> HIDE DEF t
  <2>3. Speaks(g, s.activated, t)
    BY <1>0, <2>1, SameSpeaks
  <2>4. s.think = "ActivateGoal" => t.active /\ ~t.activated
    BY <2>1 DEF GoalCoherent
  <2>5. s.think = "ActivateGoal" => Speaks(g, s.activated, ActivateGoal(g, t))
    BY <1>0, <2>1, <2>3, <2>4, ActivateSpeaks
  <2>6. Speaks(g, s.activated, DeactivateGoal(g, t))
    BY <1>0, <2>1, <2>3, DeactivateSpeaks
  <2> QED BY <2>2, <2>3, <2>5, <2>6
<1> QED BY <1>1, <1>2, <1>3, <1>4

(* Every step tells of every goal. *)
LEMMA TellingStep ==
  ASSUME IInv, Silent, Next, NEW g \in Goals
  PROVE  Tells(g) /\ Silent'
<1>0. /\ goal \in [Goals -> GoalState] /\ World \in Entities /\ Players \subseteq Entities
      /\ \A h \in Goals : goal[h] \in GoalState /\ goal[h].out = <<>> /\ goal[h].activated \in BOOLEAN
  BY DEF IInv, TypeOK, Entities, Silent, GoalState
<1>1. ASSUME NEW h \in Goals, NEW r \in GoalState, Settle(h, r), Speaks(h, goal[h].activated, r)
      PROVE  Tells(g) /\ Silent'
  BY <1>1, SettleTells
<1>2. ASSUME NEW how, Stop(how) PROVE Tells(g) /\ Silent'
  <2>1. fired' = <<>> /\ goal' = goal
    BY <1>2 DEF Stop
  <2> QED BY <2>1, QuietTells DEF Silent
<1>3. ASSUME NEW h \in Goals, Activate(h) PROVE Tells(g) /\ Silent'
  <2>1. goal[h] = Spawned(h) /\ (Stop("overflowed") \/ Settle(h, Activated(h, Spawned(h))))
    BY <1>3 DEF IInv, Activate, Launch
  <2>2. CASE Settle(h, Activated(h, Spawned(h)))
    <3> DEFINE s == Spawned(h)
               t == IF HasFlag(h, "START_ACTIVE") THEN ActivateGoalStart(h, s, World) ELSE s
               r == [t EXCEPT !.nodraw = @ \/ (Kind[h] # "trigger" /\ ~s.enabled)]
    <3>1. Activated(h, s) = r
      BY DEF Activated
    <3>2. s \in GoalState /\ GoalCoherent(h, s) /\ ~s.active /\ s.out = <<>> /\ s.activated \in BOOLEAN
      BY Spawning DEF Spawned
    <3>3. s = goal[h]
      BY <2>1
    <3> HIDE DEF s
    <3>4. t \in GoalState /\ Speaks(h, s.activated, t)
      BY <1>0, <3>2, Starting, StartSpeaks, SilenceSpeaks
    <3> HIDE DEF t
    <3>5. r \in GoalState /\ r.out = t.out /\ r.activated = t.activated
      BY <3>4 DEF GoalState
    <3>6. Settle(h, r)
      BY <2>2, <3>1 DEF s
    <3> HIDE DEF r
    <3>7. Speaks(h, goal[h].activated, r)
      BY <3>3, <3>4, <3>5, SameSpeaks
    <3> QED BY <1>1, <3>5, <3>6, <3>7
  <2> QED BY <1>2, <2>1, <2>2
<1>4. ASSUME NEW h \in Goals, NEW p \in Entities, ~goal[h].active, GoalCoherent(h, goal[h]),
             Launch(h, ActivateGoalStart(h, goal[h], p))
      PROVE  Tells(g) /\ Silent'
  <2>1. ActivateGoalStart(h, goal[h], p) \in GoalState
    BY <1>0, <1>4, Starting
  <2>2. Speaks(h, goal[h].activated, ActivateGoalStart(h, goal[h], p))
    BY <1>0, <1>4, StartSpeaks
  <2>3. Stop("overflowed") \/ Settle(h, ActivateGoalStart(h, goal[h], p))
    BY <1>4 DEF Launch
  <2> QED BY <1>1, <1>2, <2>1, <2>2, <2>3
<1>5. ASSUME NEW h \in Goals, NEW p \in Players, Touch(h, p) PROVE Tells(g) /\ Silent'
  <2>1. ~goal[h].active /\ GoalCoherent(h, goal[h]) /\ p \in Entities
    BY <1>0, <1>5 DEF Touch, IInv, Running, Settled
  <2>2. Stop("faulted") \/ Launch(h, ActivateGoalStart(h, goal[h], p))
    BY <1>5 DEF Touch
  <2> QED BY <1>2, <1>4, <2>1, <2>2
<1>6. ASSUME NEW h \in Goals, InputActivate(h) PROVE Tells(g) /\ Silent'
  <2>1. ~goal[h].active /\ GoalCoherent(h, goal[h])
    BY <1>6 DEF InputActivate, IInv, Running, Settled
  <2>2. Launch(h, ActivateGoalStart(h, goal[h], World))
    BY <1>6 DEF InputActivate
  <2> QED BY <1>0, <1>4, <2>1, <2>2
<1>7. ASSUME NEW h \in Goals, NEW a \in Entities, InputEnable(h, a) \/ InputDisable(h, a)
      PROVE  Tells(g) /\ Silent'
  <2>1. GoalCoherent(h, goal[h])
    BY <1>7 DEF InputEnable, InputDisable, IInv, Running, Settled
  <2>2. Enable(h, goal[h], a) \in GoalState /\ Disable(h, goal[h], a) \in GoalState
    BY <1>0, Enabling, Disabling
  <2>3. Speaks(h, goal[h].activated, Enable(h, goal[h], a))
        /\ Speaks(h, goal[h].activated, Disable(h, goal[h], a))
    BY <1>0, <2>1, HandlersSpeak
  <2>4. Settle(h, Enable(h, goal[h], a)) \/ Settle(h, Disable(h, goal[h], a))
    BY <1>7 DEF InputEnable, InputDisable
  <2> QED BY <1>1, <2>2, <2>3, <2>4
<1>8. ASSUME NEW h \in Goals, InputInactivate(h) PROVE Tells(g) /\ Silent'
  <2>1. GoalCoherent(h, goal[h])
    BY <1>8 DEF InputInactivate, IInv, Running, Settled
  <2>2. Inactivate(h, goal[h]) \in GoalState
    <3>1. [goal[h] EXCEPT !.active = FALSE] \in GoalState
      BY <1>0 DEF GoalState
    <3> QED BY <3>1, Deactivating DEF Inactivate
  <2>3. Speaks(h, goal[h].activated, Inactivate(h, goal[h]))
    BY <1>0, <2>1, HandlersSpeak
  <2>4. Settle(h, Inactivate(h, goal[h]))
    BY <1>8 DEF InputInactivate
  <2> QED BY <1>1, <2>2, <2>3, <2>4
<1>9. ASSUME NEW h \in Goals, Think(h) PROVE Tells(g) /\ Silent'
  <2>1. GoalCoherent(h, goal[h])
    BY <1>9 DEF Think, IInv, Running, Settled
  <2>2. RunThink(h, goal[h]) \in GoalState
    BY <1>0, <2>1, Thinking
  <2>3. Speaks(h, goal[h].activated, RunThink(h, goal[h]))
    BY <1>0, <2>1, HandlersSpeak
  <2>4. Settle(h, RunThink(h, goal[h]))
    BY <1>9 DEF Think
  <2> QED BY <1>1, <2>2, <2>3, <2>4
<1>10. ASSUME fired' = <<>>,
              \A h \in Goals : goal'[h].out = goal[h].out /\ goal'[h].activated = goal[h].activated
       PROVE  Tells(g) /\ Silent'
  BY <1>0, <1>10, QuietTells DEF Silent
<1>11. CASE Tick
  <2>1. fired' = <<>>
        /\ \A h \in Goals : goal'[h] = [goal[h] EXCEPT !.due = IF @ = Never THEN @ ELSE @ - 1]
    BY <1>11 DEF Tick
  <2>2. \A h \in Goals : goal'[h].out = goal[h].out /\ goal'[h].activated = goal[h].activated
    BY <1>0, <2>1 DEF GoalState
  <2> QED BY <1>10, <2>1, <2>2
<1>12. ASSUME NEW p \in Players, NEW t \in Teams \cup {Null}, ChangeTeam(p, t)
       PROVE  Tells(g) /\ Silent'
  BY <1>10, <1>12 DEF ChangeTeam
<1>13. ASSUME NEW h \in Goals, CarrierMoves(h) PROVE Tells(g) /\ Silent'
  <2>1. fired' = <<>> /\ goal' = [goal EXCEPT ![h].away = ~@]
    BY <1>13 DEF CarrierMoves
  <2>2. \A k \in Goals : goal'[k].out = goal[k].out /\ goal'[k].activated = goal[k].activated
    BY <1>0, <2>1 DEF GoalState
  <2> QED BY <1>10, <2>1, <2>2
<1>14. ASSUME NEW p \in Players, Disconnect(p) PROVE Tells(g) /\ Silent'
  <2>1. fired' = <<>>
        /\ \A h \in Goals : goal'[h] = IF goal[h].carrier = p THEN Gone(h)
                ELSE [goal[h] EXCEPT !.activator = IF @ = p THEN Null ELSE @]
    BY <1>14 DEF Disconnect
  <2>2. \A h \in Goals : Gone(h).out = <<>> /\ ~Gone(h).spawned
    BY DEF Gone, Spawned
  <2>3. ASSUME NEW h \in Goals
        PROVE  /\ goal'[h].out = <<>>
               /\ ~goal'[h].spawned \/ goal'[h].activated = goal[h].activated
    <3>1. CASE goal[h].carrier = p
      <4>1. goal'[h] = Gone(h)
        BY <2>1, <3>1
      <4>2. Gone(h).out = <<>> /\ ~Gone(h).spawned
        BY <2>2
      <4> QED BY <4>1, <4>2
    <3>2. CASE goal[h].carrier # p
      <4> DEFINE e == [goal[h] EXCEPT !.activator = IF @ = p THEN Null ELSE @]
      <4>1. goal'[h] = e
        BY <2>1, <3>2
      <4>2. goal[h] \in GoalState /\ goal[h].out = <<>>
        BY <1>0
      <4>3. e.out = goal[h].out /\ e.activated = goal[h].activated
        BY <4>2 DEF GoalState
      <4> HIDE DEF e
      <4> QED BY <4>1, <4>2, <4>3
    <3> QED BY <3>1, <3>2
  <2> QED BY <2>1, <2>3, QuietTells DEF Silent
<1>15. CASE CleanUpMap
  <2>1. rounds' # rounds /\ fired' = <<>>
    BY <1>15 DEF CleanUpMap, IInv, TypeOK
  <2>2. \A h \in Goals : goal'[h].out = <<>>
    BY <1>15 DEF CleanUpMap, Spawned
  <2> QED BY <2>1, <2>2, QuietTells DEF Silent
<1> QED
  BY <1>3, <1>5, <1>6, <1>7, <1>8, <1>9, <1>11, <1>12, <1>13, <1>14, <1>15 DEF Next

(* The map's logic can follow every goal by its outputs, however inputs,   *)
(* touches, timers and loops interleave: a handler that lights a goal      *)
(* finds it dark, and one that darkens it says so, even the one that       *)
(* starts a loop again.                                                    *)
THEOREM OutputsFollowed == Spec => OutputsTellThePhase
<1>1. Init => Silent
  BY DEF Init, Silent, Spawned
<1>2. IInv /\ Silent /\ [Next]_vars => Silent'
  <2>1. CASE Goals = {}
    BY <2>1 DEF Silent
  <2>2. CASE Goals # {}
    BY <2>2, TellingStep DEF Silent, vars
  <2> QED BY <2>1, <2>2
<1>3. Spec => []Silent
  BY <1>1, <1>2, Inductive, PTL DEF Spec
<1>4. IInv /\ Silent /\ [Next]_vars =>
        [\A g \in Goals :
           rounds' = rounds /\ goal'[g].spawned =>
             /\ \A i \in PhaseOutputs(g, fired') :
                  fired'[i].output = "OnActive" => ~Heard(g, goal[g].activated, fired', i - 1)
             /\ goal'[g].activated <=> Heard(g, goal[g].activated, fired', Len(fired'))]_vars
  BY TellingStep DEF Tells, InTurn
<1>5. QED
  BY <1>3, <1>4, Inductive, PTL DEF Spec, OutputsTellThePhase
-----------------------------------------------------------------------------
(* The network: what goes on the list.                                     *)

NetEvent == [target : Names, input : Inputs, caller : Goals, activator : Entities, after : Int]

(* Some wire of the map has posted e, and its delay is running. *)
Wired(e) ==
  \E h \in Goals, o \in Outputs : \E j \in DOMAIN Wires[h][o] :
    /\ e.target = Wires[h][o][j].name /\ e.input = Wires[h][o][j].input
    /\ e.after <= Wires[h][o][j].delay

Network(q) == q \in Seq(NetEvent) /\ Sorted(q) /\ \A i \in 1 .. Len(q) : Wired(q[i])

(* What is due at the head of the list stays there. *)
HeadKept(q, t) == q # <<>> /\ q[1].after <= 0 => t # <<>> /\ t[1] = q[1]

(* The events of a name that mirrors a goal come from the wires of two     *)
(* outputs of that goal, with one and the same delay.                      *)
LEMMA MirrorWires ==
  ASSUME NEW n \in Names, NEW g \in Goals, Mirrors(n, g)
  PROVE  \E d \in Nat :
           /\ \A h \in Goals, o \in Outputs : \A j \in WiresTo(n, h, o) :
                /\ h = g /\ o \in {"OnActive", "OnInactive"}
                /\ WiresTo(n, h, o) = {j}
                /\ Wires[h][o][j].delay = d
                /\ Wires[h][o][j].input = IF o = "OnActive" THEN "Enable" ELSE "Disable"
           /\ \A o \in {"OnActive", "OnInactive"} : WiresTo(n, g, o) # {}
<1>1. PICK on \in WiresTo(n, g, "OnActive"), off \in WiresTo(n, g, "OnInactive") :
        /\ WiresTo(n, g, "OnActive") = {on} /\ WiresTo(n, g, "OnInactive") = {off}
        /\ Wires[g]["OnActive"][on].input = "Enable"
        /\ Wires[g]["OnInactive"][off].input = "Disable"
        /\ Wires[g]["OnActive"][on].delay = Wires[g]["OnInactive"][off].delay
  BY DEF Mirrors
<1>2. \A h \in Goals, o \in Outputs :
        (h = g /\ o \in {"OnActive", "OnInactive"}) \/ WiresTo(n, h, o) = {}
  BY DEF Mirrors
<1>3. Wires[g]["OnActive"][on].delay \in Nat
  <2>1. "OnActive" \in Outputs
    BY DEF Outputs
  <2>2. Wires[g]["OnActive"] \in Seq(Wire) /\ on \in DOMAIN Wires[g]["OnActive"]
    BY <2>1, NetworkAssumption DEF WiresTo
  <2>3. Wires[g]["OnActive"][on] \in Wire
    BY <2>2
  <2> QED BY <2>3 DEF Wire
<1>4. \A h \in Goals, o \in Outputs : \A j \in WiresTo(n, h, o) :
        /\ h = g /\ o \in {"OnActive", "OnInactive"}
        /\ WiresTo(n, h, o) = {j}
        /\ Wires[h][o][j].delay = Wires[g]["OnActive"][on].delay
        /\ Wires[h][o][j].input = IF o = "OnActive" THEN "Enable" ELSE "Disable"
  <2> SUFFICES ASSUME NEW h \in Goals, NEW o \in Outputs, NEW j \in WiresTo(n, h, o)
               PROVE  /\ h = g /\ o \in {"OnActive", "OnInactive"}
                      /\ WiresTo(n, h, o) = {j}
                      /\ Wires[h][o][j].delay = Wires[g]["OnActive"][on].delay
                      /\ Wires[h][o][j].input = IF o = "OnActive" THEN "Enable" ELSE "Disable"
    OBVIOUS
  <2>1. h = g /\ o \in {"OnActive", "OnInactive"}
    BY <1>2
  <2>2. CASE o = "OnActive"
    BY <1>1, <2>1, <2>2
  <2>3. CASE o = "OnInactive"
    BY <1>1, <2>1, <2>3
  <2> QED BY <2>1, <2>2, <2>3
<1>5. \A o \in {"OnActive", "OnInactive"} : WiresTo(n, g, o) # {}
  BY <1>1
<1> QED BY <1>3, <1>4, <1>5

(* So an event that comes to them was not posted with a greater delay. *)
LEMMA MirrorEvents ==
  ASSUME NEW n \in Names, NEW d,
         \A h \in Goals, o \in Outputs : \A j \in WiresTo(n, h, o) :
           /\ Wires[h][o][j].delay = d
           /\ Wires[h][o][j].input = IF o = "OnActive" THEN "Enable" ELSE "Disable",
         NEW e, Wired(e), e.target = n
  PROVE  e.after <= d /\ e.input \in {"Enable", "Disable"}
<1>1. PICK h \in Goals, o \in Outputs : \E j \in DOMAIN Wires[h][o] :
        /\ e.target = Wires[h][o][j].name /\ e.input = Wires[h][o][j].input
        /\ e.after <= Wires[h][o][j].delay
  BY DEF Wired
<1>2. PICK j \in DOMAIN Wires[h][o] :
        /\ e.target = Wires[h][o][j].name /\ e.input = Wires[h][o][j].input
        /\ e.after <= Wires[h][o][j].delay
  BY <1>1
<1>3. j \in WiresTo(n, h, o)
  BY <1>2 DEF WiresTo
<1> QED BY <1>2, <1>3

(* An event for another name leaves what comes to n in its order. *)
LEMMA AddOther ==
  ASSUME NEW q \in Seq(NetEvent), NEW e \in NetEvent, NEW n, e.target # n, NEW x
  PROVE  LET t == AddEvent(q, e)
         IN  /\ Coming(n, t) = {} <=> Coming(n, q) = {}
             /\ LastSays(n, q, x) => LastSays(n, t, x)
<1> DEFINE t == AddEvent(q, e)
           m == Len(q)
<1>0. \A y \in NetEvent : y.after \in Int
  BY DEF NetEvent
<1>1. t \in Seq(NetEvent) /\ m \in Nat
  BY <1>0, AddEventInserts
<1>2. PICK k \in 1 .. m + 1 : Inserted(t, q, e, k)
  BY <1>0, AddEventInserts
<1> HIDE DEF t, m
<1>3. /\ Len(t) = m + 1 /\ t[k] = e
      /\ \A i \in 1 .. k - 1 : t[i] = q[i]
      /\ \A i \in k .. m : t[i + 1] = q[i]
  BY <1>2 DEF Inserted, m
<1>4. /\ \A i \in 1 .. m : (i \in 1 .. k - 1) \/ (i \in k .. m /\ i + 1 \in 1 .. m + 1)
      /\ \A i \in 1 .. m + 1 : i = k \/ i \in 1 .. k - 1 \/ (i - 1 \in k .. m)
      /\ \A i \in 1 .. k - 1 : i \in 1 .. m /\ i \in 1 .. m + 1
      /\ \A i \in k .. m : i \in 1 .. m
  BY <1>1
<1>5. Coming(n, q) = {i \in 1 .. m : q[i].target = n}
  BY DEF Coming, m
<1>6. Coming(n, t) = {i \in 1 .. m + 1 : t[i].target = n}
  BY <1>1, <1>3 DEF Coming
<1>7. ASSUME NEW i \in Coming(n, q)
      PROVE  /\ i < k => i \in Coming(n, t) /\ t[i] = q[i]
             /\ i >= k => i + 1 \in Coming(n, t) /\ t[i + 1] = q[i]
  BY <1>1, <1>3, <1>4, <1>5, <1>6
<1>8. ASSUME NEW i \in Coming(n, t)
      PROVE  (i < k /\ i \in Coming(n, q)) \/ (i > k /\ i - 1 \in Coming(n, q))
  <2>1. i \in 1 .. m + 1 /\ t[i].target = n /\ i # k
    BY <1>3, <1>6
  <2>2. CASE i \in 1 .. k - 1
    BY <1>3, <1>4, <1>5, <2>1, <2>2
  <2>3. CASE i - 1 \in k .. m
    <3>1. t[(i - 1) + 1] = q[i - 1] /\ (i - 1) + 1 = i
      BY <1>1, <1>3, <2>1, <2>3
    <3>2. i - 1 \in Coming(n, q)
      BY <1>4, <1>5, <2>1, <2>3, <3>1
    <3> QED BY <1>1, <2>1, <2>3, <3>2
  <2> QED BY <1>4, <2>1, <2>2, <2>3
<1>9. Coming(n, t) = {} <=> Coming(n, q) = {}
  <2>1. ASSUME NEW i \in Coming(n, q) PROVE Coming(n, t) # {}
    <3>1. i \in Int /\ k \in Int
      BY <1>1, <1>5
    <3>2. i < k \/ i >= k
      BY <3>1
    <3> QED BY <1>7, <3>2
  <2>2. ASSUME NEW i \in Coming(n, t) PROVE Coming(n, q) # {}
    BY <1>8
  <2> QED BY <2>1, <2>2
<1>10. ASSUME LastSays(n, q, x) PROVE LastSays(n, t, x)
  <2>1. PICK i \in Coming(n, q) :
          (\A j \in Coming(n, q) : j <= i) /\ (q[i].input = "Enable" <=> x)
    BY <1>10 DEF LastSays
  <2>2. i \in Int /\ k \in Int /\ \A j \in Coming(n, t) : j \in Int
    BY <1>1, <1>5, <1>6
  <2>3. CASE i < k
    <3>1. i \in Coming(n, t) /\ t[i] = q[i]
      BY <1>7, <2>3
    <3>2. \A j \in Coming(n, t) : j <= i
      BY <1>8, <2>1, <2>2, <2>3
    <3> QED BY <2>1, <3>1, <3>2 DEF LastSays
  <2>4. CASE i >= k
    <3>1. i + 1 \in Coming(n, t) /\ t[i + 1] = q[i]
      BY <1>7, <2>4
    <3>2. \A j \in Coming(n, t) : j <= i + 1
      BY <1>8, <2>1, <2>2
    <3> QED BY <2>1, <3>1, <3>2 DEF LastSays
  <2> QED BY <2>2, <2>3, <2>4
<1> QED BY <1>9, <1>10 DEF t

(* An event for n with the greatest delay comes after all others for n. *)
LEMMA AddOwn ==
  ASSUME NEW q \in Seq(NetEvent), Sorted(q), NEW e \in NetEvent, NEW n, e.target = n,
         \A i \in 1 .. Len(q) : q[i].target = n => q[i].after <= e.after
  PROVE  LastSays(n, AddEvent(q, e), e.input = "Enable")
<1> DEFINE t == AddEvent(q, e)
           m == Len(q)
<1>0. \A y \in NetEvent : y.after \in Int
  BY DEF NetEvent
<1>1. t \in Seq(NetEvent) /\ m \in Nat
  BY <1>0, AddEventInserts
<1>2. PICK k \in 1 .. m + 1 : Inserted(t, q, e, k)
  BY <1>0, AddEventInserts
<1>3. e.after \in Int /\ \A i \in 1 .. m : q[i].after \in Int
  BY <1>0
<1> HIDE DEF t, m
<1>4. /\ Len(t) = m + 1 /\ t[k] = e
      /\ \A i \in k .. m : t[i + 1] = q[i]
      /\ k <= m => q[k].after > e.after
  BY <1>2 DEF Inserted, m
<1>5. k \in Coming(n, t) /\ Coming(n, t) \subseteq 1 .. m + 1
  BY <1>1, <1>4 DEF Coming
<1>6. ASSUME NEW j \in Coming(n, t), j > k PROVE FALSE
  <2>1. j \in 1 .. m + 1 /\ t[j].target = n
    BY <1>5 DEF Coming
  <2>2. j - 1 \in k .. m /\ (j - 1) + 1 = j /\ k <= m /\ k \in 1 .. m /\ j - 1 \in 1 .. m
    BY <1>1, <1>6, <2>1
  <2>3. q[j - 1].target = n
    BY <1>4, <2>1, <2>2
  <2>4. q[j - 1].after <= e.after /\ q[k].after > e.after
    BY <1>4, <2>2, <2>3 DEF m
  <2>5. k = j - 1 \/ k < j - 1
    BY <1>1, <2>2
  <2>6. q[k].after <= q[j - 1].after
    BY <1>3, <2>2, <2>5 DEF Sorted, m
  <2> QED BY <1>3, <2>2, <2>4, <2>6
<1>7. \A j \in Coming(n, t) : j <= k
  BY <1>1, <1>5, <1>6
<1> QED BY <1>4, <1>5, <1>7 DEF LastSays, t

(* Adding an event of a wire keeps the list one of the network. *)
LEMMA AddNetwork ==
  ASSUME NEW q, Network(q), NEW e \in NetEvent, Wired(e), e.after >= 0
  PROVE  Network(AddEvent(q, e)) /\ HeadKept(q, AddEvent(q, e))
<1> DEFINE t == AddEvent(q, e)
           m == Len(q)
<1>0. (\A y \in NetEvent : y.after \in Int) /\ q \in Seq(NetEvent) /\ Sorted(q)
  BY DEF NetEvent, Network
<1>1. t \in Seq(NetEvent) /\ HeadStays(q, t, {e}) /\ Sorted(t) /\ m \in Nat
  BY <1>0, AddEventExtends
<1>2. PICK k \in 1 .. m + 1 : Inserted(t, q, e, k)
  BY <1>0, AddEventInserts
<1>3. \A i \in 1 .. m : Wired(q[i])
  BY DEF Network
<1>4. HeadKept(q, t)
  <2>1. q # <<>> => q[1].after \in Int
    BY <1>0
  <2> QED BY <1>0, <1>1, <2>1 DEF HeadStays, HeadKept
<1> HIDE DEF t, m
<1>5. /\ Len(t) = m + 1 /\ t[k] = e
      /\ \A i \in 1 .. k - 1 : t[i] = q[i]
      /\ \A i \in k .. m : t[i + 1] = q[i]
  BY <1>2 DEF Inserted, m
<1>6. ASSUME NEW i \in 1 .. Len(t) PROVE Wired(t[i])
  <2>1. i \in 1 .. m + 1
    BY <1>5
  <2>2. CASE i = k
    BY <1>5, <2>2
  <2>3. CASE i < k
    <3>1. i \in 1 .. k - 1 /\ i \in 1 .. m
      BY <1>1, <2>1, <2>3
    <3> QED BY <1>3, <1>5, <3>1
  <2>4. CASE i > k
    <3>1. i - 1 \in k .. m /\ i - 1 \in 1 .. m /\ (i - 1) + 1 = i
      BY <1>1, <2>1, <2>4
    <3>2. t[i] = q[i - 1]
      BY <1>5, <3>1
    <3> QED BY <1>3, <3>1, <3>2
  <2> QED BY <1>1, <2>1, <2>2, <2>3, <2>4
<1> QED BY <1>1, <1>4, <1>6 DEF Network, t


(* The event that a wire posts. *)
LEMMA WireEvent ==
  ASSUME NEW o \in Output, NEW j \in DOMAIN Wires[o.from][o.output]
  PROVE  LET w == Wires[o.from][o.output][j]
             e == Event(o, w)
         IN  /\ e \in NetEvent /\ Wired(e) /\ e.after >= 0
             /\ e.target = w.name /\ e.input = w.input /\ e.after = w.delay
<1> DEFINE w == Wires[o.from][o.output][j]
           e == Event(o, w)
<1>1. o.from \in Goals /\ o.output \in Outputs /\ o.activator \in Entities
  BY DEF Output
<1>2. Wires[o.from][o.output] \in Seq(Wire)
  BY <1>1, NetworkAssumption
<1>3. w \in Wire
  BY <1>2
<1>4. e = [target |-> w.name, input |-> w.input, caller |-> o.from,
           activator |-> o.activator, after |-> w.delay]
  BY DEF Event
<1>5. w.name \in Names /\ w.input \in Inputs /\ w.delay \in Nat
  BY <1>3 DEF Wire
<1>6. e \in NetEvent /\ e.target = w.name /\ e.input = w.input /\ e.after = w.delay /\ e.after >= 0
  BY <1>1, <1>4, <1>5 DEF NetEvent
<1>7. Wired(e)
  <2> HIDE DEF e
  <2>1. e.after <= w.delay
    BY <1>5, <1>6
  <2> QED BY <1>1, <1>6, <2>1 DEF Wired
<1> QED BY <1>6, <1>7

(* The events of an output, in the order of its wires. *)
Events(o) == LET wires == Wires[o.from][o.output] IN [j \in DOMAIN wires |-> Event(o, wires[j])]

LEMMA EventsType ==
  ASSUME NEW o \in Output
  PROVE  /\ Events(o) \in Seq(NetEvent)
         /\ Len(Events(o)) \in Nat
         /\ DOMAIN Wires[o.from][o.output] = 1 .. Len(Events(o))
         /\ \A j \in 1 .. Len(Events(o)) : Events(o)[j] = Event(o, Wires[o.from][o.output][j])
<1> DEFINE wires == Wires[o.from][o.output]
           l     == Len(wires)
           es    == Events(o)
<1>1. o.from \in Goals /\ o.output \in Outputs
  BY DEF Output
<1>2. wires \in Seq(Wire) /\ l \in Nat /\ DOMAIN wires = 1 .. l
  BY <1>1, NetworkAssumption
<1>3. es = [j \in 1 .. l |-> Event(o, wires[j])]
  BY <1>2 DEF Events
<1>4. \A j \in 1 .. l : Event(o, wires[j]) \in NetEvent
  BY <1>2, WireEvent
<1> HIDE DEF wires, l, es
<1>5. es \in [1 .. l -> NetEvent]
  BY <1>3, <1>4
<1>6. es \in Seq(NetEvent) /\ Len(es) = l
  BY <1>2, <1>5
<1> QED BY <1>2, <1>3, <1>6 DEF wires, es

(* What the list t says to the name n after the output o, and q before it: *)
(* only the phase outputs of g are for n.                                  *)
SaysOf(n, g, q, o, t, x) ==
  IF o.from = g /\ o.output \in {"OnActive", "OnInactive"}
    THEN LastSays(n, t, o.output = "OnActive")
    ELSE /\ Coming(n, t) = {} <=> Coming(n, q) = {}
         /\ LastSays(n, q, x) => LastSays(n, t, x)

(* What one output posts. *)
LEMMA FireOutputTells ==
  ASSUME NEW q, Network(q), NEW o \in Output
  PROVE  LET t == FireOutput(q, o)
         IN  /\ Network(t) /\ HeadKept(q, t)
             /\ \A n \in Names, g \in Goals, x \in BOOLEAN :
                  Mirrors(n, g) => SaysOf(n, g, q, o, t, x)
<1> DEFINE es == Events(o)
           l  == Len(es)
           wires == Wires[o.from][o.output]
<1>0. (\A y \in NetEvent : y.after \in Int) /\ q \in Seq(NetEvent)
  BY DEF NetEvent, Network
<1>1. /\ es \in Seq(NetEvent) /\ l \in Nat /\ DOMAIN wires = 1 .. l
      /\ \A j \in 1 .. l : es[j] = Event(o, wires[j])
  BY EventsType
<1>2. FireOutput(q, o) = AddEvents(q, es)
  BY DEF FireOutput, Events
<1> HIDE DEF es
<1>3. PICK f \in [0 .. l -> Seq(NetEvent)] : Grows(f, q, es) /\ AddEvents(q, es) = f[l]
  BY <1>0, <1>1, AddEventsSteps
<1>4. f[0] = q /\ \A i \in 1 .. l : f[i] = AddEvent(f[i - 1], es[i])
  BY <1>3 DEF Grows
<1>5. \A j \in 1 .. l : /\ es[j] \in NetEvent /\ Wired(es[j]) /\ es[j].after >= 0
                        /\ es[j].target = wires[j].name /\ es[j].input = wires[j].input
                        /\ es[j].after = wires[j].delay
  <2> SUFFICES ASSUME NEW j \in 1 .. l
               PROVE  /\ es[j] \in NetEvent /\ Wired(es[j]) /\ es[j].after >= 0
                      /\ es[j].target = wires[j].name /\ es[j].input = wires[j].input
                      /\ es[j].after = wires[j].delay
    OBVIOUS
  <2>1. j \in DOMAIN Wires[o.from][o.output] /\ es[j] = Event(o, Wires[o.from][o.output][j])
    BY <1>1
  <2>2. LET w == Wires[o.from][o.output][j]
            e == Event(o, w)
        IN  /\ e \in NetEvent /\ Wired(e) /\ e.after >= 0
            /\ e.target = w.name /\ e.input = w.input /\ e.after = w.delay
    BY <2>1, WireEvent
  <2> HIDE DEF l
  <2> QED BY <2>1, <2>2
<1> HIDE DEF l, wires
<1>6. /\ \A i \in 1 .. l : i - 1 \in 0 .. l /\ i \in 0 .. l
      /\ 0 \in 0 .. l /\ l \in 0 .. l
  BY <1>1
<1>7. Network(f[l]) /\ HeadKept(q, f[l]) /\ \A i \in 0 .. l : Network(f[i])
  <2> DEFINE T == {i \in 0 .. l : Network(f[i]) /\ HeadKept(q, f[i])}
  <2>1. 0 \in T
    BY <1>4, <1>6 DEF HeadKept
  <2>2. ASSUME NEW i \in 1 .. l, i - 1 \in T PROVE i \in T
    <3>1. PICK s : s = f[i - 1] /\ Network(s) /\ HeadKept(q, s)
      BY <2>2
    <3>2. Network(AddEvent(s, es[i])) /\ HeadKept(s, AddEvent(s, es[i])) /\ f[i] = AddEvent(s, es[i])
      BY <1>4, <1>5, <3>1, AddNetwork
    <3>3. HeadKept(q, f[i])
      BY <3>1, <3>2 DEF HeadKept
    <3> QED BY <1>6, <3>2, <3>3
  <2>3. \A i \in 0 .. l : i \in T
    <3> HIDE DEF T
    <3> QED BY <1>1, <2>1, <2>2, UpTo
  <2> QED BY <1>6, <2>3
<1>8. ASSUME NEW n \in Names, NEW g \in Goals, NEW x \in BOOLEAN, Mirrors(n, g)
      PROVE  SaysOf(n, g, q, o, f[l], x)
  <2> DEFINE W == WiresTo(n, o.from, o.output)
             Same(t) == /\ Coming(n, t) = {} <=> Coming(n, q) = {}
                        /\ LastSays(n, q, x) => LastSays(n, t, x)
             Told(t) == LastSays(n, t, o.output = "OnActive")
             Sent(i) == \E j \in W : j <= i
             T == {i \in 0 .. l : IF Sent(i) THEN Told(f[i]) ELSE Same(f[i])}
  <2>1. PICK d \in Nat :
          /\ \A h \in Goals, p \in Outputs : \A j \in WiresTo(n, h, p) :
               /\ h = g /\ p \in {"OnActive", "OnInactive"}
               /\ WiresTo(n, h, p) = {j}
               /\ Wires[h][p][j].delay = d
               /\ Wires[h][p][j].input = IF p = "OnActive" THEN "Enable" ELSE "Disable"
          /\ \A p \in {"OnActive", "OnInactive"} : WiresTo(n, g, p) # {}
    BY <1>8, MirrorWires
  <2>2. o.from \in Goals /\ o.output \in Outputs
    BY DEF Output
  <2>3. \A j \in W : /\ o.from = g /\ o.output \in {"OnActive", "OnInactive"}
                     /\ W = {j} /\ wires[j].delay = d
                     /\ wires[j].input = IF o.output = "OnActive" THEN "Enable" ELSE "Disable"
    BY <2>1, <2>2 DEF wires
  <2>4. \A j \in 1 .. l : j \in W <=> wires[j].name = n
    BY <1>1 DEF WiresTo, wires
  <2>5. W \subseteq 1 .. l
    BY <1>1 DEF WiresTo, wires
  <2>6. \A e : Wired(e) /\ e.target = n => e.after <= d
    <3> SUFFICES ASSUME NEW e, Wired(e), e.target = n PROVE e.after <= d
      OBVIOUS
    <3> QED BY <2>1, MirrorEvents
  <2> HIDE DEF W
  <2>7. 0 \in T
    <3>1. ~Sent(0)
      BY <1>1, <2>5
    <3> QED BY <1>4, <1>6, <3>1
  <2>8. ASSUME NEW i \in 1 .. l, i - 1 \in T PROVE i \in T
    <3>1. PICK s : s = f[i - 1]
      OBVIOUS
    <3>2. s \in Seq(NetEvent) /\ Network(s) /\ f[i] = AddEvent(s, es[i]) /\ Sorted(s)
      BY <1>4, <1>6, <1>7, <3>1 DEF Network
    <3>3. IF Sent(i - 1) THEN Told(s) ELSE Same(s)
      BY <2>8, <3>1
    <3>4. es[i] \in NetEvent
      BY <1>5
    <3>5. CASE i \in W
      <4>1. es[i].target = n /\ es[i].after = d /\ (es[i].input = "Enable" <=> o.output = "OnActive")
        BY <1>5, <2>3, <2>4, <3>5
      <4>2. \A k \in 1 .. Len(s) : s[k].target = n => s[k].after <= es[i].after
        BY <2>6, <3>2, <4>1 DEF Network
      <4>3. LastSays(n, f[i], es[i].input = "Enable")
        BY <3>2, <3>4, <4>1, <4>2, AddOwn
      <4>4. Told(f[i])
        BY <4>1, <4>3 DEF LastSays
      <4>5. Sent(i)
        BY <3>5
      <4> HIDE DEF Told, Sent
      <4> QED BY <1>6, <4>4, <4>5
    <3>6. CASE i \notin W
      <4>1. es[i].target # n
        BY <1>5, <2>4, <3>6
      <4>2. Sent(i) <=> Sent(i - 1)
        BY <1>1, <2>5, <3>6
      <4>3. /\ Coming(n, f[i]) = {} <=> Coming(n, s) = {}
            /\ LastSays(n, s, x) => LastSays(n, f[i], x)
            /\ Told(s) => Told(f[i])
        <5>1. /\ Coming(n, f[i]) = {} <=> Coming(n, s) = {}
              /\ LastSays(n, s, x) => LastSays(n, f[i], x)
          <6>1. LET u == AddEvent(s, es[i])
                IN  /\ Coming(n, u) = {} <=> Coming(n, s) = {}
                    /\ LastSays(n, s, x) => LastSays(n, u, x)
            BY <3>2, <3>4, <4>1, AddOther
          <6> QED BY <3>2, <6>1
        <5>2. PICK y : y = (o.output = "OnActive")
          OBVIOUS
        <5>3. LastSays(n, s, y) => LastSays(n, f[i], y)
          BY <3>2, <3>4, <4>1, AddOther
        <5> QED BY <5>1, <5>2, <5>3
      <4>4. IF Sent(i) THEN Told(f[i]) ELSE Same(f[i])
        <5> HIDE DEF Told, Sent
        <5> QED BY <3>3, <4>2, <4>3
      <4> HIDE DEF Told, Sent, Same
      <4> QED BY <1>6, <4>4
    <3> QED BY <3>5, <3>6
  <2>9. l \in T
    <3> HIDE DEF T
    <3>1. \A i \in 0 .. l : i \in T
      BY <1>1, <2>7, <2>8, UpTo
    <3> QED BY <1>6, <3>1
  <2>10. IF Sent(l) THEN Told(f[l]) ELSE Same(f[l])
    BY <2>9
  <2>11. Sent(l) <=> o.from = g /\ o.output \in {"OnActive", "OnInactive"}
    <3>1. W # {} <=> o.from = g /\ o.output \in {"OnActive", "OnInactive"}
      BY <2>1, <2>3 DEF W
    <3>2. \A j \in W : j <= l
      BY <1>1, <2>5
    <3> QED BY <3>1, <3>2
  <2> HIDE DEF Sent
  <2> QED BY <2>10, <2>11 DEF SaysOf
<1> QED BY <1>2, <1>3, <1>7, <1>8


(* The recursion of Post has its values, each a list of events. *)
LEMMA PostSteps ==
  ASSUME NEW q \in Seq(NetEvent), NEW outs \in Seq(Output)
  PROVE  \E f \in [0 .. Len(outs) -> Seq(NetEvent)] :
           /\ f[0] = q /\ \A i \in 1 .. Len(outs) : f[i] = FireOutput(f[i - 1], outs[i])
           /\ Post(q, outs) = f[Len(outs)]
<1> DEFINE n == Len(outs)
           S == Seq(NetEvent)
           Walk(f) == f = [i \in 0 .. n |->
                             IF i = 0 THEN q ELSE FireOutput(f[i - 1], outs[i])]
           step == [x \in S \X (1 .. n) |-> FireOutput(x[1], outs[x[2]])]
<1>1. n \in Nat
  OBVIOUS
<1>2. step \in [S \X (1 .. n) -> S]
  <2>1. ASSUME NEW x \in S \X (1 .. n) PROVE FireOutput(x[1], outs[x[2]]) \in S
    <3>1. x[1] \in S /\ outs[x[2]] \in Output
      OBVIOUS
    <3>2. PICK s \in S, o \in Output : s = x[1] /\ o = outs[x[2]]
      BY <3>1
    <3>3. \A y \in NetEvent : y.after \in Int
      BY DEF NetEvent
    <3>4. Events(o) \in Seq(NetEvent)
      BY EventsType
    <3>5. PICK f \in [0 .. Len(Events(o)) -> S] : AddEvents(s, Events(o)) = f[Len(Events(o))]
      BY <3>3, <3>4, AddEventsSteps
    <3>6. AddEvents(s, Events(o)) \in S
      <4>1. Len(Events(o)) \in 0 .. Len(Events(o))
        BY <3>4
      <4> QED BY <3>5, <4>1
    <3> QED BY <3>2, <3>6 DEF FireOutput, Events
  <2> QED BY <2>1
<1>3. PICK f \in [0 .. n -> S] : Steps(f, q, n, step)
  <2> HIDE DEF n, step, Walk
  <2> QED BY <1>1, <1>2, Recursion
<1>4. \A i \in 1 .. n : f[i] = FireOutput(f[i - 1], outs[i])
  <2> TAKE i \in 1 .. n
  <2>1. i - 1 \in 0 .. n BY <1>1
  <2>2. f[i - 1] \in S BY <2>1
  <2>3. <<f[i - 1], i>> \in S \X (1 .. n) BY <2>2
  <2> QED BY <1>3, <2>3 DEF Steps
<1>5. Walk(f)
  <2>1. f = [i \in 0 .. n |-> f[i]]
    OBVIOUS
  <2>2. \A i \in 0 .. n : i # 0 => i \in 1 .. n
    BY <1>1
  <2> QED BY <1>3, <1>4, <2>1, <2>2 DEF Steps
<1> DEFINE list == CHOOSE g : Walk(g)
<1>6. Walk(list)
  <2> HIDE DEF Walk
  <2> QED BY <1>5
<1>7. Post(q, outs) = list[n]
  BY DEF Post
<1>8. list = f
  <2> DEFINE T == {i \in 0 .. n : list[i] = f[i]}
  <2>1. list[0] = q /\ \A i \in 1 .. n : list[i] = FireOutput(list[i - 1], outs[i])
    <3> HIDE DEF list
    <3>1. 0 \in 0 .. n /\ \A i \in 1 .. n : i \in 0 .. n /\ i # 0
      BY <1>1
    <3> QED BY <1>6, <3>1
  <2> HIDE DEF list
  <2>2. 0 \in T
    BY <1>1, <1>3, <2>1 DEF Steps
  <2>3. ASSUME NEW i \in 1 .. n, i - 1 \in T PROVE i \in T
    BY <1>1, <1>4, <2>1, <2>3
  <2>4. \A i \in 0 .. n : i \in T
    <3> HIDE DEF T, n
    <3> QED BY <1>1, <2>2, <2>3, UpTo
  <2>5. list = [i \in 0 .. n |-> list[i]]
    BY <1>6
  <2> QED BY <2>4, <2>5
<1> QED
  <2> HIDE DEF list
  <2> QED BY <1>3, <1>4, <1>7, <1>8 DEF Steps

(* One output more is heard, or it says nothing of the phase. *)
LEMMA HeardNext ==
  ASSUME NEW g, NEW x, NEW outs \in Seq(Output), NEW k \in 1 .. Len(outs)
  PROVE  IF outs[k].from = g /\ outs[k].output \in {"OnActive", "OnInactive"}
           THEN k \in PhaseOutputs(g, outs) /\ (Heard(g, x, outs, k) <=> outs[k].output = "OnActive")
           ELSE k \notin PhaseOutputs(g, outs) /\ (Heard(g, x, outs, k) <=> Heard(g, x, outs, k - 1))
<1> DEFINE P == PhaseOutputs(g, outs)
<1>1. /\ Len(outs) \in Nat
      /\ k \in P <=> outs[k].from = g /\ outs[k].output \in {"OnActive", "OnInactive"}
      /\ P \subseteq 1 .. Len(outs)
  BY DEF PhaseOutputs
<1> HIDE DEF P
<1>2. CASE k \in P
  <2> DEFINE T == {i \in P : i <= k}
  <2>1. k \in T /\ \A i \in T : i \in Nat /\ i <= k
    BY <1>1, <1>2
  <2>2. Heard(g, x, outs, k) =
          IF T = {} THEN x ELSE \E i \in T : outs[i].output = "OnActive" /\ \A j \in T : j <= i
    BY DEF Heard, P
  <2> HIDE DEF T
  <2>3. \A i \in T : (\A j \in T : j <= i) => i = k
    BY <1>1, <2>1
  <2>4. Heard(g, x, outs, k) <=> outs[k].output = "OnActive"
    BY <1>1, <2>1, <2>2, <2>3
  <2> QED BY <1>1, <1>2, <2>4 DEF P
<1>3. CASE k \notin P
  <2>0. \A i \in P : i <= k <=> i <= k - 1
    BY <1>1, <1>3
  <2>1. {i \in P : i <= k} = {i \in P : i <= k - 1}
    BY <2>0
  <2>2. Heard(g, x, outs, k) <=> Heard(g, x, outs, k - 1)
    BY <2>1 DEF Heard, P
  <2> QED BY <1>1, <1>3, <2>2 DEF P
<1> QED BY <1>2, <1>3

(* What the outputs of a handler post: the last event for a name that      *)
(* mirrors g says what its outputs do, if there is any.                    *)
LEMMA PostTells ==
  ASSUME NEW q, Network(q), NEW outs \in Seq(Output)
  PROVE  LET t == Post(q, outs)
         IN  /\ Network(t) /\ HeadKept(q, t)
             /\ \A n \in Names, g \in Goals, x \in BOOLEAN :
                  Mirrors(n, g) /\ (Coming(n, q) # {} => LastSays(n, q, x)) =>
                    IF Coming(n, t) = {}
                      THEN Coming(n, q) = {} /\ PhaseOutputs(g, outs) = {}
                      ELSE LastSays(n, t, Heard(g, x, outs, Len(outs)))
<1> DEFINE l == Len(outs)
<1>1. PICK f \in [0 .. l -> Seq(NetEvent)] :
        /\ f[0] = q /\ \A i \in 1 .. l : f[i] = FireOutput(f[i - 1], outs[i])
        /\ Post(q, outs) = f[l]
  BY PostSteps DEF Network
<1>2. l \in Nat /\ \A i \in 1 .. l : outs[i] \in Output
  OBVIOUS
<1> HIDE DEF l
<1>3. /\ \A i \in 1 .. l : i - 1 \in 0 .. l /\ i \in 0 .. l
      /\ 0 \in 0 .. l /\ l \in 0 .. l
  BY <1>2
<1>4. Network(f[l]) /\ HeadKept(q, f[l]) /\ \A i \in 0 .. l : Network(f[i])
  <2> DEFINE T == {i \in 0 .. l : Network(f[i]) /\ HeadKept(q, f[i])}
  <2>1. 0 \in T
    BY <1>1, <1>3 DEF HeadKept
  <2>2. ASSUME NEW i \in 1 .. l, i - 1 \in T PROVE i \in T
    <3>1. PICK s : s = f[i - 1] /\ Network(s) /\ HeadKept(q, s)
      BY <2>2
    <3>2. Network(FireOutput(s, outs[i])) /\ HeadKept(s, FireOutput(s, outs[i]))
      BY <1>2, <3>1, FireOutputTells
    <3>3. f[i] = FireOutput(s, outs[i])
      BY <1>1, <3>1
    <3>4. HeadKept(q, f[i])
      BY <3>1, <3>2, <3>3 DEF HeadKept
    <3> QED BY <1>3, <3>2, <3>3, <3>4
  <2>3. \A i \in 0 .. l : i \in T
    <3> HIDE DEF T
    <3> QED BY <1>2, <2>1, <2>2, UpTo
  <2> QED BY <1>3, <2>3
<1>5. ASSUME NEW n \in Names, NEW g \in Goals, NEW x \in BOOLEAN, Mirrors(n, g),
             Coming(n, q) # {} => LastSays(n, q, x)
      PROVE  IF Coming(n, f[l]) = {}
               THEN Coming(n, q) = {} /\ PhaseOutputs(g, outs) = {}
               ELSE LastSays(n, f[l], Heard(g, x, outs, l))
  <2> DEFINE P == PhaseOutputs(g, outs)
             Fits(t, i) == IF Coming(n, t) = {}
                             THEN Coming(n, q) = {} /\ \A j \in P : ~(j <= i)
                             ELSE LastSays(n, t, Heard(g, x, outs, i))
             T == {i \in 0 .. l : Fits(f[i], i)}
  <2>1. P \subseteq 1 .. l
    BY DEF PhaseOutputs, l
  <2>2. Heard(g, x, outs, 0) <=> x
    <3>1. {j \in P : j <= 0} = {}
      BY <2>1
    <3> QED BY <3>1, Zenon DEF Heard
  <2> HIDE DEF P
  <2>3. 0 \in T
    <3>1. \A j \in P : ~(j <= 0)
      BY <2>1
    <3>2. Coming(n, q) # {} => LastSays(n, q, Heard(g, x, outs, 0))
      BY <1>5, <2>2 DEF LastSays
    <3>3. Fits(q, 0)
      BY <3>1, <3>2
    <3> HIDE DEF Fits
    <3> QED BY <1>1, <1>3, <3>3
  <2>4. ASSUME NEW i \in 1 .. l, i - 1 \in T PROVE i \in T
    <3>1. PICK s : s = f[i - 1]
      OBVIOUS
    <3>2. PICK o \in Output : o = outs[i]
      BY <1>2
    <3>3. PICK t : t = FireOutput(s, o) /\ t = f[i]
      BY <1>1, <3>1, <3>2
    <3>4. Network(s) /\ Fits(s, i - 1)
      <4> HIDE DEF Fits
      <4> QED BY <1>3, <1>4, <2>4, <3>1
    <3>5. PICK y : y = Heard(g, x, outs, i - 1)
      OBVIOUS
    <3>6. y \in BOOLEAN
      BY <3>5 DEF Heard
    <3>11. SaysOf(n, g, s, o, t, y)
      BY <1>5, <3>3, <3>4, <3>6, FireOutputTells
    <3>7. IF o.from = g /\ o.output \in {"OnActive", "OnInactive"}
            THEN LastSays(n, t, o.output = "OnActive")
            ELSE /\ Coming(n, t) = {} <=> Coming(n, s) = {}
                 /\ LastSays(n, s, y) => LastSays(n, t, y)
      BY <3>11 DEF SaysOf
    <3>8. IF o.from = g /\ o.output \in {"OnActive", "OnInactive"}
            THEN i \in P /\ (Heard(g, x, outs, i) <=> o.output = "OnActive")
            ELSE i \notin P /\ (Heard(g, x, outs, i) <=> y)
      BY <3>2, <3>5, HeardNext DEF P, l
    <3>9. CASE o.from = g /\ o.output \in {"OnActive", "OnInactive"}
      <4>1. LastSays(n, t, Heard(g, x, outs, i))
        BY <3>7, <3>8, <3>9 DEF LastSays
      <4>2. Coming(n, t) # {}
        BY <4>1 DEF LastSays
      <4>3. Fits(t, i)
        BY <4>1, <4>2
      <4> HIDE DEF Fits
      <4> QED BY <1>3, <3>3, <4>3
    <3>10. CASE ~(o.from = g /\ o.output \in {"OnActive", "OnInactive"})
      <4>1. /\ Coming(n, t) = {} <=> Coming(n, s) = {}
            /\ LastSays(n, s, y) => LastSays(n, t, y)
            /\ i \notin P /\ (Heard(g, x, outs, i) <=> y)
        BY <3>7, <3>8, <3>10
      <4>2. CASE Coming(n, t) = {}
        <5>1. Coming(n, q) = {} /\ \A j \in P : ~(j <= i - 1)
          BY <3>4, <4>1, <4>2
        <5>2. \A j \in P : ~(j <= i)
          BY <1>2, <2>1, <4>1, <5>1
        <5>3. Fits(t, i)
          BY <4>2, <5>1, <5>2
        <5> HIDE DEF Fits
        <5> QED BY <1>3, <3>3, <5>3
      <4>3. CASE Coming(n, t) # {}
        <5>1. LastSays(n, s, y)
          BY <3>4, <3>5, <4>1, <4>3
        <5>2. LastSays(n, t, Heard(g, x, outs, i))
          BY <4>1, <5>1 DEF LastSays
        <5>3. Fits(t, i)
          BY <4>3, <5>2
        <5> HIDE DEF Fits
        <5> QED BY <1>3, <3>3, <5>3
      <4> QED BY <4>2, <4>3
    <3> QED BY <3>9, <3>10
  <2>5. Fits(f[l], l)
    <3> HIDE DEF Fits
    <3>1. \A i \in 0 .. l : i \in T
      <4> HIDE DEF T
      <4> QED BY <1>2, <2>3, <2>4, UpTo
    <3> QED BY <1>3, <3>1
  <2>6. (\A j \in P : ~(j <= l)) => P = {}
    BY <1>2, <2>1
  <2> QED BY <2>5, <2>6 DEF P
<1> QED BY <1>1, <1>4, <1>5 DEF l
-----------------------------------------------------------------------------
(* The network: what its steps do to the goals.                            *)

(* Nobody has enabled or disabled h, or brought it back. *)
Stays(h) ==
  goal'[h].spawned => goal[h].spawned /\ goal'[h].enabled = goal[h].enabled

(* A goal that mirrors g: what is on its way, or else what it is.          *)
Follows(n, g) ==
  goal[g].spawned =>
    IF Coming(n, queue) = {} THEN Follow(n, goal[g].activated)
                             ELSE LastSays(n, queue, goal[g].activated)

(* The goals that have had the event at the head are what it says. *)
Served(n) ==
  \A i \in DOMAIN Named[n] :
    i <= visited /\ queue[1].target = n /\ goal[Named[n][i]].spawned =>
      (goal[Named[n][i]].enabled <=> queue[1].input = "Enable")

(* Events are only handed out while their service goes on. *)
Serving ==
  /\ visited \in Nat
  /\ visited > 0 => frame = "service" /\ queue # <<>> /\ queue[1].after <= 0

NInv ==
  /\ IInv /\ Silent /\ Network(queue) /\ Serving
  /\ \A n \in Names, g \in Goals : Mirrors(n, g) => Follows(n, g) /\ Served(n)

(* A handler that leaves the record r behind. *)
LEMMA SettleStays ==
  ASSUME IInv, NEW k \in Goals, NEW r \in GoalState, Settle(k, r),
         r.spawned => goal[k].spawned, r.enabled = goal[k].enabled, NEW h \in Goals
  PROVE  Stays(h)
<1>1. goal \in [Goals -> GoalState]
  BY DEF IInv, TypeOK
<1>2. CASE h = k
  <2>1. goal'[h] = [r EXCEPT !.out = <<>>]
    BY <1>1, <1>2 DEF Settle
  <2>2. goal'[h].spawned = r.spawned /\ goal'[h].enabled = r.enabled
    BY <2>1 DEF GoalState
  <2> QED BY <1>2, <2>2 DEF Stays
<1>3. CASE h # k
  BY <1>1, <1>3, OnlyOne DEF Stays
<1> QED BY <1>2, <1>3

LEMMA LaunchStays ==
  ASSUME IInv, NEW k \in Goals, NEW r \in GoalState, Launch(k, r),
         r.spawned => goal[k].spawned, r.enabled = goal[k].enabled, NEW h \in Goals
  PROVE  Stays(h) /\ rounds' = rounds
<1>1. CASE Stop("overflowed")
  BY <1>1 DEF Stop, Stays
<1>2. CASE Settle(k, r) /\ UNCHANGED <<team, server, rounds>>
  BY <1>2, SettleStays
<1> QED BY <1>1, <1>2 DEF Launch

(* No goal is enabled or disabled but by an input. *)
LEMMA StartStays ==
  ASSUME IInv, NEW k \in Goals, goal[k] \in GoalState, ~goal[k].active,
         GoalCoherent(k, goal[k]), NEW p \in Entities,
         Launch(k, ActivateGoalStart(k, goal[k], p)), NEW h \in Goals
  PROVE  Stays(h) /\ rounds' = rounds
<1> DEFINE r == ActivateGoalStart(k, goal[k], p)
<1>1. r \in GoalState /\ Keeps(k, goal[k], r)
  BY Starting
<1> HIDE DEF r
<1>2. r.spawned = goal[k].spawned /\ r.enabled = goal[k].enabled
  BY <1>1 DEF Keeps
<1>3. Launch(k, r)
  BY DEF r
<1> QED BY <1>1, <1>2, <1>3, LaunchStays

LEMMA ActStays ==
  ASSUME IInv, Act, NEW h \in Goals
  PROVE  Stays(h) /\ rounds' = rounds /\ Next
<1>0. /\ goal \in [Goals -> GoalState] /\ World \in Entities /\ Players \subseteq Entities
      /\ Null \in Entities
  BY DEF IInv, TypeOK, Entities
<1>1. ASSUME Running, NEW k \in Goals PROVE GoalCoherent(k, goal[k]) /\ goal[k] \in GoalState
  BY <1>1 DEF IInv, Settled, Running
<1>2. ASSUME NEW k \in Goals, Activate(k) PROVE Stays(h) /\ rounds' = rounds
  <2> DEFINE s == Spawned(k)
             t == IF HasFlag(k, "START_ACTIVE") THEN ActivateGoalStart(k, s, World) ELSE s
             r == [t EXCEPT !.nodraw = @ \/ (Kind[k] # "trigger" /\ ~s.enabled)]
  <2>1. s \in GoalState /\ GoalCoherent(k, s) /\ ~s.active /\ s.spawned
    BY Spawning
  <2>2. goal[k] = s /\ Activated(k, s) = r
    BY <1>2 DEF Activate, IInv, Activated
  <2>3. Launch(k, r) \/ (Settle(k, r) /\ UNCHANGED <<team, server, rounds>>)
    BY <1>2, <2>2 DEF Activate
  <2> HIDE DEF s
  <2>4. t \in GoalState /\ t.enabled = s.enabled
    BY <1>0, <2>1, Starting DEF Keeps
  <2> HIDE DEF t
  <2>5. r \in GoalState /\ r.enabled = s.enabled
    BY <2>1, <2>4 DEF GoalState
  <2> HIDE DEF r
  <2> QED BY <2>1, <2>2, <2>3, <2>5, LaunchStays, SettleStays
<1>3. ASSUME NEW k \in Goals, NEW p \in Players, Touch(k, p) PROVE Stays(h) /\ rounds' = rounds
  <2>1. CASE Launch(k, ActivateGoalStart(k, goal[k], p))
    <3>1. Running /\ ~goal[k].active /\ p \in Entities
      BY <1>0, <1>3 DEF Touch
    <3> QED BY <1>1, <2>1, <3>1, StartStays
  <2>2. CASE Stop("faulted")
    BY <2>2 DEF Stop, Stays
  <2> QED BY <1>3, <2>1, <2>2 DEF Touch
<1>4. ASSUME NEW k \in Goals, Think(k) PROVE Stays(h) /\ rounds' = rounds
  <2> DEFINE r == RunThink(k, goal[k])
  <2>1. Settle(k, r) /\ rounds' = rounds /\ Running
    BY <1>4 DEF Think
  <2>2. r \in GoalState /\ Keeps(k, goal[k], r)
    BY <1>1, <2>1, Thinking
  <2> HIDE DEF r
  <2> QED BY <2>1, <2>2, SettleStays DEF Keeps
<1>5. ASSUME NEW k \in Goals, CarrierMoves(k) PROVE Stays(h) /\ rounds' = rounds
  <2>1. goal' = [goal EXCEPT ![k].away = ~@] /\ rounds' = rounds
    BY <1>5 DEF CarrierMoves
  <2>2. goal'[h].spawned = goal[h].spawned /\ goal'[h].enabled = goal[h].enabled
    BY <1>0, <2>1 DEF GoalState
  <2> QED BY <2>1, <2>2 DEF Stays
<1>6. ASSUME NEW p \in Players, NEW t \in Teams \cup {Null}, ChangeTeam(p, t)
      PROVE  Stays(h) /\ rounds' = rounds
  BY <1>6 DEF ChangeTeam, Stays
<1>7. ASSUME NEW p \in Players, Disconnect(p) PROVE Stays(h) /\ rounds' = rounds
  <2>1. /\ goal'[h] = IF goal[h].carrier = p THEN Gone(h)
                      ELSE [goal[h] EXCEPT !.activator = IF @ = p THEN Null ELSE @]
        /\ rounds' = rounds
    BY <1>7 DEF Disconnect
  <2>2. ~Gone(h).spawned
    BY DEF Gone, Spawned
  <2>3. CASE goal[h].carrier = p
    BY <2>1, <2>2, <2>3 DEF Stays
  <2>4. CASE goal[h].carrier # p
    <3>1. goal'[h].spawned = goal[h].spawned /\ goal'[h].enabled = goal[h].enabled
      BY <1>0, <2>1, <2>4 DEF GoalState
    <3> QED BY <2>1, <3>1 DEF Stays
  <2> QED BY <2>3, <2>4
<1>8. Next
  BY DEF Act, Next
<1> QED BY <1>2, <1>3, <1>4, <1>5, <1>6, <1>7, <1>8 DEF Act

(* An input only enables or disables the goal it comes to, and does so     *)
(* unless that goal is gone.                                               *)
LEMMA InputStays ==
  ASSUME IInv, Running, NEW k \in Goals, NEW input \in Inputs, NEW a \in Entities,
         AcceptInput(k, input, a), NEW h \in Goals
  PROVE  /\ rounds' = rounds
         /\ goal'[h].spawned => goal[h].spawned
         /\ h # k \/ input \notin {"Enable", "Disable"} => Stays(h)
         /\ h = k /\ input \in {"Enable", "Disable"} /\ goal'[h].spawned =>
              (goal'[h].enabled <=> input = "Enable")
<1>0. /\ goal \in [Goals -> GoalState] /\ World \in Entities
      /\ GoalCoherent(k, goal[k]) /\ goal[k] \in GoalState
  BY DEF IInv, TypeOK, Entities, Settled, Running
<1>1. CASE Ignore(k, input)
  <2>1. goal' = goal /\ rounds' = rounds
        /\ (input \in {"Enable", "Disable"} => ~goal[k].spawned)
    BY <1>1 DEF Ignore, Refuses
  <2> QED BY <2>1 DEF Stays
<1>2. CASE input = "Enable" /\ InputEnable(k, a)
  <2> DEFINE r == Enable(k, goal[k], a)
             e == [r EXCEPT !.out = <<>>]
  <2>1. r \in GoalState /\ r.spawned = goal[k].spawned /\ r.enabled = TRUE
    BY <1>0, Enabling, InputsSeen
  <2>2. Settle(k, r) /\ rounds' = rounds
    BY <1>2 DEF InputEnable
  <2> HIDE DEF r
  <2>3. e.spawned = r.spawned /\ e.enabled = r.enabled
    BY <2>1 DEF GoalState
  <2>4. goal'[k] = e
    BY <1>0, <2>2 DEF Settle
  <2>5. h # k => Stays(h)
    BY <1>0, <2>1, <2>2, OnlyOne DEF Stays
  <2>6. h # k => goal'[h] = goal[h]
    BY <1>0, <2>1, <2>2, OnlyOne
  <2> HIDE DEF e
  <2> QED BY <1>2, <2>1, <2>2, <2>3, <2>4, <2>5, <2>6
<1>3. CASE input = "Disable" /\ InputDisable(k, a)
  <2> DEFINE r == Disable(k, goal[k], a)
             e == [r EXCEPT !.out = <<>>]
  <2>1. r \in GoalState /\ r.spawned = goal[k].spawned /\ r.enabled = FALSE
    BY <1>0, Disabling, InputsSeen
  <2>2. Settle(k, r) /\ rounds' = rounds
    BY <1>3 DEF InputDisable
  <2> HIDE DEF r
  <2>3. e.spawned = r.spawned /\ e.enabled = r.enabled
    BY <2>1 DEF GoalState
  <2>4. goal'[k] = e
    BY <1>0, <2>2 DEF Settle
  <2>5. h # k => Stays(h)
    BY <1>0, <2>1, <2>2, OnlyOne DEF Stays
  <2>6. h # k => goal'[h] = goal[h]
    BY <1>0, <2>1, <2>2, OnlyOne
  <2> HIDE DEF e
  <2> QED BY <1>3, <2>1, <2>2, <2>3, <2>4, <2>5, <2>6
<1>4. CASE input = "Activate" /\ InputActivate(k)
  <2>1. Stays(h) /\ rounds' = rounds
    BY <1>0, <1>4, StartStays DEF InputActivate
  <2> QED BY <1>4, <2>1 DEF Stays
<1>5. CASE input = "Inactivate" /\ InputInactivate(k)
  <2> DEFINE r == Inactivate(k, goal[k])
  <2>1. r \in GoalState /\ Keeps(k, goal[k], r)
    BY <1>0, Inactivating
  <2>2. Settle(k, r) /\ rounds' = rounds
    BY <1>5 DEF InputInactivate
  <2> HIDE DEF r
  <2>3. Stays(h)
    BY <2>1, <2>2, SettleStays DEF Keeps
  <2> QED BY <1>5, <2>2, <2>3 DEF Stays
<1> QED BY <1>1, <1>2, <1>3, <1>4, <1>5 DEF AcceptInput

(* A step of one goal, or one that leaves the goals alone. *)
LEMMA GoalsStep ==
  ASSUME IInv, Silent, Next \/ (fired' = <<>> /\ UNCHANGED <<goal, team, server, loading, rounds>>)
  PROVE  IInv' /\ Silent' /\ \A g \in Goals : Tells(g)
<1>1. CASE Next
  <2>1. IInv'
    BY <1>1, Stepping
  <2>2. \A g \in Goals : Tells(g) /\ Silent'
    BY <1>1, TellingStep
  <2>3. Goals = {} => Silent'
    BY DEF Silent
  <2> QED BY <2>1, <2>2, <2>3
<1>2. CASE fired' = <<>> /\ UNCHANGED <<goal, team, server, loading, rounds>>
  <2>1. <<>> \in Seq(Output)
    OBVIOUS
  <2>2. TypeOK'
    BY <1>2, <2>1 DEF IInv, TypeOK
  <2>3. IInv'
    BY <1>2, <2>2 DEF IInv
  <2>4. \A g \in Goals : Tells(g)
    BY <1>2, QuietTells
  <2> QED BY <1>2, <2>3, <2>4 DEF Silent
<1> QED BY <1>1, <1>2

(* A step that posts what it fires: what comes to a name that mirrors g    *)
(* goes on to say what g is, as long as nobody else touches the mirrors    *)
(* while nothing is on its way.                                            *)
LEMMA PostFollows ==
  ASSUME IInv, IInv', Network(queue), queue' = Post(queue, fired'),
         NEW n \in Names, NEW g \in Goals, Mirrors(n, g), Follows(n, g),
         Tells(g), rounds' = rounds, goal'[g].spawned => goal[g].spawned,
         Coming(n, queue) = {} => \A i \in DOMAIN Named[n] : Stays(Named[n][i])
  PROVE  Follows(n, g)'
<1> SUFFICES ASSUME goal'[g].spawned
             PROVE  IF Coming(n, queue') = {} THEN Follow(n, goal[g].activated)'
                                              ELSE LastSays(n, queue', goal'[g].activated)
  BY DEF Follows, LastSays, Coming
<1> DEFINE x == goal[g].activated
           l == Len(fired')
<1>1. fired' \in Seq(Output) /\ x \in BOOLEAN /\ goal'[g].activated \in BOOLEAN
  BY DEF IInv, TypeOK, GoalState
<1>2. goal'[g].activated <=> Heard(g, x, fired', l)
  BY DEF Tells
<1>3. Coming(n, queue) # {} => LastSays(n, queue, x)
  BY DEF Follows
<1>4. IF Coming(n, queue') = {}
        THEN Coming(n, queue) = {} /\ PhaseOutputs(g, fired') = {}
        ELSE LastSays(n, queue', Heard(g, x, fired', l))
  <2> HIDE DEF x, l
  <2>1. PICK outs, q : outs \in Seq(Output) /\ outs = fired' /\ q = queue
    BY <1>1
  <2>2. LET t == Post(q, outs)
        IN  Mirrors(n, g) /\ (Coming(n, q) # {} => LastSays(n, q, x)) =>
              IF Coming(n, t) = {}
                THEN Coming(n, q) = {} /\ PhaseOutputs(g, outs) = {}
                ELSE LastSays(n, t, Heard(g, x, outs, Len(outs)))
    BY <1>1, <2>1, PostTells
  <2> QED BY <1>3, <2>1, <2>2 DEF l
<1>5. CASE Coming(n, queue') = {}
  <2>1. Coming(n, queue) = {} /\ PhaseOutputs(g, fired') = {}
    BY <1>4, <1>5
  <2>2. {i \in PhaseOutputs(g, fired') : i <= l} = {}
    BY <2>1
  <2>3. goal'[g].activated <=> x
    BY <1>2, <2>2, Zenon DEF Heard
  <2>4. \A i \in DOMAIN Named[n] :
          goal[Named[n][i]].spawned => (goal[Named[n][i]].enabled <=> x)
    BY <2>1 DEF Follows, Follow
  <2>5. \A i \in DOMAIN Named[n] :
          goal'[Named[n][i]].spawned => (goal'[Named[n][i]].enabled <=> goal'[g].activated)
    BY <2>1, <2>3, <2>4 DEF Stays
  <2> QED BY <1>5, <2>5 DEF Follow
<1>6. CASE Coming(n, queue') # {}
  BY <1>2, <1>4, <1>6 DEF LastSays
<1> QED BY <1>5, <1>6

(* The beginning: nothing is on its way and the mirrors start disabled. *)
LEMMA NetBeginning == NetInit => NInv
<1> SUFFICES ASSUME NetInit PROVE NInv
  OBVIOUS
<1>1. /\ goal = [g \in Goals |-> Spawned(g)] /\ queue = <<>> /\ frame = "think" /\ visited = 0
  BY DEF NetInit, Init
<1>2. IInv /\ Silent
  BY <1>1, Beginning DEF NetInit, Silent, Spawned
<1>3. Network(queue) /\ Serving
  BY <1>1 DEF Network, Sorted, Serving
<1>4. ASSUME NEW n \in Names, NEW g \in Goals, Mirrors(n, g) PROVE Follows(n, g) /\ Served(n)
  <2>1. Coming(n, queue) = {}
    BY <1>1 DEF Coming
  <2>2. Named[n] \in Seq(Goals)
    BY NetworkAssumption
  <2>3. \A i \in DOMAIN Named[n] : Named[n][i] \in Goals /\ ~(i <= 0)
    BY <2>2
  <2>4. \A h \in Goals : Spawned(h).activated = FALSE /\ Spawned(h).enabled = HasFlag(h, "START_ENABLED")
    BY DEF Spawned
  <2>5. Follow(n, goal[g].activated)
    BY <1>1, <1>4, <2>3, <2>4 DEF Follow, Mirrors
  <2> QED BY <1>1, <2>1, <2>3, <2>5 DEF Follows, Served
<1> QED BY <1>2, <1>3, <1>4 DEF NInv

(* A clean-up is another beginning. *)
LEMMA CleanUpFollows == NInv /\ CleanUp => NInv'
<1> SUFFICES ASSUME NInv, CleanUp PROVE NInv'
  OBVIOUS
<1>1. /\ goal' = [g \in Goals |-> Spawned(g)] /\ queue' = <<>> /\ frame = "think"
      /\ visited' = visited /\ CleanUpMap
  BY DEF CleanUp, CleanUpMap
<1>2. IInv' /\ Silent'
  BY <1>1, GoalsStep DEF NInv, Next
<1>3. visited' = 0
  BY <1>1 DEF NInv, Serving
<1>4. Network(queue') /\ Serving'
  BY <1>1, <1>3 DEF Network, Sorted, Serving
<1>5. ASSUME NEW n \in Names, NEW g \in Goals, Mirrors(n, g) PROVE Follows(n, g)' /\ Served(n)'
  <2>1. Coming(n, queue') = {}
    BY <1>1 DEF Coming
  <2>2. Named[n] \in Seq(Goals)
    BY NetworkAssumption
  <2>3. \A i \in DOMAIN Named[n] : Named[n][i] \in Goals /\ ~(i <= 0)
    BY <2>2
  <2>4. \A h \in Goals : Spawned(h).activated = FALSE /\ Spawned(h).enabled = HasFlag(h, "START_ENABLED")
    BY DEF Spawned
  <2>5. Follow(n, goal[g].activated)'
    BY <1>1, <1>5, <2>3, <2>4 DEF Follow, Mirrors
  <2> QED BY <1>3, <2>1, <2>3, <2>5 DEF Follows, Served, Coming
<1>6. Network(queue)'
  BY <1>4 DEF Network, Wired
<1> QED BY <1>2, <1>4, <1>5, <1>6 DEF NInv, Mirrors, WiresTo, HasFlag

(* What the map and the players do. *)
LEMMA ActFollows == NInv /\ Act => NInv'
<1> SUFFICES ASSUME NInv, Act PROVE NInv'
  OBVIOUS
<1>1. /\ frame = "think" /\ frame' = frame /\ visited' = visited
      /\ queue' = Post(queue, fired') /\ Network(queue)
  BY DEF Act, NInv
<1>2. IInv /\ Silent /\ visited = 0
  BY <1>1 DEF NInv, Serving
<1>3. \A h \in Goals : Stays(h) /\ rounds' = rounds /\ Next
  BY <1>2, ActStays
<1>4. CASE Goals = {}
  <2>1. Next
    BY <1>2, <1>4 DEF Act, Next
  <2>2. IInv' /\ Silent'
    BY <1>2, <2>1, GoalsStep
  <2>3. fired' \in Seq(Output)
    BY <2>2 DEF IInv, TypeOK
  <2>4. Network(queue')
    BY <1>1, <2>3, PostTells
  <2> QED BY <1>1, <1>2, <1>4, <2>2, <2>4 DEF NInv, Serving, Network, Wired
<1>5. CASE Goals # {}
  <2>1. IInv' /\ Silent' /\ \A g \in Goals : Tells(g)
    BY <1>2, <1>3, <1>5, GoalsStep
  <2>2. fired' \in Seq(Output)
    BY <2>1 DEF IInv, TypeOK
  <2>3. Network(queue')
    BY <1>1, <2>2, PostTells
  <2>4. ASSUME NEW n \in Names, NEW g \in Goals, Mirrors(n, g) PROVE Follows(n, g)' /\ Served(n)'
    <3>1. Named[n] \in Seq(Goals)
      BY NetworkAssumption
    <3>2. \A i \in DOMAIN Named[n] : Named[n][i] \in Goals /\ ~(i <= 0)
      BY <3>1
    <3>3. Follows(n, g)
      BY <2>4 DEF NInv
    <3>4. goal'[g].spawned => goal[g].spawned
      BY <1>3 DEF Stays
    <3>5. Follows(n, g)'
      BY <1>1, <1>2, <1>3, <2>1, <2>4, <3>2, <3>3, <3>4, PostFollows
    <3>6. Served(n)'
      BY <1>1, <1>2, <3>2 DEF Served
    <3> QED BY <3>5, <3>6
  <2> QED BY <1>1, <1>2, <2>1, <2>3, <2>4 DEF NInv, Serving, Network, Wired, Mirrors, WiresTo, HasFlag
<1> QED BY <1>4, <1>5

(* The event at the head comes to one goal more. *)
LEMMA DeliverFollows == NInv /\ Deliver => NInv'
<1> SUFFICES ASSUME NInv, Deliver PROVE NInv'
  OBVIOUS
<1> DEFINE e == queue[1]
           k == Named[e.target][visited + 1]
<1>1. /\ Running /\ frame = "service" /\ frame' = frame /\ visited' = visited + 1
      /\ queue' = Post(queue, fired') /\ Network(queue) /\ IInv /\ Silent /\ visited \in Nat
      /\ queue \in Seq(NetEvent)
  BY DEF Deliver, NInv, Serving, Network
<1>2. queue # <<>> /\ e.after <= 0 /\ visited < Len(Named[e.target])
      /\ AcceptInput(k, e.input, e.activator)
  BY DEF Deliver, Due, Targets
<1>3. 1 \in 1 .. Len(queue) /\ e \in NetEvent /\ Wired(e)
  <2>1. 1 \in 1 .. Len(queue)
    BY <1>1, <1>2
  <2> QED BY <1>1, <2>1 DEF Network
<1>4. e.target \in Names /\ e.input \in Inputs /\ e.activator \in Entities
  BY <1>3 DEF NetEvent
<1>5. Named[e.target] \in Seq(Goals)
  BY <1>4, NetworkAssumption
<1>6. visited + 1 \in DOMAIN Named[e.target] /\ k \in Goals
  BY <1>1, <1>2, <1>5
<1> HIDE DEF k
<1>7. \A h \in Goals :
        /\ rounds' = rounds
        /\ goal'[h].spawned => goal[h].spawned
        /\ h # k \/ e.input \notin {"Enable", "Disable"} => Stays(h)
        /\ h = k /\ e.input \in {"Enable", "Disable"} /\ goal'[h].spawned =>
             (goal'[h].enabled <=> e.input = "Enable")
  <2> HIDE DEF e
  <2> QED BY <1>1, <1>2, <1>4, <1>6, InputStays
<1>8. Next \/ (fired' = <<>> /\ UNCHANGED <<goal, team, server, loading, rounds>>)
  <2> HIDE DEF e
  <2> QED BY <1>2, <1>4, <1>6 DEF AcceptInput, Ignore, Next
<1>9. IInv' /\ Silent' /\ \A g \in Goals : Tells(g)
  BY <1>1, <1>8, GoalsStep
<1>10. fired' \in Seq(Output)
  BY <1>9 DEF IInv, TypeOK
<1>11. Network(queue') /\ HeadKept(queue, queue')
  <2>1. PICK outs, q : outs \in Seq(Output) /\ outs = fired' /\ q = queue
    BY <1>10
  <2>2. Network(Post(q, outs)) /\ HeadKept(q, Post(q, outs))
    BY <1>1, <2>1, PostTells
  <2> QED BY <1>1, <2>1, <2>2
<1>12. queue' # <<>> /\ queue'[1] = e
  BY <1>2, <1>11 DEF HeadKept
<1>13. Serving'
  BY <1>1, <1>2, <1>12 DEF Serving
<1>14. ASSUME NEW n \in Names, NEW g \in Goals, Mirrors(n, g) PROVE Follows(n, g)' /\ Served(n)'
  <2>1. Named[n] \in Seq(Goals)
    BY NetworkAssumption
  <2>2. \A i \in DOMAIN Named[n] : Named[n][i] \in Goals /\ i \in Int
    BY <2>1
  <2>3. Follows(n, g) /\ Served(n)
    BY <1>14 DEF NInv
  <2>4. ASSUME e.target # n PROVE \A i \in DOMAIN Named[n] : Stays(Named[n][i])
    <3>1. CASE e.input \notin {"Enable", "Disable"}
      BY <1>7, <2>2, <3>1
    <3>2. CASE e.input \in {"Enable", "Disable"}
      <4>1. PICK h \in Goals, o \in Outputs : \E j \in DOMAIN Wires[h][o] :
              e.target = Wires[h][o][j].name /\ e.input = Wires[h][o][j].input
        BY <1>3 DEF Wired
      <4>2. PICK j \in DOMAIN Wires[h][o] :
              e.target = Wires[h][o][j].name /\ e.input = Wires[h][o][j].input
        BY <4>1
      <4>3. PICK m : m = e.target /\ m \in Names \ {n}
        BY <1>4, <2>4
      <4>4. j \in WiresTo(m, h, o) /\ Wires[h][o][j].input \in {"Enable", "Disable"}
        BY <3>2, <4>2, <4>3 DEF WiresTo
      <4>5. \A i \in DOMAIN Named[n], y \in DOMAIN Named[m] : Named[n][i] # Named[m][y]
        BY <1>14, <4>3, <4>4 DEF Mirrors
      <4>6. \A i \in DOMAIN Named[n] : Named[n][i] # k
        BY <1>6, <4>3, <4>5 DEF k
      <4> QED BY <1>7, <2>2, <4>6
    <3> QED BY <3>1, <3>2
  <2>5. e.target = n => Coming(n, queue) # {}
    BY <1>3 DEF Coming
  <2>6. goal'[g].spawned => goal[g].spawned
    BY <1>7
  <2>7. Follows(n, g)'
    BY <1>1, <1>7, <1>9, <1>14, <2>3, <2>4, <2>5, <2>6, PostFollows
  <2>8. ASSUME NEW i \in DOMAIN Named[n], i <= visited', e.target = n, goal'[Named[n][i]].spawned
        PROVE  goal'[Named[n][i]].enabled <=> e.input = "Enable"
    <3>1. PICK h : h = Named[n][i] /\ h \in Goals
      BY <2>2
    <3>2. e.input \in {"Enable", "Disable"}
      <4> HIDE DEF e
      <4>1. PICK d \in Nat :
              \A z \in Goals, o \in Outputs : \A j \in WiresTo(n, z, o) :
                /\ Wires[z][o][j].delay = d
                /\ Wires[z][o][j].input = IF o = "OnActive" THEN "Enable" ELSE "Disable"
        BY <1>14, MirrorWires
      <4>2. PICK u : u = e
        OBVIOUS
      <4>3. Wired(u) /\ u.target = n
        BY <1>3, <2>8, <4>2
      <4>4. u.input \in {"Enable", "Disable"}
        BY <4>1, <4>3, MirrorEvents
      <4> QED BY <4>2, <4>4
    <3>3. CASE h = k
      BY <1>7, <2>8, <3>1, <3>2, <3>3
    <3>4. CASE h # k
      <4>1. i # visited + 1
        BY <2>8, <3>1, <3>4 DEF k
      <4>2. i <= visited
        BY <1>1, <2>2, <2>8, <4>1
      <4>3. Stays(h)
        BY <1>7, <3>1, <3>4
      <4>4. goal[h].spawned /\ goal'[h].enabled = goal[h].enabled
        BY <2>8, <3>1, <4>3 DEF Stays
      <4>5. goal[h].enabled <=> e.input = "Enable"
        BY <2>3, <2>8, <3>1, <4>2, <4>4 DEF Served
      <4> QED BY <3>1, <4>4, <4>5
    <3> QED BY <3>3, <3>4
  <2>9. Served(n)'
    BY <1>12, <2>8 DEF Served
  <2> QED BY <2>7, <2>9
<1> QED BY <1>9, <1>11, <1>13, <1>14 DEF NInv, Network, Wired, Mirrors, WiresTo, HasFlag

(* Taking the first event from a list of the network. *)
LEMMA TailNetwork ==
  ASSUME NEW q, Network(q), q # <<>>
  PROVE  /\ Network(Tail(q))
         /\ \A n, x :
              /\ Coming(n, q) = {} => Coming(n, Tail(q)) = {}
              /\ LastSays(n, q, x) => IF Coming(n, Tail(q)) = {}
                                        THEN q[1].target = n /\ (q[1].input = "Enable" <=> x)
                                        ELSE LastSays(n, Tail(q), x)
<1> DEFINE t == Tail(q)
           m == Len(q)
<1>1. q \in Seq(NetEvent) /\ Sorted(q) /\ m \in Nat /\ \A i \in 1 .. m : Wired(q[i])
  BY DEF Network
<1>2. /\ t \in Seq(NetEvent) /\ Len(t) = m - 1
      /\ \A i \in 1 .. Len(t) : t[i] = q[i + 1]
      /\ Thinned(q, t, {q[1]})
  BY <1>1, TailThins
<1> HIDE DEF t, m
<1>3. \A i \in 1 .. m - 1 : i + 1 \in 1 .. m /\ t[i] = q[i + 1]
  BY <1>1, <1>2
<1>4. Network(t)
  <2>1. Sorted(t)
    BY <1>1, <1>2, ThinnedIsSorted
  <2>2. \A i \in 1 .. Len(t) : Wired(t[i])
    BY <1>1, <1>2, <1>3
  <2> QED BY <1>2, <2>1, <2>2 DEF Network
<1>5. ASSUME NEW n, NEW x
      PROVE  /\ Coming(n, q) = {} => Coming(n, t) = {}
             /\ LastSays(n, q, x) => IF Coming(n, t) = {}
                                       THEN q[1].target = n /\ (q[1].input = "Enable" <=> x)
                                       ELSE LastSays(n, t, x)
  <2>1. Coming(n, q) = {i \in 1 .. m : q[i].target = n}
    BY <1>1 DEF Coming, m
  <2>2. Coming(n, t) = {i \in 1 .. m - 1 : t[i].target = n}
    BY <1>2 DEF Coming
  <2>3. ASSUME NEW i \in Coming(n, t) PROVE i + 1 \in Coming(n, q) /\ i \in Nat
    BY <1>1, <1>3, <2>1, <2>2
  <2>4. ASSUME NEW i \in Coming(n, q), i # 1
        PROVE  i - 1 \in Coming(n, t) /\ t[i - 1] = q[i]
    <3>1. i \in 1 .. m /\ i - 1 \in 1 .. m - 1 /\ (i - 1) + 1 = i
      BY <1>1, <2>1, <2>4
    <3> QED BY <1>3, <2>1, <2>2, <3>1
  <2>5. ASSUME LastSays(n, q, x)
        PROVE  IF Coming(n, t) = {} THEN q[1].target = n /\ (q[1].input = "Enable" <=> x)
                                    ELSE LastSays(n, t, x)
    <3>1. PICK i \in Coming(n, q) :
            (\A j \in Coming(n, q) : j <= i) /\ (q[i].input = "Enable" <=> x)
      BY <2>5 DEF LastSays
    <3>2. CASE i = 1
      <4>1. ASSUME NEW j \in Coming(n, t) PROVE FALSE
        <5>1. j + 1 <= 1 /\ j \in 1 .. m - 1
          BY <2>2, <2>3, <3>1, <3>2
        <5> QED BY <1>1, <5>1
      <4> QED BY <2>1, <3>1, <3>2, <4>1
    <3>3. CASE i # 1
      <4>1. i - 1 \in Coming(n, t) /\ t[i - 1] = q[i]
        BY <2>4, <3>3
      <4>2. \A j \in Coming(n, t) : j <= i - 1
        BY <1>1, <2>1, <2>3, <3>1
      <4> QED BY <3>1, <4>1, <4>2 DEF LastSays
    <3> QED BY <3>2, <3>3
  <2>6. Coming(n, q) = {} => Coming(n, t) = {}
    BY <2>3
  <2> QED BY <2>5, <2>6
<1> QED BY <1>4, <1>5 DEF t

(* The event at the head has come to every goal of its name. *)
LEMMA RemoveFollows == NInv /\ RemoveEvent => NInv'
<1> SUFFICES ASSUME NInv, RemoveEvent PROVE NInv'
  OBVIOUS
<1>1. /\ queue # <<>> /\ visited = Len(Named[queue[1].target])
      /\ queue' = Tail(queue) /\ visited' = 0
      /\ fired' = <<>> /\ UNCHANGED <<goal, team, server, loading, rounds>>
      /\ IInv /\ Silent /\ Network(queue)
  BY DEF RemoveEvent, Due, Targets, NInv
<1>2. IInv' /\ Silent'
  BY <1>1, GoalsStep
<1>3. /\ Network(queue')
      /\ \A n, x :
           /\ Coming(n, queue) = {} => Coming(n, queue') = {}
           /\ LastSays(n, queue, x) => IF Coming(n, queue') = {}
                THEN queue[1].target = n /\ (queue[1].input = "Enable" <=> x)
                ELSE LastSays(n, queue', x)
  <2>1. PICK q : q = queue
    OBVIOUS
  <2> QED BY <1>1, <2>1, TailNetwork
<1>4. ASSUME NEW n \in Names, NEW g \in Goals, Mirrors(n, g) PROVE Follows(n, g)' /\ Served(n)'
  <2>1. Named[n] \in Seq(Goals)
    BY NetworkAssumption
  <2>2. \A i \in DOMAIN Named[n] : i <= Len(Named[n]) /\ ~(i <= 0)
    BY <2>1
  <2>3. Follows(n, g) /\ Served(n)
    BY <1>4 DEF NInv
  <2>4. PICK x : x = goal[g].activated
    OBVIOUS
  <2>5. ASSUME goal[g].spawned
        PROVE  IF Coming(n, queue') = {} THEN Follow(n, x) ELSE LastSays(n, queue', x)
    <3>1. CASE Coming(n, queue) = {}
      <4>1. Coming(n, queue') = {}
        BY <1>3, <3>1
      <4>2. Follow(n, x)
        BY <2>3, <2>4, <2>5, <3>1 DEF Follows
      <4> QED BY <4>1, <4>2
    <3>2. CASE Coming(n, queue) # {}
      <4>1. LastSays(n, queue, x)
        BY <2>3, <2>4, <2>5, <3>2 DEF Follows
      <4>2. IF Coming(n, queue') = {}
              THEN queue[1].target = n /\ (queue[1].input = "Enable" <=> x)
              ELSE LastSays(n, queue', x)
        BY <1>3, <4>1
      <4>3. CASE Coming(n, queue') = {}
        <5>1. queue[1].target = n /\ (queue[1].input = "Enable" <=> x)
          BY <4>2, <4>3
        <5>2. \A i \in DOMAIN Named[n] :
                goal[Named[n][i]].spawned => (goal[Named[n][i]].enabled <=> queue[1].input = "Enable")
          BY <1>1, <2>2, <2>3, <5>1 DEF Served
        <5> QED BY <4>3, <5>1, <5>2 DEF Follow
      <4> QED BY <4>2, <4>3
    <3> QED BY <3>1, <3>2
  <2>6. Follow(n, x) => Follow(n, goal[g].activated)'
    BY <1>1, <2>4 DEF Follow
  <2>7. goal' = goal /\ (goal'[g].activated = x)
    BY <1>1, <2>4
  <2>8. Follows(n, g)'
    BY <2>5, <2>6, <2>7 DEF Follows, Coming, LastSays
  <2>9. Served(n)'
    BY <1>1, <2>2 DEF Served
  <2> QED BY <2>8, <2>9
<1>5. Serving'
  BY <1>1 DEF Serving
<1> QED BY <1>2, <1>3, <1>4, <1>5 DEF NInv, Network, Wired, Mirrors, WiresTo, HasFlag

(* The service begins. *)
LEMMA StartFollows == NInv /\ StartService => NInv'
<1> SUFFICES ASSUME NInv, StartService PROVE NInv'
  OBVIOUS
<1>1. UNCHANGED <<goal, team, fired, server, loading, rounds, queue, visited>> /\ frame' = "service"
  BY DEF StartService
<1>2. Serving'
  BY <1>1 DEF NInv, Serving
<1>3. IInv' /\ Silent' /\ Network(queue)'
  BY <1>1 DEF NInv, IInv, TypeOK, Silent, Network, Wired
<1>4. ASSUME NEW n \in Names, NEW g \in Goals, Mirrors(n, g) PROVE Follows(n, g)' /\ Served(n)'
  BY <1>1, <1>4 DEF NInv, Follows, Follow, LastSays, Coming, Served
<1> QED BY <1>2, <1>3, <1>4 DEF NInv, Mirrors, WiresTo, HasFlag

(* Time goes on for every event of the list alike. *)
LEMMA ElapseNetwork ==
  ASSUME NEW q, Network(q)
  PROVE  /\ Network(Elapse(q, 1))
         /\ \A n : Coming(n, Elapse(q, 1)) = Coming(n, q)
         /\ \A n, x : LastSays(n, q, x) => LastSays(n, Elapse(q, 1), x)
<1> DEFINE t == Elapse(q, 1)
           m == Len(q)
<1>1. q \in Seq(NetEvent) /\ Sorted(q) /\ m \in Nat /\ DOMAIN q = 1 .. m
      /\ \A i \in 1 .. m : q[i] \in NetEvent /\ Wired(q[i])
  BY DEF Network
<1>2. t = [i \in 1 .. m |-> [q[i] EXCEPT !.after = @ - 1]]
  BY <1>1 DEF Elapse
<1> HIDE DEF t, m
<1>3. \A i \in 1 .. m : /\ t[i] \in NetEvent /\ t[i].after = q[i].after - 1
                        /\ t[i].target = q[i].target /\ t[i].input = q[i].input
                        /\ q[i].after \in Int
  <2> SUFFICES ASSUME NEW i \in 1 .. m
               PROVE  /\ t[i] \in NetEvent /\ t[i].after = q[i].after - 1
                      /\ t[i].target = q[i].target /\ t[i].input = q[i].input
                      /\ q[i].after \in Int
    OBVIOUS
  <2>1. PICK e \in NetEvent : e = q[i]
    BY <1>1
  <2>2. t[i] = [e EXCEPT !.after = @ - 1]
    BY <1>2, <2>1
  <2>3. e.after \in Int
    BY DEF NetEvent
  <2>4. [e EXCEPT !.after = @ - 1] \in NetEvent
    BY <2>3 DEF NetEvent
  <2> QED BY <2>1, <2>2, <2>3, <2>4 DEF NetEvent
<1>4. t \in [1 .. m -> NetEvent]
  BY <1>2, <1>3
<1>5. t \in Seq(NetEvent) /\ Len(t) = m /\ DOMAIN t = 1 .. m
  BY <1>1, <1>4
<1>6. Sorted(t)
  <2> SUFFICES ASSUME NEW i \in 1 .. m, NEW j \in 1 .. m, i < j PROVE t[i].after <= t[j].after
    BY <1>5 DEF Sorted
  <2>1. q[i].after <= q[j].after
    BY <1>1 DEF Sorted, m
  <2> QED BY <1>3, <2>1
<1>7. ASSUME NEW i \in 1 .. m PROVE Wired(t[i])
  <2>1. PICK h \in Goals, o \in Outputs : \E j \in DOMAIN Wires[h][o] :
          /\ q[i].target = Wires[h][o][j].name /\ q[i].input = Wires[h][o][j].input
          /\ q[i].after <= Wires[h][o][j].delay
    BY <1>1 DEF Wired
  <2>2. PICK j \in DOMAIN Wires[h][o] :
          /\ q[i].target = Wires[h][o][j].name /\ q[i].input = Wires[h][o][j].input
          /\ q[i].after <= Wires[h][o][j].delay
    BY <2>1
  <2>3. Wires[h][o][j].delay \in Nat
    <3>1. Wires[h][o] \in Seq(Wire)
      BY NetworkAssumption
    <3>2. Wires[h][o][j] \in Wire
      BY <2>2, <3>1
    <3> QED BY <3>2 DEF Wire
  <2>4. t[i].after <= Wires[h][o][j].delay
    BY <1>3, <2>2, <2>3
  <2> QED BY <1>3, <2>2, <2>4 DEF Wired
<1>8. Network(t)
  BY <1>5, <1>6, <1>7 DEF Network
<1>9. ASSUME NEW n PROVE Coming(n, t) = Coming(n, q)
  <2>1. \A i \in 1 .. m : t[i].target = n <=> q[i].target = n
    BY <1>3
  <2> QED BY <1>1, <1>5, <2>1 DEF Coming
<1>10. ASSUME NEW n, NEW x, LastSays(n, q, x) PROVE LastSays(n, t, x)
  <2>1. PICK i \in Coming(n, q) :
          (\A j \in Coming(n, q) : j <= i) /\ (q[i].input = "Enable" <=> x)
    BY <1>10 DEF LastSays
  <2>2. i \in 1 .. m
    BY <1>1, <2>1 DEF Coming
  <2> QED BY <1>3, <1>9, <2>1, <2>2 DEF LastSays
<1> QED BY <1>8, <1>9, <1>10 DEF t

(* The frame ends: nothing is due, so nothing is being handed out. *)
LEMMA EndFollows == NInv /\ EndFrame => NInv'
<1> SUFFICES ASSUME NInv, EndFrame PROVE NInv'
  OBVIOUS
<1>1. /\ queue' = Elapse(queue, 1) /\ visited' = visited /\ Tick
      /\ IInv /\ Silent /\ Network(queue) /\ ~Due(queue) /\ Serving
  BY DEF EndFrame, NInv
<1>2. IInv' /\ Silent'
  BY <1>1, GoalsStep DEF Next
<1>3. queue # <<>> => Head(queue) = queue[1]
  BY DEF Network
<1>4. visited = 0
  BY <1>1, <1>3 DEF Serving, Due
<1>5. Serving'
  BY <1>1, <1>4 DEF Serving
<1>6. /\ Network(queue')
      /\ \A n : Coming(n, queue') = Coming(n, queue)
      /\ \A n, x : LastSays(n, queue, x) => LastSays(n, queue', x)
  <2>1. PICK q : q = queue
    OBVIOUS
  <2> QED BY <1>1, <2>1, ElapseNetwork
<1>7. \A h \in Goals : /\ goal'[h].spawned = goal[h].spawned
                       /\ goal'[h].enabled = goal[h].enabled
                       /\ goal'[h].activated = goal[h].activated
  BY <1>1 DEF IInv, TypeOK, GoalState, Tick
<1>8. ASSUME NEW n \in Names, NEW g \in Goals, Mirrors(n, g) PROVE Follows(n, g)' /\ Served(n)'
  <2>1. Named[n] \in Seq(Goals)
    BY NetworkAssumption
  <2>2. \A i \in DOMAIN Named[n] : Named[n][i] \in Goals /\ ~(i <= 0)
    BY <2>1
  <2>3. Follows(n, g)
    BY <1>8 DEF NInv
  <2>4. PICK x : x = goal[g].activated
    OBVIOUS
  <2>5. ASSUME goal[g].spawned
        PROVE  IF Coming(n, queue') = {} THEN Follow(n, x)' ELSE LastSays(n, queue', x)
    <3>1. Follow(n, x) => Follow(n, x)'
      BY <1>7, <2>2 DEF Follow
    <3>2. IF Coming(n, queue) = {} THEN Follow(n, x) ELSE LastSays(n, queue, x)
      BY <2>3, <2>4, <2>5 DEF Follows
    <3> QED BY <1>6, <3>1, <3>2
  <2>6. goal'[g].activated = x /\ goal'[g].spawned = goal[g].spawned
    BY <1>7, <2>4
  <2>7. Follows(n, g)'
    BY <2>5, <2>6 DEF Follows, Follow, Coming, LastSays
  <2>8. Served(n)'
    BY <1>1, <1>4, <2>2 DEF Served
  <2> QED BY <2>7, <2>8
<1>9. Network(queue)'
  BY <1>6 DEF Network, Wired
<1> QED BY <1>2, <1>5, <1>8, <1>9 DEF NInv, Mirrors, WiresTo, HasFlag

(* The outputs of a goal and the list its events wait on are enough for    *)
(* other goals to follow it, on every map: the events of one delay arrive  *)
(* in the order they were fired, and each comes to every goal of its name  *)
(* before the next does.                                                   *)
THEOREM MirrorsAreFollowed == NetSpec => []MirrorsFollow
<1>1. NInv /\ UNCHANGED netVars => NInv'
  <2> SUFFICES ASSUME NInv, UNCHANGED netVars PROVE NInv'
    OBVIOUS
  <2>1. UNCHANGED <<goal, team, fired, server, loading, rounds, queue, frame, visited>>
    BY DEF netVars
  <2>2. IInv' /\ Silent' /\ Network(queue)' /\ Serving'
    BY <2>1 DEF NInv, IInv, TypeOK, Silent, Network, Wired, Serving
  <2>3. ASSUME NEW n \in Names, NEW g \in Goals, Mirrors(n, g) PROVE Follows(n, g)' /\ Served(n)'
    BY <2>1, <2>3 DEF NInv, Follows, Follow, LastSays, Coming, Served
  <2> QED BY <2>2, <2>3 DEF NInv, Mirrors, WiresTo, HasFlag
<1>2. NInv /\ [NetNext]_netVars => NInv'
  BY <1>1, ActFollows, CleanUpFollows, StartFollows, DeliverFollows, RemoveFollows, EndFollows
     DEF NetNext
<1>3. NInv => MirrorsFollow
  BY DEF NInv, MirrorsFollow, Follows
<1>4. QED
  BY <1>2, <1>3, NetBeginning, PTL DEF NetSpec
=============================================================================
