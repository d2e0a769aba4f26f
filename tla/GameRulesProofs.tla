-------------------------- MODULE GameRulesProofs --------------------------
(***************************************************************************)
(* Proofs about the game rules, for any number of players and any lengths  *)
(* of the limits, delays and animations.                                   *)
(***************************************************************************)
EXTENDS GameRules, TLAPS

-----------------------------------------------------------------------------
(* What the parts of Think do to the rules' state.                         *)

(* The ticks count down inside their ranges and set no flag.               *)
LEMMA PassingTime ==
  ASSUME NEW r \in RulesState
  PROVE  /\ PassTime(r) \in RulesState
         /\ PassTime(r).over = r.over /\ PassTime(r).changed = r.changed
         /\ PassTime(r).awaiting = r.awaiting /\ PassTime(r).heard = r.heard
         /\ PassTime(r).chat > 0 => r.chat > 0
         /\ r.chat = -1 => PassTime(r).chat = -1
<1>1. /\ r.chat \in -1 .. ChatTime /\ r.periodic \in -1 .. Period /\ r.left \in Nat \cup {-1}
      /\ r.restart \in RestartTimes /\ r.young \in 0 .. DeathAnimation + 1
  BY DEF RulesState
<1>2. TickDown(r.chat) \in -1 .. ChatTime /\ (TickDown(r.chat) > 0 => r.chat > 0)
      /\ (r.chat = -1 => TickDown(r.chat) = -1)
  BY <1>1, RulesAssumption DEF TickDown
<1>3. TickDown(r.periodic) \in -1 .. Period /\ TickDown(r.left) \in Nat \cup {-1}
  BY <1>1, RulesAssumption DEF TickDown
<1>4. (IF r.restart > 0 THEN r.restart - 1 ELSE r.restart) \in RestartTimes
  BY <1>1, RulesAssumption DEF RestartTimes, NotSet
<1>5. (IF r.young = 0 THEN 0 ELSE r.young - 1) \in 0 .. DeathAnimation + 1
  BY <1>1, RulesAssumption
<1>6. PassTime(r) \in RulesState
  BY <1>1, <1>2, <1>3, <1>4, <1>5 DEF PassTime, RulesState
<1>7. QED
  BY <1>2, <1>6 DEF PassTime, RulesState

(* The two commands keep the rest of the rules' state. *)
LEMMA Commanded ==
  ASSUME NEW r \in RulesState
  PROVE  /\ TakeDelayCommand(r) \in RulesState /\ TakeReadyCommand(r) \in RulesState
         /\ TakeDelayCommand(r).over = r.over /\ TakeDelayCommand(r).chat = r.chat
         /\ TakeDelayCommand(r).changed = r.changed
         /\ TakeDelayCommand(r).awaiting = r.awaiting /\ TakeDelayCommand(r).heard = r.heard
         /\ TakeReadyCommand(r).over = r.over /\ TakeReadyCommand(r).chat = r.chat
         /\ TakeReadyCommand(r).changed = r.changed
         /\ r.awaiting => TakeReadyCommand(r).awaiting
         /\ AllReadyHeard(TakeReadyCommand(r)) => AllReadyHeard(r)
<1>1. /\ TakeReadyCommand(r) \in RulesState
      /\ TakeReadyCommand(r).over = r.over /\ TakeReadyCommand(r).chat = r.chat
      /\ TakeReadyCommand(r).changed = r.changed
      /\ r.awaiting => TakeReadyCommand(r).awaiting
      /\ AllReadyHeard(TakeReadyCommand(r)) => AllReadyHeard(r)
  BY DEF TakeReadyCommand, AllReadyHeard, RulesState, RestartTimes, NotSet
<1>2. CASE r.restartVar = 0
  BY <1>1, <1>2 DEF TakeDelayCommand
<1>3. CASE r.restartVar # 0
  <2>1. r.restartVar \in Nat
    BY <1>3, RulesAssumption DEF RulesState
  <2>2. AtMost(r.restartVar, MaxDelay) \in 0 .. MaxDelay
    BY <2>1, RulesAssumption DEF AtMost
  <2>3. AtMost(r.restartVar, MaxDelay) \in RestartTimes /\ 0 \in Delays \cup {0}
    BY <2>2 DEF RestartTimes
  <2>4. TakeDelayCommand(r) = [r EXCEPT !.restart = AtMost(r.restartVar, MaxDelay),
                                        !.restartVar = 0]
    BY <1>3 DEF TakeDelayCommand
  <2>5. QED
    BY <1>1, <2>3, <2>4 DEF RulesState
<1>4. QED
  BY <1>2, <1>3

(* The periodic checks keep the game and the intermission as they are, and *)
(* find everybody ready only if everybody is.                              *)
LEMMA Periodic ==
  ASSUME NEW r \in RulesState
  PROVE  /\ PeriodicThink(r) \in RulesState
         /\ PeriodicThink(r).over = r.over /\ PeriodicThink(r).chat = r.chat
         /\ PeriodicThink(r).changed = r.changed
         /\ r.awaiting => PeriodicThink(r).awaiting
         /\ (r.awaiting => ~r.heard) /\ AllReadyHeard(PeriodicThink(r))
              => \A p \in Present : player[p].ready
<1> DEFINE c == CheckAllPlayersReady(r)
           d == TakeDelayCommand(c)
           e == TakeReadyCommand(d)
<1>1. /\ c \in RulesState /\ c.over = r.over /\ c.chat = r.chat
      /\ c.changed = r.changed /\ c.awaiting = r.awaiting
      /\ c.heard => r.heard \/ \A p \in Present : player[p].ready
  BY DEF CheckAllPlayersReady, RulesState
<1>2. /\ e \in RulesState /\ e.over = c.over /\ e.chat = c.chat /\ e.changed = c.changed
      /\ c.awaiting => e.awaiting
      /\ AllReadyHeard(e) => AllReadyHeard(c)
  BY <1>1, Commanded DEF AllReadyHeard
<1>3. CASE r.periodic >= 0
  BY <1>3 DEF PeriodicThink, AllReadyHeard
<1>4. CASE ~(r.periodic >= 0)
  <2>1. PeriodicThink(r) = [e EXCEPT !.periodic = Period]
    BY <1>4 DEF PeriodicThink, CheckRestartGame
  <2>2. [e EXCEPT !.periodic = Period] \in RulesState
    BY <1>2, RulesAssumption DEF RulesState
  <2>3. QED
    BY <1>1, <1>2, <2>1, <2>2 DEF AllReadyHeard, RulesState
<1>5. QED
  BY <1>3, <1>4

(* Setting off a ready restart touches the restart time and                *)
(* m_bAwaitingReadyRestart only.                                           *)
LEMMA Scheduling ==
  ASSUME NEW r \in RulesState
  PROVE  /\ ScheduleRestart(r) \in RulesState
         /\ ScheduleRestart(r).over = r.over /\ ScheduleRestart(r).chat = r.chat
         /\ ScheduleRestart(r).changed = r.changed /\ ~ScheduleRestart(r).awaiting
<1>1. ReadyDelay \in RestartTimes
  BY RulesAssumption DEF RestartTimes
<1>2. QED
  BY <1>1 DEF ScheduleRestart, RulesState

(* RestartGame starts the map's time anew and ends no game.                *)
LEMMA Restarting ==
  ASSUME NEW r \in RulesState
  PROVE  /\ RestartGame(r) \in RulesState
         /\ RestartGame(r).over = r.over /\ RestartGame(r).chat = -1
         /\ RestartGame(r).changed = r.changed
         /\ RestartGame(r).awaiting = r.awaiting /\ RestartGame(r).heard = r.heard
<1>1. -1 \in -1 .. ChatTime /\ NotSet \in RestartTimes
  BY RulesAssumption DEF RestartTimes, NotSet
<1>2. r.limit \in TimeLimits
  BY DEF RulesState
<1>3. r.limit \in Nat \cup {-1}
  BY <1>2, RulesAssumption
<1>4. QED
  BY <1>1, <1>3 DEF RestartGame, RulesState

(* A spawned player is frozen exactly during the intermission; who is not  *)
(* respawned is left as he was.                                            *)
LEMMA Spawning ==
  ASSUME NEW s \in PlayerState, NEW r \in RulesState
  PROVE  /\ Spawn(s, r) \in PlayerState /\ TryRespawn(s, r) \in PlayerState
         /\ Spawn(s, r).present = s.present /\ TryRespawn(s, r).present = s.present
         /\ Spawn(s, r).frozen <=> r.chat > 0
         /\ \/ TryRespawn(s, r).frozen <=> r.chat > 0
            \/ TryRespawn(s, r).frozen <=> s.frozen
<1>1. (r.chat > 0) \in BOOLEAN
  OBVIOUS
<1>2. Spawn(s, r) \in PlayerState /\ Spawn(s, r).present = s.present
      /\ (Spawn(s, r).frozen <=> r.chat > 0)
  BY <1>1 DEF Spawn, PlayerState, IsIntermission
<1>3. QED
  BY <1>2 DEF TryRespawn

-----------------------------------------------------------------------------
(* The inductive invariant.  A player spawns frozen exactly if the         *)
(* intermission's end lies ahead, which it never does unless the game is   *)
(* over; the level changes only then; and while the players are asked      *)
(* nothing heard before is kept.                                           *)

Quiet == ~rules.over => rules.chat = -1 /\ ~rules.changed

HeardAnew == rules.awaiting => ~rules.heard

IInv == TypeOK /\ FrozenInIntermission /\ Quiet /\ HeardAnew

(* What Finish makes of the rules r and the players s. *)
LEMMA Finishing ==
  ASSUME NEW r \in RulesState, NEW s \in [Players -> PlayerState], NEW what,
         Finish(r, s, what),
         \A p \in Players : s[p].present =>
           /\ r.chat > 0 => s[p].frozen
           /\ s[p].frozen => r.over,
         ~r.over => r.chat = -1 /\ ~r.changed,
         r.awaiting => ~r.heard
  PROVE  /\ rules' \in RulesState /\ player' \in [Players -> PlayerState]
         /\ event' = what /\ rules'.awaiting = r.awaiting
         /\ FrozenInIntermission' /\ Quiet' /\ HeardAnew'
<1>1. /\ rules' \in RulesState /\ rules'.over = r.over /\ rules'.changed = r.changed
      /\ rules'.awaiting = r.awaiting /\ rules'.heard = r.heard
      /\ rules'.chat > 0 => r.chat > 0
      /\ r.chat = -1 => rules'.chat = -1
  BY PassingTime DEF Finish
<1>2. ASSUME NEW p \in Players
      PROVE  /\ player'[p] \in PlayerState
             /\ player'[p].present = s[p].present /\ player'[p].frozen = s[p].frozen
  <2>1. s[p].dying \in 0 .. DeathAnimation + 1
    BY DEF PlayerState
  <2>2. (IF s[p].dying = 0 THEN 0 ELSE s[p].dying - 1) \in 0 .. DeathAnimation + 1
    BY <2>1, RulesAssumption
  <2>3. player'[p] = [s[p] EXCEPT !.dying = IF s[p].dying = 0 THEN 0 ELSE s[p].dying - 1]
    BY DEF Finish
  <2>4. QED
    BY <2>2, <2>3 DEF PlayerState
<1>3. player' \in [Players -> PlayerState]
  BY <1>2 DEF Finish
<1>4. FrozenInIntermission'
  BY <1>1, <1>2 DEF FrozenInIntermission, Present, IsIntermission
<1>5. QED
  BY <1>1, <1>3, <1>4 DEF Quiet, HeardAnew, Finish

(* Waiting for the level change keeps everybody frozen while the           *)
(* intermission lasts.                                                     *)
LEMMA ThinkOverStep ==
  ASSUME IInv, ThinkOver
  PROVE  IInv'
<1> DEFINE r == [rules EXCEPT !.changed = TRUE]
<1>1. r \in RulesState /\ r.over = rules.over /\ r.chat = rules.chat
      /\ r.awaiting = rules.awaiting /\ r.heard = rules.heard
  BY DEF IInv, TypeOK, RulesState
<1>2. CASE Finish(r, player, "changelevel")
  BY <1>1, <1>2, Finishing
     DEF IInv, TypeOK, FrozenInIntermission, Present, IsIntermission, Quiet, HeardAnew, ThinkOver
<1>3. CASE Finish(rules, player, "none")
  BY <1>3, Finishing
     DEF IInv, TypeOK, FrozenInIntermission, Present, IsIntermission, Quiet, HeardAnew, ThinkOver
<1>4. QED
  BY <1>2, <1>3 DEF ThinkOver

(* Going to the intermission freezes everybody who is there.               *)
LEMMA ThinkLateStep ==
  ASSUME IInv, ThinkLate
  PROVE  IInv'
<1> DEFINE r == [rules EXCEPT !.over = TRUE, !.chat = ChatTime]
           s == [p \in Players |-> [player[p] EXCEPT !.frozen = @ \/ player[p].present]]
<1>1. r \in RulesState /\ r.over /\ r.awaiting = rules.awaiting /\ r.heard = rules.heard
  <2>1. rules \in RulesState
    BY DEF IInv, TypeOK
  <2>2. ChatTime \in -1 .. ChatTime
    BY RulesAssumption
  <2>3. QED
    BY <2>1, <2>2 DEF RulesState
<1>2. /\ s \in [Players -> PlayerState]
      /\ \A p \in Players : s[p].present => s[p].frozen
  BY DEF IInv, TypeOK, PlayerState
<1>3. Finish(r, s, "intermission")
  BY DEF ThinkLate, GoToIntermission
<1>4. QED
  BY <1>1, <1>2, <1>3, Finishing DEF IInv, TypeOK, HeardAnew, ThinkLate

(* A frame of a running game sets a restart off only after hearing         *)
(* everybody.                                                              *)
LEMMA ThinkOnStep ==
  ASSUME IInv, ThinkOn
  PROVE  /\ IInv'
         /\ event' = "schedule" \/ (rules.awaiting /\ ~rules'.awaiting)
              => \A p \in Present : player[p].ready
<1> DEFINE r == PeriodicThink(rules)
<1>1. /\ r \in RulesState /\ ~r.over /\ r.chat = -1 /\ ~r.changed
      /\ AllReadyHeard(r) => \A p \in Present : player[p].ready
      /\ rules.awaiting => r.awaiting
  BY Periodic DEF IInv, TypeOK, Quiet, HeardAnew, ThinkOn
<1>2. \A p \in Players : player[p].present => ~player[p].frozen
  BY DEF IInv, TypeOK, FrozenInIntermission, Present, ThinkOn, PlayerState
<1>3. said' \subseteq Players
  BY DEF IInv, TypeOK, ThinkOn, Ask
<1>4. CASE AllReadyHeard(r) /\ Finish(ScheduleRestart(r), player, "schedule")
  BY <1>1, <1>2, <1>3, <1>4, Scheduling, Finishing DEF IInv, TypeOK, ThinkOn
<1>5. CASE ~AllReadyHeard(r) /\ Finish(r, player, "none")
  BY <1>1, <1>2, <1>3, <1>5, Finishing DEF IInv, TypeOK, ThinkOn, AllReadyHeard
<1>6. QED
  BY <1>4, <1>5 DEF ThinkOn

(* A frame that restarts the game thaws nobody and freezes nobody.         *)
LEMMA ThinkRestartStep ==
  ASSUME IInv, ThinkRestart
  PROVE  IInv' /\ (rules.awaiting /\ ~rules'.awaiting => \A p \in Present : player[p].ready)
<1> DEFINE r == PeriodicThink(rules)
           t == RestartGame(r)
           u == IF AllReadyHeard(t) THEN ScheduleRestart(t) ELSE t
           s == [p \in Players |-> TryRespawn(player[p], r)]
<1>1. /\ r \in RulesState /\ ~r.over /\ r.chat = -1 /\ ~r.changed
      /\ AllReadyHeard(r) => \A p \in Present : player[p].ready
      /\ rules.awaiting => r.awaiting
  BY Periodic DEF IInv, TypeOK, Quiet, HeardAnew, ThinkRestart
<1>2. /\ t \in RulesState /\ ~t.over /\ t.chat = -1 /\ ~t.changed
      /\ AllReadyHeard(t) => AllReadyHeard(r)
      /\ rules.awaiting => t.awaiting
  BY <1>1, Restarting DEF AllReadyHeard
<1> HIDE DEF r, t
<1>3. /\ u \in RulesState /\ ~u.over /\ u.chat = -1 /\ ~u.changed
      /\ u.awaiting => ~u.heard
      /\ rules.awaiting /\ ~u.awaiting => AllReadyHeard(t)
  BY <1>2, Scheduling DEF AllReadyHeard
<1>4. \A p \in Players : player[p].present => ~player[p].frozen
  BY DEF IInv, TypeOK, FrozenInIntermission, Present, ThinkRestart, PlayerState
<1>5. ASSUME NEW p \in Players
      PROVE  s[p] \in PlayerState /\ (s[p].present => ~s[p].frozen)
  <2>1. player[p] \in PlayerState
    BY DEF IInv, TypeOK
  <2>2. QED
    BY <1>1, <1>4, <2>1, Spawning
<1>6. s \in [Players -> PlayerState]
  BY <1>5
<1>7. said' \subseteq Players /\ server' \in {"up", "faulted"}
  BY DEF IInv, TypeOK, ThinkRestart, Ask
<1>8. Finish(u, s, "restart")
  BY DEF ThinkRestart, r, t
<1> HIDE DEF u, s
<1>9. /\ rules' \in RulesState /\ player' \in [Players -> PlayerState] /\ event' = "restart"
      /\ FrozenInIntermission' /\ Quiet' /\ HeardAnew'
  BY <1>3, <1>5, <1>6, <1>8, Finishing
<1>10. rules'.awaiting = u.awaiting
  BY <1>3, <1>8, PassingTime DEF Finish
<1>11. QED
  BY <1>1, <1>2, <1>3, <1>7, <1>9, <1>10 DEF IInv, TypeOK

-----------------------------------------------------------------------------
(* The steps between the frames.                                           *)

(* What a single player does leaves the others and the rules alone.        *)
LEMMA PlayerStep ==
  ASSUME IInv, NEW p \in Players, NEW s \in PlayerState, SetPlayer(p, s),
         said' \subseteq Players, UNCHANGED server,
         s.present => /\ IsIntermission(rules) => s.frozen
                      /\ s.frozen => rules.over
  PROVE  IInv' /\ UNCHANGED rules /\ event' = "none"
<1>1. player' = [player EXCEPT ![p] = s] /\ rules' = rules /\ event' = "none"
      /\ server' = server
  BY DEF SetPlayer
<1>2. player' \in [Players -> PlayerState]
  BY <1>1 DEF IInv, TypeOK
<1>3. \A q \in Players : player'[q] = IF q = p THEN s ELSE player[q]
  BY <1>1 DEF IInv, TypeOK
<1>4. FrozenInIntermission'
  BY <1>1, <1>3 DEF IInv, FrozenInIntermission, Present, IsIntermission
<1>5. QED
  BY <1>1, <1>2, <1>4 DEF IInv, TypeOK, Quiet, HeardAnew

(* Joining, leaving, dying, respawning and saying ready keep the invariant.*)
LEMMA PlayersStep ==
  ASSUME IInv, NEW p \in Players,
         Join(p) \/ Leave(p) \/ Die(p) \/ Respawn(p) \/ SayReady(p)
  PROVE  IInv' /\ UNCHANGED rules /\ event' = "none"
<1>1. /\ player[p] \in PlayerState /\ said \subseteq Players /\ Absent \in PlayerState
      /\ player[p].present => /\ IsIntermission(rules) => player[p].frozen
                              /\ player[p].frozen => rules.over
  BY RulesAssumption
     DEF IInv, TypeOK, FrozenInIntermission, Present, Absent, PlayerState
<1>2. rules \in RulesState /\ (rules.chat > 0 => rules.over)
  BY DEF IInv, TypeOK, Quiet
<1>3. CASE Join(p)
  <2> DEFINE s == [Absent EXCEPT !.present = TRUE, !.dying = rules.young]
  <2>1. s \in PlayerState
    BY <1>1, <1>2 DEF PlayerState, RulesState
  <2>2. SetPlayer(p, Spawn(s, rules)) /\ said' \subseteq Players /\ UNCHANGED server
    BY <1>1, <1>3 DEF Join, SetPlayer
  <2> HIDE DEF s
  <2>3. /\ Spawn(s, rules) \in PlayerState
        /\ Spawn(s, rules).frozen <=> rules.chat > 0
    BY <1>2, <2>1, Spawning
  <2>4. QED
    BY <1>2, <2>2, <2>3, PlayerStep DEF IsIntermission
<1>4. CASE Leave(p)
  <2>1. SetPlayer(p, Absent) /\ said' \subseteq Players /\ UNCHANGED server
    BY <1>1, <1>4 DEF Leave, SetPlayer
  <2>2. ~Absent.present
    BY DEF Absent
  <2>3. QED
    BY <1>1, <2>1, <2>2, PlayerStep
<1>5. CASE Die(p)
  <2> DEFINE s == [player[p] EXCEPT !.dead = TRUE, !.dying = DeathAnimation + 1]
  <2>1. s \in PlayerState /\ s.present = player[p].present /\ s.frozen = player[p].frozen
    <3>1. DeathAnimation + 1 \in 0 .. DeathAnimation + 1
      BY RulesAssumption
    <3>2. QED
      BY <1>1, <3>1 DEF PlayerState
  <2>2. SetPlayer(p, s) /\ said' \subseteq Players /\ UNCHANGED server
    BY <1>1, <1>5 DEF Die, SetPlayer
  <2> HIDE DEF s
  <2>3. QED
    BY <1>1, <2>1, <2>2, PlayerStep
<1>6. CASE Respawn(p)
  <2> DEFINE s == TryRespawn(player[p], rules)
  <2>1. SetPlayer(p, s) /\ said' \subseteq Players /\ UNCHANGED server
    BY <1>1, <1>6 DEF Respawn, SetPlayer
  <2>2. /\ s \in PlayerState /\ s.present = player[p].present
        /\ (s.frozen <=> rules.chat > 0) \/ (s.frozen <=> player[p].frozen)
    BY <1>1, <1>2, Spawning
  <2> HIDE DEF s
  <2>3. QED
    BY <1>1, <1>2, <2>1, <2>2, PlayerStep DEF IsIntermission
<1>7. CASE SayReady(p)
  <2> DEFINE s == [player[p] EXCEPT !.ready = TRUE]
  <2>1. s \in PlayerState /\ s.present = player[p].present /\ s.frozen = player[p].frozen
    BY <1>1 DEF PlayerState
  <2>2. SetPlayer(p, s) /\ said' \subseteq Players /\ UNCHANGED server
    BY <1>1, <1>7 DEF SayReady, SetPlayer
  <2> HIDE DEF s
  <2>3. QED
    BY <1>1, <2>1, <2>2, PlayerStep
<1>8. QED
  BY <1>3, <1>4, <1>5, <1>6, <1>7

(* A command only waits in its variable for the next periodic think.       *)
LEMMA CommandStep ==
  ASSUME IInv, (\E d \in Delays : Command("restartVar", d)) \/ Command("readyVar", TRUE)
  PROVE  IInv' /\ rules'.awaiting = rules.awaiting /\ event' = "command"
<1>1. /\ rules' \in RulesState /\ rules'.over = rules.over /\ rules'.chat = rules.chat
      /\ rules'.changed = rules.changed /\ rules'.awaiting = rules.awaiting
      /\ rules'.heard = rules.heard
  BY DEF IInv, TypeOK, RulesState, Command
<1>2. QED
  BY <1>1
     DEF IInv, TypeOK, FrozenInIntermission, Present, IsIntermission, Quiet, HeardAnew, Command

(* The rules a level starts with.                                          *)
LEMMA Starting ==
  ASSUME NEW limit \in TimeLimits
  PROVE  /\ Fresh(limit) \in RulesState
         /\ ~Fresh(limit).over /\ Fresh(limit).chat = -1 /\ ~Fresh(limit).changed
         /\ ~Fresh(limit).awaiting
<1>1. limit \in Nat \cup {-1} /\ DeathAnimation + 1 \in 0 .. DeathAnimation + 1
      /\ -1 \in -1 .. ChatTime /\ -1 \in -1 .. Period /\ NotSet \in RestartTimes
  BY RulesAssumption DEF RestartTimes, NotSet
<1>2. QED
  BY <1>1 DEF Fresh, RulesState

(* A new level starts without players and without an intermission.         *)
LEMMA NewLevelStep ==
  ASSUME IInv, NewLevel
  PROVE  IInv' /\ rules.over /\ event' = "none"
<1>1. rules.restartVar \in Delays \cup {0} /\ rules.readyVar \in BOOLEAN /\ rules.over
      /\ rules.limit \in TimeLimits
  BY DEF IInv, TypeOK, RulesState, Quiet, NewLevel
<1> DEFINE fresh == Fresh(rules.limit)
<1>2. fresh \in RulesState /\ ~fresh.over /\ fresh.chat = -1 /\ ~fresh.changed
      /\ ~fresh.awaiting
  BY <1>1, Starting
<1>3. rules' \in RulesState /\ ~rules'.over /\ rules'.chat = -1 /\ ~rules'.changed
      /\ ~rules'.awaiting
  BY <1>1, <1>2 DEF NewLevel, RulesState
<1>4. player' \in [Players -> PlayerState] /\ \A p \in Players : ~player'[p].present
  BY RulesAssumption DEF NewLevel, Absent, PlayerState
<1>5. QED
  BY <1>1, <1>3, <1>4
     DEF IInv, TypeOK, FrozenInIntermission, Present, IsIntermission, Quiet, HeardAnew, NewLevel

-----------------------------------------------------------------------------

(* A restart is set off only with everybody ready. *)
NeedsAll ==
  event' = "schedule" \/ (rules.awaiting /\ ~rules'.awaiting /\ ~rules.over)
    => \A p \in Present : player[p].ready

(* The inductive invariant holds before the first frame.                   *)
LEMMA Beginning == Init => IInv
<1> SUFFICES ASSUME Init PROVE IInv
  OBVIOUS
<1>1. PICK limit \in TimeLimits : rules = Fresh(limit)
  BY DEF Init
<1>2. Absent \in PlayerState
  BY RulesAssumption DEF Absent, PlayerState
<1>3. QED
  BY <1>1, <1>2, Starting
     DEF Init, IInv, TypeOK, FrozenInIntermission, Present, Quiet, HeardAnew, Absent

(* Every frame, player and command keeps the inductive invariant.          *)
LEMMA Stepping == IInv /\ Next => IInv' /\ NeedsAll
<1> SUFFICES ASSUME IInv, Next
             PROVE  IInv' /\ NeedsAll
  OBVIOUS
<1>1. CASE ThinkOver
  BY <1>1, ThinkOverStep DEF NeedsAll, ThinkOver, Finish
<1>2. CASE ThinkLate
  <2>1. rules'.awaiting = rules.awaiting /\ event' = "intermission"
    <3> DEFINE r == [rules EXCEPT !.over = TRUE, !.chat = ChatTime]
    <3>1. r \in RulesState /\ r.awaiting = rules.awaiting
      <4>1. ChatTime \in -1 .. ChatTime
        BY RulesAssumption
      <4>2. QED
        BY <4>1 DEF IInv, TypeOK, RulesState
    <3>2. QED
      BY <1>2, <3>1, PassingTime DEF ThinkLate, GoToIntermission, Finish
  <2>2. QED
    BY <1>2, <2>1, ThinkLateStep DEF NeedsAll
<1>3. CASE ThinkOn
  BY <1>3, ThinkOnStep DEF NeedsAll
<1>4. CASE ThinkRestart
  BY <1>4, ThinkRestartStep DEF NeedsAll, ThinkRestart, Finish
<1>5. CASE NewLevel
  BY <1>5, NewLevelStep DEF NeedsAll
<1>6. ASSUME NEW p \in Players,
             Join(p) \/ Leave(p) \/ Die(p) \/ Respawn(p) \/ SayReady(p)
      PROVE  IInv' /\ NeedsAll
  BY <1>6, PlayersStep DEF NeedsAll
<1>7. CASE (\E d \in Delays : Command("restartVar", d)) \/ Command("readyVar", TRUE)
  BY <1>7, CommandStep DEF NeedsAll
<1>8. QED
  BY <1>1, <1>2, <1>3, <1>4, <1>5, <1>6, <1>7 DEF Next

(* Nothing changes in a stuttering step.                                   *)
LEMMA Resting == IInv /\ UNCHANGED vars => IInv'
  BY DEF vars, IInv, TypeOK, FrozenInIntermission, Present, IsIntermission, Quiet, HeardAnew

(* The invariant holds for ever.                                           *)
LEMMA Inductive == Spec => []IInv
<1>1. IInv /\ [Next]_vars => IInv'
  BY Stepping, Resting
<1>2. QED
  BY Beginning, <1>1, PTL DEF Spec

(* The rules, the players and the commands keep their types, whatever the  *)
(* times an administrator gives: the cap on mp_restartgame is enough.      *)
THEOREM TypeCorrect == Spec => []TypeOK
<1>1. IInv => TypeOK
  BY DEF IInv
<1>2. QED
  BY <1>1, Inductive, PTL

(* On a server of any size, everybody is frozen during the intermission,   *)
(* also who joins or respawns in it, and nobody while the game goes on.    *)
THEOREM IntermissionFreezes == Spec => []FrozenInIntermission
<1>1. IInv => FrozenInIntermission
  BY DEF IInv
<1>2. QED
  BY <1>1, Inductive, PTL

(* However the commands, the ready signals, the deaths and the restarts    *)
(* interleave, a ready restart is set off only by a frame that found every *)
(* connected player ready.                                                 *)
THEOREM RestartNeedsAll == Spec => ReadyRestartNeedsAll
<1>1. IInv /\ [Next]_vars => [NeedsAll]_vars
  BY Stepping
<1>2. [][NeedsAll]_vars => ReadyRestartNeedsAll
  BY DEF NeedsAll, ReadyRestartNeedsAll
<1>3. QED
  BY Inductive, <1>1, <1>2, PTL DEF Spec

-----------------------------------------------------------------------------
(* A restart starts a player anew unless he is in his death animation.     *)
StartsAnew ==
  event' = "restart" =>
    \A p \in Present :
      \/ player[p].dying > 0
      \/ ~player'[p].dead /\ ~player'[p].ready /\ ~player'[p].frozen

(* The frame that restarts the game: no intermission is under way that     *)
(* could freeze who is respawned.                                          *)
LEMMA RestartSpawns ==
  ASSUME IInv, ThinkRestart
  PROVE  StartsAnew
<1> DEFINE r == PeriodicThink(rules)
           d(p) == IF TryRespawn(player[p], r).dying = 0 THEN 0 ELSE TryRespawn(player[p], r).dying - 1
<1>1. r \in RulesState /\ r.chat = -1
  BY Periodic DEF IInv, TypeOK, Quiet, ThinkRestart
<1>2. \A p \in Players : player'[p] = [TryRespawn(player[p], r) EXCEPT !.dying = d(p)]
  BY DEF ThinkRestart, Finish
<1> HIDE DEF r, d
<1>3. ASSUME NEW p \in Players, player[p].present, ~(player[p].dying > 0)
      PROVE  ~player'[p].dead /\ ~player'[p].ready /\ ~player'[p].frozen
  <2>1. player[p] \in PlayerState
    BY DEF IInv, TypeOK
  <2>2. player[p].dying = 0
    <3>1. player[p].dying \in 0 .. DeathAnimation + 1
      BY <2>1 DEF PlayerState
    <3> QED
      BY <1>3, <3>1, RulesAssumption
  <2>3. TryRespawn(player[p], r) = Spawn(player[p], r)
    BY <1>3, <2>2 DEF TryRespawn
  <2>4. Spawn(player[p], r) \in PlayerState /\ ~Spawn(player[p], r).dead
        /\ ~Spawn(player[p], r).ready /\ ~Spawn(player[p], r).frozen
    <3>1. Spawn(player[p], r) \in PlayerState /\ ~Spawn(player[p], r).frozen
      BY <1>1, <2>1, Spawning
    <3>2. ~Spawn(player[p], r).dead /\ ~Spawn(player[p], r).ready
      BY <2>1 DEF Spawn, PlayerState
    <3> QED
      BY <3>1, <3>2
  <2> QED
    BY <1>2, <2>3, <2>4 DEF PlayerState
<1> QED
  BY <1>3 DEF StartsAnew, Present

(* Nothing else is a restart. *)
LEMMA OnlyRestarts == IInv /\ Next => StartsAnew
<1> SUFFICES ASSUME IInv, Next PROVE StartsAnew
  OBVIOUS
<1>1. CASE ThinkOver \/ ThinkLate \/ ThinkOn
  BY <1>1 DEF ThinkOver, ThinkLate, GoToIntermission, ThinkOn, Finish, StartsAnew
<1>2. CASE ThinkRestart
  BY <1>2, RestartSpawns
<1>3. CASE NewLevel
  BY <1>3 DEF NewLevel, StartsAnew
<1>4. ASSUME NEW p \in Players,
             Join(p) \/ Leave(p) \/ Die(p) \/ Respawn(p) \/ SayReady(p)
      PROVE  StartsAnew
  BY <1>4 DEF Join, Leave, Die, Respawn, SayReady, SetPlayer, StartsAnew
<1>5. CASE (\E d \in Delays : Command("restartVar", d)) \/ Command("readyVar", TRUE)
  BY <1>5 DEF Command, StartsAnew
<1> QED
  BY <1>1, <1>2, <1>3, <1>4, <1>5 DEF Next

(* After a restart every player is alive, free and without a ready signal, *)
(* save those in their death animation, whatever else the frame did.       *)
THEOREM RestartIsFresh == Spec => RestartStartsAnew
<1>1. IInv /\ [Next]_vars => [StartsAnew]_vars
  BY OnlyRestarts
<1>2. [][StartsAnew]_vars => RestartStartsAnew
  BY DEF StartsAnew, RestartStartsAnew
<1>3. QED
  BY Inductive, <1>1, <1>2, PTL DEF Spec
=============================================================================
