----------------------------- MODULE GameRules -----------------------------
(***************************************************************************)
(* The game rules' course of a map (shared/ff/ff_sh_gamerules.cpp): the    *)
(* time limit, the intermission and the level change, and the restarts an  *)
(* administrator asks for, after a delay (mp_restartgame) or once every    *)
(* player has said "ready" (mp_readyrestart).                              *)
(*                                                                         *)
(* CFF_SH_Rules::Think runs once a frame; between frames players join,     *)
(* leave, chat, die and respawn.  A float that holds a point of time is    *)
(* the number of ticks until then.                                         *)
(***************************************************************************)
EXTENDS Integers, FiniteSets

CONSTANTS
  Players,
  TimeLimits,     (* values of mp_timelimit in ticks, 0 for none            *)
  ChatTime,       (* mp_chattime                                            *)
  Period,         (* between two periodic thinks                            *)
  ReadyDelay,     (* from "all players ready" to the restart                *)
  DeathAnimation, (* DEATH_ANIMATION_TIME                                   *)
  Delays,         (* values an administrator gives mp_restartgame           *)
  MaxDelay        (* the cap on mp_restartgame                              *)

ASSUME RulesAssumption ==
  /\ TimeLimits \subseteq Nat /\ ChatTime \in Nat /\ DeathAnimation \in Nat
  /\ Period \in Nat \ {0} /\ ReadyDelay \in Nat \ {0} /\ MaxDelay \in Nat \ {0}
  /\ Delays \subseteq Nat \ {0}

VARIABLES
  rules,   (* RulesState                                                    *)
  player,  (* [Players -> PlayerState]                                      *)
  event,   (* what the last action did, for the properties                  *)
  said,    (* players that gave the ready signal since it was asked for     *)
  server   (* "up", or "faulted"                                            *)

vars == <<rules, player, event, said, server>>

(* A restart time that is not set: m_flRestartGameTime is 0 or -1.  The    *)
(* value 0 is a time that has come.                                        *)
NotSet == -1

RestartTimes == {NotSet} \cup 0 .. MaxDelay \cup 0 .. ReadyDelay

RulesState ==
  [over       : BOOLEAN,              (* g_fGameOver                        *)
   chat       : -1 .. ChatTime,       (* m_flIntermissionEndTime; -1: past  *)
   changed    : BOOLEAN,              (* m_bChangelevelDone                 *)
   limit      : TimeLimits,           (* mp_timelimit                       *)
   left       : Nat \cup {-1},        (* GetMapRemainingTime(); -1: < 0     *)
   periodic   : -1 .. Period,         (* m_tmNextPeriodicThink; -1: past    *)
   restart    : RestartTimes,         (* m_flRestartGameTime                *)
   awaiting   : BOOLEAN,              (* m_bAwaitingReadyRestart            *)
   heard      : BOOLEAN,              (* m_bHeardAllPlayersReady            *)
   restartVar : Delays \cup {0},      (* mp_restartgame                     *)
   readyVar   : BOOLEAN,              (* mp_readyrestart                    *)
   young      : 0 .. DeathAnimation + 1] (* until curtime > DEATH_ANIMATION_TIME *)

PlayerState ==
  [present : BOOLEAN,
   ready   : BOOLEAN,                 (* m_bReady                           *)
   dead    : BOOLEAN,
   dying   : 0 .. DeathAnimation + 1, (* until the death animation is over  *)
   frozen  : BOOLEAN]                 (* FL_FROZEN                          *)

Present == {p \in Players : player[p].present}

IsIntermission(r) == r.chat > 0

(* Mutant of Spawn: the intermission is forgotten. *)
SpawnThawed(s, r) == [s EXCEPT !.dead = FALSE, !.ready = FALSE, !.frozen = FALSE]

(* CFF_SV_Player::Spawn. *)
Spawn(s, r) == [s EXCEPT !.dead = FALSE, !.ready = FALSE, !.frozen = IsIntermission(r)]

(* Mutant of TryRespawn: only the dead are spawned anew. *)
TryRespawnDead(s, r) == IF s.present /\ s.dead /\ s.dying = 0 THEN Spawn(s, r) ELSE s

(* respawn() of ff_sv_client.cpp does nothing during the death animation.  *)
TryRespawn(s, r) == IF s.present /\ s.dying = 0 THEN Spawn(s, r) ELSE s

-----------------------------------------------------------------------------
(* The parts of Think, as the rules' next state.                           *)

(* Mutant of CheckAllPlayersReady: the empty slots count. *)
CheckAllSlotsReady(r) ==
  IF \A p \in Players : player[p].ready THEN [r EXCEPT !.heard = TRUE] ELSE r

CheckAllPlayersReady(r) ==
  IF \A p \in Present : player[p].ready THEN [r EXCEPT !.heard = TRUE] ELSE r

AtMost(a, b) == IF a < b THEN a ELSE b

(* mp_restartgame: a restart after a delay. *)
TakeDelayCommand(r) ==
  IF r.restartVar = 0 THEN r
  ELSE [r EXCEPT !.restart = AtMost(r.restartVar, MaxDelay), !.restartVar = 0]

(* mp_readyrestart: from now on the players are asked; a restart that is   *)
(* under way is cancelled.                                                 *)
TakeReadyCommand(r) ==
  IF ~r.readyVar THEN r
  ELSE [r EXCEPT !.awaiting = TRUE, !.heard = FALSE, !.readyVar = FALSE, !.restart = NotSet]

(* Mutants of CheckRestartGame: what was heard before still counts; the    *)
(* command stays in its variable.                                          *)
CheckRestartKeepsHeard(r) == [TakeReadyCommand(TakeDelayCommand(r)) EXCEPT !.heard = r.heard]
CheckRestartKeepsCommand(r) ==
  [TakeReadyCommand(TakeDelayCommand(r)) EXCEPT !.restartVar = r.restartVar]

CheckRestartGame(r) == TakeReadyCommand(TakeDelayCommand(r))

PeriodicThink(r) ==
  IF r.periodic >= 0 THEN r
  ELSE [CheckRestartGame(CheckAllPlayersReady(r)) EXCEPT !.periodic = Period]

RestartDue(r) == r.restart = 0

AllReadyHeard(r) == r.awaiting /\ r.heard

ScheduleRestart(r) == [r EXCEPT !.restart = ReadyDelay, !.awaiting = FALSE]

(* RestartGame, as far as the rules' own state goes. *)
RestartGame(r) == [r EXCEPT !.left = r.limit, !.chat = -1, !.restart = NotSet]

(* Server time goes on by a tick. *)
TickDown(n) == IF n < 0 THEN n ELSE n - 1

PassTime(r) ==
  [r EXCEPT !.chat = TickDown(@), !.periodic = TickDown(@),
            !.left = IF r.limit = 0 THEN @ ELSE TickDown(@),
            !.restart = IF @ > 0 THEN @ - 1 ELSE @,
            !.young = IF @ = 0 THEN 0 ELSE @ - 1]

-----------------------------------------------------------------------------
(* The actions.                                                            *)

Running == server = "up"

(* The end of Think: time goes on, and with it the death animations. *)
Finish(r, s, what) ==
  /\ rules' = PassTime(r)
  /\ player' = [p \in Players |-> [s[p] EXCEPT !.dying = IF @ = 0 THEN 0 ELSE @ - 1]]
  /\ event' = what

(* While the game is over Think only waits to change the level, once. *)
ThinkOver ==
  /\ Running /\ rules.over
  /\ IF rules.chat < 0 /\ ~rules.changed
       THEN Finish([rules EXCEPT !.changed = TRUE], player, "changelevel")
       ELSE Finish(rules, player, "none")
  /\ UNCHANGED <<said, server>>

GoToIntermission ==
  Finish([rules EXCEPT !.over = TRUE, !.chat = ChatTime],
         [p \in Players |-> [player[p] EXCEPT !.frozen = @ \/ player[p].present]],
         "intermission")

(* Mutant of ThinkLate: without the test of g_fGameOver. *)
ThinkLateAgain ==
  /\ Running /\ rules.left < 0
  /\ GoToIntermission
  /\ UNCHANGED <<said, server>>

(* The time limit has passed. *)
ThinkLate ==
  /\ Running /\ ~rules.over /\ rules.left < 0
  /\ GoToIntermission
  /\ UNCHANGED <<said, server>>

(* "said" starts anew when the players are asked. *)
Ask == said' = IF rules.periodic < 0 /\ rules.readyVar THEN {} ELSE said

ThinkOn ==
  /\ Running /\ ~rules.over /\ rules.left >= 0
  /\ Ask
  /\ LET r == PeriodicThink(rules)
     IN  /\ ~RestartDue(r)
         /\ IF AllReadyHeard(r) THEN Finish(ScheduleRestart(r), player, "schedule")
                                ELSE Finish(r, player, "none")
  /\ UNCHANGED server

(* Think when the restart time has come.  RestartGame goes through the     *)
(* list of the teams, whose entities CleanUpMap has just deleted: it may   *)
(* get through, or crash.                                                  *)
ThinkRestart ==
  /\ Running /\ ~rules.over /\ rules.left >= 0
  /\ Ask
  /\ LET r == PeriodicThink(rules)
         t == RestartGame(r)
     IN  /\ RestartDue(r)
         /\ Finish(IF AllReadyHeard(t) THEN ScheduleRestart(t) ELSE t,
                   [p \in Players |-> TryRespawn(player[p], r)], "restart")
  /\ server' \in {"up", "faulted"}

(* ChangeLevel takes effect: new game rules, and the players come again.   *)
(* The commands' variables survive.                                        *)
Fresh(limit) ==
         [over |-> FALSE, chat |-> -1, changed |-> FALSE, limit |-> limit, left |-> limit,
          periodic |-> -1, restart |-> NotSet, awaiting |-> FALSE, heard |-> FALSE, restartVar |-> 0,
          readyVar |-> FALSE, young |-> DeathAnimation + 1]

Absent == [present |-> FALSE, ready |-> FALSE, dead |-> FALSE, dying |-> 0, frozen |-> FALSE]

NewLevel ==
  /\ Running /\ rules.changed
  /\ rules' = [Fresh(rules.limit) EXCEPT !.restartVar = rules.restartVar, !.readyVar = rules.readyVar]
  /\ player' = [p \in Players |-> Absent]
  /\ said' = {} /\ event' = "none"
  /\ UNCHANGED server

SetPlayer(p, s) ==
  /\ player' = [player EXCEPT ![p] = s]
  /\ event' = "none"
  /\ UNCHANGED <<rules, server>>

(* FinishClientPutInServer spawns the player; he counts as dead at time 0. *)
Join(p) ==
  /\ Running /\ ~player[p].present
  /\ SetPlayer(p, Spawn([Absent EXCEPT !.present = TRUE, !.dying = rules.young], rules))
  /\ UNCHANGED said

Leave(p) ==
  /\ Running /\ player[p].present
  /\ SetPlayer(p, Absent)
  /\ said' = said \ {p}

Die(p) ==
  /\ Running /\ player[p].present /\ ~player[p].dead
  /\ SetPlayer(p, [player[p] EXCEPT !.dead = TRUE, !.dying = DeathAnimation + 1])
  /\ UNCHANGED said

(* PlayerDeathThink, once respawn() lets him. *)
Respawn(p) ==
  /\ Running /\ player[p].present /\ player[p].dead /\ player[p].dying = 0
  /\ SetPlayer(p, TryRespawn(player[p], rules))
  /\ UNCHANGED said

(* CheckChatForReadySignal, for a text that is the signal. *)
SayReady(p) ==
  /\ Running /\ player[p].present /\ rules.awaiting
  /\ SetPlayer(p, [player[p] EXCEPT !.ready = TRUE])
  /\ said' = said \cup {p}

(* The administrator's commands. *)
Command(field, value) ==
  /\ Running
  /\ rules' = [rules EXCEPT ![field] = value]
  /\ event' = "command"
  /\ UNCHANGED <<player, said, server>>

Init ==
  /\ \E limit \in TimeLimits : rules = Fresh(limit)
  /\ player = [p \in Players |-> Absent]
  /\ event = "none" /\ said = {} /\ server = "up"

Next ==
  \/ ThinkOver \/ ThinkLate \/ ThinkOn \/ ThinkRestart \/ NewLevel
  \/ \E p \in Players : Join(p) \/ Leave(p) \/ Die(p) \/ Respawn(p) \/ SayReady(p)
  \/ \E d \in Delays : Command("restartVar", d)
  \/ Command("readyVar", TRUE)

Spec == Init /\ [][Next]_vars

(* Frames go on, and the engine changes the level it was told to change.   *)
FairSpec ==
  Spec /\ WF_vars(ThinkOver \/ ThinkLate \/ ThinkOn \/ ThinkRestart) /\ WF_vars(NewLevel)
-----------------------------------------------------------------------------
(* Properties.                                                             *)

TypeOK ==
  /\ rules \in RulesState
  /\ player \in [Players -> PlayerState]
  /\ event \in {"none", "command", "schedule", "restart", "intermission", "changelevel"}
  /\ said \subseteq Players
  /\ server \in {"up", "faulted"}

(* During the intermission everybody is frozen, also who joins or respawns *)
(* in it, and when it is not, nobody is.                                   *)
FrozenInIntermission ==
  \A p \in Present :
    /\ IsIntermission(rules) => player[p].frozen
    /\ player[p].frozen => rules.over

(* A ready restart is set off only by a frame that found every connected   *)
(* player ready, never by what was heard before the players were asked.    *)
ReadyRestartNeedsAll ==
  [][event' = "schedule" \/ (rules.awaiting /\ ~rules'.awaiting /\ ~rules.over)
       => \A p \in Present : player[p].ready]_vars

(* Every intermission ends: the level changes, and the game goes on.       *)
IntermissionEnds == rules.over ~> (~rules.over \/ ~Running)

(* A restart that was announced comes, unless the game ends before or the  *)
(* administrator gives another command or has the players asked instead.   *)
RestartComes ==
  rules.restart # NotSet
    ~> (event \in {"restart", "command"} \/ (rules.awaiting /\ rules.restart = NotSet)
        \/ rules.over \/ ~Running)

(* When all are ready the restart is set off, unless one leaves that state *)
(* first (he dies and respawns, or one joins) or the game ends.            *)
AllReady == \A p \in Present : player[p].ready

ReadyRestartComes ==
  rules.awaiting /\ AllReady
    ~> (~rules.awaiting \/ ~AllReady \/ event = "command" \/ rules.over \/ ~Running)

(* "game will restart once each player gives the ready signal": every      *)
(* player has given it since the players were last asked.                  *)
RestartOnlyOnSignals == [][event' = "schedule" => Present \subseteq said]_vars

(* A restart starts every player anew, alive, free to move and with no     *)
(* ready signal left for a later restart, save those in their death        *)
(* animation, whom respawn() refuses: they stay dead.                      *)
RestartStartsAnew ==
  [][event' = "restart" =>
       \A p \in Present :
         \/ player[p].dying > 0
         \/ ~player'[p].dead /\ ~player'[p].ready /\ ~player'[p].frozen]_vars
=============================================================================
