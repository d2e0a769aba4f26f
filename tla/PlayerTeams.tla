---------------------------- MODULE PlayerTeams ----------------------------
(***************************************************************************)
(* Players and teams: joining the server, changing teams (TryChangeTeam of *)
(* ff_sv_info_ff_team_manager.cpp with its three steps), dying, and coming *)
(* back through the death think (ff/ff_sv_player.cpp, player.cpp), with    *)
(* the teams' member lists (team.cpp).                                     *)
(*                                                                         *)
(* One unit of time is a second: what the code puts 0.1 s off is due in    *)
(* the next unit, and the limit of one command in 0.3 s is left out.  The  *)
(* intermission and restarts belong to GameRules; health kits and weapons  *)
(* picked up from the map are left out.                                    *)
(***************************************************************************)
EXTENDS Integers, FiniteSets

CONSTANTS
  Players,
  MapTeams,       (* numbers of the map's info_ff_team_manager entities     *)
  DeathAnimation, (* DEATH_ANIMATION_TIME                                   *)
  ForceDelay,     (* after a death, until mp_forcerespawn respawns          *)
  SuicideDelay    (* between two suicides                                   *)

UNASSIGNED == 0
SPECTATE   == 1
FF_TEAM_ONE == 2
Teams == {UNASSIGNED, SPECTATE} \cup MapTeams

ASSUME TeamsAssumption ==
  /\ \A t \in MapTeams : t \in Nat /\ t >= FF_TEAM_ONE
  /\ DeathAnimation \in Nat /\ ForceDelay \in Nat /\ SuicideDelay \in Nat

VARIABLES
  player,  (* [Players -> PlayerState]                                      *)
  members  (* m_aPlayers of every team: how often it lists each player      *)

vars == <<player, members>>

(* The time after which an older death makes no difference. *)
Late == DeathAnimation + ForceDelay + 1

PlayerState ==
  [present  : BOOLEAN,
   team     : Teams,                        (* m_iTeamNum                   *)
   life     : {"alive", "dead", "respawnable"}, (* m_lifeState              *)
   healthy  : BOOLEAN,                      (* m_iHealth > 0                *)
   armed    : BOOLEAN,                      (* carries items or weapons     *)
   enter    : BOOLEAN,                      (* m_bEnterObserver             *)
   observer : BOOLEAN,                      (* IsObserver()                 *)
   think    : {"none", "death"},            (* the base think function      *)
   next     : {"never", "later", "now"},    (* its tick                     *)
   since    : 0 .. Late,                    (* curtime - m_flDeathTime      *)
   suicide  : 0 .. SuicideDelay]            (* until m_fNextSuicideTime     *)

(* A player object as its constructor leaves it, and an empty slot. *)
Created ==
  [present |-> TRUE, team |-> UNASSIGNED, life |-> "alive", healthy |-> FALSE,
   armed |-> FALSE, enter |-> FALSE, observer |-> FALSE, think |-> "none",
   next |-> "never", since |-> Late, suicide |-> 0]
Nobody == [Created EXCEPT !.present = FALSE]

IsAlive(r) == r.life = "alive"
Present == {p \in Players : player[p].present}

-----------------------------------------------------------------------------
(* The player: what each function of the code makes of a player's state.   *)

(* CFF_SV_Player::StopObserverMode. *)
StopObserverMode(r) == [r EXCEPT !.enter = FALSE, !.observer = FALSE]

(* CFF_SV_Player::StartObserverMode refuses unless the player asked for it. *)
StartObserverMode(r) ==
  IF r.enter THEN [r EXCEPT !.observer = TRUE, !.healthy = TRUE, !.life = "dead"] ELSE r

RemoveAllItems(r) == [r EXCEPT !.armed = FALSE]

(* Spawn: the base class clears the observer flag with all physics flags   *)
(* before it starts or stops the observer mode.                            *)
Spawn(r) ==
  LET fresh == [r EXCEPT !.life = "alive", !.healthy = TRUE, !.think = "none", !.observer = FALSE]
      base  == IF r.team = SPECTATE THEN StartObserverMode(fresh) ELSE StopObserverMode(fresh)
  IN  [base EXCEPT !.armed = base.armed \/ ~base.observer]

(* Event_Killed and Event_Dying. *)
EventKilled(r) ==
  [r EXCEPT !.life = "dead", !.healthy = FALSE, !.since = 0, !.think = "death", !.next = "later"]

(* Not twice within five seconds. *)
CommitSuicide(r) ==
  IF ~IsAlive(r) \/ r.suicide > 0 THEN r
  ELSE EventKilled([r EXCEPT !.suicide = SuicideDelay])

(* Takes the health but leaves the life state to the death think. *)
KillPlayer(r) == [r EXCEPT !.healthy = FALSE, !.think = "death", !.next = "now"]

(* respawn() of ff_sv_client.cpp, and its mutant without the test. *)
RespawnAtOnce(r) == Spawn(r)
Respawn(r) ==
  IF r.since > DeathAnimation THEN Spawn(r) ELSE [r EXCEPT !.next = "later"]

(* Whether the death think comes as far as respawn(): past "wait for all   *)
(* buttons released", on a button or when mp_forcerespawn (1 unless the    *)
(* administrator changes it) says so.                                      *)
AsksForRespawn(r, button) ==
  ~r.observer /\ r.life # "dead" /\ (button \/ r.since > ForceDelay)

(* PlayerDeathThink, which does nothing for observers.  It packs up the    *)
(* weapons, and when it asked for a respawn it clears its tick, also the   *)
(* one that respawn() has just set to try again.                           *)
PlayerDeathThink(r, button) ==
  LET packed == [RemoveAllItems(r) EXCEPT !.next = "later"]
  IN  CASE r.observer -> r
        [] AsksForRespawn(r, button) -> [Respawn(packed) EXCEPT !.next = "never"]
        [] ~r.observer /\ r.life = "dead" /\ ~button -> [packed EXCEPT !.life = "respawnable"]
        [] OTHER -> packed

-----------------------------------------------------------------------------
(* A player's command: PhysicsRunThink runs the think function if it is    *)
(* due, then PreThink runs the death think of whoever is dead.             *)

ThinkDue(r) == r.next = "now" /\ r.think = "death"

RunThink(r, button) ==
  LET taken == [r EXCEPT !.next = IF r.next = "now" THEN "never" ELSE r.next]
  IN  IF ThinkDue(r) THEN PlayerDeathThink(taken, button) ELSE taken

PreThinkOfTheLiving(r, button) == r
PreThink(r, button) == IF IsAlive(r) THEN r ELSE PlayerDeathThink(r, button)

(* Asking for a respawn clears the buttons for the rest of the command.    *)
RunCommand(r, button) ==
  PreThink(RunThink(r, button), button /\ ~(ThinkDue(r) /\ AsksForRespawn(r, button)))

-----------------------------------------------------------------------------
(* Changing teams. *)

(* CTeam::RemovePlayer takes one entry out if there is one. *)
RemovePlayer(m, t, p) == [m EXCEPT ![t][p] = IF @ > 0 THEN @ - 1 ELSE @]

AddPlayer(m, t, p) == [m EXCEPT ![t][p] = @ + 1]

(* The member lists after CBasePlayer::ChangeTeam. *)
MovedWithoutRemoval(m, p, old, new) == AddPlayer(m, new, p)
Moved(m, p, old, new) ==
  LET left == RemovePlayer(m, old, p)
  IN  IF new # UNASSIGNED THEN AddPlayer(left, new, p) ELSE left

PreChangeTeamAlive(r) == RemoveAllItems(r)
PreChangeTeam(r) ==
  IF IsAlive(r) /\ r.team >= FF_TEAM_ONE THEN KillPlayer(RemoveAllItems(r)) ELSE RemoveAllItems(r)

(* CFF_SV_Player::ChangeTeam: whoever had a team dies, whoever had none    *)
(* spawns.                                                                 *)
ChangeTeam(r, t) ==
  LET moved   == [r EXCEPT !.team = t]
      entered == IF t = SPECTATE
                 THEN StartObserverMode([RemoveAllItems(moved) EXCEPT !.enter = TRUE])
                 ELSE moved
  IN  IF t # r.team /\ r.team # UNASSIGNED THEN CommitSuicide(entered) ELSE Spawn(entered)

PostChangeTeamNothing(r, old) == r
PostChangeTeam(r, old) == IF old = SPECTATE THEN StopObserverMode(r) ELSE r

-----------------------------------------------------------------------------
Init ==
  /\ player = [p \in Players |-> Nobody]
  /\ members = [t \in Teams |-> [p \in Players |-> 0]]

(* ClientPutInServer and ClientActive: PickDefaultSpawnTeam "changes" to   *)
(* the team the player has, which spawns him.                              *)
Join(p) ==
  /\ ~player[p].present
  /\ player' = [player EXCEPT ![p] = ChangeTeam(Created, UNASSIGNED)]
  /\ UNCHANGED members

(* The commands "team" and "spectate". *)
TryChangeTeam(p, t) ==
  /\ player[p].present /\ t >= SPECTATE /\ t # player[p].team
  /\ player' = [player EXCEPT ![p] =
                  PostChangeTeam(ChangeTeam(PreChangeTeam(@), t), @.team)]
  /\ members' = Moved(members, p, player[p].team, t)

(* The command "kill". *)
Suicide(p) ==
  /\ player[p].present
  /\ player' = [player EXCEPT ![p] = CommitSuicide(@)]
  /\ UNCHANGED members

(* Damage that kills a living player. *)
Die(p) ==
  /\ player[p].present /\ IsAlive(player[p])
  /\ player' = [player EXCEPT ![p] = EventKilled(@)]
  /\ UNCHANGED members

(* A command of the player's client arrives, with a button down or not. *)
Command(p, button) ==
  /\ player[p].present
  /\ player' = [player EXCEPT ![p] = RunCommand(@, button)]
  /\ UNCHANGED members

(* ClientDisconnected and then UpdateOnRemove take him off his team. *)
Disconnect(p) ==
  /\ player[p].present
  /\ player' = [player EXCEPT ![p] = Nobody]
  /\ members' = LET t == player[p].team
                IN  RemovePlayer(RemovePlayer(members, t, p), t, p)

Older(r) ==
  [r EXCEPT !.next = IF r.next = "later" THEN "now" ELSE r.next,
            !.since = IF r.since < Late THEN r.since + 1 ELSE r.since,
            !.suicide = IF r.suicide > 0 THEN r.suicide - 1 ELSE r.suicide]

Tick ==
  /\ player' = [p \in Players |-> Older(player[p])]
  /\ UNCHANGED members

Next ==
  \/ \E p \in Players :
       \/ Join(p) \/ Suicide(p) \/ Die(p) \/ Disconnect(p)
       \/ \E t \in Teams : TryChangeTeam(p, t)
       \/ \E b \in BOOLEAN : Command(p, b)
  \/ Tick

Spec == Init /\ [][Next]_vars

(* Time goes on, and every client keeps sending commands, time and again   *)
(* with no button down.                                                    *)
FairSpec == Spec /\ WF_vars(Tick) /\ \A p \in Players : WF_vars(Command(p, FALSE))

-----------------------------------------------------------------------------
TypeOK ==
  /\ player \in [Players -> PlayerState]
  /\ members \in [Teams -> [Players -> Nat]]

(* Every team lists the players whose team number it is, each of them      *)
(* once, and nobody else: through every order of joins, team changes and   *)
(* disconnects.  "Unassigned" lists nobody.                                *)
RosterMatches ==
  \A t \in Teams, p \in Players :
    members[t][p] = IF player[p].present /\ player[p].team = t /\ t # UNASSIGNED THEN 1 ELSE 0

(* Observers are the spectators.  While he observes a player is dead (the  *)
(* assertions of State_PreThink_OBSERVER_MODE), holds nothing, and may     *)
(* re-enter the mode when he is spawned.                                   *)
ObserversAreSpectators ==
  \A p \in Present :
    /\ player[p].observer <=> player[p].team = SPECTATE
    /\ player[p].observer => player[p].life = "dead" /\ ~player[p].armed /\ player[p].enter

(* Nobody comes back to life before the death animation is over, whatever  *)
(* he does to his team in between; only the first choice of a team spawns  *)
(* at once.                                                                *)
RespawnWaits ==
  [][\A p \in Present :
       ~IsAlive(player[p]) /\ player'[p].present /\ IsAlive(player'[p]) =>
         player[p].since > DeathAnimation \/ player[p].team = UNASSIGNED]_vars

(* A living player never takes his life along to another team: he dies, or *)
(* where the suicide limit saves him has no health left and a death think  *)
(* that is due.                                                            *)
TeamChangeKills ==
  [][\A p \in Present :
       player[p].team \in MapTeams /\ IsAlive(player[p])
       /\ player'[p].present /\ player'[p].team # player[p].team =>
         ~IsAlive(player'[p]) \/ (~player'[p].healthy /\ ThinkDue(player'[p]))]_vars

(* Whoever is dead on a team comes back to life, unless he leaves or       *)
(* spectates: also if he died without a death think of his own because he  *)
(* was a spectator.                                                        *)
DeadComeBack ==
  \A p \in Players :
    player[p].present /\ ~IsAlive(player[p]) /\ player[p].team # SPECTATE
      ~> (~player[p].present \/ IsAlive(player[p]) \/ player[p].team = SPECTATE)

(* "death think will spawn the player": a player whom KillPlayer left      *)
(* alive without health has a death think to come.                         *)
DeathThinkSpawns ==
  \A p \in Present :
    IsAlive(player[p]) /\ ~player[p].healthy =>
      player[p].think = "death" /\ player[p].next # "never"
=============================================================================
