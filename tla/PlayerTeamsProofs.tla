------------------------- MODULE PlayerTeamsProofs -------------------------
(***************************************************************************)
(* For any number of players and teams and any delays: players keep their  *)
(* types and the teams list their members, each of them once.              *)
(***************************************************************************)
EXTENDS PlayerTeams, TLAPS

(* What a player does by himself keeps his place on the server and his     *)
(* team.                                                                   *)
Stays(r, s) == s \in PlayerState /\ s.present = r.present /\ s.team = r.team

(* The last moment that counts is a time, and zero comes before it. *)
LEMMA LateIsTime == Late \in Nat /\ 0 \in 0 .. Late /\ Late \in 0 .. Late
BY TeamsAssumption DEF TeamsAssumption, Late

(* A created player and an empty slot are players on team 0. *)
LEMMA CreatedPlayer ==
  /\ Created \in PlayerState /\ Created.present /\ Created.team = UNASSIGNED
  /\ Nobody \in PlayerState /\ ~Nobody.present
<1>1. 0 \in 0 .. SuicideDelay /\ Late \in 0 .. Late /\ UNASSIGNED \in Teams
  BY LateIsTime, TeamsAssumption DEF TeamsAssumption, Teams
<1>2. Created \in PlayerState /\ Created.present /\ Created.team = UNASSIGNED
  BY <1>1 DEF Created, PlayerState
<1> QED
  BY <1>2 DEF Nobody, PlayerState

(* The observer mode changes nothing else than what one sees and does. *)
LEMMA ObserverModeStays ==
  ASSUME NEW r \in PlayerState
  PROVE  /\ Stays(r, StopObserverMode(r))
         /\ Stays(r, StartObserverMode(r))
         /\ Stays(r, RemoveAllItems(r))
         /\ Stays(r, KillPlayer(r))
BY DEF Stays, PlayerState, StopObserverMode, StartObserverMode, RemoveAllItems, KillPlayer

(* A spawn leaves a player on his team. *)
LEMMA SpawnStays ==
  ASSUME NEW r \in PlayerState
  PROVE  Stays(r, Spawn(r))
<1> DEFINE fresh == [r EXCEPT !.life = "alive", !.healthy = TRUE, !.think = "none", !.observer = FALSE]
           base  == IF r.team = SPECTATE THEN StartObserverMode(fresh) ELSE StopObserverMode(fresh)
<1>1. Stays(r, fresh)
  BY DEF Stays, PlayerState
<1>2. Stays(r, base)
  BY <1>1, ObserverModeStays DEF Stays
<1>3. Spawn(r) = [base EXCEPT !.armed = base.armed \/ ~base.observer]
  BY DEF Spawn
<1> HIDE DEF base, fresh
<1>4. (base.armed \/ ~base.observer) \in BOOLEAN
  OBVIOUS
<1> QED
  BY <1>2, <1>3, <1>4 DEF Stays, PlayerState

(* So does a death, by another's hand or by his own. *)
LEMMA DeathStays ==
  ASSUME NEW r \in PlayerState
  PROVE  Stays(r, EventKilled(r)) /\ Stays(r, CommitSuicide(r))
<1>1. \A s \in PlayerState : Stays(s, EventKilled(s))
  BY LateIsTime DEF Stays, PlayerState, EventKilled
<1>2. Stays(r, [r EXCEPT !.suicide = SuicideDelay])
  BY TeamsAssumption DEF TeamsAssumption, Stays, PlayerState
<1> QED
  BY <1>1, <1>2 DEF CommitSuicide, Stays

(* And the death think, whichever way it goes. *)
LEMMA DeathThinkStays ==
  ASSUME NEW r \in PlayerState, NEW button \in BOOLEAN
  PROVE  Stays(r, PlayerDeathThink(r, button))
<1> DEFINE packed == [RemoveAllItems(r) EXCEPT !.next = "later"]
<1>1. Stays(r, packed)
  BY ObserverModeStays DEF Stays, PlayerState
<1>2. Stays(r, Respawn(packed))
  <2>1. Stays(packed, Spawn(packed))
    BY <1>1, SpawnStays DEF Stays
  <2>2. Stays(packed, [packed EXCEPT !.next = "later"])
    BY <1>1 DEF Stays, PlayerState
  <2> HIDE DEF packed
  <2> QED
    BY <1>1, <2>1, <2>2 DEF Respawn, Stays
<1> HIDE DEF packed
<1>3. Stays(r, [Respawn(packed) EXCEPT !.next = "never"])
  BY <1>2 DEF Stays, PlayerState
<1>4. Stays(r, [packed EXCEPT !.life = "respawnable"])
  BY <1>1 DEF Stays, PlayerState
<1>5. Stays(r, r)
  BY DEF Stays
<1>6. PlayerDeathThink(r, button) \in
        {r, packed, [Respawn(packed) EXCEPT !.next = "never"], [packed EXCEPT !.life = "respawnable"]}
  BY DEF PlayerDeathThink, packed
<1> QED
  BY <1>1, <1>3, <1>4, <1>5, <1>6

(* A command of his client keeps a player on his team. *)
LEMMA CommandStays ==
  ASSUME NEW r \in PlayerState, NEW button \in BOOLEAN
  PROVE  Stays(r, RunCommand(r, button))
<1> DEFINE taken == [r EXCEPT !.next = IF r.next = "now" THEN "never" ELSE r.next]
           after == RunThink(r, button)
           b     == button /\ ~(ThinkDue(r) /\ AsksForRespawn(r, button))
<1>1. Stays(r, taken)
  BY DEF Stays, PlayerState
<1>2. Stays(taken, PlayerDeathThink(taken, button))
  BY <1>1, DeathThinkStays DEF Stays
<1>3. Stays(r, after)
  <2> HIDE DEF taken
  <2>1. after = IF ThinkDue(r) THEN PlayerDeathThink(taken, button) ELSE taken
    BY DEF RunThink, taken
  <2> QED
    BY <1>1, <1>2, <2>1 DEF Stays
<1>4. b \in BOOLEAN
  OBVIOUS
<1>5. RunCommand(r, button) = PreThink(after, b)
  BY DEF RunCommand
<1> HIDE DEF after, b
<1>6. Stays(after, PlayerDeathThink(after, b))
  BY <1>3, <1>4, DeathThinkStays DEF Stays
<1> QED
  BY <1>3, <1>5, <1>6 DEF PreThink, Stays

(* After the three steps of a team change a player is on the new team. *)
LEMMA ChangeTeamMoves ==
  ASSUME NEW r \in PlayerState, NEW t \in Teams
  PROVE  /\ ChangeTeam(r, t) \in PlayerState
         /\ ChangeTeam(r, t).present = r.present
         /\ ChangeTeam(r, t).team = t
<1> DEFINE moved   == [r EXCEPT !.team = t]
           asking  == [RemoveAllItems(moved) EXCEPT !.enter = TRUE]
           entered == IF t = SPECTATE THEN StartObserverMode(asking) ELSE moved
<1>1. moved \in PlayerState /\ moved.present = r.present /\ moved.team = t
  BY DEF PlayerState
<1>2. Stays(moved, asking)
  <2> HIDE DEF moved
  <2>1. Stays(moved, RemoveAllItems(moved))
    BY <1>1, ObserverModeStays
  <2> QED
    BY <2>1 DEF Stays, PlayerState
<1>3. Stays(moved, entered)
  <2> HIDE DEF moved, asking
  <2> QED
    BY <1>1, <1>2, ObserverModeStays DEF Stays, entered
<1>4. ChangeTeam(r, t) \in {CommitSuicide(entered), Spawn(entered)}
  BY DEF ChangeTeam
<1> HIDE DEF entered, moved
<1>5. Stays(entered, CommitSuicide(entered)) /\ Stays(entered, Spawn(entered))
  BY <1>3, DeathStays, SpawnStays DEF Stays
<1> QED
  BY <1>1, <1>3, <1>4, <1>5 DEF Stays

(* So is a player who went through PreChangeTeam before and PostChangeTeam *)
(* after.                                                                  *)
LEMMA TeamChangeMoves ==
  ASSUME NEW r \in PlayerState, NEW t \in Teams, NEW old \in Teams
  PROVE  LET s == PostChangeTeam(ChangeTeam(PreChangeTeam(r), t), old)
         IN  s \in PlayerState /\ s.present = r.present /\ s.team = t
<1> DEFINE bare == PreChangeTeam(r)
           new  == ChangeTeam(bare, t)
<1>1. Stays(r, bare)
  BY ObserverModeStays DEF PreChangeTeam, Stays
<1> HIDE DEF bare
<1>2. new \in PlayerState /\ new.present = r.present /\ new.team = t
  BY <1>1, ChangeTeamMoves DEF Stays
<1> HIDE DEF new
<1>3. PostChangeTeam(new, old) \in PlayerState
      /\ PostChangeTeam(new, old).present = r.present
      /\ PostChangeTeam(new, old).team = t
  BY <1>2, ObserverModeStays DEF PostChangeTeam, Stays
<1> QED
  BY <1>3 DEF new, bare

(* Time moves nobody. *)
LEMMA OlderStays ==
  ASSUME NEW r \in PlayerState
  PROVE  Stays(r, Older(r))
<1> DEFINE next    == IF r.next = "later" THEN "now" ELSE r.next
           since   == IF r.since < Late THEN r.since + 1 ELSE r.since
           suicide == IF r.suicide > 0 THEN r.suicide - 1 ELSE r.suicide
<1>1. next \in {"never", "later", "now"}
  BY DEF PlayerState
<1>2. since \in 0 .. Late
  <2>1. r.since \in 0 .. Late
    BY DEF PlayerState
  <2> QED
    BY <2>1, LateIsTime
<1>3. suicide \in 0 .. SuicideDelay
  <2>1. r.suicide \in 0 .. SuicideDelay
    BY DEF PlayerState
  <2> QED
    BY <2>1, TeamsAssumption DEF TeamsAssumption
<1>4. Older(r) = [r EXCEPT !.next = next, !.since = since, !.suicide = suicide]
  BY DEF Older
<1> HIDE DEF next, since, suicide
<1> QED
  BY <1>1, <1>2, <1>3, <1>4 DEF Stays, PlayerState

-----------------------------------------------------------------------------
(* The member lists. *)

(* Taking a player out of a list of which he has one entry, or none. *)
LEMMA RemovePlayerRemoves ==
  ASSUME NEW m \in [Teams -> [Players -> Nat]], NEW t \in Teams, NEW p \in Players
  PROVE  /\ RemovePlayer(m, t, p) \in [Teams -> [Players -> Nat]]
         /\ RemovePlayer(m, t, p)[t][p] = IF m[t][p] > 0 THEN m[t][p] - 1 ELSE m[t][p]
         /\ \A u \in Teams, q \in Players :
              u # t \/ q # p => RemovePlayer(m, t, p)[u][q] = m[u][q]
<1> DEFINE n == IF m[t][p] > 0 THEN m[t][p] - 1 ELSE m[t][p]
<1>1. m[t] \in [Players -> Nat] /\ m[t][p] \in Nat
  OBVIOUS
<1>2. n \in Nat
  BY <1>1
<1>3. RemovePlayer(m, t, p) = [m EXCEPT ![t] = [m[t] EXCEPT ![p] = n]]
  BY DEF RemovePlayer
<1> HIDE DEF n
<1>4. [m[t] EXCEPT ![p] = n] \in [Players -> Nat]
  BY <1>1, <1>2
<1>5. RemovePlayer(m, t, p)[t][p] = n
  BY <1>1, <1>3
<1> QED
  BY <1>3, <1>4, <1>5 DEF n

(* Adding one to a list. *)
LEMMA AddPlayerAdds ==
  ASSUME NEW m \in [Teams -> [Players -> Nat]], NEW t \in Teams, NEW p \in Players
  PROVE  /\ AddPlayer(m, t, p) \in [Teams -> [Players -> Nat]]
         /\ AddPlayer(m, t, p)[t][p] = m[t][p] + 1
         /\ \A u \in Teams, q \in Players :
              u # t \/ q # p => AddPlayer(m, t, p)[u][q] = m[u][q]
<1> DEFINE n == m[t][p] + 1
<1>1. m[t] \in [Players -> Nat] /\ n \in Nat
  OBVIOUS
<1>2. AddPlayer(m, t, p) = [m EXCEPT ![t] = [m[t] EXCEPT ![p] = n]]
  BY DEF AddPlayer
<1> HIDE DEF n
<1>3. AddPlayer(m, t, p)[t][p] = n
  BY <1>1, <1>2
<1> QED
  BY <1>1, <1>2, <1>3 DEF n

-----------------------------------------------------------------------------
(* Both invariants at once: the lists follow the players' team numbers. *)
Inv == TypeOK /\ RosterMatches

(* The server starts with nobody on it and empty lists. *)
LEMMA Starting == Init => Inv
<1> SUFFICES ASSUME Init PROVE Inv
  OBVIOUS
<1>1. TypeOK
  BY CreatedPlayer DEF Init, TypeOK
<1>2. RosterMatches
  BY CreatedPlayer DEF Init, RosterMatches
<1> QED
  BY <1>1, <1>2 DEF Inv

(* A step after which one player, if present, has the team he had. *)
LEMMA SameTeams ==
  ASSUME Inv, player' \in [Players -> PlayerState], UNCHANGED members,
         \A p \in Players :
           \/ player'[p].present = player[p].present /\ player'[p].team = player[p].team
           \/ player'[p].team = UNASSIGNED /\ ~player[p].present
  PROVE  Inv'
<1>1. TypeOK'
  BY DEF Inv, TypeOK
<1>2. RosterMatches'
  BY DEF Inv, RosterMatches
<1> QED
  BY <1>1, <1>2 DEF Inv

(* Every step keeps both invariants. *)
LEMMA Stepping == Inv /\ [Next]_vars => Inv'
<1> SUFFICES ASSUME Inv, [Next]_vars PROVE Inv'
  OBVIOUS
<1> USE DEF Inv
<1>t. TypeOK
  OBVIOUS
<1>1. ASSUME NEW p \in Players, Join(p) PROVE Inv'
  <2> DEFINE s == ChangeTeam(Created, UNASSIGNED)
  <2>1. s \in PlayerState /\ s.team = UNASSIGNED
    BY CreatedPlayer, ChangeTeamMoves DEF Teams
  <2> HIDE DEF s
  <2>2. player' = [player EXCEPT ![p] = s] /\ UNCHANGED members /\ ~player[p].present
    BY <1>1 DEF Join, s
  <2> QED
    BY <2>1, <2>2, <1>t, SameTeams DEF TypeOK
<1>2. ASSUME NEW p \in Players, Suicide(p) PROVE Inv'
  <2> DEFINE s == CommitSuicide(player[p])
  <2>1. Stays(player[p], s)
    BY <1>t, DeathStays DEF TypeOK
  <2> HIDE DEF s
  <2>2. player' = [player EXCEPT ![p] = s] /\ UNCHANGED members
    BY <1>2 DEF Suicide, s
  <2> QED
    BY <2>1, <2>2, <1>t, SameTeams DEF TypeOK, Stays
<1>3. ASSUME NEW p \in Players, Die(p) PROVE Inv'
  <2> DEFINE s == EventKilled(player[p])
  <2>1. Stays(player[p], s)
    BY <1>t, DeathStays DEF TypeOK
  <2> HIDE DEF s
  <2>2. player' = [player EXCEPT ![p] = s] /\ UNCHANGED members
    BY <1>3 DEF Die, s
  <2> QED
    BY <2>1, <2>2, <1>t, SameTeams DEF TypeOK, Stays
<1>4. ASSUME NEW p \in Players, NEW b \in BOOLEAN, Command(p, b) PROVE Inv'
  <2> DEFINE s == RunCommand(player[p], b)
  <2>1. Stays(player[p], s)
    BY <1>t, CommandStays DEF TypeOK
  <2> HIDE DEF s
  <2>2. player' = [player EXCEPT ![p] = s] /\ UNCHANGED members
    BY <1>4 DEF Command, s
  <2> QED
    BY <2>1, <2>2, <1>t, SameTeams DEF TypeOK, Stays
<1>5. CASE Tick
  <2>1. \A p \in Players : Stays(player[p], Older(player[p]))
    BY <1>t, OlderStays DEF TypeOK
  <2>2. player' = [p \in Players |-> Older(player[p])] /\ UNCHANGED members
    BY <1>5 DEF Tick
  <2> QED
    BY <2>1, <2>2, SameTeams DEF Stays
<1>6. ASSUME NEW p \in Players, Disconnect(p) PROVE Inv'
  <2> DEFINE t == player[p].team
             once == RemovePlayer(members, t, p)
             twice == RemovePlayer(once, t, p)
  <2>1. t \in Teams /\ members \in [Teams -> [Players -> Nat]]
    BY <1>t DEF TypeOK, PlayerState
  <2>2. player' = [player EXCEPT ![p] = Nobody] /\ members' = twice /\ player[p].present
    BY <1>6 DEF Disconnect
  <2>3. members[t][p] \in {0, 1} /\ \A u \in Teams : u # t => members[u][p] = 0
    BY <2>1, <2>2 DEF RosterMatches
  <2> HIDE DEF t
  <2>4. /\ once \in [Teams -> [Players -> Nat]] /\ once[t][p] = 0
        /\ \A u \in Teams, q \in Players : u # t \/ q # p => once[u][q] = members[u][q]
    BY <2>1, <2>3, RemovePlayerRemoves
  <2> HIDE DEF once
  <2>5. /\ twice \in [Teams -> [Players -> Nat]] /\ twice[t][p] = 0
        /\ \A u \in Teams, q \in Players : u # t \/ q # p => twice[u][q] = once[u][q]
    BY <2>1, <2>4, RemovePlayerRemoves
  <2> HIDE DEF twice
  <2>6. \A u \in Teams : members'[u][p] = 0
    BY <2>2, <2>3, <2>4, <2>5
  <2>7. \A u \in Teams, q \in Players : q # p => members'[u][q] = members[u][q]
    BY <2>2, <2>4, <2>5
  <2>8. TypeOK'
    BY <2>2, <2>5, <1>t, CreatedPlayer DEF TypeOK
  <2>9. RosterMatches'
    BY <2>2, <2>6, <2>7, <1>t, CreatedPlayer DEF RosterMatches, TypeOK
  <2> QED
    BY <2>8, <2>9
<1>7. ASSUME NEW p \in Players, NEW new \in Teams, TryChangeTeam(p, new) PROVE Inv'
  <2> DEFINE old == player[p].team
             s == PostChangeTeam(ChangeTeam(PreChangeTeam(player[p]), new), old)
             left == RemovePlayer(members, old, p)
  <2>1. /\ player[p] \in PlayerState /\ old \in Teams
        /\ members \in [Teams -> [Players -> Nat]]
    BY <1>t DEF TypeOK, PlayerState
  <2>2. /\ player' = [player EXCEPT ![p] = s] /\ members' = Moved(members, p, old, new)
        /\ player[p].present /\ new # old /\ new # UNASSIGNED
    BY <1>7 DEF TryChangeTeam, SPECTATE, UNASSIGNED
  <2>3. members[old][p] \in {0, 1} /\ \A u \in Teams : u # old => members[u][p] = 0
    BY <2>1, <2>2 DEF RosterMatches
  <2>4. s \in PlayerState /\ s.present /\ s.team = new
    BY <2>1, <2>2, TeamChangeMoves
  <2> HIDE DEF s, old
  <2>5. /\ left \in [Teams -> [Players -> Nat]] /\ left[old][p] = 0
        /\ \A u \in Teams, q \in Players : u # old \/ q # p => left[u][q] = members[u][q]
    BY <2>1, <2>3, RemovePlayerRemoves
  <2>6. members' = AddPlayer(left, new, p)
    BY <2>2 DEF Moved
  <2> HIDE DEF left
  <2>7. /\ members' \in [Teams -> [Players -> Nat]] /\ members'[new][p] = left[new][p] + 1
        /\ \A u \in Teams, q \in Players : u # new \/ q # p => members'[u][q] = left[u][q]
    BY <2>5, <2>6, AddPlayerAdds
  <2>8. \A u \in Teams : members'[u][p] = IF u = new THEN 1 ELSE 0
    BY <2>2, <2>3, <2>5, <2>7
  <2>9. \A u \in Teams, q \in Players : q # p => members'[u][q] = members[u][q]
    BY <2>5, <2>7
  <2>10. TypeOK'
    BY <2>2, <2>4, <2>7, <1>t DEF TypeOK
  <2>11. RosterMatches'
    BY <2>2, <2>4, <2>8, <2>9, <1>t DEF RosterMatches, TypeOK
  <2> QED
    BY <2>10, <2>11
<1>8. CASE UNCHANGED vars
  BY <1>8 DEF vars, TypeOK, RosterMatches
<1> QED
  BY <1>1, <1>2, <1>3, <1>4, <1>5, <1>6, <1>7, <1>8 DEF Next

(* Players and member lists keep their types. *)
THEOREM TypeCorrect == Spec => []TypeOK
<1>1. Inv => TypeOK
  BY DEF Inv
<1> QED
  BY Starting, Stepping, <1>1, PTL DEF Spec

(* Every team lists exactly its members, each of them once: whatever the   *)
(* players do, in whatever order, on maps with any teams.                  *)
THEOREM RosterIsKept == Spec => []RosterMatches
<1>1. Inv => RosterMatches
  BY DEF Inv
<1> QED
  BY Starting, Stepping, <1>1, PTL DEF Spec

-----------------------------------------------------------------------------
(* Observers are spectators: the invariant says so of one player at a      *)
(* time, and each thing that happens to a player keeps it.                 *)
Watching(r) ==
  /\ r.observer <=> r.team = SPECTATE
  /\ r.observer => r.life = "dead" /\ ~r.armed /\ r.enter

(* A spawn gives a living player, or an observer if a spectator who may be *)
(* one spawns.                                                             *)
LEMMA SpawnWatching ==
  ASSUME NEW r \in PlayerState, r.team = SPECTATE => r.enter /\ ~r.armed
  PROVE  Watching(Spawn(r))
<1>1. CASE r.team = SPECTATE
  BY <1>1 DEF Spawn, StartObserverMode, Watching, PlayerState
<1>2. CASE r.team # SPECTATE
  BY <1>2 DEF Spawn, StopObserverMode, Watching, PlayerState
<1> QED
  BY <1>1, <1>2

(* An observer cannot die. *)
LEMMA DeathWatching ==
  ASSUME NEW r \in PlayerState, Watching(r)
  PROVE  /\ IsAlive(r) => Watching(EventKilled(r))
         /\ Watching(CommitSuicide(r))
BY DEF Watching, EventKilled, CommitSuicide, IsAlive, PlayerState

(* The death think does nothing to observers and makes no observer.        *)
LEMMA DeathThinkWatching ==
  ASSUME NEW r \in PlayerState, NEW button \in BOOLEAN, Watching(r)
  PROVE  Watching(PlayerDeathThink(r, button))
<1> DEFINE packed == [RemoveAllItems(r) EXCEPT !.next = "later"]
<1>1. CASE r.observer
  BY <1>1 DEF PlayerDeathThink, AsksForRespawn
<1>2. CASE ~r.observer
  <2>1. packed \in PlayerState /\ packed.team # SPECTATE /\ ~packed.observer
    BY <1>2 DEF Watching, RemoveAllItems, PlayerState
  <2>2. Spawn(packed) \in PlayerState /\ Watching(Spawn(packed))
    BY <2>1, SpawnStays, SpawnWatching DEF Stays
  <2>3. Watching(packed) /\ Watching([packed EXCEPT !.life = "respawnable"])
        /\ Watching([packed EXCEPT !.next = "later"])
    BY <2>1 DEF Watching, PlayerState
  <2>a. [packed EXCEPT !.next = "later"] \in PlayerState
    BY <2>1 DEF PlayerState
  <2> HIDE DEF packed
  <2>4. Respawn(packed) \in PlayerState /\ Watching(Respawn(packed))
    BY <2>2, <2>3, <2>a DEF Respawn
  <2>5. Watching([Respawn(packed) EXCEPT !.next = "never"])
    BY <2>4 DEF Watching, PlayerState
  <2>6. PlayerDeathThink(r, button) \in
          {packed, [Respawn(packed) EXCEPT !.next = "never"], [packed EXCEPT !.life = "respawnable"]}
    BY <1>2 DEF PlayerDeathThink, packed
  <2> QED
    BY <2>3, <2>5, <2>6
<1> QED
  BY <1>1, <1>2

(* Nor does a command, whatever its think and its pre-think do. *)
LEMMA CommandWatching ==
  ASSUME NEW r \in PlayerState, NEW button \in BOOLEAN, Watching(r)
  PROVE  Watching(RunCommand(r, button))
<1> DEFINE taken == [r EXCEPT !.next = IF r.next = "now" THEN "never" ELSE r.next]
           after == RunThink(r, button)
           b     == button /\ ~(ThinkDue(r) /\ AsksForRespawn(r, button))
<1>1. taken \in PlayerState /\ Watching(taken)
  BY DEF Watching, PlayerState
<1>2. /\ PlayerDeathThink(taken, button) \in PlayerState
      /\ Watching(PlayerDeathThink(taken, button))
  BY <1>1, DeathThinkStays, DeathThinkWatching DEF Stays
<1>3. after \in PlayerState /\ Watching(after)
  <2> HIDE DEF taken
  <2>1. after = IF ThinkDue(r) THEN PlayerDeathThink(taken, button) ELSE taken
    BY DEF RunThink, taken
  <2> QED
    BY <1>1, <1>2, <2>1
<1>4. b \in BOOLEAN
  OBVIOUS
<1>5. RunCommand(r, button) = PreThink(after, b)
  BY DEF RunCommand
<1> HIDE DEF after, b
<1> QED
  BY <1>3, <1>4, <1>5, DeathThinkWatching DEF PreThink

(* Who asked for the observer mode gets it, on the team he is on. *)
LEMMA AskerObserves ==
  ASSUME NEW s \in PlayerState, s.enter
  PROVE  /\ StartObserverMode(s) \in PlayerState
         /\ StartObserverMode(s).team = s.team /\ StartObserverMode(s).armed = s.armed
         /\ StartObserverMode(s).enter /\ StartObserverMode(s).observer
         /\ StartObserverMode(s).life = "dead"
<1>1. StartObserverMode(s) = [s EXCEPT !.observer = TRUE, !.healthy = TRUE, !.life = "dead"]
  BY DEF StartObserverMode
<1> QED
  BY <1>1 DEF PlayerState

(* A team change makes an observer of whoever joins the spectators and     *)
(* ends the observing of whoever leaves them.                              *)
LEMMA TeamChangeWatching ==
  ASSUME NEW r \in PlayerState, NEW t \in Teams, Watching(r), t # r.team
  PROVE  Watching(PostChangeTeam(ChangeTeam(PreChangeTeam(r), t), r.team))
<1> DEFINE bare    == PreChangeTeam(r)
           moved   == [bare EXCEPT !.team = t]
           asking  == [RemoveAllItems(moved) EXCEPT !.enter = TRUE]
           entered == IF t = SPECTATE THEN StartObserverMode(asking) ELSE moved
           new     == ChangeTeam(bare, t)
<1>1. /\ bare \in PlayerState /\ bare.team = r.team /\ bare.observer = r.observer
      /\ bare.life = r.life /\ bare.enter = r.enter /\ ~bare.armed
  BY DEF PreChangeTeam, RemoveAllItems, KillPlayer, PlayerState
<1>2. new \in PlayerState /\ new.team = t
  BY <1>1, ChangeTeamMoves
<1> HIDE DEF bare
<1>3. moved \in PlayerState /\ moved.team = t /\ moved.observer = r.observer /\ moved.life = r.life
  BY <1>1 DEF PlayerState
<1>4. new \in {CommitSuicide(entered), Spawn(entered)}
  BY DEF ChangeTeam
<1>5. CASE t = SPECTATE
  <2>1. /\ asking \in PlayerState /\ asking.team = SPECTATE /\ asking.enter /\ ~asking.armed
    BY <1>3, <1>5 DEF RemoveAllItems, PlayerState
  <2> HIDE DEF asking, moved
  <2>2. entered = StartObserverMode(asking)
    BY <1>5
  <2>3. /\ entered \in PlayerState /\ entered.team = SPECTATE /\ entered.enter /\ ~entered.armed
        /\ entered.observer /\ entered.life = "dead"
    BY <2>1, <2>2, AskerObserves
  <2> HIDE DEF entered
  <2>4. Watching(CommitSuicide(entered)) /\ Watching(Spawn(entered))
    BY <2>3, SpawnWatching DEF Watching, CommitSuicide, IsAlive
  <2> HIDE DEF new
  <2> QED
    BY <1>4, <1>5, <2>4 DEF PostChangeTeam, new, bare
<1>6. CASE t # SPECTATE /\ r.team = SPECTATE
  <2> HIDE DEF new
  <2>1. Watching(StopObserverMode(new))
    BY <1>2, <1>6 DEF Watching, StopObserverMode, PlayerState
  <2> QED
    BY <1>6, <2>1 DEF PostChangeTeam, new, bare
<1>7. CASE t # SPECTATE /\ r.team # SPECTATE
  <2>1. entered = moved
    BY <1>7
  <2>2. Watching(moved)
    BY <1>3, <1>7 DEF Watching
  <2> HIDE DEF entered, moved
  <2>3. Watching(CommitSuicide(moved)) /\ Watching(Spawn(moved))
    BY <1>3, <1>7, <2>2, SpawnWatching, DeathWatching
  <2> HIDE DEF new
  <2>4. Watching(new)
    BY <1>4, <2>1, <2>3
  <2> QED
    BY <1>7, <2>4 DEF PostChangeTeam, new, bare
<1> QED
  BY <1>5, <1>6, <1>7

(* Whoever is on the server is an observer exactly if he spectates, and    *)
(* then dead, with empty hands, and free to enter the mode again: what     *)
(* State_PreThink_OBSERVER_MODE asserts.                                   *)
THEOREM ObserversStayDead == Spec => []ObserversAreSpectators
<1>1. Init => ObserversAreSpectators
  BY CreatedPlayer DEF Init, ObserversAreSpectators, Present
<1>2. TypeOK /\ ObserversAreSpectators /\ [Next]_vars => ObserversAreSpectators'
  <2> SUFFICES ASSUME TypeOK, ObserversAreSpectators, [Next]_vars,
                      NEW q \in Players, player'[q].present
               PROVE  Watching(player'[q])
    BY DEF ObserversAreSpectators, Present, Watching
  <2>t. \A p \in Players : player[p] \in PlayerState
    BY DEF TypeOK
  <2>w. \A p \in Players : player[p].present => Watching(player[p])
    BY DEF ObserversAreSpectators, Present, Watching
  <2>f. DOMAIN player = Players
    BY DEF TypeOK
  <2>1. ASSUME NEW p \in Players, Join(p) PROVE Watching(player'[q])
    <3>1. Watching(ChangeTeam(Created, UNASSIGNED))
      <4>1. ChangeTeam(Created, UNASSIGNED) = Spawn([Created EXCEPT !.team = UNASSIGNED])
        BY DEF ChangeTeam, UNASSIGNED, SPECTATE, Created
      <4>2. [Created EXCEPT !.team = UNASSIGNED] \in PlayerState
            /\ [Created EXCEPT !.team = UNASSIGNED].team # SPECTATE
        BY CreatedPlayer DEF PlayerState, UNASSIGNED, SPECTATE
      <4> QED
        BY <4>1, <4>2, SpawnWatching
    <3> QED
      BY <2>1, <2>w, <2>f, <3>1 DEF Join
  <2>2. ASSUME NEW p \in Players, Suicide(p) PROVE Watching(player'[q])
    <3>1. Watching(CommitSuicide(player[p]))
      BY <2>2, <2>t, <2>w, DeathWatching DEF Suicide
    <3> QED
      BY <2>2, <2>w, <2>f, <3>1 DEF Suicide
  <2>3. ASSUME NEW p \in Players, Die(p) PROVE Watching(player'[q])
    <3>1. Watching(EventKilled(player[p]))
      BY <2>3, <2>t, <2>w, DeathWatching DEF Die
    <3> QED
      BY <2>3, <2>w, <2>f, <3>1 DEF Die
  <2>4. ASSUME NEW p \in Players, NEW b \in BOOLEAN, Command(p, b) PROVE Watching(player'[q])
    <3>1. Watching(RunCommand(player[p], b))
      BY <2>4, <2>t, <2>w, CommandWatching DEF Command
    <3> QED
      BY <2>4, <2>w, <2>f, <3>1 DEF Command
  <2>5. CASE Tick
    <3>1. player'[q].present = player[q].present /\ (Watching(player'[q]) <=> Watching(player[q]))
      BY <2>5, <2>t DEF Tick, Older, Watching, PlayerState
    <3> QED
      BY <2>w, <3>1
  <2>6. ASSUME NEW p \in Players, Disconnect(p) PROVE Watching(player'[q])
    BY <2>6, <2>w, <2>f, CreatedPlayer DEF Disconnect
  <2>7. ASSUME NEW p \in Players, NEW t \in Teams, TryChangeTeam(p, t) PROVE Watching(player'[q])
    <3> DEFINE s == PostChangeTeam(ChangeTeam(PreChangeTeam(player[p]), t), player[p].team)
    <3>1. Watching(s)
      BY <2>7, <2>t, <2>w, TeamChangeWatching DEF TryChangeTeam
    <3> HIDE DEF s
    <3>2. player' = [player EXCEPT ![p] = s]
      BY <2>7 DEF TryChangeTeam, s
    <3>3. CASE q = p
      BY <2>f, <3>1, <3>2, <3>3
    <3>4. CASE q # p
      BY <2>f, <2>w, <3>2, <3>4
    <3> QED
      BY <3>3, <3>4
  <2>8. CASE UNCHANGED vars
    BY <2>8, <2>w DEF vars
  <2> QED
    BY <2>1, <2>2, <2>3, <2>4, <2>5, <2>6, <2>7, <2>8 DEF Next
<1> QED
  BY TypeCorrect, <1>1, <1>2, PTL DEF Spec

-----------------------------------------------------------------------------
(* Coming back to life.  What is said of one player: he revives only when  *)
(* the death animation is over.                                            *)
Waited(r, s) == ~IsAlive(r) /\ IsAlive(s) => r.since > DeathAnimation

(* The death think respawns nobody before that, and does not touch the     *)
(* time of the death.                                                      *)
LEMMA DeathThinkWaits ==
  ASSUME NEW r \in PlayerState, NEW button \in BOOLEAN
  PROVE  /\ Waited(r, PlayerDeathThink(r, button))
         /\ PlayerDeathThink(r, button).since = r.since
<1> DEFINE packed == [RemoveAllItems(r) EXCEPT !.next = "later"]
<1>1. packed \in PlayerState /\ packed.since = r.since /\ packed.life = r.life
  BY DEF RemoveAllItems, PlayerState
<1> HIDE DEF packed
<1>2. Spawn(packed) \in PlayerState /\ Spawn(packed).since = r.since
  <2>1. Spawn(packed).since = packed.since
    BY <1>1 DEF Spawn, StartObserverMode, StopObserverMode, PlayerState
  <2> QED
    BY <1>1, <2>1, SpawnStays DEF Stays
<1>3. Respawn(packed) \in PlayerState /\ Respawn(packed).since = r.since
      /\ Waited(r, Respawn(packed))
  BY <1>1, <1>2 DEF Respawn, Waited, IsAlive, PlayerState
<1>4. [Respawn(packed) EXCEPT !.next = "never"].since = r.since
      /\ Waited(r, [Respawn(packed) EXCEPT !.next = "never"])
  BY <1>3 DEF Waited, IsAlive, PlayerState
<1>5. [packed EXCEPT !.life = "respawnable"].since = r.since
      /\ Waited(r, [packed EXCEPT !.life = "respawnable"])
  BY <1>1 DEF Waited, IsAlive, PlayerState
<1>6. Waited(r, packed) /\ Waited(r, r)
  BY <1>1 DEF Waited, IsAlive
<1>7. PlayerDeathThink(r, button) \in
        {r, packed, [Respawn(packed) EXCEPT !.next = "never"], [packed EXCEPT !.life = "respawnable"]}
  BY DEF PlayerDeathThink, packed
<1> QED
  BY <1>1, <1>4, <1>5, <1>6, <1>7

(* Nor does a command, in which the death think may run twice. *)
LEMMA CommandWaits ==
  ASSUME NEW r \in PlayerState, NEW button \in BOOLEAN
  PROVE  Waited(r, RunCommand(r, button))
<1> DEFINE taken == [r EXCEPT !.next = IF r.next = "now" THEN "never" ELSE r.next]
           after == RunThink(r, button)
           b     == button /\ ~(ThinkDue(r) /\ AsksForRespawn(r, button))
<1>1. taken \in PlayerState /\ taken.since = r.since /\ taken.life = r.life
  BY DEF PlayerState
<1>2. after = IF ThinkDue(r) THEN PlayerDeathThink(taken, button) ELSE taken
  BY DEF RunThink
<1>3. b \in BOOLEAN
  OBVIOUS
<1>4. RunCommand(r, button) = PreThink(after, b)
  BY DEF RunCommand
<1> HIDE DEF taken, after, b
<1>5. after \in PlayerState /\ after.since = r.since /\ Waited(r, after)
  BY <1>1, <1>2, DeathThinkStays, DeathThinkWaits DEF Stays, Waited, IsAlive
<1>6. Waited(after, PreThink(after, b)) /\ (IsAlive(after) => PreThink(after, b) = after)
  BY <1>3, <1>5, DeathThinkWaits DEF PreThink, Waited
<1> QED
  BY <1>4, <1>5, <1>6 DEF Waited

(* What a change of teams makes of a player who had a team: before the     *)
(* suicide he is an observer, or just moved.                               *)
LEMMA LeavingTeam ==
  ASSUME NEW r \in PlayerState, NEW t \in Teams, t # r.team, r.team # UNASSIGNED
  PROVE  \E e \in PlayerState :
           /\ e.life = "dead" \/ e.life = r.life
           /\ e.life # "dead" => e.healthy = r.healthy /\ e.think = r.think /\ e.next = r.next
           /\ ChangeTeam(r, t) = CommitSuicide(e)
<1> DEFINE moved   == [r EXCEPT !.team = t]
           asking  == [RemoveAllItems(moved) EXCEPT !.enter = TRUE]
           entered == IF t = SPECTATE THEN StartObserverMode(asking) ELSE moved
<1>1. moved \in PlayerState /\ moved.life = r.life /\ moved.healthy = r.healthy
      /\ moved.think = r.think /\ moved.next = r.next
  BY DEF PlayerState
<1>2. asking \in PlayerState /\ asking.enter
  <2> HIDE DEF moved
  <2> QED
    BY <1>1 DEF RemoveAllItems, PlayerState
<1>3. ChangeTeam(r, t) = CommitSuicide(entered)
  BY DEF ChangeTeam
<1> HIDE DEF moved, asking
<1>4. StartObserverMode(asking) \in PlayerState /\ StartObserverMode(asking).life = "dead"
  BY <1>2, AskerObserves
<1>5. /\ entered \in PlayerState
      /\ entered.life = "dead" \/ entered.life = r.life
      /\ entered.life # "dead" =>
           entered.healthy = r.healthy /\ entered.think = r.think /\ entered.next = r.next
  <2>1. CASE t = SPECTATE
    <3>1. entered = StartObserverMode(asking)
      BY <2>1
    <3> HIDE DEF entered
    <3> QED
      BY <1>4, <3>1
  <2>2. CASE t # SPECTATE
    <3>1. entered = moved
      BY <2>2
    <3> HIDE DEF entered
    <3> QED
      BY <1>1, <3>1
  <2> QED
    BY <2>1, <2>2
<1> QED
  BY <1>3, <1>5

(* A suicide kills, or is refused and changes nothing. *)
LEMMA SuicideKills ==
  ASSUME NEW e \in PlayerState
  PROVE  ~IsAlive(CommitSuicide(e)) \/ (CommitSuicide(e) = e /\ IsAlive(e))
<1> DEFINE late == [e EXCEPT !.suicide = SuicideDelay]
<1>1. late \in PlayerState
  BY TeamsAssumption DEF TeamsAssumption, PlayerState
<1>2. CommitSuicide(e) = IF ~IsAlive(e) \/ e.suicide > 0 THEN e ELSE EventKilled(late)
  BY DEF CommitSuicide
<1> HIDE DEF late
<1>3. ~IsAlive(EventKilled(late))
  BY <1>1 DEF EventKilled, IsAlive, PlayerState
<1>4. CASE ~IsAlive(e) \/ e.suicide > 0
  BY <1>2, <1>4
<1>5. CASE ~(~IsAlive(e) \/ e.suicide > 0)
  <2>1. CommitSuicide(e) = EventKilled(late)
    BY <1>2, <1>5
  <2> QED
    BY <1>3, <2>1
<1> QED
  BY <1>4, <1>5

(* A team change by a player who had a team: a dead one stays dead, and a  *)
(* living one on a team of the map dies or loses his health and thinks.    *)
LEMMA TeamChangeCosts ==
  ASSUME NEW r \in PlayerState, NEW t \in Teams, t # r.team, r.team # UNASSIGNED,
         NEW s, s = PostChangeTeam(ChangeTeam(PreChangeTeam(r), t), r.team)
  PROVE  /\ ~IsAlive(r) => ~IsAlive(s)
         /\ r.team \in MapTeams => ~IsAlive(s) \/ (~s.healthy /\ ThinkDue(s))
<1> DEFINE bare == PreChangeTeam(r)
           new  == ChangeTeam(bare, t)
<1>1. /\ bare \in PlayerState /\ bare.team = r.team /\ bare.life = r.life
      /\ IsAlive(r) /\ r.team >= FF_TEAM_ONE =>
           ~bare.healthy /\ bare.think = "death" /\ bare.next = "now"
  BY DEF PreChangeTeam, RemoveAllItems, KillPlayer, PlayerState
<1>2. s = PostChangeTeam(new, r.team)
  OBVIOUS
<1> HIDE DEF bare
<1>3. PICK e \in PlayerState :
        /\ e.life = "dead" \/ e.life = bare.life
        /\ e.life # "dead" =>
             e.healthy = bare.healthy /\ e.think = bare.think /\ e.next = bare.next
        /\ new = CommitSuicide(e)
  BY <1>1, LeavingTeam
<1>4. new \in PlayerState
  BY <1>1, ChangeTeamMoves
<1>5. ~IsAlive(new) \/ (new = e /\ IsAlive(e))
  BY <1>3, SuicideKills
<1> HIDE DEF new
<1>6. IsAlive(e) => IsAlive(r) /\ e.healthy = bare.healthy /\ e.think = bare.think
                    /\ e.next = bare.next
  BY <1>1, <1>3 DEF IsAlive
<1>7. IsAlive(s) <=> IsAlive(new)
  BY <1>2, <1>4 DEF PostChangeTeam, StopObserverMode, IsAlive, PlayerState
<1>8. ~IsAlive(r) => ~IsAlive(s)
  BY <1>5, <1>6, <1>7
<1>9. ASSUME r.team \in MapTeams, IsAlive(s) PROVE ~s.healthy /\ ThinkDue(s)
  <2>1. r.team >= FF_TEAM_ONE /\ r.team # SPECTATE
    BY <1>9, TeamsAssumption DEF TeamsAssumption, FF_TEAM_ONE, SPECTATE
  <2>2. s = new
    BY <1>2, <2>1 DEF PostChangeTeam
  <2>3. new = e /\ IsAlive(e)
    BY <1>5, <1>7, <1>9
  <2>4. ~bare.healthy /\ bare.think = "death" /\ bare.next = "now"
    BY <1>1, <1>6, <2>1, <2>3
  <2> QED
    BY <1>6, <2>2, <2>3, <2>4 DEF ThinkDue
<1> QED
  BY <1>8, <1>9

-----------------------------------------------------------------------------
(* What a step may do to one player who is on the server before and after. *)
Changes(r, s) ==
  /\ Waited(r, s) \/ r.team = UNASSIGNED
  /\ r.team \in MapTeams /\ s.team # r.team => ~IsAlive(s) \/ (~s.healthy /\ ThinkDue(s))

(* Whichever player the step is about, and when time passes. *)
LEMMA StepChanges ==
  ASSUME TypeOK, Next, NEW q \in Players, player[q].present, player'[q].present
  PROVE  Changes(player[q], player'[q])
<1>t. \A p \in Players : player[p] \in PlayerState
  BY DEF TypeOK
<1>f. DOMAIN player = Players
  BY DEF TypeOK
<1>s. player'[q] = player[q] => Changes(player[q], player'[q])
  BY DEF Changes, Waited
<1>1. ASSUME NEW p \in Players, Join(p) PROVE Changes(player[q], player'[q])
  BY <1>1, <1>f, <1>s DEF Join
<1>2. ASSUME NEW p \in Players, Suicide(p) PROVE Changes(player[q], player'[q])
  <2>1. CASE q = p
    <3>1. player'[q] = CommitSuicide(player[q])
      BY <1>2, <1>f, <2>1 DEF Suicide
    <3>2. ~IsAlive(player'[q]) \/ IsAlive(player[q])
      BY <1>t, <3>1, SuicideKills
    <3>3. player'[q].team = player[q].team
      BY <1>t, <3>1, DeathStays DEF Stays
    <3> QED
      BY <3>2, <3>3 DEF Changes, Waited
  <2>2. CASE q # p
    BY <1>2, <1>f, <1>s, <2>2 DEF Suicide
  <2> QED
    BY <2>1, <2>2
<1>3. ASSUME NEW p \in Players, Die(p) PROVE Changes(player[q], player'[q])
  <2>1. CASE q = p
    <3>1. player'[q] = EventKilled(player[q]) /\ IsAlive(player[q])
      BY <1>3, <1>f, <2>1 DEF Die
    <3>2. player'[q].team = player[q].team
      BY <1>t, <3>1, DeathStays DEF Stays
    <3> QED
      BY <3>1, <3>2 DEF Changes, Waited
  <2>2. CASE q # p
    BY <1>3, <1>f, <1>s, <2>2 DEF Die
  <2> QED
    BY <2>1, <2>2
<1>4. ASSUME NEW p \in Players, NEW b \in BOOLEAN, Command(p, b)
      PROVE  Changes(player[q], player'[q])
  <2>1. CASE q = p
    <3>1. player'[q] = RunCommand(player[q], b)
      BY <1>4, <1>f, <2>1 DEF Command
    <3>2. player'[q].team = player[q].team
      BY <1>t, <3>1, CommandStays DEF Stays
    <3>3. Waited(player[q], player'[q])
      BY <1>t, <3>1, CommandWaits
    <3> QED
      BY <3>2, <3>3 DEF Changes
  <2>2. CASE q # p
    BY <1>4, <1>f, <1>s, <2>2 DEF Command
  <2> QED
    BY <2>1, <2>2
<1>5. CASE Tick
  <2>1. player'[q] = Older(player[q])
    BY <1>5 DEF Tick
  <2>2. player'[q].team = player[q].team /\ player'[q].life = player[q].life
    BY <1>t, <2>1 DEF Older, PlayerState
  <2> QED
    BY <2>2 DEF Changes, Waited, IsAlive
<1>6. ASSUME NEW p \in Players, Disconnect(p) PROVE Changes(player[q], player'[q])
  BY <1>6, <1>f, <1>s, CreatedPlayer DEF Disconnect
<1>7. ASSUME NEW p \in Players, NEW t \in Teams, TryChangeTeam(p, t)
      PROVE  Changes(player[q], player'[q])
  <2> DEFINE s == PostChangeTeam(ChangeTeam(PreChangeTeam(player[p]), t), player[p].team)
  <2>1. player' = [player EXCEPT ![p] = s] /\ t # player[p].team
    BY <1>7 DEF TryChangeTeam
  <2>2. CASE q = p
    <3>1. player[p].team # UNASSIGNED =>
            /\ ~IsAlive(player[p]) => ~IsAlive(s)
            /\ player[p].team \in MapTeams => ~IsAlive(s) \/ (~s.healthy /\ ThinkDue(s))
      BY <1>t, <2>1, TeamChangeCosts
    <3>2. player[p].team \in MapTeams => player[p].team # UNASSIGNED
      BY TeamsAssumption DEF TeamsAssumption, FF_TEAM_ONE, UNASSIGNED
    <3>3. player'[q] = s
      BY <1>f, <2>1, <2>2
    <3> HIDE DEF s
    <3> QED
      BY <2>2, <3>1, <3>2, <3>3 DEF Changes, Waited
  <2>3. CASE q # p
    <3> HIDE DEF s
    <3> QED
      BY <1>f, <1>s, <2>1, <2>3
  <2> QED
    BY <2>2, <2>3
<1> QED
  BY <1>1, <1>2, <1>3, <1>4, <1>5, <1>6, <1>7 DEF Next

(* Every step changes every player so. *)
AllChange == \A p \in Present : player'[p].present => Changes(player[p], player'[p])

(* It holds of every step, with the types that always hold. *)
LEMMA EveryStepChanges == Spec => [][AllChange]_vars
<1>1. TypeOK /\ [Next]_vars => [AllChange]_vars
  BY StepChanges DEF AllChange, Present
<1> QED
  BY TypeCorrect, <1>1, PTL DEF Spec

(* Nobody who had chosen a team comes back to life before the death        *)
(* animation is over, however he dies, changes teams and presses buttons.  *)
THEOREM DeadWait == Spec => RespawnWaits
<1>1. AllChange => \A p \in Present :
        ~IsAlive(player[p]) /\ player'[p].present /\ IsAlive(player'[p]) =>
          player[p].since > DeathAnimation \/ player[p].team = UNASSIGNED
  BY DEF AllChange, Changes, Waited
<1>2. [][AllChange]_vars => RespawnWaits
  BY <1>1, PTL DEF RespawnWaits
<1> QED
  BY EveryStepChanges, <1>2, PTL

(* A change of teams costs the life, or where the suicide limit protects   *)
(* it the health, with a death think due: on maps with any teams.          *)
THEOREM ChangingKills == Spec => TeamChangeKills
<1>1. AllChange => \A p \in Present :
        player[p].team \in MapTeams /\ IsAlive(player[p])
        /\ player'[p].present /\ player'[p].team # player[p].team =>
          ~IsAlive(player'[p]) \/ (~player'[p].healthy /\ ThinkDue(player'[p]))
  BY DEF AllChange, Changes
<1>2. [][AllChange]_vars => TeamChangeKills
  BY <1>1, PTL DEF TeamChangeKills
<1> QED
  BY EveryStepChanges, <1>2, PTL
=============================================================================
