# TLA+ models of Fortress Forever's server logic

Fortress Forever (this repository) is a multiplayer mod on the Source SDK 2013. Most of the
14,506 files are the SDK itself; the mod's own code is in `src/mp/src/game/{server,client,shared}/ff`,
and it leans on a few SDK parts: the entity event queue and the output lists
(`server/cbase.cpp`), `logic_relay` (`server/logicrelay.cpp`), the entity list
(`shared/entitylist_base.cpp`, `server/entitylist.cpp`), the base weapon and the teams (`server/team.cpp`). The mod has no unit tests of its own; `README.md`, `DOCUMENTATION.md` and
`vpc-notes.md` are about conventions and building. What the code promises stands in its comments,
in the help texts of its console variables and in the names of its spawn flags.

Below, paths are relative to `src/mp/src/game/`.

## 1. Inventory

| Part | Source | State | Operations | Interacts with |
|---|---|---|---|---|
| Goal entities (base, trigger, info, item) | `shared/ff/entities/ff_sh_*_ff_goal.cpp` | enabled, active, activated flags; activator handle; one think function with its tick; drawn, solid; item carrier | Spawn, Activate, touch, four inputs, three think functions, criteria tests, item carrying | other goals (criteria), players (touch, carry), event queue (outputs), map clean-up |
| Entity event queue | `server/cbase.cpp` | one linked list ordered by fire time | AddEvent, CancelEvents, CancelEventOn, Clear, ServiceEvents | every entity with outputs or inputs |
| Logic relays | `server/logicrelay.cpp`, `CBaseEntityOutput` | disabled flag, refire lock, action list with fire counts | six inputs, the OnSpawn think | event queue |
| Entity list and deletion | `shared/entitylist_base.cpp`, `server/entitylist.cpp`, `server/util.cpp`, `server/physics*.cpp` | slots with serial numbers, two lists threaded through them, delete list, notes of physics callbacks, snapshot of the thinkers | create, UTIL_Remove, UTIL_RemoveImmediate, CleanupDeleteList, Clear, walks | everything that is an entity |
| Game rules: time limit, intermission, restart | `shared/ff/ff_sh_gamerules.cpp` | game over, intermission end, restart time, "awaiting" and "heard" flags | Think, periodic think, RestartGame, CleanUpMap, console commands, ready signals | players, engine (level change), teams |
| Teams | `server/ff/entities/ff_sv_info_ff_team_manager.cpp`, `server/team.cpp` | `g_Teams`, members, team entities of the map | AddTeam, RemoveTeam, TryChangeTeam, AddPlayer, RemovePlayer | players, game rules, clean-up |
| Player life cycle | `server/ff/ff_sv_player.cpp` | player state, team, observer mode, ready flag | Spawn, ChangeTeam, StartObserverMode, Event_Killed | teams, rules, goals |
| Legacy team manager, class limits | `shared/ff/ff_sh_team_manager.cpp` | class limits per team | UpdateClassLimit, class restriction variables | console |
| Weapons and weapon spawner | `shared/basecombatweapon_shared.cpp`, `shared/hl2mp/weapon_hl2mpbase.cpp`, `server/ff/entities/ff_sv_info_ff_weapon_spawner.cpp` | per weapon: owner, touch, think with its tick, home; the players' weapons; the list of placed objects; the spawner's weapon and wait | touch, pick up, drop, respawn as a copy, materialize, relocation, strip, use up; spawner touch and think | players, game rules' clean-up and relocation |
| Team checks, clips | `shared/ff/entities/ff_sh_info_ff_teamcheck.cpp`, `ff_sh_func_ff_clip.cpp` | a mask of teams | SetTeamsAllowed, SwapTeams, IsTeamAllowed | goals, messages, movement |
| `env_ff_message` | `server/ff/entities/ff_sv_env_ff_message.cpp` | key values | ShowMsg inputs | players |
| Lua script manager | `shared/ff/ff_sh_scriptman*.cpp` | Lua state of the map | load, close, call | map start and end |
| Movement | `shared/ff/ff_sh_gamemovement.cpp` | floating point physics | every user command | — |
| Client: HUD, view model, prediction | `client/ff/` | display state | drawing, messages | — |

What is hard about this code:

* *One think function per entity.* A goal's delay and its active time run on the same think slot,
  and every handler sets, replaces or clears it; clearing the function leaves the tick behind.
* *Handlers call each other.* `DeactivateGoal` is called by a think, by an input, and by
  `ActivateGoal` itself; a looping goal starts itself again from there.
* *Events posted while an event is served.* The served event is unlinked only after its handler
  returned; handlers post in front of everything that is due later, cancel, or clear the queue.
* *Cycles without a delay.* Outputs wired in a ring are served within one frame.
* *Handles that go stale.* Activators leave during a delay; items are deleted with their carrier;
  the clean-up of a round deletes entities others still point to.
* *Pointers over game code.* Destructors, think functions and walks run game code that creates and removes
  entities; the delete list, the snapshot of the thinkers and the notes of physics callbacks are bare pointers.
* *Serial numbers of 15 bits*, and a free list that can run out.
* *Old thinks.* A dropped weapon thinks of its removal, a hidden one of nothing, a copy of its return: whoever picks
  it up must not lose it to what it was to become before.
* *Commands and signals in console variables*, read once a second by the game rules, racing with the time limit,
  with each other, and with players who join, die or leave.

What makes the parts correct: a goal's flags and timer agree, and the map's logic can follow them
by the outputs; an item has one carrier; opposite criteria disagree; events come once, on time and in order; a
relay neither refires too early nor waits for ever; the lists fit the slots and a handle names its entity or nothing; no pointer dangles, a walk
misses nothing and what is removed is deleted; a place has its one weapon, a carried weapon stays with its owner, a spawner
offers or waits; frames end; nobody moves in the intermission
and everybody does after it; a ready restart needs everybody's word; what was announced comes;
a team lists its players and nobody else; observers are the dead spectators; nobody takes his life to another
team, and the dead of a team come back.
Each hazard, at its line, with the properties that cover it, is in `PROJECT.json`.

## 2. Modules

| Module | Models | Lines of the code |
|---|---|---|
| `FFGoal` | goals, their criteria, players touching and carrying, clean-up | the four goal classes |
| `GoalCycle` | what a map maker relies on: rest, wait, lit, rest or again, each for its time | abstract |
| `FFGoalProofs` | theorems about `FFGoal` and `GoalNetwork` | |
| `EventList` | the ordered list: `AddEvent`, `AddEvents`, `Without`, `CancelEvents`, `Due`, `Elapse` | `CEventQueue` |
| `EventListProofs` | lemmas about the list, for the proofs of those who use it | |
| `EventQueue` | the queue under arbitrary handlers | `CEventQueue` |
| `Agenda` | what a queue promises: every entry once, in order, in its frame | abstract |
| `EventQueueProofs` | theorems about `EventQueue` | |
| `LogicRelay` | relays and output lists on `EventList` | `CLogicRelay`, `CBaseEntityOutput` |
| `LogicRelayProofs` | theorems about `LogicRelay` | |
| `GoalNetwork` | `FFGoal` and `EventList` composed: goals wired by outputs, and the frame | both, and `CBaseEntity::AcceptInput` |
| `SlotLists` | the two linked lists threaded through the slots: `Unlink`, `AddToTail` | `CBaseEntityList` |
| `EntityList` | slots, handles, creation, the ways to remove an entity, the loops that run game code | `CBaseEntityList`, `CGlobalEntityList`, `UTIL_Remove*`, `Physics_RunThinkFunctions`, `CCollisionEvent` |
| `EntityListProofs` | theorems about `EntityList` | |
| `GameRules` | rules, players as the rules see them, the administrator | `CFF_SH_Rules` |
| `GameRulesProofs` | theorems about `GameRules` | |
| `PlayerTeams` | players who join, change teams, die and come back; the teams' member lists | `ff_sv_player.cpp`, `ff_sv_info_ff_team_manager.cpp`, `player.cpp`, `team.cpp` |
| `PlayerTeamsProofs` | theorems about `PlayerTeams` | |
| `Weapons` | placed weapons and their copies, spawners, players who take, drop and lose weapons, the frame, relocation and restart | `CBaseCombatWeapon`, `CWeaponHL2MPBase`, `CFF_SV_InfoFFWeaponSpawner`, `CFF_SH_Rules` |
| `WeaponsProofs` | theorems about `Weapons` | |
| `MC*` | small maps and instances | |

**Goals.** Each handler of a goal is an operator from the goal's record to its new record, with the
outputs it fires collected in the field `out`; `ActivateGoalStart`, `ActivateGoal`,
`DeactivateGoal` keep the names and the nesting of the code. An action (`Touch`, `Input...`,
`Think`, ...) applies one handler and hands the outputs to `fired`. `Tick` lets time pass, only when no
think is due. `Activate` is the pass of the engine over the goals after a map or a round is loaded
(`loading` are those not yet visited). `Disconnect` removes a player and the items parented to him;
`CleanUpMap` spawns all goals anew. A goal that loops with neither a delay nor a time calls itself for
ever: the server stops with `"overflowed"`. A criterion that reads a goal that does not exist any more stops it with
`"faulted"`.

**Events.** An event's time is the time left until it fires, negative when it is late in its frame.
`AddEvent` inserts before the first event that is strictly later. `EventQueue` puts the list under
handlers that do anything the code offers, while `serving` says that the head's handler runs.
A handler that frees the event being served (cancelling its own events, or clearing the queue) leaves
`ServiceEvents` with a freed pointer: `"faulted"`.

**Relays.** `FireOutput` posts one event per action, `Spend` counts the actions down and drops the spent ones, in
the order of the code: the refire delay is read after that. The 0.001 s added to it is one unit of
time, and a tick is `FrameTime > 1` units.

**Network.** `GoalNetwork` EXTENDS `FFGoal`: actions of the players and thinks happen in the part
`"think"` of a frame and post what they fire; in the part `"service"` the head of the queue is delivered to
one goal of its target name after the other, re-using the input actions of `FFGoal`; then the event is removed, and `EndFrame`
advances the goals' ticks and the queue together.

**Rules.** One `Think` is one of the actions `ThinkOver`, `ThinkLate`, `ThinkOn`, `ThinkRestart`, which
exclude each other by the conditions and early returns of `CFF_SH_Rules::Think`. Each contains the
periodic think when it is due (all players ready? then the two commands, in this order) and the restart
(respawning all, resetting the time). `NewLevel` is the engine's answer to `ChangeLevel`.

**Players and teams.** As with the goals, each function of the code (`Spawn`, `StartObserverMode`, `CommitSuicide`,
`KillPlayer`, `PlayerDeathThink`, `Respawn`, `ChangeTeam`, ...) is an operator from a player's record to his new record.
`TryChangeTeam` applies `PreChangeTeam`, `ChangeTeam` and `PostChangeTeam` in this order; `Command` is one command of a client:
the think function if it is due (`PhysicsRunThink`), then the death think of whoever is dead (`CHL2_Player::PreThink`).
A member list is kept as how often it lists each player, because `AddPlayer` appends without a test and `RemovePlayer`
takes out one entry. The unit of time is a second: what is due 0.1 s later is due in the next unit, and
the limit of one team command in 0.3 s is left out. `mp_forcerespawn` has its default, 1.

**Entities.** `stack` holds the calls in progress, the innermost last: the `UpdateOnRemove` of an entity that is being marked
(`"update"`, or `"updateNow"` for immediate removal), its destructor, the clean-up, the loop over the thinkers, a walk over the active list, `Clear`, the
physics simulation with its damage and removal notes. The code that runs on top of the stack may make further calls: `Remove`,
`RemoveImmediate`, `CreateNetworked`, `CreateServerOnly`; each `Start...` begins a loop with nothing else in progress, and `Proceed` are the steps the calls
take towards their end. A slot in no list is linked to itself, as `ClearLinks` leaves it, and slot `MAX_EDICTS` is in
no list at first, as in the constructor. With the free list empty a server-only entity gets no handle. Its destructor
then frees the slot of an invalid handle, which is the last one, whoever is in it: the model does so too (`Overflowed`), and the walk
and the deletion are claimed until that happens.

**Weapons.** A weapon is a record, and each function of the code an operator on it (`FallInit`, `SetPickupTouch`,
`Materialize`, `Respawn`, `Equip`, `Drop`, `Delete`). `Touch` is a player running into a weapon, `SpawnerTouch` into a spawner, which moves its
hidden weapon to him; one he refuses is forgotten but stays, hidden. `Think` runs whichever think is due.
`RestartGame` is the clean-up and reload with the players' stripping and respawning. A frame has a part for commands and the rules and a
part for thinks, with a clean-up of the delete list before each.

## 3. Runs

| Run | States | What it asks |
|---|---|---|
| `capture` | 250,887 | A flag only one team may take, a relic, and a gate that opens to the player who carries both; two players of two teams: one carrier at a time, nobody takes an item from him, what is offered is drawn, and opposite criteria never agree, whoever carries what. |
| `loop` | 48,636 | A looping info goal that starts at load and a returning item whose criterion is that the other is active: flags, think and tick agree; drawn while offered; the outputs tell the phase; a disabled goal at rest stays there; `GoalCycle` is implemented; a timed activation ends; a disabled loop stops. |
| `queue` | 27,352 | Any handler: no event is a frame late, `Agenda` is implemented (every entry once, in the order of time and posting), every event is served or cancelled. |
| `relay_net` | 15,372 | Five relays, two in a ring: a waiting relay has exactly one event to release it; it refires only after its last output; frames end; waits end. |
| `relay_once` | violation | The same, with an action that fires once: finding 1. |
| `net_doors` | 40,756 | A flag works a plate which opens two doors: doors follow the plate, and until then the last event on its way says where to. The doors set each other off in a ring without a delay: every frame ends. |
| `rules` | 225,300 | Two players and an administrator, with and without a time limit: frozen exactly as the intermission wants, ready restarts heard anew, restarts and level changes come, and a restart starts everybody anew who is not in his death animation. |
| `rules_stale` | violation | Finding 2. |
| `teams` | 156,816 | Two players and two teams, with every order of joins, changes, deaths, suicides, buttons and leaves: lists match team numbers, observers are the dead spectators, the death animation is waited for, a change of teams costs the life, the dead come back. |
| `teams_think` | violation | Finding 3. |
| `entities` | 350,282 | Four entities come and go on four slots, removed at once, deferred or from callbacks, inside thinks, walks, clean-ups and destructors: lists and slots agree, handles resolve, no pointer dangles, walks miss nothing, `Clear` leaves nothing, what is removed is deleted. |
| `weapons` | 805,808 | Two players, a placed weapon and a spawner, over drops, deaths, strips, pushes, relocation and a restart: one weapon per place, carried weapons are safe, spawners offer or wait, what is taken is offered again. |

Every property of a passing run has a mutant in `PROJECT.json`: a change of one definition, as a slip
in that code would make it, under which TLC finds the property violated. The mutated definitions stand next
to the originals in the modules.

*Bounds.* `MaxRounds` is the number of clean-ups (one is enough for every goal to meet a clean-up in
each of its states, and to go on after it). `MaxEvents` (three events: one being served, one
it posts, and one that must be before, between or behind them), `MaxPosts` (three: trigger, cancel, trigger again) and
`MaxQueue` (a player touches nothing more while six events wait: one flag taken makes three) bound what is
posted; what a handler posts is never dropped. Delays and active times are 0, 1 and 2 ticks or endless: a delay that is over before, with and after a
neighbour's. The players are two: a race needs two, and the criteria compare at most two carriers.
In `rules` the delays 1 and 4 are below and above the cap 2, and 4 ticks are a time limit that meets
restarts at each of their stages.
In `teams` the death animation is 1 and the two delays of five seconds are 2: what matters is that the first is shorter
than the others, which are equal. `teams_think` has the code's 3, 5 and 5. `PlayerTeams` needs no other bound: a time is not counted beyond the last test of it.
In `entities` slot 0 is an edict, slot 1 the one left out, and 2 and 3 are the free list: long enough to unlink a head, a tail and an only
one, and short enough to run out; `NumEntities` (four) lets slots be used again, with `SerialMod` two (the code has 2^15) often enough for
serial numbers to come round; `MaxDepth` (three) is a removal inside a removal inside a loop. Entities 2 and 3 are those that are removed at once.
In `weapons` there are four ids: what the players are given, one at the place, one of the spawner, and a copy that goes or comes;
`Room` keeps one for each spawner that waits, so that a bound never stands for a wait. All times are one tick, because what matters is that a
think may come before or after anything else; `weaponstay` is off (with it on a taken weapon is back at once). What a player does by himself
(not touches and deaths) happens in the part of a frame before the thinks.

*Deadlock* is not checked: the server may stop (`"overflowed"`, `"faulted"`), and the bounds end behaviours.

*Fairness* is that of the frame loop, and never of players, inputs or commands. `FFGoal`: the engine activates the
goals it spawned, a think that is due is run, and ticks come (`WF` of `Activate(g)`, `Think(g)`,
`Tick`); the think lists are walked every frame, so no goal is passed over. `EventQueue`,
`LogicRelay`, `GoalNetwork`: `ServiceEventQueue` runs every frame until nothing is due, handlers return, and the
next frame comes. `GameRules`: `Think` runs once a frame, and the engine changes the level when told to.
`PlayerTeams`: time goes on, and the client of a player on the server keeps sending commands (it sends one each of its frames), again and
again without a button (`WF` of `Tick` and `Command(p, FALSE)`): the death think waits for all buttons to be released.
`EntityList`: calls in progress return (`WF` of `Proceed`), and the frame comes back to its clean-up, which it calls several times a frame, again and
again with nothing else in progress (`SF` of `StartCleanup`). `Weapons`: frames go on, and each runs the thinks that are due (`WF` of
`FrameStep`).
The liveness properties allow the server to have stopped.

## 4. What is proved

TLAPS proves, for any set of goals, players and teams, all spawn flags, delays and criteria
(`ConstantsAssumption`: their types, and that the world and the empty handle are no players):

* `FFGoalProofs!TypeCorrect`, `TimersCoherent` (`PhaseMatchesTimer`), `InfoGoalsDrawn`
  (`InfoDrawnWhileOffered`), `ItemsDrawnOrCarried` (`ItemDrawnOrCarried`).

  None of the invariants is inductive alone: that an info goal is drawn when it is deactivated
  depends on what it looked like when it was enabled, and a goal between spawn and `Activate` may look
  different. The inductive invariant `IInv` says that a goal still to be
  activated is exactly as `Spawn` left it, and every other is *settled*: of its type, coherent, shown as it should be and held by at most its carrier.
  There is one lemma per part of a handler (`Arming`, `Holding`, `Lighting`, ...), each saying what the part
  preserves, lemmas for the handlers built of them, and lemmas for what an action does with the result (`Settling`,
  `Stopping`, `Launching`); the step theorem has one case per action.

* `GameRulesProofs!TypeCorrect`, `IntermissionFreezes` (`FrozenInIntermission`), `RestartNeedsAll`
  (`ReadyRestartNeedsAll`), for any number of players, limits, delays and periods (`RulesAssumption`: they are
  naturals, periods and restart delays positive).

  The invariant adds two facts. While the game is not over, the intermission's end is not set and no level change has been asked for (`Quiet`), so that a
  player who spawns now is not frozen, and a new level needs a game that was over. And while the players are being asked, nothing is noted as heard
  (`HeardAnew`): the command clears the flag *after* the same periodic think has polled the players, and the
  think that finds everybody ready ends the asking at once. Without it a ready restart could be set off by an old poll.

* `PlayerTeamsProofs!TypeCorrect`, `RosterIsKept` (`RosterMatches`), `ObserversStayDead` (`ObserversAreSpectators`), for any number of
  players and teams and any delays (`TeamsAssumption`: they are naturals, a map's teams have the numbers of teams).

  The member lists are kept by `TypeOK` and `RosterMatches` together: `RemovePlayer` may take an entry out because there is exactly one
  (`RemovePlayerRemoves`), and `AddPlayer` makes it one because there was none (`AddPlayerAdds`); one lemma per
  function of a player says that it leaves him on his team. `ObserversAreSpectators` is inductive with
  the types, because it includes the permission to re-enter the mode (`enter`): every spawn clears the observer flag
  first, and only that permission brings a spectator back into the mode. It is proved player by player: `Watching` says it of one
  record, and every function keeps it or, as `ChangeTeam` and `PostChangeTeam` together, re-establishes it.

* `FFGoalProofs!CycleImplemented` (`ImplementsCycle`, the refinement), `DisabledRest` (`DisabledStaysAtRest`),
  `CriteriaConsistent` (`CriteriaAgree`), `CarriersKeepItems` (`CarrierKeepsItem`).

  The refinement says of each action of `FFGoal` which step of `GoalCycle` it is, or that it shows nothing: a *view* is a goal's phase and the time left in it,
  one lemma per part of a handler says how it moves the view (`Seen`), and one per action names the abstract step. The deletion of a carrier's
  items is `Delete`, a clean-up `Reload`. For the carrier `CarriersActivate` is invariant: the activator of a carried item is its
  carrier, the world or nobody, so that no handler can hand the item to somebody else.

* `PlayerTeamsProofs!DeadWait` (`RespawnWaits`), `ChangingKills` (`TeamChangeKills`). Every function says what it does to the time of the death and
  to the life state. A player who had a team goes through `CommitSuicide` when he changes it, which kills him or finds him as
  `PreChangeTeam` left him; only the death think respawns, at most once a command, and only when the animation is over.

* `GameRulesProofs!RestartIsFresh` (`RestartStartsAnew`): needs `Quiet`, or an intermission might freeze who is respawned.

* `EntityListProofs!SpecListsAgree`, `SpecHandlesResolve`, `SpecPointersAreLive`, for any number of slots and entities, however deep calls
  nest (`SlotsAssumption`, `ListAssumption`).

  The table has the invariant `IInv`: `TableTypes`, `CallTypes`, the lists agree with the slots and with the handles (`TableInv`, where
  `Acyclic` gives the slots of a list ranks that rise along it, without which unlinking could close a ring), and each slot's serial number is its first one plus the times it was freed, modulo
  `SerialMod` (`HistoryInv`). `Unlink` and `AddToTail` are proved on the lists alone, and every action is an
  addition to a slot, a removal from one, or neither. The pointers have `PInv`: what is on the stack is marked, alive, and not on the part of the delete list still to be released;
  loops are only at the bottom of the stack, each entity at most once on it (`Shape`); and under the loop over the thinkers nothing is destroyed (`ThinkOnlyMarks`), which
  is what disabling immediate removal is for.

* `WeaponsProofs!CarriedSafely` (`CarriedIsSafe`), `SpawnerNeverStuck` (`SpawnerOffersOrWaits`), for any number of players, places, spawners and classes of
  weapons (`WeaponsAssumption`, `NoneAssumption`). `IInv` adds to the types that what a spawner offers
  will not become solid or vanish (`Offers`: it falls or rests, and is marked never to respawn), and that two spawners never offer the same
  weapon (`Distinct`), because taking one would empty the other.

* `FFGoalProofs!OutputsFollowed` (`OutputsTellThePhase`). A record *speaks* (`Speaks`) when all its outputs are its goal's own, no
  OnActive among them comes to somebody who heard that the goal is active, and the last one tells the phase; `FireSpeaks` adds one output, and
  every handler is built of parts that fire one or none. Between handlers nothing is left to be fired (`Silent`).

* `FFGoalProofs!MirrorsAreFollowed` (`MirrorsFollow`), for any map (`NetworkAssumption`). A goal *mirrors* another one when the map enables it
  by the other's OnActive and disables it by its OnInactive after one and the same delay, sends it nothing else by that name and enables or disables it by no
  other name. `PostTells` carries `OutputsTellThePhase` over to the list: what a handler posts for the mirrors is what its outputs tell, and the last
  of it stays the last, because an event with the greatest delay of its target goes behind all others of that target (`AddOwn`). The invariant `NInv` adds that while an
  event is being handed out, the goals that have had it are what it says (`Served`), which is what is left when it is removed.

* `EventQueueProofs!NoneIsLate` (`NeverLate`), `AgendaImplemented` (`ImplementsAgenda`, the refinement), for any number of entities, events and
  delays (`QueueAssumption`). Both rest on the order of the list: what is posted while an event is served goes behind it, so that the head stays the head, and
  withdrawing events leaves those that stay in their order. `EventListProofs` has the facts on the list: where
  `AddEvent` puts an event, that a list from which events are taken embeds in the old one (`Thinned`), that the old one embeds in a list to which a sequence of
  events was added (`Extended`), and that both stay ordered.

* `LogicRelayProofs!TypeCorrect`, `EveryWaitHasItsEvent` (`WaitHasItsEvent`), `RefiresLast` (`RefiresAfterLastOutput`), for any map of relays and
  outputs (`RelayAssumption`). `WaitInv` says that exactly one event on the list releases a relay that waits, none one that does not, and that only relays release
  themselves (`OwnRefires`), so that `CancelPending`, which takes away all events of its relay, takes the release with them, and none of another relay. `LastInv` says
  that the outputs of a relay on their way are in front of its release on the ordered list, and that a relay that does not wait has none on its way.
  `RefiresLast` has the hypothesis `LongestLasts`: among the longest delays of a relay is one of an action that is fired any number
  of times. Without it the statement is false, which is finding 1.

* `WeaponsProofs!EveryPlaceArmed` (`OneWeaponPerSpot`). A count is not inductive: `SpotInv` says that some one-to-one assignment gives each place one weapon, that
  these are all the weapons nobody has, and that each knows its place, unless the one before was taken before it had noted it (`early`), and will not be removed. A copy takes over the
  place in the step in which a taken weapon leaves it. That the sets of places and spawners are finite is part of `WeaponsAssumption`.

* `EntityListProofs!SpecWalkVisitsAll` (`WalkVisitsAll`), `SpecClearLeavesNothing` (`ClearLeavesNothing`), until the slots run out. `WInv` says of every
  loop in progress what is still ahead of it: the slots from its place to the end of the list follow one another (`Ahead`),
  hold exactly those on the list it has not visited (`Walking`), and a removal under it moves its place on when it takes that very slot away.
  The entities on their way out are on the delete list or on the stack (`OnTheirWay`), which is why `Clear`, whose last act
  is the clean-up, leaves nothing (`Clearing`).

The `TypeCorrect` theorems are about type invariants that no run checks any more; the invariants of the runs above rest on them.
Where an argument goes over a list (posting the actions of an output, reading on along the slots), the induction is over a set of natural numbers that
would have a least element, because the library's induction theorems cannot be instantiated by the installed provers.

Only model-checked: all liveness properties, because liveness under fairness and ENABLED are out of reach of the installed provers.

## 5. Findings

1. `relay_once`. `server/logicrelay.cpp:154` says "Disable the relay so that it cannot be refired until after the
   last output has been fired". Line 158 reads the longest delay after `FireOutput` has removed the actions that
   were fired their last time, so that a relay whose longest action fires once may be triggered with that output on its way.
2. `rules_stale`. `server/hl2mp/hl2mp_cvars.cpp:18` says "game will restart once each player gives the ready signal".
   `mp_readyrestart` forgets that it heard everybody, not who was ready (only `Spawn` clears `m_bReady`): a second
   one, given before anybody respawned, is satisfied by the first one's signals.
3. `teams_think`. `server/ff/ff_sv_player.cpp:1524` says "dont force spawn here right now, death think will spawn the
   player". A player who kills himself while he has no team, joins one (which spawns him at once) and changes it within five seconds
   loses his health to `KillPlayer`, while `CommitSuicide` refuses to kill him so soon after the last time. On his first button the
   death think asks for a respawn, which is refused because of the death animation, and then
   (`server/player.cpp:2176`) clears the tick that `respawn()` has set to try again: he stays alive, without health, items or a think.

## 6. Not modelled

* In the modelled parts: sounds, failure texts, key value parsing, networking of fields. `teams_allowed` is a
  mask, not a reference to a team check. Wildcard and special target names (`!activator`). Saving and restoring
  (single player only). In the rules: scoring, damage, spectators (they count as players). Object relocation and what a restart does to weapons are in `Weapons`.
  A handle to an entity that is gone is `Null`. Times are ticks until an event rather than points of time,
  so the rounding of floats to ticks is not modelled.
* In `PlayerTeams`: health found in the map, amounts of damage, scores, names, spawn points and chat; intermission
  and restarts, which `GameRules` has for its own simpler players. The set of teams is fixed (nothing
  calls `RemoveTeam`). `RestartGame` walks `g_Teams` after the clean-up has deleted the map's team entities: this is
  the outcome `"faulted"` of `ThinkRestart`, and `PlayerTeams` holds up to the first restart. A restart does not respawn who is in his death
  animation: `respawn()` refuses him, and `RestartStartsAnew` says so.
* In `EntityList`: listeners of the list, search by name and place (a walk stands for them), the hierarchy: children are removed by code that runs in `UpdateOnRemove`, which the
  model lets do anything. Fleeting entities are those the code passes to `UTIL_RemoveImmediate`.
* In `Weapons`: amounts of ammunition ("some" or "none"), items other than weapons, NPCs, the limit of weapons in the world (`ITEM_FLAG_LIMITINWORLD`), aiming and firing. The console
  variable `weaponstay` keeps its value during a run.
* Class limits (`ff_sh_team_manager.cpp`) are set from console variables, but nothing reads them.
  Team checks and clips are one mask each, which inputs set and swap, and `env_ff_message` has no state beyond its key values: no step of one of them depends on another's order.
* Movement (floating point physics), drawing and user interface, Lua library: nothing a finite model
  would say at this level.
* The share of the repository's lines that the models stand for is small and cannot be otherwise: of 3.45 million lines
  nearly all are the vendored SDK (AI and NPCs, episodic content, VGUI, map compilers, protobuf), most of which the mod never runs. The modelled
  parts are the mod's own state machines on the server, and those SDK parts they rest on.

## 7. Plan

Done, in this order: (1) `FFGoal`, `GoalCycle`, proofs, because goals are what every map is made of;
(2) `EventList`, `EventQueue`, `Agenda`, `LogicRelay`, `GoalNetwork`; (3) `GameRules`, proofs; (4) `PlayerTeams`, proofs;
(5) `SlotLists`, `EntityList`, proofs; (6) `Weapons`, proofs; (7) the refinement `FFGoal` to `GoalCycle`, the carriers and the criteria, the respawn and
team change rules and the restart, proved; (8) the queue and its agenda, the relays, the places of the weapons, the walks and `Clear`, the outputs and the mirrors, proved.

What could follow:

* Pure operators against reference definitions: message recipients, spawn point choice.
* `PlayerTeams` composed with the clean-up of `GameRules` and with `Weapons`: team entities across a restart, players who change teams in the
  intermission, what a dying player drops. An abstract specification of the teams, a partial function from players to teams.
* Where it pays: Lua script life cycle over map changes, the hierarchy of entities.
