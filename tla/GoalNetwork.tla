---------------------------- MODULE GoalNetwork ----------------------------
(***************************************************************************)
(* The goal entities of a map wired to each other by their outputs: module *)
(* FFGoal composed with the event queue.  Players start goals; a goal's    *)
(* output posts an event for every connection of the map                   *)
(* (CBaseEntityOutput::FireOutput); once the goals have thought,           *)
(* ServiceEvents hands what is due to all goals of the target's name, one  *)
(* after the other (server/cbase.cpp).                                     *)
(***************************************************************************)
EXTENDS FFGoal, EventList

CONSTANTS
  Names,   (* targetnames                                                  *)
  Named,   (* [Names -> Seq(Goals)], in the order of the entity list       *)
  Wires,   (* [Goals -> [Outputs -> Seq(Wire)]], as the action list is     *)
           (* walked                                                       *)
  MaxQueue (* bound: how many events may wait before a player's touch      *)

Inputs == {"Enable", "Disable", "Activate", "Inactivate"}
Wire   == [name : Names, input : Inputs, delay : Nat]

ASSUME NetworkAssumption ==
  /\ Named \in [Names -> Seq(Goals)]
  /\ Wires \in [Goals -> [Outputs -> Seq(Wire)]]
  /\ MaxQueue \in Nat

VARIABLES
  queue,   (* g_EventQueue: [target |-> name, input, caller, activator, after] *)
  frame,   (* "think" or "service"                                         *)
  visited  (* how many goals of the head's target have had its input       *)

netVars == <<goal, team, fired, server, loading, rounds, queue, frame, visited>>

Event(o, w) ==
  [target |-> w.name, input |-> w.input, caller |-> o.from,
   activator |-> o.activator, after |-> w.delay]

(* An event for every action of the output's list, as it is walked. *)
FireOutput(q, o) ==
  LET wires == Wires[o.from][o.output]
  IN  AddEvents(q, [i \in DOMAIN wires |-> Event(o, wires[i])])

(* FireOutput for every output of a handler, in the order it fired them. *)
Post(q, outs) ==
  LET posted[i \in 0 .. Len(outs)] ==
        IF i = 0 THEN q ELSE FireOutput(posted[i - 1], outs[i])
  IN  posted[Len(outs)]

(* What the map's entities and its players do before ServiceEvents.        *)
Act ==
  /\ frame = "think"
  /\ \/ \E g \in Goals : Activate(g) \/ Think(g) \/ CarrierMoves(g)
     \/ Len(queue) < MaxQueue /\ \E g \in Goals, p \in Players : Touch(g, p)
     \/ \E p \in Players, t \in Teams \cup {Null} : ChangeTeam(p, t)
     \/ \E p \in Players : Disconnect(p)
  /\ queue' = Post(queue, fired')
  /\ UNCHANGED <<frame, visited>>

(* CleanUpMap also empties the queue. *)
CleanUp ==
  /\ frame = "think"
  /\ CleanUpMap
  /\ queue' = <<>>
  /\ UNCHANGED <<frame, visited>>

StartService ==
  /\ Running /\ frame = "think"
  /\ \A g \in Goals : goal[g].due # 0
  /\ frame' = "service"
  /\ UNCHANGED <<goal, team, fired, server, loading, rounds, queue, visited>>

Targets == Named[Head(queue).target]

(* The early returns of Input_Activate and Input_Inactivate. *)
Refuses(g, input) ==
  \/ input = "Activate" /\ (~goal[g].enabled \/ goal[g].active)
  \/ input = "Inactivate" /\ (~goal[g].enabled \/ ~goal[g].active)

Ignore(g, input) ==
  /\ ~goal[g].spawned \/ Refuses(g, input)
  /\ fired' = <<>>
  /\ UNCHANGED <<goal, team, server, loading, rounds>>

AcceptInput(g, input, a) ==
  \/ Ignore(g, input)
  \/ input = "Enable" /\ InputEnable(g, a)
  \/ input = "Disable" /\ InputDisable(g, a)
  \/ input = "Activate" /\ InputActivate(g)
  \/ input = "Inactivate" /\ InputInactivate(g)

(* The next goal of the name; the event is still in the queue while the    *)
(* goal's handler posts its own.                                           *)
Deliver ==
  /\ Running /\ frame = "service" /\ Due(queue) /\ visited < Len(Targets)
  /\ AcceptInput(Targets[visited + 1], Head(queue).input, Head(queue).activator)
  /\ queue' = Post(queue, fired')
  /\ visited' = visited + 1
  /\ UNCHANGED frame

RemoveEvent ==
  /\ Running /\ frame = "service" /\ Due(queue) /\ visited = Len(Targets)
  /\ queue' = Tail(queue)
  /\ visited' = 0
  /\ fired' = <<>>
  /\ UNCHANGED <<goal, team, server, loading, rounds, frame>>

EndFrame ==
  /\ frame = "service" /\ ~Due(queue)
  /\ Tick
  /\ queue' = Elapse(queue, 1)
  /\ frame' = "think"
  /\ UNCHANGED visited

NetInit == Init /\ queue = <<>> /\ frame = "think" /\ visited = 0

NetNext == Act \/ CleanUp \/ StartService \/ Deliver \/ RemoveEvent \/ EndFrame

NetSpec == NetInit /\ [][NetNext]_netVars

(* Once the goals have thought, the queue is served and the frame ends.    *)
NetFairness == WF_netVars(StartService \/ Deliver \/ RemoveEvent \/ EndFrame)

NetFairSpec == NetSpec /\ NetFairness
-----------------------------------------------------------------------------
(* Properties.                                                             *)

WiresTo(n, g, o) == {i \in DOMAIN Wires[g][o] : Wires[g][o][i].name = n}

(* The goals of the name n mirror g: the map enables them when g becomes   *)
(* activated and disables them when that ends, after one and the same      *)
(* delay, and sends them nothing else; they start disabled, and nobody     *)
(* enables or disables one of them by another name.                        *)
Mirrors(n, g) ==
  /\ \E on \in WiresTo(n, g, "OnActive"), off \in WiresTo(n, g, "OnInactive") :
       /\ WiresTo(n, g, "OnActive") = {on} /\ WiresTo(n, g, "OnInactive") = {off}
       /\ Wires[g]["OnActive"][on].input = "Enable"
       /\ Wires[g]["OnInactive"][off].input = "Disable"
       /\ Wires[g]["OnActive"][on].delay = Wires[g]["OnInactive"][off].delay
  /\ \A h \in Goals, o \in Outputs :
       (h = g /\ o \in {"OnActive", "OnInactive"}) \/ WiresTo(n, h, o) = {}
  /\ \A i \in DOMAIN Named[n] : ~HasFlag(Named[n][i], "START_ENABLED")
  /\ \A m \in Names \ {n}, h \in Goals, o \in Outputs : \A j \in WiresTo(m, h, o) :
       Wires[h][o][j].input \in {"Enable", "Disable"} =>
         \A i \in DOMAIN Named[n], k \in DOMAIN Named[m] : Named[n][i] # Named[m][k]

Coming(n, q) == {i \in DOMAIN q : q[i].target = n}

(* The last event on its way to the name n tells whether it is on. *)
LastSays(n, q, on) ==
  \E i \in Coming(n, q) : (\A j \in Coming(n, q) : j <= i) /\ (q[i].input = "Enable" <=> on)

Follow(n, on) ==
  \A i \in DOMAIN Named[n] : goal[Named[n][i]].spawned => (goal[Named[n][i]].enabled <=> on)

(* Goals that mirror another one follow it: once their events are served   *)
(* all of them are enabled exactly if it is activated, and until then the  *)
(* last event on its way says which.  Two events of one instant must be    *)
(* served in the order they were fired, by every goal of the name.         *)
MirrorsFollow ==
  \A n \in Names, g \in Goals :
    Mirrors(n, g) /\ goal[g].spawned =>
      IF Coming(n, queue) = {} THEN Follow(n, goal[g].activated)
                               ELSE LastSays(n, queue, goal[g].activated)

(* Every frame ends, also when goals activate each other without a delay:  *)
(* a goal that is busy refuses, so a ring of goals that stay activated for *)
(* a while does not go round within a frame.                               *)
FramesEnd == frame = "service" ~> (frame = "think" \/ server # "up")
=============================================================================
