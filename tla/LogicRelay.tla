----------------------------- MODULE LogicRelay -----------------------------
(***************************************************************************)
(* logic_relay entities wired to each other through the event queue        *)
(* (server/logicrelay.cpp, CBaseEntityOutput in server/cbase.cpp).         *)
(*                                                                         *)
(* A relay that is triggered fires its OnTrigger output: one event for     *)
(* each action on the output's list, after the action's delay.  It then    *)
(* refuses triggers until an event it posted to itself arrives, which is   *)
(* meant to come behind the last of them.  CancelPending takes its events  *)
(* from the queue and lets it fire again.                                  *)
(***************************************************************************)
EXTENDS EventList

CONSTANTS
  Relays,
  Others,       (* entities that post inputs to relays or receive theirs    *)
  SpawnFlags,   (* [Relays -> SUBSET {"REMOVE_ON_FIRE", "FAST_RETRIGGER"}]  *)
  OnTrigger,    (* [Relays -> Seq(Action)], the list as it is walked        *)
  OnSpawn,      (* [Relays -> Seq(Action)]                                  *)
  StartDisabled,(* SUBSET Relays                                            *)
  Wired,        (* SUBSET (Relays \X Inputs): what Others may post          *)
  FrameTime,    (* the length of a tick                                     *)
  MaxPosts      (* bound: how many inputs Others post                       *)

(* EVENT_FIRE_ALWAYS *)
Always == -1

Inputs == {"Trigger", "Enable", "Disable", "Toggle", "CancelPending"}
Action == [target : Relays \cup Others, input : Inputs, delay : Nat, times : (Nat \ {0}) \cup {Always}]

ASSUME RelayAssumption ==
  /\ Relays \cap Others = {}
  /\ SpawnFlags \in [Relays -> SUBSET {"REMOVE_ON_FIRE", "FAST_RETRIGGER"}]
  /\ OnTrigger \in [Relays -> Seq(Action)]
  /\ OnSpawn \in [Relays -> Seq(Action)]
  /\ Wired \subseteq Relays \X Inputs
  /\ FrameTime \in Nat /\ FrameTime > 1
  /\ MaxPosts \in Nat

VARIABLES
  relay,   (* [Relays -> RelayState]                                        *)
  queue,   (* the event queue                                               *)
  frame,   (* "think" or "service"                                          *)
  server,  (* "up" or "faulted"                                             *)
  posts    (* inputs posted by Others                                       *)

vars == <<relay, queue, frame, server, posts>>

RelayState ==
  [alive    : BOOLEAN,     (* not removed                                   *)
   disabled : BOOLEAN,     (* m_bDisabled                                   *)
   waiting  : BOOLEAN,     (* m_bWaitForRefire                              *)
   trigger  : Seq(Action), (* m_OnTrigger.m_ActionList                      *)
   think    : BOOLEAN]     (* the think of Activate has still to run        *)

(* An event in the queue; "output" stands for m_iOutputID, the output that *)
(* posted it.                                                              *)
EventSet ==
  [target : Relays \cup Others, input : Inputs \cup {"EnableRefire"}, after : Int,
   caller : Relays \cup Others, output : {"OnTrigger", "OnSpawn", "other", "none"}]

HasFlag(r, f) == f \in SpawnFlags[r]

Event(target, input, delay, caller, output) ==
  [target |-> target, input |-> input, after |-> delay, caller |-> caller, output |-> output]

(* FireOutput: one event per action in list order; an action that has been *)
(* fired its number of times leaves the list.                              *)
FireOutput(q, actions, caller, output) ==
  LET Fired(a) == Event(a.target, a.input, a.delay, caller, output)
  IN  AddEvents(q, [i \in DOMAIN actions |-> Fired(actions[i])])

Spend(actions) ==
  LET Once(a) == IF a.times = Always THEN a ELSE [a EXCEPT !.times = @ - 1]
      kept    == Without(actions, {a \in ToSet(actions) : a.times = 1})
  IN  [i \in DOMAIN kept |-> Once(kept[i])]

GetMaxDelay(actions) == Max({0} \cup {actions[i].delay : i \in DOMAIN actions})

(* Mutants of RefireDelay: without the 0.001; without the delay. *)
RefireDelayTied(actions) == GetMaxDelay(actions)
RefireDelayShort(actions) == 1

(* GetMaxDelay() + 0.001: a unit of time, shorter than a tick. *)
RefireDelay(actions) == GetMaxDelay(actions) + 1

-----------------------------------------------------------------------------
(* The input handlers: what becomes of the relay and of the queue.         *)

Both(r, s, q) == relay' = [relay EXCEPT ![r] = s] /\ queue' = q

InputTrigger(r, q) ==
  LET s     == relay[r]
      fired == FireOutput(q, s.trigger, r, "OnTrigger")
      left  == Spend(s.trigger)
  IN  \/ /\ s.disabled \/ s.waiting
         /\ Both(r, s, Tail(q))
      \/ /\ ~s.disabled /\ ~s.waiting
         /\ CASE HasFlag(r, "REMOVE_ON_FIRE") ->
                   Both(r, [s EXCEPT !.trigger = left, !.alive = FALSE, !.think = FALSE],
                        Tail(fired))
              [] HasFlag(r, "FAST_RETRIGGER") /\ ~HasFlag(r, "REMOVE_ON_FIRE") ->
                   Both(r, [s EXCEPT !.trigger = left], Tail(fired))
              [] OTHER ->
                   Both(r, [s EXCEPT !.trigger = left, !.waiting = TRUE],
                        Tail(AddEvent(fired, Event(r, "EnableRefire", RefireDelay(left), r, "none"))))

InputEnable(r, q)       == Both(r, [relay[r] EXCEPT !.disabled = FALSE], Tail(q))
InputDisable(r, q)      == Both(r, [relay[r] EXCEPT !.disabled = TRUE], Tail(q))
InputToggle(r, q)       == Both(r, [relay[r] EXCEPT !.disabled = ~@], Tail(q))
InputEnableRefire(r, q) == Both(r, [relay[r] EXCEPT !.waiting = FALSE], Tail(q))

(* Mutant of InputCancelPending: the relay goes on waiting. *)
CancelWithoutRefire(r, q) ==
  /\ Head(q).caller # r
  /\ Both(r, relay[r], Tail(CancelEvents(q, r)))

(* An event that the relay itself posted is in the list while its handler  *)
(* runs: cancelling it frees it under ServiceEvents.                       *)
InputCancelPending(r, q) ==
  /\ Head(q).caller # r
  /\ Both(r, [relay[r] EXCEPT !.waiting = FALSE], Tail(CancelEvents(q, r)))

Handle(r, q) ==
  CASE Head(q).input = "Trigger"       -> InputTrigger(r, q)
    [] Head(q).input = "Enable"        -> InputEnable(r, q)
    [] Head(q).input = "Disable"       -> InputDisable(r, q)
    [] Head(q).input = "Toggle"        -> InputToggle(r, q)
    [] Head(q).input = "EnableRefire"  -> InputEnableRefire(r, q)
    [] Head(q).input = "CancelPending" -> InputCancelPending(r, q)

-----------------------------------------------------------------------------
(* The actions.                                                            *)

(* Another entity of the map posts an input it is wired to.                *)
OtherPosts(e, r, input) ==
  /\ server = "up" /\ frame = "think" /\ posts < MaxPosts
  /\ <<r, input>> \in Wired
  /\ queue' = AddEvent(queue, Event(r, input, 0, e, "other"))
  /\ posts' = posts + 1
  /\ UNCHANGED <<relay, frame, server>>

(* The think that fires OnSpawn. *)
Think(r) ==
  /\ server = "up" /\ frame = "think" /\ relay[r].think
  /\ queue' = FireOutput(queue, OnSpawn[r], r, "OnSpawn")
  /\ relay' = [relay EXCEPT ![r].think = FALSE,
                            ![r].alive = ~HasFlag(r, "REMOVE_ON_FIRE")]
  /\ UNCHANGED <<frame, server, posts>>

StartService ==
  /\ server = "up" /\ frame = "think"
  /\ \A r \in Relays : ~relay[r].think
  /\ frame' = "service"
  /\ UNCHANGED <<relay, queue, server, posts>>

(* ServiceEvents: the head is handed to its target, if that still exists,  *)
(* and removed.                                                            *)
Serving == server = "up" /\ frame = "service" /\ Due(queue)

Deliver(r) ==
  /\ Serving /\ Head(queue).target = r /\ relay[r].alive
  /\ Handle(r, queue)
  /\ UNCHANGED <<frame, server, posts>>

DeliverElsewhere ==
  /\ Serving
  /\ \A r \in Relays : Head(queue).target = r => ~relay[r].alive
  /\ queue' = Tail(queue)
  /\ UNCHANGED <<relay, frame, server, posts>>

UseFreedEvent ==
  /\ Serving
  /\ Head(queue).input = "CancelPending" /\ Head(queue).target = Head(queue).caller
  /\ relay[Head(queue).target].alive
  /\ server' = "faulted"
  /\ UNCHANGED <<relay, queue, frame, posts>>

EndFrame ==
  /\ server = "up" /\ frame = "service" /\ ~Due(queue)
  /\ queue' = Elapse(queue, FrameTime)
  /\ frame' = "think"
  /\ UNCHANGED <<relay, server, posts>>

Init ==
  /\ relay = [r \in Relays |->
                [alive |-> TRUE, disabled |-> r \in StartDisabled, waiting |-> FALSE,
                 trigger |-> OnTrigger[r], think |-> OnSpawn[r] # <<>>]]
  /\ queue = <<>> /\ frame = "think" /\ server = "up" /\ posts = 0

Next ==
  \/ \E e \in Others, r \in Relays, input \in Inputs : OtherPosts(e, r, input)
  \/ \E r \in Relays : Think(r) \/ Deliver(r)
  \/ StartService \/ DeliverElsewhere \/ UseFreedEvent \/ EndFrame

Spec == Init /\ [][Next]_vars

(* The frame loop goes on. *)
FairSpec ==
  /\ Spec
  /\ WF_vars(\E r \in Relays : Think(r))
  /\ WF_vars(StartService \/ (\E r \in Relays : Deliver(r)) \/ DeliverElsewhere
             \/ UseFreedEvent \/ EndFrame)
-----------------------------------------------------------------------------
(* Properties.                                                             *)

TypeOK ==
  /\ relay \in [Relays -> RelayState]
  /\ queue \in Seq(EventSet)
  /\ frame \in {"think", "service"} /\ server \in {"up", "faulted"} /\ posts \in 0 .. MaxPosts

Pending(Test(_)) == {i \in DOMAIN queue : Test(queue[i])}

(* A relay waits for its refire exactly while one event that will end the  *)
(* wait is in the queue: it can neither be stuck for ever nor be released  *)
(* by an event of an earlier trigger.                                      *)
WaitHasItsEvent ==
  \A r \in Relays :
    LET Refire(e) == e.input = "EnableRefire" /\ e.target = r
    IN  relay[r].alive =>
          Cardinality(Pending(Refire)) = IF relay[r].waiting THEN 1 ELSE 0

(* "Disable the relay so that it cannot be refired until after the last    *)
(* output has been fired": a relay that may be triggered has none of its   *)
(* OnTrigger events in the queue.                                          *)
RefiresAfterLastOutput ==
  \A r \in Relays :
    LET Fired(e) == e.caller = r /\ e.output = "OnTrigger"
    IN  relay[r].alive /\ ~HasFlag(r, "FAST_RETRIGGER") /\ ~relay[r].waiting =>
          Pending(Fired) = {}

(* Every frame ends: relays that trigger each other without a delay do not *)
(* keep ServiceEvents busy for ever, because each waits for the next tick. *)
FramesEnd == frame = "service" ~> (frame = "think" \/ server # "up")

(* A relay that waits fires again some time, unless it is removed. *)
WaitEnds ==
  \A r \in Relays : relay[r].waiting ~> (~relay[r].waiting \/ ~relay[r].alive \/ server # "up")
=============================================================================
