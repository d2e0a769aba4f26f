----------------------------- MODULE EventQueue -----------------------------
(***************************************************************************)
(* g_EventQueue and the frame around it (server/cbase.cpp,                 *)
(* server/gameinterface.cpp).  In every frame the entities think, then     *)
(* ServiceEvents hands the events that are due to their targets.  The      *)
(* event it serves stays in the list while the target's input handler      *)
(* runs, and the handler may add events, cancel events or clear the queue. *)
(*                                                                         *)
(* Time is counted in units shorter than a frame: delays are not multiples *)
(* of the tick, and an event fires in the first frame not before its time. *)
(***************************************************************************)
EXTENDS EventList

CONSTANTS
  Entities,   (* targets and callers                                        *)
  Inputs,     (* names of inputs                                            *)
  Delays,     (* SUBSET Nat, the delays events are posted with              *)
  FrameTime,  (* the length of a tick                                       *)
  MaxEvents   (* bound: how many events are ever posted                     *)

ASSUME QueueAssumption ==
  /\ Delays \subseteq Nat
  /\ FrameTime \in Nat \ {0}
  /\ MaxEvents \in Nat

VARIABLES
  queue,    (* m_Events, in list order                                      *)
  serving,  (* a target's input handler is running, for the head            *)
  frame,    (* "think": before ServiceEvents; "service": in it              *)
  posted,   (* how many events were posted; the stamp of the last           *)
  server    (* "up", or "faulted": it used an event it had freed            *)

vars == <<queue, serving, frame, posted, server>>

Event == [after : Int, target : Entities, input : Inputs, caller : Entities,
          stamp : 1 .. MaxEvents]

(* Entities' code runs while they think and in their input handlers. *)
CodeRuns == server = "up" /\ (frame = "think" \/ serving)

(* CEventQueue::AddEvent, from an output or directly. *)
Post(target, input, delay, caller) ==
  /\ CodeRuns /\ posted < MaxEvents
  /\ posted' = posted + 1
  /\ queue' = AddEvent(queue, [after |-> delay, target |-> target, input |-> input,
                               caller |-> caller, stamp |-> posted'])
  /\ UNCHANGED <<serving, frame, server>>

(* Events are taken from the list; if the one being served is among them   *)
(* it is freed, and ServiceEvents goes on to use it.                       *)
Purge(q) ==
  /\ CodeRuns
  /\ IF serving /\ (q = <<>> \/ Head(q) # Head(queue))
       THEN server' = "faulted" /\ UNCHANGED <<queue, serving, frame, posted>>
       ELSE queue' = q /\ UNCHANGED <<serving, frame, posted, server>>

Cancel(caller)           == Purge(CancelEvents(queue, caller))
CancelOn(target, inputs) == Purge(CancelEventOn(queue, target, inputs))
Clear                    == Purge(<<>>)

(* ServiceEventQueue is called once the entities have thought. *)
StartService ==
  /\ server = "up" /\ frame = "think"
  /\ frame' = "service"
  /\ UNCHANGED <<queue, serving, posted, server>>

Deliver ==
  /\ server = "up" /\ frame = "service" /\ ~serving
  /\ Due(queue)
  /\ serving' = TRUE
  /\ UNCHANGED <<queue, frame, posted, server>>

(* Mutant of Return: the last event of the list is not removed. *)
ReturnKeepsEvent ==
  /\ server = "up" /\ serving
  /\ queue' = IF Len(queue) > 1 THEN Tail(queue) ELSE queue
  /\ serving' = FALSE
  /\ UNCHANGED <<frame, posted, server>>

(* The handler returns; the event is removed. *)
Return ==
  /\ server = "up" /\ serving
  /\ queue' = Tail(queue)
  /\ serving' = FALSE
  /\ UNCHANGED <<frame, posted, server>>

(* Nothing is due: the frame ends and time goes on by a tick. *)
EndFrame ==
  /\ server = "up" /\ frame = "service" /\ ~serving
  /\ ~Due(queue)
  /\ queue' = Elapse(queue, FrameTime)
  /\ frame' = "think"
  /\ UNCHANGED <<serving, posted, server>>

Init ==
  /\ queue = <<>> /\ serving = FALSE /\ frame = "think"
  /\ posted = 0 /\ server = "up"

Next ==
  \/ \E t \in Entities, n \in Inputs, d \in Delays, c \in Entities : Post(t, n, d, c)
  \/ \E c \in Entities : Cancel(c)
  \/ \E t \in Entities, n \in Inputs : CancelOn(t, {n})
  \/ Clear
  \/ StartService \/ Deliver \/ Return \/ EndFrame

Spec == Init /\ [][Next]_vars

(* The frame loop goes on, and every input handler returns. *)
FairSpec == Spec /\ WF_vars(StartService \/ Deliver \/ Return \/ EndFrame)
-----------------------------------------------------------------------------
(* Properties.                                                             *)

TypeOK ==
  /\ queue \in Seq(Event)
  /\ serving \in BOOLEAN
  /\ frame \in {"think", "service"}
  /\ posted \in 0 .. MaxEvents
  /\ server \in {"up", "faulted"}

(* No event is left behind: ServiceEvents stops at the first event that is *)
(* not due, and yet none is ever a whole frame late.                       *)
NeverLate == \A i \in DOMAIN queue : queue[i].after > -FrameTime

Served == INSTANCE Agenda WITH
  agenda  <- {[stamp |-> queue[i].stamp, after |-> queue[i].after] : i \in DOMAIN queue},
  current <- IF serving THEN Head(queue).stamp ELSE 0,
  stamps  <- posted

(* The queue serves every event once, on time and in order. *)
ImplementsAgenda == Served!Spec

(* Every event is served or cancelled in the end. *)
Pending(n) == \E i \in DOMAIN queue : queue[i].stamp = n

EventsAreServed == \A n \in 1 .. MaxEvents : Pending(n) ~> (~Pending(n) \/ server # "up")
=============================================================================
