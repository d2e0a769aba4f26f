----------------------------- MODULE GoalCycle -----------------------------
(***************************************************************************)
(* What a goal promises the map maker, without think functions, spawn      *)
(* flags or effects: once started it waits "delay" ticks, is lit for       *)
(* "time" ticks, and rests, or goes round again while it is enabled and    *)
(* set to loop.  It starts only while it rests, and, but for a start at    *)
(* map load, only while enabled; an enabled goal can be interrupted.       *)
(*                                                                         *)
(* FFGoal implements this specification (FFGoal!Cycle).                    *)
(***************************************************************************)
EXTENDS Integers

CONSTANTS
  Goals,
  Delay,   (* [Goals -> Nat]                                               *)
  Time,    (* [Goals -> Nat \cup {-1}]; -1 is for ever                     *)
  Looping, (* the goals that loop                                          *)
  AtLoad,  (* the goals that start at map load                             *)
  Initial  (* the goals enabled at map load                                *)

VARIABLES phase, left, enabled

cvars == <<phase, left, enabled>>

NoTimer == -1

Phases == {"rest", "waiting", "lit"}

(* Where a goal goes, and with which timer, when it is lit after a wait,   *)
(* when its time is over, and when it starts.                              *)
Waiting(g) == <<"waiting", Delay[g]>>
Lit(g)     == <<"lit", IF Time[g] < 0 THEN NoTimer ELSE Time[g]>>
Rest       == <<"rest", NoTimer>>

AfterLit(g, on) ==
  IF on /\ g \in Looping
    THEN IF Delay[g] > 0 THEN Waiting(g) ELSE Lit(g)
    ELSE Rest

AfterWait(g, on) == IF Time[g] = 0 THEN AfterLit(g, on) ELSE Lit(g)

AfterStart(g, on) == IF Delay[g] > 0 THEN Waiting(g) ELSE AfterWait(g, on)

Become(g, next) ==
  /\ phase' = [phase EXCEPT ![g] = next[1]]
  /\ left' = [left EXCEPT ![g] = next[2]]
  /\ UNCHANGED enabled

Start(g) ==
  /\ phase[g] = "rest"
  /\ enabled[g] \/ g \in AtLoad
  /\ Become(g, AfterStart(g, enabled[g]))

Elapse(g) ==
  /\ left[g] = 0
  /\ Become(g, IF phase[g] = "waiting" THEN AfterWait(g, enabled[g])
                                       ELSE AfterLit(g, enabled[g]))

Interrupt(g) ==
  /\ enabled[g] /\ phase[g] # "rest"
  /\ Become(g, Rest)

Switch(g, on) ==
  /\ enabled' = [enabled EXCEPT ![g] = on]
  /\ UNCHANGED <<phase, left>>

PassTick ==
  /\ \A g \in Goals : left[g] # 0
  /\ left' = [g \in Goals |-> IF left[g] = NoTimer THEN NoTimer ELSE left[g] - 1]
  /\ UNCHANGED <<phase, enabled>>

(* Goals of the map are deleted. *)
Delete(gs) ==
  /\ phase' = [g \in Goals |-> IF g \in gs THEN "rest" ELSE phase[g]]
  /\ left' = [g \in Goals |-> IF g \in gs THEN NoTimer ELSE left[g]]
  /\ enabled' = [g \in Goals |-> g \notin gs /\ enabled[g]]

Reload ==
  /\ phase' = [g \in Goals |-> "rest"]
  /\ left' = [g \in Goals |-> NoTimer]
  /\ enabled' = [g \in Goals |-> g \in Initial]

Init ==
  /\ phase = [g \in Goals |-> "rest"]
  /\ left = [g \in Goals |-> NoTimer]
  /\ enabled = [g \in Goals |-> g \in Initial]

Next ==
  \/ \E g \in Goals : Start(g) \/ Elapse(g) \/ Interrupt(g)
  \/ \E g \in Goals, on \in BOOLEAN : Switch(g, on)
  \/ PassTick
  \/ \E gs \in SUBSET Goals : Delete(gs)
  \/ Reload

Spec == Init /\ [][Next]_cvars
=============================================================================
