------------------------------- MODULE Agenda -------------------------------
(***************************************************************************)
(* What the event queue promises, without a list: of the entries whose     *)
(* time has come the earliest is served first, and of several with one     *)
(* time the one that was entered first.  An entry is served in the first   *)
(* frame that is not before its time, once, unless it is withdrawn before. *)
(*                                                                         *)
(* EventQueue implements this specification (EventQueue!Served).           *)
(***************************************************************************)
EXTENDS Integers

CONSTANTS Delays, FrameTime

VARIABLES
  agenda,   (* the entries: [stamp, after]                                  *)
  current,  (* the stamp of the entry being served, 0 between two           *)
  stamps    (* how many entries were ever made                              *)

avars == <<agenda, current, stamps>>

Enter(delay) ==
  /\ stamps' = stamps + 1
  /\ agenda' = agenda \cup {[stamp |-> stamps', after |-> delay]}
  /\ UNCHANGED current

Precedes(x, y) == x.after < y.after \/ (x.after = y.after /\ x.stamp < y.stamp)

Serve(x) ==
  /\ current = 0 /\ x.after <= 0
  /\ \A y \in agenda \ {x} : Precedes(x, y)
  /\ current' = x.stamp
  /\ UNCHANGED <<agenda, stamps>>

Done ==
  /\ current # 0
  /\ agenda' = {x \in agenda : x.stamp # current}
  /\ current' = 0
  /\ UNCHANGED stamps

Withdraw(xs) ==
  /\ \A x \in xs : x.stamp # current
  /\ agenda' = agenda \ xs
  /\ UNCHANGED <<current, stamps>>

NextFrame ==
  /\ current = 0
  /\ \A x \in agenda : x.after > 0
  /\ agenda' = {[x EXCEPT !.after = @ - FrameTime] : x \in agenda}
  /\ UNCHANGED <<current, stamps>>

Init == agenda = {} /\ current = 0 /\ stamps = 0

Next ==
  \/ \E delay \in Delays : Enter(delay)
  \/ \E x \in agenda : Serve(x)
  \/ Done
  \/ \E xs \in SUBSET agenda : Withdraw(xs)
  \/ NextFrame

Spec == Init /\ [][Next]_avars
=============================================================================
