----------------------------- MODULE EventList -----------------------------
(***************************************************************************)
(* The list inside CEventQueue (server/cbase.cpp): the events of the       *)
(* entity input/output system, by the time they fire.                      *)
(*                                                                         *)
(* An event is a record with the field "after", the time from now to       *)
(* m_flFireTime, a target, an input and a caller, and what else its owner  *)
(* wants in it.  Every operation maps a list to a list.                    *)
(***************************************************************************)
EXTENDS Integers, Sequences, SequencesExt

(* Mutants of AddEvent: behind every event; in front of those that fire at *)
(* the same time.                                                          *)
AddEventLast(q, e) == Append(q, e)

AddEventBeforeTies(q, e) ==
  LET NotEarlier(f) == f.after >= e.after
      i == SelectInSeq(q, NotEarlier)
  IN  IF i = 0 THEN Append(q, e) ELSE InsertAt(q, i, e)

(* In front of the first event that fires strictly later, so behind those  *)
(* that fire at the same time.                                             *)
AddEvent(q, e) ==
  LET Later(f) == f.after > e.after
      i == SelectInSeq(q, Later)
  IN  IF i = 0 THEN Append(q, e) ELSE InsertAt(q, i, e)

(* The events of a sequence are added, one after the other. *)
AddEvents(q, events) ==
  LET list[i \in 0 .. Len(events)] ==
        IF i = 0 THEN q ELSE AddEvent(list[i - 1], events[i])
  IN  list[Len(events)]

(* What is left when the members of a set are taken from a list. *)
Without(q, gone) ==
  LET kept[i \in 0 .. Len(q)] ==
        IF i = 0 THEN <<>>
        ELSE IF q[i] \in gone THEN kept[i - 1] ELSE Append(kept[i - 1], q[i])
  IN  kept[Len(q)]

CancelEvents(q, caller) == Without(q, {e \in ToSet(q) : e.caller = caller})

(* The code compares the beginning of the input's name: "inputs" are the   *)
(* inputs whose names begin with the one given.                            *)
CancelEventOn(q, target, inputs) ==
  Without(q, {e \in ToSet(q) : e.target = target /\ e.input \in inputs})

(* What ServiceEvents asks of the head of the list. *)
Due(q) == q # <<>> /\ Head(q).after <= 0

(* Server time goes on. *)
Elapse(q, time) == [i \in DOMAIN q |-> [q[i] EXCEPT !.after = @ - time]]
=============================================================================
