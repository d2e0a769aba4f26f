----------------------------- MODULE SlotLists -----------------------------
(***************************************************************************)
(* The two doubly linked lists that CBaseEntityList threads through its    *)
(* array of slots (shared/entitylist_base.cpp, CEntInfoList): the slots in *)
(* use and the free ones.  A slot has one pair of links, so it is in one   *)
(* list at most; a slot in no list is linked to itself (ClearLinks).       *)
(***************************************************************************)
EXTENDS Integers

CONSTANTS
  NumSlots, (* NUM_ENT_ENTRIES                                             *)
  Nil       (* a null pointer                                              *)

ASSUME SlotsAssumption ==
  /\ NumSlots \in Nat \ {0}
  /\ Nil \notin 0 .. NumSlots - 1

Slots == 0 .. NumSlots - 1
Lists == {"active", "free"}

Links ==
  [next : [Slots -> Slots \cup {Nil}], prev : [Slots -> Slots \cup {Nil}],
   head : [Lists -> Slots \cup {Nil}], tail : [Lists -> Slots \cup {Nil}]]

IsInList(l, s) == l.prev[s] # s

(* Mutant of Unlink: the tail is not moved back. *)
UnlinkKeepsTail(l, list, s) ==
  IF ~IsInList(l, s) THEN l
  ELSE [l EXCEPT
         !.next = [t \in Slots |-> IF t = s THEN s ELSE IF t = l.prev[s] THEN l.next[s] ELSE @[t]],
         !.prev = [t \in Slots |-> IF t = s THEN s ELSE IF t = l.next[s] THEN l.prev[s] ELSE @[t]],
         !.head[list] = IF l.prev[s] = Nil THEN l.next[s] ELSE @]

Unlink(l, list, s) ==
  IF ~IsInList(l, s) THEN l
  ELSE [l EXCEPT
         !.next = [t \in Slots |-> IF t = s THEN s ELSE IF t = l.prev[s] THEN l.next[s] ELSE @[t]],
         !.prev = [t \in Slots |-> IF t = s THEN s ELSE IF t = l.next[s] THEN l.prev[s] ELSE @[t]],
         !.head[list] = IF l.prev[s] = Nil THEN l.next[s] ELSE @,
         !.tail[list] = IF l.next[s] = Nil THEN l.prev[s] ELSE @]

(* Mutant of AddToTail: at the other end. *)
AddToHead(l, list, s) ==
  [l EXCEPT
     !.prev = [t \in Slots |-> IF t = s THEN Nil ELSE IF t = l.head[list] THEN s ELSE @[t]],
     !.next[s] = l.head[list],
     !.tail[list] = IF l.head[list] = Nil THEN s ELSE @,
     !.head[list] = s]

(* LinkBefore( NULL, s ), for a slot that is in no list. *)
AddToTail(l, list, s) ==
  [l EXCEPT
     !.next = [t \in Slots |-> IF t = s THEN Nil ELSE IF t = l.tail[list] THEN s ELSE @[t]],
     !.prev[s] = l.tail[list],
     !.head[list] = IF l.tail[list] = Nil THEN s ELSE @,
     !.tail[list] = s]

(* What holds of the links of the slots, when col tells the list of each   *)
(* slot or "none": neighbours know each other and are in the same list,    *)
(* and the ends are where the list says.                                   *)
WellLinked(l, col) ==
  /\ l \in Links
  /\ \A s \in Slots :
       IF col[s] = "none" THEN l.next[s] = s /\ l.prev[s] = s
       ELSE /\ l.next[s] # s /\ l.prev[s] # s
            /\ IF l.next[s] = Nil THEN l.tail[col[s]] = s
               ELSE l.prev[l.next[s]] = s /\ col[l.next[s]] = col[s]
            /\ IF l.prev[s] = Nil THEN l.head[col[s]] = s
               ELSE l.next[l.prev[s]] = s /\ col[l.prev[s]] = col[s]
  /\ \A list \in Lists :
       /\ IF l.head[list] = Nil THEN l.tail[list] = Nil
          ELSE col[l.head[list]] = list /\ l.prev[l.head[list]] = Nil
       /\ IF l.tail[list] = Nil THEN l.head[list] = Nil
          ELSE col[l.tail[list]] = list /\ l.next[l.tail[list]] = Nil
=============================================================================
