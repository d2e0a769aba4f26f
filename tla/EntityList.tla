---------------------------- MODULE EntityList -----------------------------
(***************************************************************************)
(* The server's entity list (shared/entitylist_base.cpp): slots that give  *)
(* out handles, each a slot and a serial number, and two lists threaded    *)
(* through them; and the life of entities on it (server/util.cpp,          *)
(* entitylist.cpp): they are created, marked for deletion, and destroyed   *)
(* at once or by the clean-up between two parts of a frame, while game     *)
(* code that runs in the middle of all this creates and removes others.    *)
(*                                                                         *)
(* "stack" holds the calls in progress.  The code that runs on top of it,  *)
(* or outside of any of these calls, may make further ones.                *)
(***************************************************************************)
EXTENDS SlotLists, Sequences

CONSTANTS
  NumEntities, (* bound: how many entities are ever created                *)
  MaxEdicts,   (* MAX_EDICTS: the slots below are for networked entities   *)
  SerialMod,   (* SERIAL_MASK + 1                                          *)
  FirstSerial, (* the random serial numbers of the constructor             *)
  Fleeting,    (* entities that code removes with UTIL_RemoveImmediate     *)
  MaxDepth     (* bound: how deep calls nest                               *)

Entities == 1 .. NumEntities

ASSUME ListAssumption ==
  /\ NumEntities \in Nat /\ MaxEdicts \in Nat /\ MaxEdicts + 1 < NumSlots
  /\ SerialMod \in Nat \ {0}
  /\ FirstSerial \in [Slots -> 0 .. SerialMod - 1]
  /\ Fleeting \subseteq Entities
  /\ MaxDepth \in Nat
  /\ Nil \notin Entities

VARIABLES
  info,       (* m_EntPtrArray: [Slots -> [ent, serial]]                   *)
  links,      (* the lists through it                                      *)
  numEnts,    (* m_iNumEnts                                                *)
  ref,        (* [Entities -> handle]: m_RefEHandle                        *)
  created,    (* the entities 1 .. created have been constructed           *)
  killme,     (* those with EFL_KILLME                                     *)
  dead,       (* those whose memory has been freed                         *)
  deleteList, (* g_DeleteList                                              *)
  cursor,     (* where CleanupDeleteList has got to in it                  *)
  pending,    (* m_removeObjects: removals asked for in physics callbacks  *)
  thinkers,   (* the rest of the snapshot that Physics_RunThinkFunctions   *)
              (* walks                                                     *)
  at,         (* the entity a walk over the active list is at              *)
  seen,       (* the entities it has visited                               *)
  stack,      (* Seq of [op, ent]                                          *)
  given,      (* history: the handle each entity got, and how often its    *)
              (* slot had been freed then                                  *)
  uses        (* history: how often each slot has been freed               *)

table    == <<info, links, numEnts, ref>>
removals == <<deleteList, cursor, pending>>
loops    == <<thinkers, at, seen>>
history  == <<given, uses>>
vars     == <<table, created, killme, dead, removals, loops, stack, history>>

(* An empty handle is 0xFFFFFFFF: its entry index is that of the last      *)
(* slot, its serial number one that no slot ever has.                      *)
Invalid == [slot |-> NumSlots - 1, serial |-> -1]
Handles == [slot : Slots, serial : 0 .. SerialMod - 1] \cup {Invalid}

Lookup(h) ==
  IF h # Invalid /\ info[h.slot].serial = h.serial THEN info[h.slot].ent ELSE Nil

Listed    == {e \in Entities : ref[e] # Invalid}
Exists(e) == e <= created /\ e \notin dead

-----------------------------------------------------------------------------
(* The list.                                                               *)

AddEntityAtSlot(e, s, l) ==
  /\ info' = [info EXCEPT ![s].ent = e]
  /\ links' = AddToTail(l, "active", s)
  /\ ref' = [ref EXCEPT ![e] = [slot |-> s, serial |-> info[s].serial]]
  /\ numEnts' = numEnts + 1
  /\ given' = [given EXCEPT ![e] = [handle |-> ref'[e], use |-> uses[s]]]
  /\ UNCHANGED uses

(* Mutant of NextSerial: the number is not raised. *)
NextSerialSame(n) == n

NextSerial(n) == (n + 1) % SerialMod

(* The slot leaves the active list; if it is not an edict's, it joins the  *)
(* free list.                                                              *)
FreeSlot(s) ==
  LET l == Unlink(links, "active", s)
  IN  links' = IF s >= MaxEdicts THEN AddToTail(l, "free", s) ELSE l

RemoveEntityAtSlot(s) ==
  IF info[s].ent = Nil THEN UNCHANGED <<table, history>>
  ELSE /\ ref' = [ref EXCEPT ![info[s].ent] = Invalid]
       /\ numEnts' = numEnts - 1
       /\ info' = [info EXCEPT ![s] = [ent |-> Nil, serial |-> NextSerial(@.serial)]]
       /\ FreeSlot(s)
       /\ uses' = [uses EXCEPT ![s] = @ + 1]
       /\ UNCHANGED given

-----------------------------------------------------------------------------
(* Calls in progress.                                                      *)

Top        == stack[Len(stack)].op
TopEnt     == stack[Len(stack)].ent
Calling(op) == \E i \in DOMAIN stack : stack[i].op = op
Without    == SubSeq(stack, 1, Len(stack) - 1)
Call(op, e) == [op |-> op, ent |-> e]
Push(op, e) == stack' = Append(stack, Call(op, e))
Replace(op, e) == stack' = Append(Without, Call(op, e))
Return     == stack' = Without

(* Where game code runs that may create and remove entities: in the        *)
(* UpdateOnRemove of an entity, in the think functions, inputs and damage  *)
(* that loops deliver, and outside of all of them; in destructors and      *)
(* physics callbacks it only removes.                                      *)
CodeRuns ==
  /\ Len(stack) < MaxDepth
  /\ \/ stack = <<>>
     \/ stack # <<>> /\ \/ Top \in {"update", "updateNow", "damage"}
                        \/ Top = "think" /\ thinkers # {}
                        \/ Top = "visit" /\ at # Nil

RemovingCodeRuns ==
  \/ CodeRuns
  \/ Len(stack) \in 1 .. MaxDepth - 1 /\ Top \in {"destroy", "simulate"}

-----------------------------------------------------------------------------
(* Creation.                                                               *)

(* While the list is being cleared nothing is created. *)
NextEntity == created + 1
CanCreate  == CodeRuns /\ created < NumEntities /\ ~Calling("clear") /\ ~Calling("clearEnd")

(* The engine picks a free edict. *)
CreateNetworked ==
  /\ CanCreate
  /\ \E s \in 0 .. MaxEdicts - 1 :
       info[s].ent = Nil /\ AddEntityAtSlot(NextEntity, s, links)
  /\ created' = created + 1
  /\ UNCHANGED <<killme, dead, removals, loops, stack>>

(* With the free list empty the new entity is left without a handle. *)
CreateServerOnly ==
  /\ CanCreate
  /\ LET s == links.head["free"]
     IN  IF s = Nil THEN UNCHANGED <<table, history>>
         ELSE AddEntityAtSlot(NextEntity, s, Unlink(links, "free", s))
  /\ created' = created + 1
  /\ UNCHANGED <<killme, dead, removals, loops, stack>>

-----------------------------------------------------------------------------
(* Removal.                                                                *)

Mark(e) == killme' = killme \cup {e}

(* UTIL_Remove.  In a physics callback it only takes a note. *)
UTIL_Remove(e) ==
  /\ Exists(e) /\ e \notin killme
  /\ IF Calling("simulate")
       THEN /\ pending' = IF \E i \in DOMAIN pending : pending[i] = e THEN pending
                          ELSE Append(pending, e)
            /\ UNCHANGED <<killme, stack>>
       ELSE Mark(e) /\ Push("update", e) /\ UNCHANGED pending

(* What a callback removes is a physical object, which no code removes at  *)
(* once.                                                                   *)
Remove(e) ==
  /\ RemovingCodeRuns
  /\ Calling("simulate") => e \notin Fleeting
  /\ UTIL_Remove(e)
  /\ UNCHANGED <<table, created, dead, deleteList, cursor, loops, history>>

(* Mutant of RemoveImmediate: also in the loop over the thinkers. *)
RemoveImmediateAlways(e) ==
  /\ CodeRuns /\ e \in Fleeting /\ Exists(e) /\ e \notin killme /\ e # at
  /\ Mark(e) /\ Push("updateNow", e)
  /\ UNCHANGED <<table, created, dead, removals, loops, history>>

(* UTIL_RemoveImmediate; the callers never pass the entity that a walk is  *)
(* at.  In the loop over the thinkers it is UTIL_Remove.                   *)
RemoveImmediate(e) ==
  /\ CodeRuns /\ e \in Fleeting /\ Exists(e) /\ e \notin killme /\ e # at
  /\ Mark(e)
  /\ IF Calling("think") THEN Push("update", e) ELSE Push("updateNow", e)
  /\ UNCHANGED <<table, created, dead, removals, loops, history>>

(* Mutant of AddToDeleteList: what destructors remove is forgotten. *)
AddToDeleteListBefore ==
  /\ stack # <<>> /\ Top = "update"
  /\ deleteList' = IF ref[TopEnt] = Invalid \/ Calling("cleanup") THEN deleteList
                   ELSE Append(deleteList, TopEnt)
  /\ Return
  /\ UNCHANGED <<table, created, killme, dead, cursor, pending, loops, history>>

(* UpdateOnRemove is over: the entity goes on the delete list, if it is on *)
(* the entity list.                                                        *)
AddToDeleteList ==
  /\ stack # <<>> /\ Top = "update"
  /\ deleteList' = IF ref[TopEnt] = Invalid THEN deleteList ELSE Append(deleteList, TopEnt)
  /\ Return
  /\ UNCHANGED <<table, created, killme, dead, cursor, pending, loops, history>>

DeleteNow ==
  /\ stack # <<>> /\ Top = "updateNow"
  /\ Replace("destroy", TopEnt)
  /\ UNCHANGED <<table, created, killme, dead, removals, loops, history>>

(* The end of ~CBaseEntity: RemoveEntity( GetRefEHandle() ), which asks    *)
(* only for the slot of the handle, and the memory is free.                *)
Destroyed ==
  /\ stack # <<>> /\ Top = "destroy"
  /\ RemoveEntityAtSlot(ref[TopEnt].slot)
  /\ dead' = dead \cup {TopEnt}
  /\ Return
  /\ UNCHANGED <<created, killme, removals, loops>>

-----------------------------------------------------------------------------
(* CleanupDeleteList: the destructors may add to the list it goes through. *)

StartCleanup ==
  /\ stack = <<>>
  /\ Push("cleanup", Nil)
  /\ UNCHANGED <<table, created, killme, dead, removals, loops, history>>

Release ==
  /\ stack # <<>> /\ Top = "cleanup" /\ cursor < Len(deleteList)
  /\ Push("destroy", deleteList[cursor + 1])
  /\ cursor' = cursor + 1
  /\ UNCHANGED <<table, created, killme, dead, deleteList, pending, loops, history>>

EndCleanup ==
  /\ stack # <<>> /\ Top = "cleanup" /\ cursor = Len(deleteList)
  /\ deleteList' = <<>> /\ cursor' = 0
  /\ Return
  /\ UNCHANGED <<table, created, killme, dead, pending, loops, history>>

-----------------------------------------------------------------------------
(* Physics_RunThinkFunctions: after a clean-up a snapshot of the entities  *)
(* is walked, with immediate removal disabled.                             *)

Oldest(E) == CHOOSE e \in E : \A f \in E : e <= f

StartThinking ==
  /\ stack = <<>> /\ deleteList = <<>>
  /\ thinkers' = {e \in Entities : Exists(e)}
  /\ Push("think", Nil)
  /\ UNCHANGED <<table, created, killme, dead, removals, at, seen, history>>

NextThinker ==
  /\ stack # <<>> /\ Top = "think"
  /\ IF thinkers = {} THEN Return /\ UNCHANGED thinkers
     ELSE thinkers' = thinkers \ {Oldest(thinkers)} /\ UNCHANGED stack
  /\ UNCHANGED <<table, created, killme, dead, removals, at, seen, history>>

-----------------------------------------------------------------------------
(* Walks over the active list: the entities a name stands for, or those    *)
(* that CleanUpMap looks at, or (Clear) all of them, to be removed.        *)

EntityAt(s) == IF s = Nil THEN Nil ELSE info[s].ent

(* NextEnt: from the slot of the entity's handle. *)
NextEnt(e) == EntityAt(links.next[ref[e].slot])

WalkTo(e) ==
  /\ at' = e
  /\ seen' = IF e = Nil THEN seen ELSE seen \cup {e}

StartWalk(op) ==
  /\ stack = <<>>
  /\ at' = EntityAt(links.head["active"])
  /\ seen' = {at'} \ {Nil}
  /\ Push(op, Nil)
  /\ UNCHANGED <<table, created, killme, dead, removals, thinkers, history>>

StartVisit == StartWalk("visit")
StartClear == StartWalk("clear")

NextVisit ==
  /\ stack # <<>> /\ Top = "visit" /\ at # Nil
  /\ WalkTo(NextEnt(at))
  /\ UNCHANGED <<table, created, killme, dead, removals, thinkers, stack, history>>

EndVisit ==
  /\ stack # <<>> /\ Top = "visit" /\ at = Nil
  /\ Return
  /\ UNCHANGED <<table, created, killme, dead, removals, loops, history>>

ClearRemove ==
  /\ stack # <<>> /\ Top = "clear" /\ at # Nil
  /\ UTIL_Remove(at)
  /\ UNCHANGED <<table, created, dead, deleteList, cursor, loops, history>>

ClearNext ==
  /\ stack # <<>> /\ Top = "clear" /\ at # Nil /\ at \in killme
  /\ WalkTo(NextEnt(at))
  /\ UNCHANGED <<table, created, killme, dead, removals, thinkers, stack, history>>

(* The walk is over: the clean-up, then the count is set to zero. *)
ClearCleanup ==
  /\ stack # <<>> /\ Top = "clear" /\ at = Nil
  /\ stack' = Append(Append(Without, Call("clearEnd", Nil)), Call("cleanup", Nil))
  /\ UNCHANGED <<table, created, killme, dead, removals, loops, history>>

EndClear ==
  /\ stack # <<>> /\ Top = "clearEnd"
  /\ numEnts' = 0
  /\ Return
  /\ UNCHANGED <<info, links, ref, created, killme, dead, removals, loops, history>>

-----------------------------------------------------------------------------
(* The physics simulation: callbacks while it runs, then the damage they   *)
(* asked for, then the removals.                                           *)

StartSimulation ==
  /\ stack = <<>>
  /\ Push("simulate", Nil)
  /\ UNCHANGED <<table, created, killme, dead, removals, loops, history>>

UpdateDamageEvents ==
  /\ stack # <<>> /\ Top = "simulate"
  /\ Replace("damage", Nil)
  /\ UNCHANGED <<table, created, killme, dead, removals, loops, history>>

(* Mutant of EndDamageEvents: the removals are not flushed. *)
EndDamageEventsOnly ==
  /\ stack # <<>> /\ Top = "damage"
  /\ Return
  /\ UNCHANGED <<table, created, killme, dead, removals, loops, history>>

EndDamageEvents ==
  /\ stack # <<>> /\ Top = "damage"
  /\ Replace("flush", Nil)
  /\ UNCHANGED <<table, created, killme, dead, removals, loops, history>>

UpdateRemoveObjects ==
  /\ stack # <<>> /\ Top = "flush"
  /\ IF pending = <<>> THEN Return /\ UNCHANGED <<killme, pending>>
     ELSE LET e == Head(pending)
          IN  /\ pending' = Tail(pending)
              /\ IF e \in killme THEN UNCHANGED <<killme, stack>>
                 ELSE Mark(e) /\ Push("update", e)
  /\ UNCHANGED <<table, created, dead, deleteList, cursor, loops, history>>

-----------------------------------------------------------------------------
Init ==
  /\ info = [s \in Slots |-> [ent |-> Nil, serial |-> FirstSerial[s]]]
  /\ links =
       LET Free == MaxEdicts + 1 .. NumSlots - 1   (* slot MAX_EDICTS is left out *)
       IN  [next |-> [s \in Slots |-> IF s \notin Free THEN s
                                      ELSE IF s = NumSlots - 1 THEN Nil ELSE s + 1],
            prev |-> [s \in Slots |-> IF s \notin Free THEN s
                                      ELSE IF s = MaxEdicts + 1 THEN Nil ELSE s - 1],
            head |-> [list \in Lists |-> IF list = "free" THEN MaxEdicts + 1 ELSE Nil],
            tail |-> [list \in Lists |-> IF list = "free" THEN NumSlots - 1 ELSE Nil]]
  /\ numEnts = 0
  /\ ref = [e \in Entities |-> Invalid]
  /\ created = 0 /\ killme = {} /\ dead = {}
  /\ deleteList = <<>> /\ cursor = 0 /\ pending = <<>>
  /\ thinkers = {} /\ at = Nil /\ seen = {}
  /\ stack = <<>>
  /\ given = [e \in Entities |-> [handle |-> Invalid, use |-> 0]]
  /\ uses = [s \in Slots |-> 0]

(* Steps that calls in progress take towards their end. *)
Proceed ==
  \/ AddToDeleteList \/ DeleteNow \/ Destroyed \/ Release \/ EndCleanup
  \/ NextThinker \/ NextVisit \/ EndVisit
  \/ ClearRemove \/ ClearNext \/ ClearCleanup \/ EndClear
  \/ UpdateDamageEvents \/ EndDamageEvents \/ UpdateRemoveObjects

Next ==
  \/ CreateNetworked \/ CreateServerOnly
  \/ \E e \in Entities : Remove(e) \/ RemoveImmediate(e)
  \/ StartCleanup \/ StartThinking \/ StartVisit \/ StartClear \/ StartSimulation
  \/ Proceed

Spec == Init /\ [][Next]_vars

(* Calls return, and the frame comes back to its clean-ups.                *)
FairSpec == Spec /\ WF_vars(Proceed) /\ SF_vars(StartCleanup)
-----------------------------------------------------------------------------
(* Properties.                                                             *)

(* The list that a slot is in. *)
ListOf ==
  [s \in Slots |-> IF info[s].ent # Nil THEN "active"
                   ELSE IF s > MaxEdicts THEN "free" ELSE "none"]

(* An entity's handle names the slot that holds the entity, a slot that    *)
(* holds one is in the active list, and the slots beyond the edicts that   *)
(* hold none are in the free list, however entities come and go.           *)
ListsAgree ==
  /\ WellLinked(links, ListOf)
  /\ \A s \in Slots :
       info[s].ent # Nil =>
         info[s].ent \in Entities /\ ref[info[s].ent] = [slot |-> s, serial |-> info[s].serial]
  /\ \A e \in Listed : info[ref[e].slot].ent = e

(* What a handle resolves to is the entity it was given for, or nothing,   *)
(* unless its slot has been freed a multiple of 2^15 times since.          *)
HandlesResolve ==
  \A e \in Entities :
    LET h    == given[e].handle
        gone == uses[h.slot] - given[e].use
    IN  h # Invalid =>
          Lookup(h) \in {e, Nil} \/ \E k \in 1 .. gone : gone = k * SerialMod

Elements(q) == {q[i] : i \in DOMAIN q}
ToRelease   == {deleteList[i] : i \in cursor + 1 .. Len(deleteList)}

(* The bare pointers that the server keeps over game code, on the delete   *)
(* list, in the removals that callbacks asked for, in the snapshot of the  *)
(* thinkers and on the stack, are to entities that still exist, and none   *)
(* is to be released twice.                                                *)
PointersAreLive ==
  /\ \A e \in ToRelease \cup Elements(pending) \cup thinkers
            \cup ({stack[i].ent : i \in DOMAIN stack} \ {Nil}) : e \notin dead
  /\ \A i, j \in DOMAIN deleteList : deleteList[i] = deleteList[j] => i = j

(* An entity was created when the free list had run out ("no free         *)
(* slots!").  It has no handle, and to destroy it at once frees the last   *)
(* slot, whose entity then drops out of the list.                          *)
Overflowed == \E e \in 1 .. created : given[e].handle = Invalid

(* A walk over the list visits no entity twice, and when it ends it has    *)
(* visited every entity that is on the list then: what is removed at once  *)
(* or created on the way does not lead it astray, unless the slots ran out. *)
WalkVisitsAll ==
  [][at # Nil /\ at' # at => at' \notin seen /\ (at' = Nil => Listed \subseteq seen \/ Overflowed)]_vars

(* After Clear no entity is left on the list, and the count it sets to     *)
(* zero was zero.                                                          *)
ClearLeavesNothing ==
  stack # <<>> /\ Top = "clearEnd" => Overflowed \/ (Listed = {} /\ numEnts = 0)

(* An entity that is marked for deletion, or that a callback wanted        *)
(* removed, is gone from the list in the end.                              *)
RemovedAreDeleted ==
  \A e \in Entities :
    e \in Listed /\ (e \in killme \/ e \in Elements(pending)) ~> e \notin Listed
=============================================================================
