---------------------------- MODULE MCEntityList ---------------------------
(* A small instance of EntityList. *)
EXTENDS EntityList

(* One edict, the slot that is left out, and two slots of the free list.   *)
Serials == [s \in Slots |-> s % SerialMod]
=============================================================================
