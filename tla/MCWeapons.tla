----------------------------- MODULE MCWeapons -----------------------------
(* A small instance of Weapons: one place, one spawner, of the same class. *)
EXTENDS Weapons

CONSTANTS p1, p2, s1, sp, gun, w1, w2, w3, w4

Map    == [s \in Spots |-> gun]
Stock  == [s \in Spawners |-> {gun}]
=============================================================================
