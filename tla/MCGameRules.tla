---------------------------- MODULE MCGameRules ----------------------------
(* Small instances of GameRules. *)
EXTENDS GameRules, TLC

CONSTANTS p1, p2
=============================================================================
