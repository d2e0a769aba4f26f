--------------------------- MODULE MCPlayerTeams ---------------------------
(* Small instances of PlayerTeams. *)
EXTENDS PlayerTeams, TLC

CONSTANTS p1, p2
=============================================================================
