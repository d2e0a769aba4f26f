---------------------------- MODULE MCEventQueue ----------------------------
(* Small instances of EventQueue. *)
EXTENDS EventQueue, TLC

CONSTANTS e1, e2

MCDelays == {0, 1, 2, 3}
=============================================================================
