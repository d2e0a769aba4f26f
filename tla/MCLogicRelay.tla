---------------------------- MODULE MCLogicRelay ----------------------------
(* Small maps for LogicRelay. *)
EXTENDS LogicRelay, TLC

CONSTANTS r1, r2, r3, r4, r5, door

Do(target, input, delay, times) ==
  [target |-> target, input |-> input, delay |-> delay, times |-> times]

(* Two relays that trigger each other at once, set off at map load; one    *)
(* that closes a door later; one that may be triggered while its outputs   *)
(* are pending and that cancels itself once; one that is removed when it   *)
(* fires.                                                                  *)
NetFlags   == r1 :> {} @@ r2 :> {} @@ r3 :> {"FAST_RETRIGGER"} @@ r4 :> {"REMOVE_ON_FIRE"}
           @@ r5 :> {}
NetTrigger == r1 :> << Do(r2, "Trigger", 0, Always) >>
           @@ r2 :> << Do(r1, "Trigger", 0, Always) >>
           @@ r3 :> << Do(r1, "Toggle", 1, Always), Do(r3, "CancelPending", 3, 1) >>
           @@ r4 :> << Do(r3, "Trigger", 2, Always) >>
           @@ r5 :> << Do(r4, "Trigger", 0, Always), Do(door, "Disable", 3, Always) >>
NetSpawn   == r1 :> << Do(r2, "Trigger", 1, Always) >>
           @@ r2 :> <<>> @@ r3 :> <<>> @@ r4 :> <<>> @@ r5 :> <<>>

NetWired   == {<<r1, "Trigger">>, <<r2, "Enable">>, <<r2, "Disable">>, <<r2, "CancelPending">>,
               <<r3, "Trigger">>, <<r4, "Trigger">>,
               <<r5, "Trigger">>, <<r5, "Toggle">>, <<r5, "CancelPending">>}

(* A relay that closes a door at its first trigger only. *)
OnceFlags   == r1 :> {}
OnceTrigger == r1 :> << Do(door, "Disable", 4, 1), Do(door, "Enable", 0, Always) >>
OnceSpawn   == r1 :> <<>>
OnceWired   == {<<r1, "Trigger">>, <<r1, "CancelPending">>}
=============================================================================
