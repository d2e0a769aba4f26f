------------------------------ MODULE MCFFGoal ------------------------------
(* Small maps for FFGoal. *)
EXTENDS FFGoal, TLC

CONSTANTS flag, beacon, relic, gate, p1, p2, red, blue

Check(t, rs) == [test |-> t, refs |-> rs]

(* A looping info goal that is lit at map load, and an item that comes     *)
(* back after a while.                                                     *)
LoopKind     == beacon :> "info" @@ relic :> "item"
LoopFlags    == beacon :> {"START_ENABLED", "START_ACTIVE", "LOOP"}
             @@ relic  :> {"PLAYER_TOUCH", "LOOP"}
LoopDelay    == beacon :> 2 @@ relic :> 0
LoopTime     == beacon :> 1 @@ relic :> 2
LoopTeams    == beacon :> {} @@ relic :> {}
LoopCriteria == beacon :> <<>> @@ relic :> << Check("GoalsAreActive", <<beacon>>) >>

(* A capture: red players take the flag item and anybody the relic; the    *)
(* gate opens to the player who carries both, while the relic is away.  It *)
(* loops without delay or time, so that starting it never returns.         *)
CaptureKind     == flag :> "item" @@ relic :> "item" @@ gate :> "trigger"
CaptureFlags    == flag  :> {"START_ENABLED", "PLAYER_TOUCH"}
                @@ relic :> {"PLAYER_TOUCH"}
                @@ gate  :> {"START_ENABLED", "PLAYER_TOUCH", "LOOP"}
CaptureDelay    == flag :> 0 @@ relic :> 0 @@ gate :> 0
CaptureTime     == flag :> -1 @@ relic :> 0 @@ gate :> 0
CaptureTeams    == flag :> {red} @@ relic :> {} @@ gate :> {}
CaptureCriteria == flag :> <<>> @@ relic :> << Check("GoalsAreEnabled", <<gate>>) >>
                @@ gate :> << Check("ItemsCarriedByActivator", <<flag>>),
                              Check("ItemsCarriedByOne", <<flag, relic>>),
                              Check("ItemsNotAtSpawnPoint", <<relic>>) >>
=============================================================================
