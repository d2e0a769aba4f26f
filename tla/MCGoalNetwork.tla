--------------------------- MODULE MCGoalNetwork ---------------------------
(* Small maps for GoalNetwork. *)
EXTENDS GoalNetwork, TLC

CONSTANTS plate, flag, door, vault, p1, red

Connect(n, input, delay) == [name |-> n, input |-> input, delay |-> delay]
NoWires == [o \in Outputs |-> <<>>]

(* Taking the flag item, which comes back, works the plate, which may also *)
(* be stepped on; the plate opens two doors a tick later and for a tick.    *)
(* The doors, once open, set each other off without a delay.               *)
DoorKind     == plate :> "trigger" @@ flag :> "item" @@ door :> "info" @@ vault :> "trigger"
DoorFlags    == plate :> {"START_ENABLED", "PLAYER_TOUCH"}
             @@ flag  :> {"START_ENABLED", "PLAYER_TOUCH"}
             @@ door  :> {} @@ vault :> {"PLAYER_TOUCH"}
DoorDelay    == plate :> 0 @@ flag :> 0 @@ door :> 0 @@ vault :> 0
DoorTime     == plate :> 1 @@ flag :> 2 @@ door :> 1 @@ vault :> -1
DoorTeams    == [g \in {plate, flag, door, vault} |-> {}]
DoorCriteria == [g \in {plate, flag, door, vault} |-> <<>>]
DoorNamed    == "plate" :> <<plate>> @@ "door" :> <<door>> @@ "vault" :> <<vault>> @@ "doors" :> <<door, vault>>
DoorWires    ==
  plate   :> [NoWires EXCEPT !["OnActive"]   = << Connect("doors", "Enable", 1) >>,
                             !["OnInactive"] = << Connect("doors", "Disable", 1) >>]
  @@ flag :> [NoWires EXCEPT !["OnActive"]   = << Connect("plate", "Activate", 0) >>]
  @@ door  :> [NoWires EXCEPT !["OnActive"] = << Connect("vault", "Activate", 0) >>]
  @@ vault :> [NoWires EXCEPT !["OnActive"] = << Connect("door", "Activate", 0) >>]
=============================================================================
