---------------------------- MODULE MC_Staleness ------------------------------
(* Values for the run of Staleness. *)
EXTENDS Staleness, TLC

StaleAfters == "blizzard" :> 3 @@ "tsm" :> 4
Backoffs == "blizzard" :> 5 @@ "tsm" :> 3
Jitters == "blizzard" :> 0 @@ "tsm" :> 1
=============================================================================
