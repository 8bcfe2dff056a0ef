---------------------------- MODULE MC_PollSchedule ---------------------------
(***************************************************************************)
(* Environments and cadences for the runs of PollSchedule.                 *)
(***************************************************************************)
EXTENDS PollSchedule, TLC

Windows == "blizzard" :> 1 @@ "tsm" :> 3
Jitters == "blizzard" :> 0 @@ "tsm" :> 1

Env(start, end, from, until) ==
  [pollStart |-> start, pollEnd |-> end, scrapeFrom |-> from, scrapeUntil |-> until]

\* Every combination of absent, earlier and later bounds, empty and rejected
\* windows included.
AllEnvs == { Env(start, end, from, until) :
               start \in {0, 2}, end \in {0, 1, 4}, from \in {0, 3}, until \in {0, 2, 3, 6} }

=============================================================================
