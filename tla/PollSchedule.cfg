SPECIFICATION FairSpec
CONSTANTS
  Loop = {"blizzard", "tsm"}
  PollWindow <- Windows
  Jitter <- Jitters
  Envs <- AllEnvs
  MaxStart = 2
  MaxLoad = 1
  MaxPoll = 1
  MaxTime = 16
  StartBy = 3
  MaxCrashes = 1
INVARIANTS WindowUsed
PROPERTIES PollsInBounds WindowCloses
\* The clock is bounded.
CHECK_DEADLOCK FALSE
