SPECIFICATION RegionSpec
CONSTANTS
  StaleAfter <- StaleAfters
  Backoff <- Backoffs
  Interval = 1
  FeedJitter <- Jitters
  MaxPoll = 1
  MaxTime = 13
  MaxVersions = 2
  MaxFaults = 2
INVARIANTS OldDataWarned
PROPERTIES WarningsTrue SilenceWarned
\* The clock is bounded.
CHECK_DEADLOCK FALSE
