CONSTANTS
  Caller = {c1, c2}
  TSMCaller = {t1}
  Nobody = nobody
  Lifetime = 2
  Margin = 1
  Timeout = 1
  Hints = {0, 3}
  StartBy = 3
  MaxCalls = 2
  MaxTime = 40
  LastAttempt = 2
  MaxFaults = 3
SPECIFICATION FairSpec
INVARIANTS RetryAfterHonoured
PROPERTIES CallsEnd RefreshedOnlyWhenDue
CHECK_DEADLOCK FALSE
