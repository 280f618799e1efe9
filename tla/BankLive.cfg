SPECIFICATION FairSpec
CONSTANTS
  Sweeps = {s1}
  Expiries = {e1}
  Nobody = Nobody
  Pages = 2
  RecentPages = 1
  MaxAttempts = 2
  Lease = 2
  Backoff = 1
  MaxRuns = 1
  MaxAge = 2
PROPERTIES
  RunsEnd
CHECK_DEADLOCK FALSE
