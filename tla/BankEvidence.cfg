SPECIFICATION Spec
CONSTANTS
  Sweeps = {s1}
  Expiries = {e1}
  Nobody = Nobody
  Pages = 2
  RecentPages = 1
  MaxAttempts = 2
  Lease = 1
  Backoff = 1
  MaxRuns = 2
  MaxAge = 1
INVARIANTS
  ExhaustedMeansImported
  SucceededMeansClean
  EvidenceIsFresh
CHECK_DEADLOCK FALSE
