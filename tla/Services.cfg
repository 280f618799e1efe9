\* Each of the parts by itself.
SPECIFICATION Spec
CONSTANTS
  Reads = {"getContact"}
  Writes = {"createContact", "updateContact", "createEstimate"}
  Readers = {r1, r2}
  Writers = {w1}
  CacheLimit = 1
  Ttl = 3
  LoadTime = 1
  MaxChanges = 1
  MaxTime = 4
  Administrators = {a1, a2}
  Providers = {"HOLDED", "BOOKING_MAIL"}
  MaxCredentials = 3
  Accounts = {"checking", "savings"}
  Movements <- OneMovement
  KeepDays = 1
  RecentDays = 1
  MaxRuns = 2
  MaxDay = 2
  Mailers = {q1, q2}
  Allowance <- Limits
  Window = 2
  HealthCache = 2
  HealthLock = 1
  MaxAttempts = 2
  MaxTicks = 2
  SessionChecks = {c1, c2}
  MaxSeconds = 4
  RetryAfters = {1, 3}
  Names = {"Ann", "Bea"}
  Timeout = 2
  Recently = 1
  GrantTime = 2
  MaxUpdates = 2
  MaxMoment = 2
SYMMETRY Symmetry
INVARIANTS
  ReadYourWrites
  StalenessBounded
  OutcomeIsTrue
  SettingsAddUp
  EvidenceKept
  GateHolds
  DeletionTold
  ClosedMeansRevoked
  PanelWaits
  ExportOfOneMoment
CHECK_DEADLOCK FALSE
