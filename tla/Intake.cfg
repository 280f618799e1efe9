\* Five entries on pages of two, the third malformed, the last impossible.
SPECIFICATION FairSpec
CONSTANTS
  Entries = {1, 2, 3, 4, 5}
  Malformed = {3}
  TaxIds = {"returning", "other"}
  TaxIdOf <- SomeTaxIds
  StayOf <- LastImpossible
  Runs = {r1, r2}
  PageSize = 2
INVARIANTS
  NothingSkipped
  LatestContactData
  QuotesAreExact
PROPERTIES
  EntriesArrive
CHECK_DEADLOCK FALSE
