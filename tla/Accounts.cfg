\* One address that signs up, signs in and deletes its account.
SPECIFICATION Spec
CONSTANTS
  Addresses = {a1}
  Requests = {r1, r2}
  AttemptBudget = 2
  SessionLimit = 2
  MaxUsers = 2
  MaxTokens = 2
  MaxSessions = 3
  MaxDeaths = 1
SYMMETRY Symmetry
INVARIANTS
  OneLinkOneUse
  GuessesNearlyBounded
  NothingOutlivesAccount
PROPERTIES
  NoLinkOnceRevoked
CHECK_DEADLOCK FALSE
