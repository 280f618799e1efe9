\* Three workers, two delegate lists, crashes and operator repairs.
SPECIFICATION FairSpec
CONSTANTS
  Workers = {w1, w2, w3}
  Recipients = {r1, r2}
  NoRecipients = NoRecipients
INVARIANTS
  AtMostOneEmail
PROPERTIES
  ImplementsProviderWrite
  DeliverySettles
CHECK_DEADLOCK FALSE
