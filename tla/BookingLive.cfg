\* One booking; the process stays up and Holded stays readable.
SPECIFICATION HealthySpec
CONSTANTS
  Bookings = {b1}
  Movements = {m1}
  Operators = {o1}
  Prices = {100}
  Contents <- ExactOnly
  Manual = Manual
  MaxBankChanges = 2
PROPERTIES
  DecisionsFollowedUp
  OverdueSettles
CHECK_DEADLOCK FALSE
