\* A quoted booking, and two operators: one records its transfer by hand while the
\* other links an estimate with another total.
SPECIFICATION QuotedFairSpec
CONSTANTS
  Bookings = {b1}
  Movements = {m1}
  Operators = {o1, o2}
  Prices = {100, 200}
  Contents <- ExactOnly
  Manual = Manual
  MaxBankChanges = 0
PROPERTIES
  ConfirmedToTheCent
CHECK_DEADLOCK FALSE
