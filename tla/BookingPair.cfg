\* Two quoted bookings that one transfer names, two operators; nothing crashes.
SPECIFICATION QuotedUninterruptedSpec
CONSTANTS
  Bookings = {b1, b2}
  Movements = {m1}
  Operators = {o1, o2}
  Prices = {100}
  Contents <- ExactOrNear
  Manual = Manual
  MaxBankChanges = 1
SYMMETRY Symmetry
INVARIANTS
  PaymentsUnique
  MoneyAgrees
CHECK_DEADLOCK FALSE
