\* One booking from intake on, one movement that the bank corrects, one operator.
SPECIFICATION Spec
CONSTANTS
  Bookings = {b1}
  Movements = {m1}
  Operators = {o1}
  Prices = {100, 200}
  Contents <- ExactOrWrong
  Manual = Manual
  MaxBankChanges = 2
INVARIANTS
  NoContractInReview
PROPERTIES
  PaymentCoversReading
  DecidedProposalsFinal
  NotReleasedWhileProposed
  ImplementsLifecycle
CHECK_DEADLOCK FALSE
