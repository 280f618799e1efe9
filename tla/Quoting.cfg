\* One booking, two drains, a price change and an operator at work in Holded.
SPECIFICATION QuoteSpec
CONSTANTS
  Jobs = {j1}
  Unhandled = {}
  Drains = {d1, d2}
  MaxAttempts = 3
  Customers = {c1}
  CustomerOf <- SameCustomer
  Prices = {100, 200}
  ByHand = 300
  MaxContacts = 2
SYMMETRY Symmetry

  
PROPERTIES
  KnownEstimateReused
CHECK_DEADLOCK FALSE
