\* One paid booking, a job nobody handles, two drains that may be cut short.
SPECIFICATION InvoiceFairSpec
CONSTANTS
  Jobs = {booking, stray}
  Unhandled = {stray}
  Drains = {d1, d2}
  MaxAttempts = 2
  Totals = {100, 200}
INVARIANTS
  OneHandlerAtATime
  OneReserveInvoice
PROPERTIES
  DecidedStaysDecided
  JobsSettle
CHECK_DEADLOCK FALSE
