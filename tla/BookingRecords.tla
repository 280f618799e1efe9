--------------------------- MODULE BookingRecords ---------------------------
(***************************************************************************)
(* The rows the booking services share, and the helpers they are written   *)
(* with: lifecycle.ts (transitionBooking) and payment-matching.ts.         *)
(*                                                                         *)
(* Abstractions.  Dates are reduced to whether a payment deadline is       *)
(* absent, ahead or passed; a transfer never predates the estimate it      *)
(* names.  A bank movement is its amount in cents and the bookings whose   *)
(* estimate number its narrative contains; amount 0 stands for a movement  *)
(* that is absent, an expense or not in euros.  There is one bank account, *)
(* and one page holds all its movements.                                   *)
(***************************************************************************)
EXTENDS Integers

CONSTANTS
  Bookings,       \* booking requests, already accepted by intake
  Movements,      \* bank movements Holded may show
  Operators,      \* members of the team, each with one request in progress
  Prices,         \* amounts (advance + deposit) a quote or estimate can ask
  Contents,       \* what the row of a movement can say
  Manual,         \* Payment.bankMovementId is null
  MaxBankChanges  \* bound: how often the bank shows something new

ASSUME RecordsAssumption ==
  /\ Prices \subseteq Nat \ {0}
  /\ Contents \subseteq [amount : Nat, names : SUBSET Bookings]
  /\ Manual \notin Movements
  /\ MaxBankChanges \in Nat

VARIABLES
  state,       \* BookingRequest.state
  due,         \* paymentDueAt: "none", "ahead" or "passed"
  agreed,      \* advanceCents + depositCents, 0 while they are null
  documented,  \* bookings with an ESTIMATE document
  quote,       \* the booking.quote job and how far its handler got
  bank,        \* the movements as Holded shows them
  bankChanges, \* how many changes the bank has made (bounded)
  movement,    \* the imported BankMovement rows
  importedAt,  \* bankChanges when the last committed page was read
  proposal,    \* BankReconciliationProposal.status, "NONE" without a row
  payments,    \* Payment rows; "again" tells a booking's further rows apart
  invoices,    \* bookings with a reserve-invoice issuance and job
  notices,     \* booking mails queued in the outbox
  tail,        \* what a request handler still has to do after its commit
  session,     \* each operator's transaction between its reads and its writes
  scan,        \* the bank page being written
  expiry       \* the expiry run

records == <<state, due, agreed, documented, quote>>
money == <<movement, importedAt, proposal, payments, invoices>>
world == <<bank, bankChanges>>
vars == <<records, money, world, notices, tail, session, scan, expiry>>

States == {"IN_REVIEW", "AWAITING_PAYMENT", "CONFIRMED", "INVOICED",
           "COMPLETED", "REJECTED", "EXPIRED", "CANCELLED"}
ProposalStatuses == {"NONE", "PENDING", "CONFIRMED", "DISMISSED", "INVALIDATED"}

NoMovement == [amount |-> 0, names |-> {}]
Movement == Contents \cup {NoMovement}
Transfers == {content.amount : content \in Contents}
NoSession == [kind |-> "none"]
NoScan == [running |-> FALSE]
NoExpiry == [at |-> "idle", since |-> 0, candidates |-> {}]

-----------------------------------------------------------------------------
(* lifecycle.ts *)

\* The updateMany of transitionBooking: conditional on the expected state.
InState(b, expectedFrom) == state[b] = expectedFrom

Transition(b, to) == state' = [state EXCEPT ![b] = to]

-----------------------------------------------------------------------------
(* payment-matching.ts *)

Difference(x, y) == IF x >= y THEN x - y ELSE y - x

isPaymentAmountWithin(actual, expected, percent) ==
  /\ actual > 0
  /\ expected > 0
  /\ Difference(actual, expected) * 100 <= expected * percent

\* BOOKING_PAYMENT_TOLERANCE_PERCENT
TolerancePercent == 5

\* isBookingPaymentCandidate, for a movement row's content.
isCandidate(content, b) ==
  /\ state[b] = "AWAITING_PAYMENT"
  /\ isPaymentAmountWithin(content.amount, agreed[b], TolerancePercent)

\* isAutomaticReconciliationMatch: exact, and naming the estimate.
isAutomaticMatch(content, b) ==
  /\ isCandidate(content, b)
  /\ content.amount = agreed[b]
  /\ b \in documented
  /\ b \in content.names

IsPaid(m) == \E p \in payments : p.movement = m
Confirmations(b) == {p \in payments : p.booking = b}
=============================================================================
