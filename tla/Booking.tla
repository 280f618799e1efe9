------------------------------- MODULE Booking -------------------------------
(***************************************************************************)
(* Bookings, their payments and their expiry together: the team's          *)
(* decisions, the quote job, bank scans, reconciliation and the expiry run *)
(* interleave over the same rows, and the process may die at any moment.   *)
(***************************************************************************)
EXTENDS BookingExpiry

QuoteJob == {"none", "queued", "running", "documented", "done", "dead"}
TailSteps == {"deadline", "quote"} \cup NotifiedEvents
Pairs == Movements \X Bookings

Session ==
  {NoSession}
    \cup [kind : {"link"}, booking : Bookings, was : States]
    \cup [kind : {"transfer"}, booking : Bookings, movement : {Manual},
          amount : Prices \cup Transfers, owed : Prices]
    \cup [kind : Kinds, booking : Bookings, movement : Movements,
          amount : Transfers, owed : Prices \cup {0}]

Scan ==
  {NoScan}
    \cup [running : {TRUE}, page : [Movements -> Movement], create : SUBSET Pairs,
          invalidate : SUBSET Pairs, at : 0..MaxBankChanges, incident : BOOLEAN, fresh : BOOLEAN]

Payment == [booking : Bookings, movement : Movements \cup {Manual},
            amount : Prices \cup Transfers, again : BOOLEAN]

TypeOK ==
  /\ state \in [Bookings -> States]
  /\ due \in [Bookings -> {"none", "ahead", "passed"}]
  /\ agreed \in [Bookings -> Prices \cup {0}]
  /\ documented \subseteq Bookings
  /\ quote \in [Bookings -> QuoteJob]
  /\ bank \in [Movements -> Movement]
  /\ bankChanges \in 0..MaxBankChanges
  /\ movement \in [Movements -> Movement]
  /\ proposal \in [Movements -> [Bookings -> ProposalStatuses]]
  /\ payments \subseteq Payment
  /\ invoices \subseteq Bookings
  /\ notices \subseteq Bookings \X NotifiedEvents
  /\ tail \subseteq Bookings \X TailSteps
  /\ session \in [Operators -> Session]
  /\ scan \in Scan
  /\ importedAt \in 0..MaxBankChanges
  /\ expiry \in [at : {"idle", "waiting", "ready", "checked"},
                 since : 0..MaxBankChanges,
                 candidates : SUBSET Bookings]

\* What intake leaves: requests in review, nothing agreed.
NewRequests ==
  /\ state = [b \in Bookings |-> "IN_REVIEW"]
  /\ due = [b \in Bookings |-> "none"]
  /\ agreed = [b \in Bookings |-> 0]
  /\ documented = {}
  /\ quote = [b \in Bookings |-> "none"]

NothingElse ==
  /\ bank = [m \in Movements |-> NoMovement]
  /\ bankChanges = 0
  /\ movement = [m \in Movements |-> NoMovement]
  /\ importedAt = 0
  /\ proposal = [m \in Movements |-> [b \in Bookings |-> "NONE"]]
  /\ payments = {}
  /\ invoices = {}
  /\ notices = {}
  /\ tail = {}
  /\ session = [o \in Operators |-> NoSession]
  /\ scan = NoScan
  /\ expiry = NoExpiry

Init == NewRequests /\ NothingElse

\* The process dies: requests, scan and expiry run are forgotten; a quote job
\* it had claimed stays CLAIMED in the outbox, where nobody takes it again.
Crash ==
  /\ tail' = {}
  /\ session' = [o \in Operators |-> NoSession]
  /\ scan' = NoScan
  /\ expiry' = NoExpiry
  /\ quote' = [b \in Bookings |->
       IF quote[b] \in {"running", "documented"} THEN "dead" ELSE quote[b]]
  /\ UNCHANGED <<state, due, agreed, documented, money, world, notices>>

BookingStep(b) ==
  \/ approveBooking(b) \/ rejectBooking(b) \/ cancelBooking(b)
  \/ Tail(b) \/ QuoteStep(b) \/ DeadlinePasses(b)

OperatorStep(o) ==
  \/ LinkCommits(o) \/ TransferCommits(o)
  \/ OperatorAccepts(o) \/ OperatorCommits(o)
  \/ \E b \in Bookings :
       LinkReads(o, b) \/ TransferReads(o, b) \/ \E m \in Movements, kind \in Kinds : OperatorReads(o, kind, m, b)

BankStep ==
  \/ \E m \in Movements : BankChanges(m) \/ \E b \in Bookings : Dismiss(m, b)
  \/ ScanReads \/ ScanCommits \/ ScanFails

ExpiryStep == ExpiryReads \/ ExpiryDefers \/ ExpiryChecks \/ ExpiryCommits

UninterruptedNext ==
  \/ \E b \in Bookings : BookingStep(b)
  \/ \E o \in Operators : OperatorStep(o)
  \/ BankStep
  \/ ExpiryStep

Next == UninterruptedNext \/ Crash

Spec == Init /\ [][Next]_vars

\* A handler that is running executes its next statement.
HandlersRun == \A b \in Bookings : WF_vars(Tail(b))

CrashingSpec == Spec /\ HandlersRun

\* Holded answers: no page fails and no expiry run is deferred.
HealthyNext ==
  \/ \E b \in Bookings : BookingStep(b)
  \/ \E o \in Operators : OperatorStep(o)
  \/ \E m \in Movements : BankChanges(m) \/ \E b \in Bookings : Dismiss(m, b)
  \/ ScanReads \/ ScanCommits
  \/ ExpiryReads \/ ExpiryChecks \/ ExpiryCommits

\* Time passes, the daily run is scheduled, and it scans and decides.  A scan
\* runs to its end once started.
ExpiryIsScheduled ==
  /\ \A b \in Bookings : WF_vars(DeadlinePasses(b))
  /\ WF_vars(ExpiryReads) /\ WF_vars(ExpiryChecks) /\ WF_vars(ExpiryCommits)
  /\ WF_vars(ScanReads /\ expiry.at = "waiting") /\ WF_vars(ScanCommits)

HealthySpec == Init /\ [][HealthyNext]_vars /\ HandlersRun /\ ExpiryIsScheduled

-----------------------------------------------------------------------------
(* Safety *)

\* However operators, candidates, proposals and hand-recorded transfers race,
\* a booking is paid once (Payment has no unique index on its booking).
OnePaymentPerBooking ==
  \A p, q \in payments : p.booking = q.booking => p = q

\* A payment means the booking was confirmed with it, and no booking is
\* confirmed without: never an EXPIRED or REJECTED booking that was paid.
MoneyMeansConfirmed ==
  \A b \in Bookings :
    /\ Confirmations(b) # {} => state[b] \in {"CONFIRMED", "CANCELLED"}
    /\ state[b] = "CONFIRMED" => Confirmations(b) # {}

\* The operator's decision, the payment row and the invoice job tell the same
\* story: a confirmed proposal is the payment of its movement, and exactly the
\* bookings paid through the bank have a reserve invoice queued.
ConfirmedProposalIsPaid ==
  /\ \A m \in Movements, b \in Bookings :
       proposal[m][b] = "CONFIRMED" <=>
         \E p \in payments : p.movement = m /\ p.booking = b
  /\ invoices = {p.booking : p \in {q \in payments : q.movement # Manual}}

\* One bank movement backs at most one payment, of whichever booking.
MovementPaysOnce ==
  \A p, q \in payments : p.movement = q.movement /\ p.movement # Manual => p = q

\* Payments are unique both ways, whichever operator, candidate or scan was first.
PaymentsUnique == OnePaymentPerBooking /\ MovementPaysOnce

\* State, payments, decided proposals and invoice jobs agree after every commit.
MoneyAgrees == MoneyMeansConfirmed /\ ConfirmedProposalIsPaid

\* "A request must never end up holding a contract while still sitting in
\* review", although linkExistingEstimate acts on a state it read before.
NoContractInReview == \A b \in documented : state[b] # "IN_REVIEW"

\* The operator's transaction is one that confirms the booking.
Confirming(o, b) ==
  session[o].kind \in {"transfer", "proposal", "candidate"} /\ session[o].booking = b

\* A booking becomes CONFIRMED only in a transaction that has read what it owes
\* since the operator saw it, and with a payment that covers what was read: the
\* quote job and a linked estimate may ask for something else meanwhile.
PaymentCoversReading ==
  [][\A b \in Bookings : ~InState(b, "CONFIRMED") /\ InState(b, "CONFIRMED")' =>
       \E p \in payments' \ payments, o \in Operators :
         /\ p.booking = b
         /\ session'[o] # session[o]
         /\ Confirming(o, b)
         /\ isPaymentAmountWithin(p.amount, session[o].owed, TolerancePercent)]_vars

\* A booking somebody still has to decide a proposal for is released only when
\* its transfer reached the bank after the expiry run had started.
NotReleasedWhileProposed ==
  [][\A b \in Bookings : InState(b, "AWAITING_PAYMENT") /\ InState(b, "EXPIRED")' =>
       \/ \A m \in Movements : proposal[m][b] # "PENDING"
       \/ importedAt > expiry.since]_vars

\* A proposal somebody or something decided is never offered again.
DecidedProposalsFinal ==
  [][\A m \in Movements, b \in Bookings :
       proposal[m][b] \notin {"NONE", "PENDING"} => proposal'[m][b] = proposal[m][b]]_vars

\* The rows implement the abstract lifecycle.
Lifecycle == INSTANCE BookingLifecycle WITH paid <- {p.booking : p \in payments}

ImplementsLifecycle == Lifecycle!Spec

-----------------------------------------------------------------------------
(* Liveness *)

\* While the process stays up, whoever is rejected, cancelled or confirmed is
\* told: the mail gets into the outbox, even when another decision follows.
DecisionsAnnounced ==
  \A b \in Bookings, event \in {"REJECTED", "CANCELLED", "CONFIRMED"} :
    state[b] = event ~> <<b, event>> \in notices

\* An approval gets its deadline and its quote job, unless an estimate is
\* linked - even when another decision overtakes the handler.
ApprovalsFollowedUp ==
  \A b \in Bookings :
    state[b] = "AWAITING_PAYMENT" ~>
      (due[b] # "none" /\ quote[b] # "none") \/ b \in documented

\* No decision's consequence is forgotten, however many decisions follow each other.
DecisionsFollowedUp == DecisionsAnnounced /\ ApprovalsFollowedUp

\* With the bank readable, a booking with a deadline does not wait for ever:
\* it leaves AWAITING_PAYMENT, or a proposal waits for the operator.
OverdueSettles ==
  \A b \in Bookings :
    due[b] # "none" ~>
      \/ state[b] # "AWAITING_PAYMENT"
      \/ \E m \in Movements : proposal[m][b] = "PENDING"

-----------------------------------------------------------------------------
(* What the documents say and the code does not keep *)

\* "The amount must equal the advance plus the deposit to the cent" rather than
\* "quietly confirming a booking that is still owed money" (recordTrustedPayment):
\* what a booking confirmed by hand owes at that moment is what was paid.
ConfirmedToTheCent ==
  [][\A b \in Bookings : ~InState(b, "CONFIRMED") /\ InState(b, "CONFIRMED")' =>
       \A p \in payments' \ payments :
         p.booking = b /\ p.movement = Manual => p.amount = agreed[b]]_vars

\* "A decision is never lost" (README.md): the approval of a process that dies
\* right after committing it is followed up too.
ApprovalsSurviveCrashes == ApprovalsFollowedUp

\* "A booking is never released while a valid payment sits unread"
\* (specs/20260909-project-specification/spec.md): at release no imported
\* movement matches that nobody was asked about.
NeverReleasedUnread ==
  [][\A b \in Bookings : InState(b, "AWAITING_PAYMENT") /\ InState(b, "EXPIRED")' =>
       \A m \in Movements :
         isAutomaticMatch(movement[m], b) /\ ~IsPaid(m) => proposal[m][b] = "DISMISSED"]_vars
=============================================================================
