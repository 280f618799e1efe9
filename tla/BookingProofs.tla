---------------------------- MODULE BookingProofs ----------------------------
(***************************************************************************)
(* Proofs about Booking for any sets of bookings, movements and operators  *)
(* and any amounts.                                                        *)
(***************************************************************************)
EXTENDS Booking, TLAPS

-----------------------------------------------------------------------------
(* Type correctness *)

LEMMA InitTypes == Init => TypeOK
  <1> SUFFICES ASSUME Init PROVE TypeOK
    OBVIOUS
  <1> USE RecordsAssumption DEF Init, NewRequests, NothingElse
  <1>1. /\ state \in [Bookings -> States]
        /\ due \in [Bookings -> {"none", "ahead", "passed"}]
        /\ agreed \in [Bookings -> Prices \cup {0}]
        /\ documented \subseteq Bookings
        /\ quote \in [Bookings -> QuoteJob]
    BY DEF States, QuoteJob
  <1>2. /\ bank \in [Movements -> Movement]
        /\ movement \in [Movements -> Movement]
        /\ proposal \in [Movements -> [Bookings -> ProposalStatuses]]
        /\ session \in [Operators -> Session]
        /\ scan \in Scan
    BY DEF Movement, NoMovement, ProposalStatuses, Session, Scan
  <1>3. /\ bankChanges \in 0..MaxBankChanges
        /\ importedAt \in 0..MaxBankChanges
        /\ expiry \in [at : {"idle", "waiting", "ready", "checked"},
                       since : 0..MaxBankChanges, candidates : SUBSET Bookings]
    BY DEF NoExpiry
  <1>4. QED
    BY <1>1, <1>2, <1>3 DEF TypeOK

\* TrustedPayment adds a payment row.
LEMMA PaymentTyped ==
  ASSUME NEW b \in Bookings, NEW m \in Movements \cup {Manual},
         NEW amount \in Prices \cup Transfers,
         payments \subseteq Payment, TrustedPayment(b, m, amount)
  PROVE  payments' \subseteq Payment
  <1> DEFINE added == [booking |-> b, movement |-> m, amount |-> amount,
                       again |-> Confirmations(b) # {}]
  <1>1. (Confirmations(b) # {}) \in BOOLEAN
    OBVIOUS
  <1>2. added \in Payment
    BY <1>1, Zenon DEF Payment
  <1>3. payments' = payments \cup {added}
    BY Zenon DEF TrustedPayment
  <1> HIDE DEF added
  <1>4. QED
    BY <1>2, <1>3

\* What an operator's transaction keeps of its reads.
LEMMA SessionFacts ==
  ASSUME TypeOK, NEW o \in Operators
  PROVE  /\ session[o].kind = "link" => session[o].booking \in Bookings /\ session[o].was \in States
         /\ session[o].kind = "transfer" =>
              /\ session[o].booking \in Bookings /\ session[o].movement = Manual
              /\ session[o].amount \in Prices \cup Transfers /\ session[o].owed \in Prices
         /\ session[o].kind \in Kinds =>
              /\ session[o].booking \in Bookings /\ session[o].movement \in Movements
              /\ session[o].amount \in Transfers /\ session[o].owed \in Prices \cup {0}
  BY DEF TypeOK, Session, NoSession, Kinds

LEMMA DecisionTypes ==
  ASSUME NEW b \in Bookings, TypeOK,
         \/ approveBooking(b) \/ rejectBooking(b) \/ cancelBooking(b)
         \/ Tail(b) \/ DeadlinePasses(b)
  PROVE  TypeOK'
  <1> USE DEF TypeOK, records, money, world, Transition, Afterwards, States,
              TailSteps, NotifiedEvents, QuoteJob
  <1>1. CASE approveBooking(b)
    BY <1>1 DEF approveBooking
  <1>2. CASE rejectBooking(b)
    BY <1>2 DEF rejectBooking
  <1>3. CASE cancelBooking(b)
    BY <1>3 DEF cancelBooking
  <1>4. CASE SetDeadline(b)
    BY <1>4 DEF SetDeadline
  <1>5. CASE enqueueQuote(b)
    BY <1>5 DEF enqueueQuote
  <1>6. CASE notify(b)
    BY <1>6 DEF notify, queueBookingMail
  <1>7. CASE DeadlinePasses(b)
    BY <1>7 DEF DeadlinePasses
  <1>8. QED
    BY <1>1, <1>2, <1>3, <1>4, <1>5, <1>6, <1>7 DEF Tail

LEMMA QuoteTypes ==
  ASSUME NEW b \in Bookings, TypeOK, QuoteStep(b)
  PROVE  TypeOK'
  <1> USE DEF TypeOK, records, money, world, QuoteJob
  <1>1. CASE QuoteStarts(b)
    BY <1>1 DEF QuoteStarts
  <1>2. CASE QuoteDocuments(b)
    BY <1>2 DEF QuoteDocuments
  <1>3. CASE QuoteRecords(b)
    BY <1>3 DEF QuoteRecords
  <1>4. CASE QuoteFails(b)
    BY <1>4 DEF QuoteFails
  <1>5. QED
    BY <1>1, <1>2, <1>3, <1>4 DEF QuoteStep

LEMMA OperatorTypes ==
  ASSUME NEW o \in Operators, TypeOK, OperatorStep(o)
  PROVE  TypeOK'
  <1> USE DEF TypeOK, records, money, world
  <1>1. ASSUME NEW b \in Bookings, LinkReads(o, b) PROVE TypeOK'
    BY <1>1 DEF LinkReads, Session
  <1>2. CASE LinkCommits(o)
    <2>1. session' \in [Operators -> Session]
      BY <1>2 DEF LinkCommits, Session
    <2>2. session[o].booking \in Bookings
      BY <1>2, SessionFacts DEF LinkCommits
    <2>3. /\ documented' \subseteq Bookings
          /\ agreed' \in [Bookings -> Prices \cup {0}]
          /\ state' \in [Bookings -> States]
      BY <1>2, <2>2 DEF LinkCommits, LinkState, States
    <2>4. QED
      BY <1>2, <2>1, <2>3 DEF LinkCommits
  <1>3. ASSUME NEW b \in Bookings, NEW m \in Movements, NEW kind \in Kinds,
               OperatorReads(o, kind, m, b)
        PROVE  TypeOK'
    <2>1. movement[m].amount \in Transfers
      <3>1. movement[m].amount > 0
        BY <1>3 DEF OperatorReads, Acceptable, isAutomaticMatch, isCandidate,
                    isPaymentAmountWithin
      <3>2. movement[m] \in Contents
        BY <3>1 DEF Movement, NoMovement
      <3>3. QED
        BY <3>2 DEF Transfers
    <2>2. session' \in [Operators -> Session]
      BY <1>3, <2>1 DEF OperatorReads, Session
    <2>3. QED
      BY <1>3, <2>2 DEF OperatorReads
  <1>4. CASE OperatorCommits(o)
    <2> DEFINE s == session[o]
    <2>1. /\ s.booking \in Bookings
          /\ s.movement \in Movements
          /\ s.amount \in Transfers
      BY <1>4, SessionFacts DEF OperatorCommits
    <2>2. session' \in [Operators -> Session]
      BY <1>4 DEF OperatorCommits, Session
    <2>3. CASE Confirms(s)
      <3>1. payments' \subseteq Payment
        BY <2>1, <2>3, PaymentTyped DEF Confirms
      <3>2. /\ state' \in [Bookings -> States]
            /\ tail' \subseteq Bookings \X TailSteps
            /\ invoices' \subseteq Bookings
        BY <2>1, <2>3 DEF Confirms, TrustedPayment, Transition, States, Afterwards,
                          TailSteps, NotifiedEvents, InvoicesAfter
      <3>3. proposal' \in [Movements -> [Bookings -> ProposalStatuses]]
        BY <2>3 DEF Confirms, Confirmed, ProposalStatuses
      <3>4. QED
        BY <1>4, <2>2, <3>1, <3>2, <3>3 DEF OperatorCommits
    <2>4. CASE /\ Decide(s.movement, s.booking, "DISMISSED")
               /\ UNCHANGED <<state, payments, invoices, tail>>
      BY <1>4, <2>1, <2>2, <2>4 DEF OperatorCommits, Decide, ProposalStatuses
    <2>5. CASE UNCHANGED <<state, payments, proposal, invoices, tail>>
      BY <1>4, <2>2, <2>5 DEF OperatorCommits
    <2>6. QED
      BY <1>4, <2>3, <2>4, <2>5 DEF OperatorCommits
  <1>5. ASSUME NEW b \in Bookings, TransferReads(o, b) PROVE TypeOK'
    <2>1. PICK amount \in Prices \cup Transfers :
            /\ isPaymentAmountWithin(amount, agreed[b], 0)
            /\ session' = [session EXCEPT ![o] = [kind |-> "transfer", booking |-> b,
                            movement |-> Manual, amount |-> amount, owed |-> agreed[b]]]
      BY <1>5 DEF TransferReads, AmountAccepted, Percent
    <2>2. agreed[b] \in Prices
      BY <2>1 DEF isPaymentAmountWithin
    <2>3. [kind |-> "transfer", booking |-> b, movement |-> Manual, amount |-> amount,
           owed |-> agreed[b]] \in Session
      BY <2>2 DEF Session
    <2>4. session' \in [Operators -> Session]
      BY <2>1, <2>3
    <2>5. QED
      BY <1>5, <2>4 DEF TransferReads
  <1>6. CASE TransferCommits(o)
    <2> DEFINE s == session[o]
    <2>1. s.booking \in Bookings /\ s.amount \in Prices \cup Transfers
      BY <1>6, SessionFacts DEF TransferCommits
    <2>2. session' \in [Operators -> Session]
      BY <1>6 DEF TransferCommits, Session
    <2>3. CASE TrustedPayment(s.booking, Manual, s.amount) /\ Afterwards(s.booking, "CONFIRMED")
      <3>1. payments' \subseteq Payment
        BY <2>1, <2>3, PaymentTyped
      <3>2. state' \in [Bookings -> States] /\ tail' \subseteq Bookings \X TailSteps
        BY <2>1, <2>3 DEF TrustedPayment, Transition, States, Afterwards, TailSteps,
                          NotifiedEvents
      <3>3. QED
        BY <1>6, <2>2, <3>1, <3>2 DEF TransferCommits
    <2>4. CASE UNCHANGED <<state, payments, tail>>
      BY <1>6, <2>2, <2>4 DEF TransferCommits
    <2>5. QED
      BY <1>6, <2>3, <2>4 DEF TransferCommits
  <1>7. CASE OperatorAccepts(o)
    <2> DEFINE s == session[o]
               accepted == [s EXCEPT !.owed = agreed[s.booking]]
    <2>1. /\ s \in [kind : Kinds, booking : Bookings, movement : Movements,
                     amount : Transfers, owed : Prices \cup {0}]
          /\ s.booking \in Bookings
      BY <1>7 DEF OperatorAccepts, Session, NoSession, Kinds
    <2>2. accepted \in [kind : Kinds, booking : Bookings, movement : Movements,
                        amount : Transfers, owed : Prices \cup {0}]
      BY <2>1
    <2>3. session' = [session EXCEPT ![o] = accepted]
          \/ session' = [session EXCEPT ![o] = NoSession]
      BY <1>7 DEF OperatorAccepts
    <2> HIDE DEF accepted
    <2>4. session' \in [Operators -> Session]
      BY <2>2, <2>3 DEF Session
    <2>5. QED
      BY <1>7, <2>4 DEF OperatorAccepts
  <1>8. QED
    BY <1>1, <1>2, <1>3, <1>4, <1>5, <1>6, <1>7 DEF OperatorStep

LEMMA BankTypes ==
  ASSUME TypeOK, BankStep
  PROVE  TypeOK'
  <1> USE RecordsAssumption DEF TypeOK, records, money, world
  <1>1. ASSUME NEW m \in Movements, BankChanges(m) PROVE TypeOK'
    BY <1>1 DEF BankChanges
  <1>2. ASSUME NEW m \in Movements, NEW b \in Bookings, Dismiss(m, b) PROVE TypeOK'
    BY <1>2 DEF Dismiss, Decide, ProposalStatuses
  <1>3. CASE ScanReads
    BY <1>3 DEF ScanReads, Scan, ToCreate, ToInvalidate, Changed, Pairs,
      CorrectsConfirmed
  <1>4. CASE ScanCommits
    <2>1. proposal' \in [Movements -> [Bookings -> ProposalStatuses]]
      BY <1>4 DEF ScanCommits, Reconciled, ProposalStatuses
    <2>2. /\ movement' \in [Movements -> Movement]
          /\ importedAt' \in 0..MaxBankChanges
          /\ scan' \in Scan
      BY <1>4 DEF ScanCommits, Scan
    <2>3. expiry' \in [at : {"idle", "waiting", "ready", "checked"},
                       since : 0..MaxBankChanges, candidates : SUBSET Bookings]
      BY <1>4 DEF ScanCommits, ExpiryAfter, NoExpiry
    <2>4. QED
      BY <1>4, <2>1, <2>2, <2>3 DEF ScanCommits
  <1>5. CASE ScanFails
    BY <1>5 DEF ScanFails, Scan, NoScan, ExpiryAfter, NoExpiry
  <1>6. QED
    BY <1>1, <1>2, <1>3, <1>4, <1>5 DEF BankStep

LEMMA ExpiryTypes ==
  ASSUME TypeOK, ExpiryStep
  PROVE  TypeOK'
  <1> USE RecordsAssumption DEF TypeOK, records, money, world
  <1>1. CASE ExpiryReads
    BY <1>1 DEF ExpiryReads, ScanTooEarly, OverdueBookings, Scan, NoScan
  <1>2. CASE ExpiryDefers
    BY <1>2 DEF ExpiryDefers, NoExpiry
  <1>3. CASE ExpiryChecks
    BY <1>3 DEF ExpiryChecks
  <1>4. CASE ExpiryCommits
    BY <1>4 DEF ExpiryCommits, NoExpiry, States
  <1>5. QED
    BY <1>1, <1>2, <1>3, <1>4 DEF ExpiryStep

LEMMA CrashTypes == TypeOK /\ Crash => TypeOK'
  BY RecordsAssumption
     DEF Crash, TypeOK, money, world, Session, Scan, NoExpiry, QuoteJob

LEMMA NextTypes == TypeOK /\ [Next]_vars => TypeOK'
  <1> SUFFICES ASSUME TypeOK, [Next]_vars PROVE TypeOK'
    OBVIOUS
  <1>1. CASE UNCHANGED vars
    BY <1>1 DEF vars, records, money, world, TypeOK
  <1>2. ASSUME NEW b \in Bookings, BookingStep(b) PROVE TypeOK'
    BY <1>2, DecisionTypes, QuoteTypes DEF BookingStep
  <1>3. QED
    BY <1>1, <1>2, OperatorTypes, BankTypes, ExpiryTypes, CrashTypes
       DEF Next, UninterruptedNext

\* Every row keeps its type.
THEOREM TypeCorrect == Spec => []TypeOK
  BY InitTypes, NextTypes, PTL DEF Spec

-----------------------------------------------------------------------------
(* What a step can do to states and money: the shapes below are all there    *)
(* is, and each is a step of the abstract lifecycle.                         *)

SameMoney ==
  /\ UNCHANGED <<payments, invoices>>
  /\ \A m \in Movements, b \in Bookings :
       proposal'[m][b] = "CONFIRMED" <=> proposal[m][b] = "CONFIRMED"

Quiet == UNCHANGED state /\ SameMoney

Moves(b, to) ==
  /\ to \in {"AWAITING_PAYMENT", "REJECTED", "CANCELLED"}
  /\ Lifecycle!canTransition(state[b], to)
  /\ Transition(b, to)
  /\ SameMoney

Releases(released) ==
  /\ \A b \in released : state[b] = "AWAITING_PAYMENT"
  /\ state' = [b \in Bookings |-> IF b \in released THEN "EXPIRED" ELSE state[b]]
  /\ SameMoney

PaysByHand(b, amount) ==
  /\ state[b] = "AWAITING_PAYMENT"
  /\ TrustedPayment(b, Manual, amount)
  /\ UNCHANGED <<proposal, invoices>>

PaysThroughBank(b, m, amount) ==
  /\ state[b] = "AWAITING_PAYMENT"
  /\ ~IsPaid(m)
  /\ TrustedPayment(b, m, amount)
  /\ invoices' = invoices \cup {b}
  /\ \A n \in Movements, c \in Bookings :
       proposal'[n][c] = "CONFIRMED" <=>
         proposal[n][c] = "CONFIRMED" \/ (n = m /\ c = b)

Shape ==
  \/ Quiet
  \/ \E b \in Bookings, to \in States : Moves(b, to)
  \/ \E released \in SUBSET Bookings : Releases(released)
  \/ \E b \in Bookings, amount \in Prices \cup Transfers : PaysByHand(b, amount)
  \/ \E b \in Bookings, m \in Movements, amount \in Transfers :
       PaysThroughBank(b, m, amount)

LEMMA BookingShape ==
  ASSUME NEW b \in Bookings, TypeOK, BookingStep(b)
  PROVE  Shape
  <1> USE DEF records, money, world, InState, SameMoney
  <1>1. CASE approveBooking(b)
    <2>1. Moves(b, "AWAITING_PAYMENT")
      BY <1>1 DEF approveBooking, Moves, Lifecycle!canTransition,
                  Lifecycle!AllowedTransitions, Lifecycle!States, States
    <2>2. QED
      BY <2>1 DEF Shape, States
  <1>2. CASE rejectBooking(b)
    <2>1. Moves(b, "REJECTED")
      BY <1>2 DEF rejectBooking, Moves, Lifecycle!canTransition,
                  Lifecycle!AllowedTransitions, Lifecycle!States, States
    <2>2. QED
      BY <2>1 DEF Shape, States
  <1>3. CASE cancelBooking(b)
    <2>1. Moves(b, "CANCELLED")
      BY <1>3 DEF cancelBooking, Cancellable, Moves, Lifecycle!canTransition,
                  Lifecycle!AllowedTransitions, Lifecycle!States, States
    <2>2. QED
      BY <2>1 DEF Shape, States
  <1>4. CASE Tail(b) \/ QuoteStep(b) \/ DeadlinePasses(b)
    <2>1. Quiet
      BY <1>4 DEF Tail, SetDeadline, enqueueQuote, notify, queueBookingMail, QuoteStep, QuoteStarts,
                  QuoteDocuments, QuoteRecords, QuoteFails, DeadlinePasses, Quiet
    <2>2. QED
      BY <2>1 DEF Shape
  <1>5. QED
    BY <1>1, <1>2, <1>3, <1>4 DEF BookingStep

LEMMA TransferShape ==
  ASSUME NEW o \in Operators, TypeOK, TransferCommits(o)
  PROVE  Shape
  <1> DEFINE s == session[o]
  <1>1. s.booking \in Bookings /\ s.amount \in Prices \cup Transfers
    BY SessionFacts DEF TransferCommits
  <1>2. CASE InState(s.booking, "AWAITING_PAYMENT")
    <2>1. PaysByHand(s.booking, s.amount)
      BY <1>2 DEF TransferCommits, PaysByHand, InState
    <2>2. QED
      BY <1>1, <2>1 DEF Shape
  <1>3. CASE ~InState(s.booking, "AWAITING_PAYMENT")
    BY <1>3 DEF TransferCommits, Quiet, SameMoney, Shape
  <1>4. QED
    BY <1>2, <1>3

LEMMA LinkShape ==
  ASSUME NEW o \in Operators, TypeOK, LinkCommits(o)
  PROVE  Shape
  <1> DEFINE b == session[o].booking
             was == session[o].was
  <1> USE DEF records, money, world, SameMoney
  <1>1. b \in Bookings
    BY DEF LinkCommits, TypeOK, Session, Kinds, NoSession
  <1>2. CASE LinkApplies(b, was) /\ was = "IN_REVIEW"
    <2>1. state' = [state EXCEPT ![b] = "AWAITING_PAYMENT"] /\ state[b] = "IN_REVIEW"
      BY <1>2 DEF LinkCommits, LinkApplies, LinkState, InState
    <2>2. Moves(b, "AWAITING_PAYMENT")
      BY <2>1 DEF LinkCommits, Moves, Transition, Lifecycle!canTransition,
                  Lifecycle!AllowedTransitions, Lifecycle!States, States
    <2>3. QED
      BY <1>1, <2>2 DEF Shape, States
  <1>3. CASE ~LinkApplies(b, was) \/ was # "IN_REVIEW"
    <2>1. state' = state
      BY <1>1, <1>3 DEF LinkCommits, LinkState, TypeOK
    <2>2. QED
      BY <2>1 DEF LinkCommits, Quiet, Shape
  <1>4. QED
    BY <1>2, <1>3

LEMMA OperatorShape ==
  ASSUME NEW o \in Operators, TypeOK, OperatorCommits(o)
  PROVE  Shape
  <1> DEFINE s == session[o]
  <1> USE DEF records, money, world, SameMoney
  <1>1. s.booking \in Bookings /\ s.movement \in Movements /\ s.amount \in Transfers
    BY SessionFacts DEF OperatorCommits
  <1>2. CASE MayConfirm(s) /\ Confirms(s)
    <2>1. PaysThroughBank(s.booking, s.movement, s.amount)
      <3>1. \A n \in Movements, c \in Bookings :
              proposal'[n][c] = "CONFIRMED" <=>
                \/ proposal[n][c] = "CONFIRMED"
                \/ n = s.movement /\ c = s.booking
        BY <1>2 DEF Confirms, Confirmed
      <3>2. QED
        BY <1>2, <3>1 DEF PaysThroughBank, MayConfirm, Confirms, InvoicesAfter, InState
    <2>2. QED
      BY <1>1, <2>1 DEF Shape
  <1>3. CASE /\ Claimable(s)
             /\ Decide(s.movement, s.booking, "DISMISSED")
             /\ UNCHANGED <<state, payments, invoices, tail>>
    <2>1. Quiet
      BY <1>1, <1>3 DEF Claimable, Decide, Quiet, TypeOK
    <2>2. QED
      BY <2>1 DEF Shape
  <1>4. CASE UNCHANGED <<state, payments, proposal, invoices, tail>>
    BY <1>4 DEF Quiet, Shape
  <1>5. QED
    BY <1>2, <1>3, <1>4 DEF OperatorCommits

LEMMA BankShape ==
  ASSUME TypeOK, BankStep \/ ExpiryStep \/ Crash
  PROVE  Shape
  <1> USE DEF records, money, world, SameMoney
  <1>1. ASSUME NEW m \in Movements, NEW b \in Bookings, Dismiss(m, b) PROVE Shape
    BY <1>1 DEF Dismiss, Decide, Quiet, Shape, TypeOK
  <1>2. CASE ScanCommits
    BY <1>2 DEF ScanCommits, Reconciled, Quiet, Shape
  <1>3. CASE ExpiryCommits
    <2> DEFINE released == IF StillAwaiting(expiry.candidates) THEN expiry.candidates ELSE {}
    <2>1. released \in SUBSET Bookings
      BY DEF TypeOK
    <2>2. Releases(released)
      BY <1>3 DEF ExpiryCommits, StillAwaiting, InState, Releases
    <2>3. QED
      BY <2>1, <2>2 DEF Shape
  <1>4. CASE \/ \E m \in Movements : BankChanges(m)
             \/ ScanReads \/ ScanFails \/ ExpiryReads \/ ExpiryDefers \/ ExpiryChecks
             \/ Crash
    BY <1>4 DEF BankChanges, ScanReads, ScanFails, ExpiryReads, ScanTooEarly, ExpiryDefers,
                ExpiryChecks, Crash, Quiet, Shape
  <1>5. QED
    BY <1>1, <1>2, <1>3, <1>4 DEF BankStep, ExpiryStep

LEMMA NextShape == TypeOK /\ [Next]_vars => Shape
  <1> SUFFICES ASSUME TypeOK, [Next]_vars PROVE Shape
    OBVIOUS
  <1>1. CASE UNCHANGED vars
    BY <1>1 DEF vars, records, money, world, SameMoney, Quiet, Shape
  <1>2. ASSUME NEW o \in Operators, OperatorStep(o) PROVE Shape
    <2>1. CASE LinkCommits(o) \/ TransferCommits(o) \/ OperatorCommits(o)
      BY <2>1, LinkShape, TransferShape, OperatorShape
    <2>2. CASE ~(LinkCommits(o) \/ TransferCommits(o) \/ OperatorCommits(o))
      BY <1>2, <2>2 DEF OperatorStep, LinkReads, TransferReads, OperatorReads, OperatorAccepts,
                        records, money, SameMoney, Quiet, Shape
    <2>3. QED
      BY <2>1, <2>2
  <1>3. QED
    BY <1>1, <1>2, BookingShape, BankShape DEF Next, UninterruptedNext

-----------------------------------------------------------------------------
(* Who was paid for what *)

\* The payment that confirms a booking is its first.
LEMMA FirstPayment ==
  ASSUME NEW b \in Bookings, NEW m, NEW amount, TypeOK, MoneyMeansConfirmed,
         state[b] = "AWAITING_PAYMENT", TrustedPayment(b, m, amount)
  PROVE  /\ Confirmations(b) = {}
         /\ payments' = payments \cup
              {[booking |-> b, movement |-> m, amount |-> amount, again |-> FALSE]}
         /\ state' = [state EXCEPT ![b] = "CONFIRMED"]
  <1>1. Confirmations(b) = {}
    BY DEF MoneyMeansConfirmed
  <1>2. QED
    BY <1>1 DEF TrustedPayment, Transition

\* Either the money is untouched, or a booking that awaits payment gets its
\* first payment row.
FirstPaymentStep ==
  \E b \in Bookings, m \in Movements \cup {Manual}, amount \in Prices \cup Transfers :
    /\ state[b] = "AWAITING_PAYMENT"
    /\ Confirmations(b) = {}
    /\ m = Manual \/ ~IsPaid(m)
    /\ payments' = payments \cup
         {[booking |-> b, movement |-> m, amount |-> amount, again |-> FALSE]}
    /\ state' = [state EXCEPT ![b] = "CONFIRMED"]

LEMMA MoneyShape ==
  ASSUME TypeOK, MoneyMeansConfirmed, Shape
  PROVE  UNCHANGED payments \/ FirstPaymentStep
  <1>1. ASSUME NEW b \in Bookings, NEW amount \in Prices \cup Transfers,
               PaysByHand(b, amount)
        PROVE  FirstPaymentStep
    BY <1>1, FirstPayment DEF PaysByHand, FirstPaymentStep
  <1>2. ASSUME NEW b \in Bookings, NEW m \in Movements, NEW amount \in Transfers,
               PaysThroughBank(b, m, amount)
        PROVE  FirstPaymentStep
    BY <1>2, FirstPayment DEF PaysThroughBank, FirstPaymentStep
  <1>3. QED
    BY <1>1, <1>2 DEF Shape, Quiet, Moves, Releases, SameMoney

LEMMA MoneyMeansConfirmedKept ==
  ASSUME TypeOK, MoneyMeansConfirmed, Shape
  PROVE  MoneyMeansConfirmed'
  <1> USE DEF MoneyMeansConfirmed, Confirmations, SameMoney
  <1>1. CASE Quiet
    BY <1>1 DEF Quiet
  <1>2. ASSUME NEW b \in Bookings, NEW to \in States, Moves(b, to)
        PROVE  MoneyMeansConfirmed'
    BY <1>2 DEF TypeOK, Moves, Transition, Lifecycle!canTransition,
                Lifecycle!AllowedTransitions, Lifecycle!States, States
  <1>3. ASSUME NEW released \in SUBSET Bookings, Releases(released)
        PROVE  MoneyMeansConfirmed'
    BY <1>3 DEF TypeOK, Releases
  <1>4. CASE FirstPaymentStep
    <2>1. PICK b \in Bookings, p \in payments' :
            /\ p.booking = b
            /\ payments' = payments \cup {p}
            /\ state' = [state EXCEPT ![b] = "CONFIRMED"]
      BY <1>4 DEF FirstPaymentStep
    <2>2. QED
      BY <2>1 DEF TypeOK
  <1>5. CASE \/ \E b \in Bookings, amount \in Prices \cup Transfers : PaysByHand(b, amount)
             \/ \E b \in Bookings, m \in Movements, amount \in Transfers :
                  PaysThroughBank(b, m, amount)
    <2>1. FirstPaymentStep
      BY <1>5, FirstPayment DEF PaysByHand, PaysThroughBank, FirstPaymentStep
    <2>2. QED
      BY <1>4, <2>1
  <1>6. QED
    BY <1>1, <1>2, <1>3, <1>5 DEF Shape

LEMMA OnePaymentKept ==
  ASSUME TypeOK, MoneyMeansConfirmed, OnePaymentPerBooking, MovementPaysOnce, Shape
  PROVE  OnePaymentPerBooking' /\ MovementPaysOnce'
  <1>1. CASE UNCHANGED payments
    BY <1>1 DEF OnePaymentPerBooking, MovementPaysOnce
  <1>2. CASE FirstPaymentStep
    <2>1. PICK b \in Bookings, m \in Movements \cup {Manual}, p \in payments' :
            /\ p.booking = b /\ p.movement = m
            /\ Confirmations(b) = {}
            /\ m = Manual \/ ~IsPaid(m)
            /\ payments' = payments \cup {p}
      BY <1>2 DEF FirstPaymentStep
    <2>2. \A q \in payments : q.booking # b
      BY <2>1 DEF Confirmations
    <2>3. \A q \in payments : m # Manual => q.movement # m
      BY <2>1 DEF IsPaid
    <2>4. QED
      BY <2>1, <2>2, <2>3 DEF OnePaymentPerBooking, MovementPaysOnce
  <1>3. QED
    BY <1>1, <1>2, MoneyShape

LEMMA ConfirmedProposalKept ==
  ASSUME TypeOK, MoneyMeansConfirmed, ConfirmedProposalIsPaid, Shape
  PROVE  ConfirmedProposalIsPaid'
  <1>1. CASE SameMoney
    BY <1>1 DEF SameMoney, ConfirmedProposalIsPaid
  <1>2. ASSUME NEW b \in Bookings, NEW amount \in Prices \cup Transfers,
               PaysByHand(b, amount)
        PROVE  ConfirmedProposalIsPaid'
    <2>1. PICK p : /\ p.movement = Manual
                   /\ payments' = payments \cup {p}
      BY <1>2, FirstPayment DEF PaysByHand
    <2>2. p.movement \notin Movements
      BY <2>1, RecordsAssumption
    <2>3. {q \in payments' : q.movement # Manual} = {q \in payments : q.movement # Manual}
      BY <2>1
    <2>4. QED
      BY <1>2, <2>1, <2>2, <2>3 DEF PaysByHand, ConfirmedProposalIsPaid
  <1>3. ASSUME NEW b \in Bookings, NEW m \in Movements, NEW amount \in Transfers,
               PaysThroughBank(b, m, amount)
        PROVE  ConfirmedProposalIsPaid'
    <2>1. PICK p : /\ p.movement = m /\ p.booking = b
                   /\ payments' = payments \cup {p}
      BY <1>3, FirstPayment DEF PaysThroughBank
    <2>2. p.movement # Manual
      BY <2>1, RecordsAssumption
    <2>3. {q \in payments' : q.movement # Manual}
            = {q \in payments : q.movement # Manual} \cup {p}
      BY <2>1, <2>2
    <2>4. {q.booking : q \in {r \in payments' : r.movement # Manual}}
            = {q.booking : q \in {r \in payments : r.movement # Manual}} \cup {b}
      BY <2>1, <2>3
    <2>5. invoices' = {q.booking : q \in {r \in payments' : r.movement # Manual}}
      BY <1>3, <2>4 DEF PaysThroughBank, ConfirmedProposalIsPaid
    <2>6. \A n \in Movements, c \in Bookings :
            proposal'[n][c] = "CONFIRMED" <=>
              \E q \in payments' : q.movement = n /\ q.booking = c
      BY <1>3, <2>1 DEF PaysThroughBank, ConfirmedProposalIsPaid
    <2>7. QED
      BY <2>5, <2>6 DEF ConfirmedProposalIsPaid
  <1>4. QED
    BY <1>1, <1>2, <1>3 DEF Shape, Quiet, Moves, Releases

MoneyInv ==
  /\ TypeOK
  /\ MoneyMeansConfirmed
  /\ OnePaymentPerBooking
  /\ MovementPaysOnce
  /\ ConfirmedProposalIsPaid

LEMMA MoneyInitially == Init => MoneyInv
  <1> SUFFICES ASSUME Init PROVE MoneyInv
    OBVIOUS
  <1>1. TypeOK
    BY InitTypes
  <1>2. payments = {} /\ invoices = {}
    BY DEF Init, NothingElse
  <1>3. MoneyMeansConfirmed
    BY <1>2 DEF Init, NewRequests, MoneyMeansConfirmed, Confirmations
  <1>4. ConfirmedProposalIsPaid
    BY <1>2 DEF Init, NothingElse, ConfirmedProposalIsPaid
  <1>5. QED
    BY <1>1, <1>2, <1>3, <1>4 DEF MoneyInv, OnePaymentPerBooking, MovementPaysOnce

LEMMA MoneyKept == MoneyInv /\ [Next]_vars => MoneyInv'
  BY NextTypes, NextShape, MoneyMeansConfirmedKept, OnePaymentKept,
     ConfirmedProposalKept DEF MoneyInv

LEMMA MoneyInvariant == Spec => []MoneyInv
  BY MoneyInitially, MoneyKept, PTL DEF Spec

\* A payment and the CONFIRMED state come together, and the confirmed proposals,
\* the payments and the reserve invoices agree, in every interleaving.
THEOREM MoneyIsConsistent == Spec => []MoneyAgrees
  <1>1. MoneyInv => MoneyAgrees
    BY DEF MoneyInv, MoneyAgrees
  <1>2. QED
    BY <1>1, MoneyInvariant, PTL

\* A booking is paid once, whoever races to record its payment, and a bank
\* movement pays for one booking at most.
THEOREM PaidOnce == Spec => []PaymentsUnique
  <1>1. MoneyInv => PaymentsUnique
    BY DEF MoneyInv, PaymentsUnique
  <1>2. QED
    BY <1>1, MoneyInvariant, PTL

-----------------------------------------------------------------------------
(* What a single step may never do *)

\* Whoever decides finds the proposal undecided; the others it settles are pending.
LEMMA OperatorsDecideOnce ==
  ASSUME TypeOK, NEW o \in Operators, OperatorCommits(o), NEW m \in Movements, NEW b \in Bookings,
         proposal[m][b] \notin {"NONE", "PENDING"}
  PROVE  proposal'[m][b] = proposal[m][b]
<1> DEFINE s == session[o]
<1>1. s.booking \in Bookings /\ s.movement \in Movements
  BY SessionFacts DEF OperatorCommits
<1>2. CASE MayConfirm(s) /\ Confirms(s)
  <2>1. Claimable(s) /\ proposal'[m][b] = Confirmed(s, m, b)
    BY <1>2 DEF MayConfirm, Confirms
  <2> HIDE DEF s
  <2> QED BY <2>1 DEF Claimable, Confirmed
<1>3. CASE Claimable(s) /\ Decide(s.movement, s.booking, "DISMISSED")
  <2>1. m # s.movement \/ b # s.booking
    BY <1>3 DEF Claimable
  <2> HIDE DEF s
  <2> QED BY <1>1, <1>3, <2>1 DEF Decide, TypeOK
<1>4. CASE UNCHANGED proposal
  BY <1>4
<1> QED BY <1>2, <1>3, <1>4 DEF OperatorCommits

LEMMA DecideOnce ==
  ASSUME TypeOK, [Next]_vars, NEW m \in Movements, NEW b \in Bookings,
         proposal[m][b] \notin {"NONE", "PENDING"}
  PROVE  proposal'[m][b] = proposal[m][b]
<1>1. ASSUME NEW c \in Bookings, BookingStep(c) PROVE UNCHANGED proposal
  BY <1>1 DEF BookingStep, approveBooking, rejectBooking, cancelBooking, Tail,
              SetDeadline, enqueueQuote, notify, queueBookingMail, QuoteStep, QuoteStarts, QuoteDocuments,
              QuoteRecords, QuoteFails, DeadlinePasses, money
<1>2. ASSUME NEW o \in Operators, OperatorStep(o) PROVE proposal'[m][b] = proposal[m][b]
  BY <1>2, OperatorsDecideOnce DEF OperatorStep, LinkCommits, LinkReads, TransferReads,
     TransferCommits, OperatorReads, OperatorAccepts, money
<1>3. ASSUME NEW n \in Movements, NEW c \in Bookings, Dismiss(n, c)
      PROVE  proposal'[m][b] = proposal[m][b]
  BY <1>3 DEF Dismiss, Decide, TypeOK
<1>4. CASE ScanCommits
  <2>1. proposal'[m][b] = Reconciled(m, b)
    BY <1>4 DEF ScanCommits
  <2> QED BY <2>1 DEF Reconciled
<1>5. CASE \/ \E n \in Movements : BankChanges(n)
           \/ ScanReads \/ ScanFails \/ ExpiryStep \/ Crash \/ UNCHANGED vars
  BY <1>5 DEF BankChanges, ScanReads, ScanFails, ExpiryStep, ExpiryReads, ExpiryDefers,
              ExpiryChecks, ExpiryCommits, Crash, vars, money
<1> QED BY <1>1, <1>2, <1>3, <1>4, <1>5 DEF Next, UninterruptedNext, BankStep

\* No later scan, confirmation or dismissal of reconciliation.ts takes a decision back.
THEOREM DecisionsAreFinal == Spec => DecidedProposalsFinal
<1>1. TypeOK /\ [Next]_vars =>
        \A m \in Movements, b \in Bookings :
          proposal[m][b] \notin {"NONE", "PENDING"} => proposal'[m][b] = proposal[m][b]
  BY DecideOnce
<1> QED BY <1>1, TypeCorrect, PTL DEF Spec, DecidedProposalsFinal

\* A transfer that is exact to the cent is within the tolerance.
LEMMA ExactIsWithin ==
  ASSUME NEW actual \in Nat, NEW expected \in Nat, NEW percent \in {0, TolerancePercent},
         isPaymentAmountWithin(actual, expected, percent)
  PROVE  isPaymentAmountWithin(actual, expected, TolerancePercent)
BY DEF isPaymentAmountWithin, Difference, TolerancePercent

\* A transaction that got to the point of confirming has accepted its amount.
Accepted ==
  \A o \in Operators :
    session[o].kind \in {"transfer", "proposal", "candidate"} /\ session[o].owed # 0 =>
      isPaymentAmountWithin(session[o].amount, session[o].owed, TolerancePercent)

LEMMA AmountsTyped ==
  ASSUME TypeOK
  PROVE  /\ Prices \subseteq Nat /\ Transfers \subseteq Nat
         /\ \A b \in Bookings : agreed[b] \in Nat
<1>1. \A content \in Contents : content.amount \in Nat
  BY RecordsAssumption
<1>2. Transfers \subseteq Nat
  BY Zenon, <1>1 DEF Transfers
<1>3. Prices \subseteq Nat
  BY RecordsAssumption
<1>4. ASSUME NEW b \in Bookings PROVE agreed[b] \in Nat
  <2>1. agreed[b] = 0 \/ agreed[b] \in Prices
    BY DEF TypeOK
  <2>2. 0 \in Nat
    OBVIOUS
  <2> QED BY Zenon, <1>3, <2>1, <2>2
<1> QED BY <1>2, <1>3, <1>4

\* The others keep what they have accepted.
LEMMA OthersAccepted ==
  ASSUME TypeOK, Accepted, NEW o \in Operators, NEW s,
         session' = [session EXCEPT ![o] = s],
         s.kind \in {"transfer", "proposal", "candidate"} /\ s.owed # 0 =>
           isPaymentAmountWithin(s.amount, s.owed, TolerancePercent)
  PROVE  Accepted'
<1>1. session'[o] = s /\ \A p \in Operators \ {o} : session'[p] = session[p]
  BY DEF TypeOK
<1> QED BY <1>1 DEF Accepted, isPaymentAmountWithin, TolerancePercent

LEMMA AcceptedByOperators ==
  ASSUME TypeOK, Accepted, NEW o \in Operators, OperatorStep(o)
  PROVE  Accepted'
<1>1. ASSUME NEW b \in Bookings, LinkReads(o, b) PROVE Accepted'
  BY <1>1, OthersAccepted DEF LinkReads
<1>2. ASSUME session' = [session EXCEPT ![o] = NoSession] PROVE Accepted'
  BY <1>2, OthersAccepted DEF NoSession
<1>3. ASSUME NEW b \in Bookings, TransferReads(o, b) PROVE Accepted'
  <2>1. PICK amount \in Prices \cup Transfers :
          /\ isPaymentAmountWithin(amount, agreed[b], 0)
          /\ session' = [session EXCEPT ![o] = [kind |-> "transfer", booking |-> b,
                          movement |-> Manual, amount |-> amount, owed |-> agreed[b]]]
    BY <1>3 DEF TransferReads, AmountAccepted, Percent
  <2>2. isPaymentAmountWithin(amount, agreed[b], TolerancePercent)
    BY <2>1, AmountsTyped, ExactIsWithin
  <2> QED BY <2>1, <2>2, OthersAccepted
<1>4. ASSUME NEW b \in Bookings, NEW m \in Movements, NEW kind \in Kinds,
             OperatorReads(o, kind, m, b)
      PROVE  Accepted'
  BY <1>4, OthersAccepted DEF OperatorReads
<1>5. ASSUME OperatorAccepts(o), MayAccept(session[o]) PROVE Accepted'
  <2> DEFINE s == session[o]
             owed == agreed[s.booking]
  <2>1. /\ s.kind \in Kinds /\ s.booking \in Bookings /\ s.amount \in Transfers
        /\ isPaymentAmountWithin(s.amount, owed, Percent(s.kind))
    BY <1>5, SessionFacts DEF OperatorAccepts, MayAccept, AmountAccepted, Kinds
  <2>2. isPaymentAmountWithin(s.amount, owed, TolerancePercent)
    BY <2>1, AmountsTyped, ExactIsWithin DEF Percent
  <2>3. /\ session' = [session EXCEPT ![o] = [s EXCEPT !.owed = owed]]
        /\ s = [kind |-> s.kind, booking |-> s.booking, movement |-> s.movement,
                amount |-> s.amount, owed |-> s.owed]
    BY <1>5 DEF OperatorAccepts, TypeOK, Session, NoSession, Kinds
  <2>4. [s EXCEPT !.owed = owed].amount = s.amount /\ [s EXCEPT !.owed = owed].owed = owed
    BY <2>3
  <2> QED BY <2>2, <2>3, <2>4, OthersAccepted
<1> QED BY <1>1, <1>2, <1>3, <1>4, <1>5
        DEF OperatorStep, LinkCommits, TransferCommits, OperatorAccepts, OperatorCommits

LEMMA AcceptedKept == TypeOK /\ Accepted /\ [Next]_vars => Accepted'
<1> SUFFICES ASSUME TypeOK, Accepted, [Next]_vars PROVE Accepted'
  OBVIOUS
<1>1. ASSUME UNCHANGED session PROVE Accepted'
  BY <1>1 DEF Accepted, isPaymentAmountWithin, TolerancePercent
<1>2. CASE (\E b \in Bookings : BookingStep(b)) \/ BankStep \/ ExpiryStep \/ UNCHANGED vars
  BY <1>1, <1>2 DEF BookingStep, approveBooking, rejectBooking, cancelBooking, Tail,
     SetDeadline, enqueueQuote, notify, queueBookingMail, QuoteStep, QuoteStarts, QuoteDocuments,
     QuoteRecords, QuoteFails, DeadlinePasses, BankStep, BankChanges, Dismiss, ScanReads,
     ScanCommits, ScanFails, ExpiryStep, ExpiryReads, ExpiryDefers, ExpiryChecks,
     ExpiryCommits, vars
<1>3. CASE Crash
  BY <1>3 DEF Crash, Accepted, NoSession
<1> QED BY <1>2, <1>3, AcceptedByOperators DEF Next, UninterruptedNext

\* A booking is confirmed by the transaction of an operator that has accepted its
\* transfer, and the step that does it writes the payment.
LEMMA CoveredWhenConfirmed ==
  ASSUME TypeOK, MoneyMeansConfirmed, Accepted, [Next]_vars, NEW b \in Bookings,
         state[b] # "CONFIRMED", state'[b] = "CONFIRMED"
  PROVE  \E p \in payments' \ payments, o \in Operators :
           /\ p.booking = b
           /\ session'[o] # session[o]
           /\ Confirming(o, b)
           /\ isPaymentAmountWithin(p.amount, session[o].owed, TolerancePercent)
<1>1. \E o \in Operators : OperatorStep(o)
  <2>1. ~(\E c \in Bookings : BookingStep(c))
    BY DEF BookingStep, approveBooking, rejectBooking, cancelBooking, Tail, SetDeadline,
           enqueueQuote, notify, queueBookingMail, QuoteStep, QuoteStarts, QuoteDocuments,
           QuoteRecords, QuoteFails, DeadlinePasses, records, Transition, TypeOK
  <2>2. ~(BankStep \/ ExpiryStep \/ Crash \/ UNCHANGED vars)
    BY DEF BankStep, Dismiss, BankChanges, ScanReads, ScanCommits, ScanFails, ExpiryStep,
           ExpiryReads, ExpiryDefers, ExpiryChecks, ExpiryCommits, Crash, vars, records, TypeOK
  <2> QED BY <2>1, <2>2 DEF Next, UninterruptedNext
<1>2. PICK o \in Operators : OperatorStep(o)
  BY <1>1
<1> DEFINE s == session[o]
<1>3. /\ s.kind \in {"transfer", "proposal", "candidate"} /\ s.owed # 0
      /\ state[s.booking] = "AWAITING_PAYMENT"
      /\ TrustedPayment(s.booking, s.movement, s.amount)
      /\ session' = [session EXCEPT ![o] = NoSession]
  <2>1. ~LinkCommits(o)
    BY DEF LinkCommits, LinkState, TypeOK, Session, Kinds, NoSession
  <2>2. TransferCommits(o) \/ OperatorCommits(o)
    BY <1>2, <2>1 DEF OperatorStep, LinkReads, TransferReads, OperatorReads, OperatorAccepts,
                      records
  <2>3. CASE TransferCommits(o)
    <3>1. s.movement = Manual /\ s.owed \in Prices
      BY <2>3, SessionFacts DEF TransferCommits
    <3>2. s.owed # 0
      BY <3>1, RecordsAssumption
    <3> QED BY <2>3, <3>1, <3>2 DEF TransferCommits, InState
  <2>4. CASE OperatorCommits(o)
    <3>1. s.kind # "dismissal" /\ MayConfirm(s) /\ Confirms(s)
      BY <2>4 DEF OperatorCommits
    <3> QED BY <2>4, <3>1 DEF OperatorCommits, Kinds, MayConfirm, Confirms, InState
  <2> QED BY <2>2, <2>3, <2>4
<1>4. s.booking = b
  BY <1>3 DEF TrustedPayment, Transition, TypeOK
<1> DEFINE p == [booking |-> b, movement |-> s.movement, amount |-> s.amount, again |-> FALSE]
<1>5. Confirmations(b) = {} /\ payments' = payments \cup {p}
  BY <1>3, <1>4, FirstPayment
<1>6. p.booking = b /\ p.amount = s.amount
  OBVIOUS
<1>7. /\ isPaymentAmountWithin(s.amount, s.owed, TolerancePercent) /\ Confirming(o, b)
      /\ session'[o] # s
  BY <1>3, <1>4 DEF Accepted, Confirming, TypeOK, NoSession
<1> HIDE DEF p, s
<1>8. p \in payments' \ payments
  BY <1>5, <1>6 DEF Confirmations
<1> QED BY <1>6, <1>7, <1>8 DEF s

\* Whatever an operator looked at and however the price changes meanwhile, the amount
\* that confirms a booking covers what the confirming transaction itself has read.
THEOREM PaymentsCover == Spec => PaymentCoversReading
<1> DEFINE Covered(b) ==
      \E p \in payments' \ payments, o \in Operators :
        /\ p.booking = b
        /\ session'[o] # session[o]
        /\ Confirming(o, b)
        /\ isPaymentAmountWithin(p.amount, session[o].owed, TolerancePercent)
<1>1. Init => Accepted
  BY DEF Init, NothingElse, NoSession, Accepted
<1>2. TypeOK /\ MoneyMeansConfirmed /\ Accepted /\ [Next]_vars =>
        \A b \in Bookings : ~InState(b, "CONFIRMED") /\ InState(b, "CONFIRMED")' => Covered(b)
  BY CoveredWhenConfirmed DEF InState
<1>3. MoneyInv => TypeOK /\ MoneyMeansConfirmed
  BY DEF MoneyInv
<1> QED BY <1>1, <1>2, <1>3, AcceptedKept, MoneyInvariant, PTL DEF Spec, PaymentCoversReading

-----------------------------------------------------------------------------
(* The abstract lifecycle *)

LEMMA LifecycleInitially == Init => Lifecycle!Init
  BY DEF Init, NewRequests, NothingElse, Lifecycle!Init

LEMMA LifecycleSteps ==
  ASSUME TypeOK, MoneyMeansConfirmed, Shape
  PROVE  [Lifecycle!Next]_Lifecycle!lifecycle
  <1> DEFINE paid == {p.booking : p \in payments}
  <1>1. CASE Quiet
    BY <1>1 DEF Quiet, SameMoney, Lifecycle!lifecycle
  <1>2. ASSUME NEW b \in Bookings, NEW to \in States, Moves(b, to)
        PROVE  Lifecycle!Next
    <2>1. Lifecycle!Decide(b, to)
      BY <1>2 DEF Moves, Transition, SameMoney, Lifecycle!Decide
    <2>2. QED
      BY <2>1 DEF Lifecycle!Next, Lifecycle!States, States
  <1>3. ASSUME NEW released \in SUBSET Bookings, Releases(released)
        PROVE  Lifecycle!Next
    <2>1. \A b \in released : Lifecycle!canTransition(state[b], "EXPIRED")
      BY <1>3 DEF Releases, Lifecycle!canTransition, Lifecycle!AllowedTransitions,
                  Lifecycle!States
    <2>2. Lifecycle!Expire(released)
      BY <1>3, <2>1 DEF Releases, SameMoney, Lifecycle!Expire
    <2>3. QED
      BY <2>2 DEF Lifecycle!Next
  <1>4. CASE FirstPaymentStep
    <2>1. PICK b \in Bookings, p \in payments' :
            /\ p.booking = b
            /\ state[b] = "AWAITING_PAYMENT"
            /\ payments' = payments \cup {p}
            /\ state' = [state EXCEPT ![b] = "CONFIRMED"]
      BY <1>4 DEF FirstPaymentStep
    <2>2. paid' = paid \cup {b}
      BY <2>1
    <2>3. Lifecycle!canTransition(state[b], "CONFIRMED")
      BY <2>1 DEF Lifecycle!canTransition, Lifecycle!AllowedTransitions, Lifecycle!States
    <2>4. Lifecycle!Confirm(b)
      BY <2>1, <2>2, <2>3 DEF Lifecycle!Confirm
    <2>5. QED
      BY <2>4 DEF Lifecycle!Next
  <1>5. CASE \/ \E b \in Bookings, amount \in Prices \cup Transfers : PaysByHand(b, amount)
             \/ \E b \in Bookings, m \in Movements, amount \in Transfers :
                  PaysThroughBank(b, m, amount)
    <2>1. FirstPaymentStep
      BY <1>5, FirstPayment DEF PaysByHand, PaysThroughBank, FirstPaymentStep
    <2>2. QED
      BY <1>4, <2>1
  <1>6. QED
    BY <1>1, <1>2, <1>3, <1>5 DEF Shape

\* Whatever the handlers, the scans and the expiry run do to the rows, the
\* states move along ALLOWED_TRANSITIONS and CONFIRMED comes with its money.
THEOREM LifecycleImplemented == Spec => ImplementsLifecycle
  <1>1. MoneyInv /\ [Next]_vars => [Lifecycle!Next]_Lifecycle!lifecycle
    BY NextShape, LifecycleSteps DEF MoneyInv
  <1>2. QED
    BY <1>1, LifecycleInitially, MoneyInvariant, PTL
       DEF Spec, ImplementsLifecycle, Lifecycle!Spec

-----------------------------------------------------------------------------
(* No contract while in review *)

\* Nothing that leads to an estimate is under way for a request in review, and
\* an operator who links an estimate to a booking seen out of review cannot
\* find it back there.
UntouchedInReview ==
  /\ \A b \in Bookings :
       state[b] = "IN_REVIEW" =>
         /\ b \notin documented
         /\ quote[b] = "none"
         /\ <<b, "deadline">> \notin tail
         /\ <<b, "quote">> \notin tail
  /\ \A o \in Operators :
       session[o] # NoSession /\ session[o].kind = "link" /\ session[o].was # "IN_REVIEW" =>
         state[session[o].booking] # "IN_REVIEW"

\* ALLOWED_TRANSITIONS has no way back to IN_REVIEW.
LEMMA ReviewIsLeftForGood ==
  ASSUME TypeOK, Shape, NEW b \in Bookings, state'[b] = "IN_REVIEW"
  PROVE  state[b] = "IN_REVIEW"
  BY DEF TypeOK, Shape, Quiet, Moves, Releases, PaysByHand, PaysThroughBank,
         TrustedPayment, Transition

LEMMA UntouchedKept ==
  ASSUME TypeOK, UntouchedInReview, [Next]_vars
  PROVE  UntouchedInReview'
  <1> USE DEF records, money, world
  <1>1. Shape
    BY NextShape
  <1>2. \A b \in Bookings : state'[b] = "IN_REVIEW" => state[b] = "IN_REVIEW"
    BY <1>1, ReviewIsLeftForGood
  <1>3. ASSUME UNCHANGED <<documented, quote, tail, session>>
        PROVE  UntouchedInReview'
    <2>1. \A o \in Operators :
            session[o] # NoSession /\ session[o].kind = "link" => session[o].booking \in Bookings
      BY DEF TypeOK, Session
    <2>2. QED
      BY <1>2, <1>3, <2>1 DEF UntouchedInReview
  <1>4. ASSUME NEW b \in Bookings, BookingStep(b), UNCHANGED session
        PROVE  UntouchedInReview'
    <2>1. \A o \in Operators :
            session[o] # NoSession /\ session[o].kind = "link" => session[o].booking \in Bookings
      BY DEF TypeOK, Session
    <2>2. \A c \in Bookings : state'[c] = "IN_REVIEW" =>
            /\ c \notin documented'
            /\ quote'[c] = "none"
            /\ <<c, "deadline">> \notin tail'
            /\ <<c, "quote">> \notin tail'
      <3> USE DEF TypeOK, UntouchedInReview
      <3>1. CASE approveBooking(b) \/ rejectBooking(b) \/ cancelBooking(b)
        BY <1>2, <3>1 DEF approveBooking, rejectBooking, cancelBooking, Transition,
                          Afterwards
      <3>2. CASE SetDeadline(b) \/ enqueueQuote(b) \/ notify(b)
        BY <1>2, <3>2 DEF SetDeadline, enqueueQuote, notify, queueBookingMail, NotifiedEvents
      <3>3. CASE QuoteStep(b)
        BY <1>2, <3>3 DEF QuoteStep, QuoteStarts, QuoteDocuments, QuoteRecords,
                          QuoteFails, InState
      <3>4. CASE DeadlinePasses(b)
        BY <1>2, <3>4 DEF DeadlinePasses
      <3>5. QED
        BY <1>4, <3>1, <3>2, <3>3, <3>4 DEF BookingStep, Tail
    <2>3. QED
      BY <1>2, <1>4, <2>1, <2>2 DEF UntouchedInReview
  <1>5. ASSUME NEW b \in Bookings, BookingStep(b) PROVE UNCHANGED session
    BY <1>5 DEF BookingStep, approveBooking, rejectBooking, cancelBooking, Tail, SetDeadline, enqueueQuote, notify, queueBookingMail, QuoteStep,
         QuoteStarts, QuoteDocuments, QuoteRecords, QuoteFails, DeadlinePasses
  <1>6. ASSUME NEW o \in Operators, NEW b \in Bookings, LinkReads(o, b)
        PROVE  UntouchedInReview'
    BY <1>6 DEF LinkReads, UntouchedInReview, TypeOK, Session, NoSession
  <1>7. ASSUME NEW o \in Operators, LinkCommits(o)
        PROVE  UntouchedInReview'
    <2> DEFINE b == session[o].booking
               was == session[o].was
    <2>1. b \in Bookings
      BY <1>7 DEF LinkCommits, TypeOK, Session, NoSession, Kinds
    <2>2. LinkApplies(b, was) => state'[b] # "IN_REVIEW"
      BY <1>7, <2>1 DEF LinkCommits, LinkState, LinkApplies, InState, TypeOK,
                        UntouchedInReview
    <2>3. documented' \subseteq documented \cup {b}
      BY <1>7 DEF LinkCommits
    <2>4. ~LinkApplies(b, was) => documented' = documented
      BY <1>7 DEF LinkCommits
    <2>5. UNCHANGED <<quote, tail>> /\ session' = [session EXCEPT ![o] = NoSession]
      BY <1>7 DEF LinkCommits
    <2>6. \A p \in Operators :
            session[p] # NoSession /\ session[p].kind = "link" => session[p].booking \in Bookings
      BY DEF TypeOK, Session
    <2>7. QED
      BY <1>2, <2>1, <2>2, <2>3, <2>4, <2>5, <2>6 DEF UntouchedInReview, TypeOK, NoSession
  <1>8. ASSUME NEW o \in Operators, NEW kind \in Kinds, NEW m \in Movements,
               NEW b \in Bookings, OperatorReads(o, kind, m, b)
        PROVE  UntouchedInReview'
    BY <1>8 DEF OperatorReads, UntouchedInReview, TypeOK, Session, NoSession, Kinds
  <1>9. ASSUME NEW o \in Operators, NEW b \in Bookings, TransferReads(o, b)
        PROVE  UntouchedInReview'
    BY <1>9 DEF TransferReads, UntouchedInReview, TypeOK, Session, NoSession
  <1>10. ASSUME NEW o \in Operators, OperatorAccepts(o)
        PROVE  UntouchedInReview'
    <2>1. session'[o].kind # "link"
      BY <1>10 DEF OperatorAccepts, TypeOK, Session, NoSession, Kinds
    <2>2. /\ UNCHANGED <<state, documented, quote, tail>>
          /\ \A p \in Operators \ {o} : session'[p] = session[p]
      BY <1>10 DEF OperatorAccepts, TypeOK
    <2>3. QED
      BY <2>1, <2>2 DEF UntouchedInReview
  <1>11. ASSUME NEW o \in Operators, OperatorCommits(o) \/ TransferCommits(o)
        PROVE  UntouchedInReview'
    <2>1. UNCHANGED <<documented, quote>> /\ session' = [session EXCEPT ![o] = NoSession]
      BY <1>11 DEF OperatorCommits, TransferCommits
    <2>2. \A c \in Bookings : /\ <<c, "deadline">> \in tail' => <<c, "deadline">> \in tail
                              /\ <<c, "quote">> \in tail' => <<c, "quote">> \in tail
      BY <1>11 DEF OperatorCommits, TransferCommits, Confirms, Afterwards
    <2>3. \A p \in Operators :
            session[p] # NoSession /\ session[p].kind = "link" => session[p].booking \in Bookings
      BY DEF TypeOK, Session
    <2>4. QED
      BY <1>2, <2>1, <2>2, <2>3 DEF UntouchedInReview, TypeOK, NoSession
  <1>12. CASE BankStep \/ ExpiryStep
    <2>1. UNCHANGED <<documented, quote, tail, session>>
      BY <1>12 DEF BankStep, BankChanges, Dismiss, ScanReads, ScanCommits, ScanFails,
                   ExpiryStep, ExpiryReads, ExpiryDefers, ExpiryChecks, ExpiryCommits
    <2>2. QED
      BY <1>3, <2>1
  <1>13. CASE Crash
    BY <1>13 DEF Crash, UntouchedInReview, TypeOK, NoSession
  <1>14. CASE UNCHANGED vars
    BY <1>3, <1>14 DEF vars
  <1>15. QED
    BY <1>4, <1>5, <1>6, <1>7, <1>8, <1>9, <1>10, <1>11, <1>12, <1>13, <1>14
       DEF Next, UninterruptedNext, OperatorStep

\* A request never holds an estimate while it still sits in review, although
\* linking one acts on a state read before Holded was asked.
THEOREM ReviewHasNoContract == Spec => []NoContractInReview
  <1>1. Init => UntouchedInReview
    BY DEF Init, NewRequests, NothingElse, UntouchedInReview
  <1>2. TypeOK /\ UntouchedInReview => NoContractInReview
    BY DEF TypeOK, UntouchedInReview, NoContractInReview
  <1>3. QED
    BY <1>1, <1>2, UntouchedKept, TypeCorrect, PTL DEF Spec

-----------------------------------------------------------------------------
(* Released on evidence as new as the expiry run *)

\* The rows say what the bank said at importedAt, and so will the page that is being
\* written; a page that creates a proposal is newer than the rows.
Versioned ==
  /\ importedAt <= bankChanges
  /\ importedAt = bankChanges => movement = bank
  /\ scan # NoScan =>
       /\ importedAt <= scan.at /\ scan.at <= bankChanges
       /\ scan.at = bankChanges => scan.page = bank
       /\ scan.create # {} => importedAt < scan.at

\* What the expiry run decides by is not older than the run, and what it has not seen
\* when it looked for proposals is newer.
ExpiryInformed ==
  /\ expiry.at = "waiting" =>
       expiry.since <= bankChanges /\ (scan # NoScan /\ scan.fresh => expiry.since <= scan.at)
  /\ expiry.at \in {"ready", "checked"} => expiry.since <= importedAt
  /\ expiry.at = "checked" =>
       \A m \in Movements, b \in expiry.candidates :
         proposal[m][b] # "PENDING" \/ expiry.since < importedAt

EvidenceInv == TypeOK /\ Versioned /\ ExpiryInformed

LEMMA EvidenceInitially == Init => EvidenceInv
<1> SUFFICES ASSUME Init PROVE EvidenceInv
  OBVIOUS
<1>1. TypeOK
  BY InitTypes
<1>2. Versioned /\ ExpiryInformed
  BY DEF Init, NothingElse, NoExpiry, Versioned, ExpiryInformed
<1> QED BY <1>1, <1>2 DEF EvidenceInv

LEMMA ScanTyped ==
  ASSUME TypeOK
  PROVE  /\ importedAt \in Int /\ bankChanges \in Int
         /\ expiry.since \in Int /\ expiry.candidates \subseteq Bookings
         /\ expiry = [at |-> expiry.at, since |-> expiry.since, candidates |-> expiry.candidates]
         /\ scan # NoScan => scan.at \in Int
<1>1. importedAt \in Int /\ bankChanges \in Int
  BY RecordsAssumption DEF TypeOK
<1>2. /\ expiry.since \in Int /\ expiry.candidates \subseteq Bookings
      /\ expiry = [at |-> expiry.at, since |-> expiry.since, candidates |-> expiry.candidates]
  BY RecordsAssumption DEF TypeOK
<1>3. ASSUME scan # NoScan PROVE scan.at \in Int
  <2>1. scan.at \in 0..MaxBankChanges
    BY <1>3 DEF TypeOK, Scan
  <2> QED BY <2>1, RecordsAssumption
<1> QED BY <1>1, <1>2, <1>3

\* Steps that touch neither the bank, its rows, the scan nor the expiry run may
\* decide proposals, but create none.
LEMMA EvidenceUntouched ==
  ASSUME EvidenceInv,
         UNCHANGED <<bank, bankChanges, movement, importedAt, scan, expiry>>,
         \A m \in Movements, b \in Bookings :
           proposal'[m][b] = "PENDING" => proposal[m][b] = "PENDING"
  PROVE  Versioned' /\ ExpiryInformed'
BY ScanTyped DEF EvidenceInv, Versioned, ExpiryInformed

LEMMA PeopleCreateNoProposal ==
  ASSUME TypeOK,
         \/ \E b \in Bookings : BookingStep(b)
         \/ \E o \in Operators : OperatorStep(o)
         \/ \E m \in Movements, b \in Bookings : Dismiss(m, b)
         \/ UNCHANGED vars
  PROVE  /\ UNCHANGED <<bank, bankChanges, movement, importedAt, scan, expiry>>
         /\ \A m \in Movements, b \in Bookings :
              proposal'[m][b] = "PENDING" => proposal[m][b] = "PENDING"
<1>1. CASE \E b \in Bookings : BookingStep(b)
  BY <1>1 DEF BookingStep, approveBooking, rejectBooking, cancelBooking, Tail,
              SetDeadline, enqueueQuote, notify, queueBookingMail, QuoteStep, QuoteStarts, QuoteDocuments,
              QuoteRecords, QuoteFails, DeadlinePasses, money, world
<1>2. ASSUME NEW o \in Operators, OperatorCommits(o)
      PROVE  \A m \in Movements, b \in Bookings :
               proposal'[m][b] = "PENDING" => proposal[m][b] = "PENDING"
  <2> DEFINE s == session[o]
  <2>1. CASE Confirms(s)
    BY <2>1 DEF Confirms, Confirmed
  <2>2. CASE Decide(s.movement, s.booking, "DISMISSED")
    BY <2>2 DEF Decide, TypeOK
  <2> QED BY <1>2, <2>1, <2>2 DEF OperatorCommits
<1>3. CASE \E o \in Operators : OperatorStep(o)
  BY <1>2, <1>3 DEF OperatorStep, LinkCommits, LinkReads, TransferReads, TransferCommits,
                    OperatorReads, OperatorAccepts, OperatorCommits, money, world
<1>4. CASE \E m \in Movements, b \in Bookings : Dismiss(m, b)
  BY <1>4 DEF Dismiss, Decide, world, TypeOK
<1>5. CASE UNCHANGED vars
  BY <1>5 DEF vars, money, world
<1> QED BY <1>1, <1>3, <1>4, <1>5

LEMMA EvidenceKeptByScans ==
  ASSUME EvidenceInv, ScanReads \/ ScanCommits \/ ScanFails
  PROVE  Versioned' /\ ExpiryInformed'
<1> USE DEF EvidenceInv
<1>1. CASE ScanReads
  <2>1. /\ UNCHANGED <<bank, bankChanges, movement, importedAt, expiry, proposal>>
        /\ scan'.page = bank /\ scan'.at = bankChanges /\ scan'.create = ToCreate
    BY <1>1 DEF ScanReads, money, world
  <2>2. ToCreate # {} => bank # movement
    BY DEF ToCreate, Changed
  <2>3. Versioned'
    BY <2>1, <2>2, ScanTyped DEF Versioned
  <2>4. ExpiryInformed'
    BY <2>1, ScanTyped DEF ExpiryInformed
  <2> QED BY <2>3, <2>4
<1>2. CASE ScanCommits
  <2>1. /\ scan # NoScan /\ scan' = NoScan /\ movement' = scan.page /\ importedAt' = scan.at
        /\ UNCHANGED <<bank, bankChanges>> /\ expiry' = ExpiryAfter(TRUE)
    BY <1>2 DEF ScanCommits, world
  <2>2. Versioned'
    BY <2>1, ScanTyped DEF Versioned
  <2>3. \/ expiry' = expiry /\ ~(scan.fresh /\ expiry.at = "waiting")
        \/ expiry' = NoExpiry
        \/ expiry.at = "waiting" /\ scan.fresh /\ expiry' = [expiry EXCEPT !.at = "ready"]
    BY <2>1 DEF ExpiryAfter
  <2>4. ASSUME expiry' = expiry, ~(scan.fresh /\ expiry.at = "waiting") PROVE ExpiryInformed'
    <3>1. \A m \in Movements, b \in Bookings :
            proposal'[m][b] = "PENDING" => proposal[m][b] = "PENDING" \/ scan.create # {}
      BY <1>2 DEF ScanCommits, Reconciled
    <3>2. scan.create # {} => importedAt < importedAt'
      BY <2>1 DEF Versioned
    <3>3. importedAt <= importedAt' /\ importedAt' \in Int /\ importedAt' <= bankChanges
      BY <2>1, ScanTyped DEF Versioned
    <3>4. /\ expiry'.at = expiry.at /\ expiry'.since = expiry.since
          /\ expiry'.candidates = expiry.candidates
      BY <2>4
    <3>5. expiry.since \in Int /\ importedAt \in Int
      BY ScanTyped
    <3>6. scan' = NoScan
      BY <2>1
    <3>7. expiry.at \in {"ready", "checked"} => expiry.since <= importedAt'
      BY <3>3, <3>5 DEF ExpiryInformed
    <3>8. ASSUME expiry.at = "checked", NEW m \in Movements, NEW b \in expiry.candidates
          PROVE  proposal'[m][b] # "PENDING" \/ expiry.since < importedAt'
      <4>1. b \in Bookings
        BY ScanTyped
      <4>2. proposal[m][b] # "PENDING" \/ expiry.since < importedAt
        BY <3>8 DEF ExpiryInformed
      <4>3. expiry.since <= importedAt
        BY <3>8 DEF ExpiryInformed
      <4> QED BY <3>1, <3>2, <3>3, <3>5, <4>1, <4>2, <4>3
    <3>9. expiry.at = "waiting" => expiry.since <= bankChanges'
      BY <2>1 DEF ExpiryInformed
    <3> QED BY <3>4, <3>6, <3>7, <3>8, <3>9 DEF ExpiryInformed
  <2>5. ASSUME expiry' = NoExpiry PROVE ExpiryInformed'
    BY <2>5 DEF NoExpiry, ExpiryInformed
  <2>6. ASSUME expiry.at = "waiting", scan.fresh, expiry' = [expiry EXCEPT !.at = "ready"]
        PROVE  ExpiryInformed'
    <3>1. expiry'.at = "ready" /\ expiry'.since = expiry.since
      BY <2>6, ScanTyped
    <3> QED BY <2>1, <2>6, <3>1 DEF ExpiryInformed
  <2> QED BY <2>2, <2>3, <2>4, <2>5, <2>6
<1>3. CASE ScanFails
  <2>1. /\ UNCHANGED <<bank, bankChanges, movement, importedAt, proposal>> /\ scan' = NoScan
        /\ expiry' = expiry \/ expiry' = NoExpiry
    BY <1>3 DEF ScanFails, ExpiryAfter, money, world
  <2> QED BY <2>1 DEF Versioned, ExpiryInformed, NoExpiry
<1> QED BY <1>1, <1>2, <1>3

\* The run names what it saw; a page that is being written when it starts is no
\* evidence for it.
LEMMA EvidenceKeptByExpiry ==
  ASSUME EvidenceInv, ExpiryStep
  PROVE  Versioned' /\ ExpiryInformed'
<1> USE DEF EvidenceInv
<1>1. CASE ExpiryReads
  <2>1. /\ UNCHANGED <<bank, bankChanges, movement, importedAt, proposal>>
        /\ expiry'.at = "waiting" /\ expiry'.since = bankChanges
    BY <1>1 DEF ExpiryReads, money, world
  <2>2. scan' = ScanTooEarly
    BY <1>1 DEF ExpiryReads
  <2>3. CASE scan = NoScan
    BY <2>1, <2>2, <2>3, ScanTyped DEF ScanTooEarly, Versioned, ExpiryInformed
  <2>4. CASE scan # NoScan
    <3>1. scan' = [scan EXCEPT !.fresh = FALSE]
      BY <2>2, <2>4 DEF ScanTooEarly
    <3>2. /\ scan'.at = scan.at /\ scan'.page = scan.page /\ scan'.create = scan.create
          /\ ~scan'.fresh
      BY <2>4, <3>1 DEF TypeOK, Scan
    <3> QED BY <2>1, <2>4, <3>2, ScanTyped DEF Versioned, ExpiryInformed
  <2> QED BY <2>3, <2>4
<1>2. CASE ExpiryDefers \/ ExpiryCommits
  <2>1. UNCHANGED <<bank, bankChanges, movement, importedAt, scan>> /\ expiry' = NoExpiry
    BY <1>2 DEF ExpiryDefers, ExpiryCommits, money, world
  <2> QED BY <2>1 DEF Versioned, ExpiryInformed, NoExpiry
<1>3. CASE ExpiryChecks
  <2>1. UNCHANGED <<bank, bankChanges, movement, importedAt, scan, proposal>>
    BY <1>3 DEF ExpiryChecks, money, world
  <2>2. /\ expiry.at = "ready" /\ expiry'.at = "checked" /\ expiry'.since = expiry.since
        /\ expiry'.candidates = {b \in expiry.candidates : Releasable(b)}
    BY <1>3, ScanTyped DEF ExpiryChecks
  <2>3. \A m \in Movements, b \in expiry'.candidates : proposal[m][b] # "PENDING"
    BY <2>2 DEF Releasable
  <2> QED BY <2>1, <2>2, <2>3 DEF Versioned, ExpiryInformed
<1> QED BY <1>1, <1>2, <1>3 DEF ExpiryStep

LEMMA EvidenceKeptByBank ==
  ASSUME EvidenceInv, NEW m \in Movements, BankChanges(m)
  PROVE  Versioned' /\ ExpiryInformed'
<1> USE DEF EvidenceInv
<1>1. /\ UNCHANGED <<movement, importedAt, proposal, scan, expiry>>
      /\ bankChanges' = bankChanges + 1
  BY DEF BankChanges, money
<1>2. bankChanges \in Int /\ importedAt \in Int /\ expiry.since \in Int
  BY ScanTyped
<1>3. Versioned'
  BY <1>1, <1>2, ScanTyped DEF Versioned
<1>4. ExpiryInformed'
  BY <1>1, <1>2 DEF ExpiryInformed
<1> QED BY <1>3, <1>4

LEMMA EvidenceKeptByCrash ==
  ASSUME EvidenceInv, Crash
  PROVE  Versioned' /\ ExpiryInformed'
<1>1. /\ UNCHANGED <<bank, bankChanges, movement, importedAt>>
      /\ scan' = NoScan /\ expiry' = NoExpiry
  BY DEF Crash, money, world
<1> QED BY <1>1 DEF EvidenceInv, Versioned, ExpiryInformed, NoExpiry

LEMMA EvidenceKept == EvidenceInv /\ TypeOK' /\ [Next]_vars => EvidenceInv'
<1> SUFFICES ASSUME EvidenceInv, TypeOK', [Next]_vars PROVE Versioned' /\ ExpiryInformed'
  BY DEF EvidenceInv
<1>1. TypeOK
  BY DEF EvidenceInv
<1>2. CASE \/ \E b \in Bookings : BookingStep(b)
           \/ \E o \in Operators : OperatorStep(o)
           \/ \E m \in Movements, b \in Bookings : Dismiss(m, b)
           \/ UNCHANGED vars
  BY <1>1, <1>2, PeopleCreateNoProposal, EvidenceUntouched
<1>3. CASE ScanReads \/ ScanCommits \/ ScanFails
  BY <1>3, EvidenceKeptByScans
<1>4. CASE ExpiryStep
  BY <1>4, EvidenceKeptByExpiry
<1>5. CASE \E m \in Movements : BankChanges(m)
  BY <1>5, EvidenceKeptByBank
<1>6. CASE Crash
  BY <1>6, EvidenceKeptByCrash
<1> QED BY <1>2, <1>3, <1>4, <1>5, <1>6 DEF Next, UninterruptedNext, BankStep

LEMMA OnlyExpiryReleases ==
  ASSUME TypeOK, [Next]_vars, NEW b \in Bookings,
         state[b] = "AWAITING_PAYMENT", state'[b] = "EXPIRED"
  PROVE  ExpiryCommits
<1>1. ASSUME NEW c \in Bookings, BookingStep(c) PROVE state'[b] # "EXPIRED"
  <2>1. CASE approveBooking(c) \/ rejectBooking(c) \/ cancelBooking(c)
    BY <2>1 DEF TypeOK, approveBooking, rejectBooking, cancelBooking, Transition
  <2>2. CASE Tail(c) \/ QuoteStep(c) \/ DeadlinePasses(c)
    <3>1. state' = state
      BY <2>2 DEF Tail, SetDeadline, enqueueQuote, notify, queueBookingMail, QuoteStep, QuoteStarts,
                  QuoteDocuments, QuoteRecords, QuoteFails, DeadlinePasses, records
    <3> QED BY <3>1
  <2> QED BY <1>1, <2>1, <2>2 DEF BookingStep
<1>2. \A o \in Operators : ~OperatorStep(o)
  BY DEF TypeOK, OperatorStep, LinkCommits, LinkState, LinkReads, TransferReads,
         TransferCommits, OperatorReads, OperatorAccepts, OperatorCommits, Confirms, Afterwards, TrustedPayment, Transition, records
<1>3. ~BankStep
  BY DEF BankStep, BankChanges, Dismiss, ScanReads, ScanCommits, ScanFails, records
<1>4. ~(ExpiryReads \/ ExpiryDefers \/ ExpiryChecks \/ Crash \/ UNCHANGED vars)
  BY DEF ExpiryReads, ExpiryDefers, ExpiryChecks, Crash, vars, records
<1> QED BY <1>1, <1>2, <1>3, <1>4 DEF Next, UninterruptedNext, ExpiryStep

\* A booking is released past a proposal somebody still has to decide only when the
\* transfer reached the bank after the expiry run had started: pages, corrections,
\* operators and crashes in between cannot hide an older one from the run.
THEOREM ReleasedPastNoProposal == Spec => NotReleasedWhileProposed
<1> DEFINE Released(b) == InState(b, "AWAITING_PAYMENT") /\ InState(b, "EXPIRED")'
           Excused(b) == \/ \A m \in Movements : proposal[m][b] # "PENDING"
                         \/ importedAt > expiry.since
<1>1. ASSUME EvidenceInv, [Next]_vars, NEW b \in Bookings, Released(b)
      PROVE  Excused(b)
  <2>1. ExpiryCommits
    BY <1>1, OnlyExpiryReleases DEF EvidenceInv, InState
  <2>2. expiry.at = "checked" /\ b \in expiry.candidates
    BY <1>1, <2>1 DEF ExpiryCommits, InState, TypeOK, EvidenceInv
  <2>3. importedAt \in Int /\ expiry.since \in Int
    BY <1>1, ScanTyped DEF EvidenceInv
  <2> QED BY <1>1, <2>2, <2>3 DEF EvidenceInv, ExpiryInformed
<1>2. EvidenceInv /\ [Next]_vars => [\A b \in Bookings : Released(b) => Excused(b)]_vars
  BY <1>1
<1>3. Spec => []TypeOK
  BY TypeCorrect
<1>4. QED
  BY <1>2, <1>3, EvidenceInitially, EvidenceKept, PTL DEF Spec, NotReleasedWhileProposed
=============================================================================
