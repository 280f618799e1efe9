------------------------------ MODULE Decisions ------------------------------
(***************************************************************************)
(* What people decide about a booking, and the writes of its quote job:    *)
(* booking/services/decisions.ts, linkExistingEstimate of contact-sync.ts  *)
(* and the database side of quoting.ts.                                    *)
(*                                                                         *)
(* A service function commits its transition in one transaction and does   *)
(* the rest (deadline, quote job, notice) in later statements: these form  *)
(* the booking's tail, which dies with the process.                        *)
(***************************************************************************)
EXTENDS BookingRecords

Afterwards(b, step) == tail' = tail \cup {<<b, step>>}

-----------------------------------------------------------------------------
(* decisions.ts *)

\* The state an operator must have seen for the decision to apply.
approveBooking(b) ==
  /\ InState(b, "IN_REVIEW")
  /\ Transition(b, "AWAITING_PAYMENT")
  /\ Afterwards(b, "deadline")
  /\ UNCHANGED <<due, agreed, documented, quote, money, world, notices,
                 session, scan, expiry>>

rejectBooking(b) ==
  /\ InState(b, "IN_REVIEW")
  /\ Transition(b, "REJECTED")
  /\ Afterwards(b, "REJECTED")
  /\ UNCHANGED <<due, agreed, documented, quote, money, world, notices,
                 session, scan, expiry>>

\* Any state from which CANCELLED is allowed; pending proposals stay as they are.
Cancellable(b) == state[b] \in {"AWAITING_PAYMENT", "CONFIRMED"}

cancelBooking(b) ==
  /\ Cancellable(b)
  /\ Transition(b, "CANCELLED")
  /\ Afterwards(b, "CANCELLED")
  /\ UNCHANGED <<due, agreed, documented, quote, money, world, notices,
                 session, scan, expiry>>

\* recordTrustedPayment: one statement reads the agreed amounts and accepts the
\* transfer, later ones insert the Payment and make the transition, which looks
\* at the state alone.  The Payment row has no uniqueness on its booking.
Percent(kind) == IF kind = "candidate" THEN TolerancePercent ELSE 0

AmountAccepted(kind, b, amount) == isPaymentAmountWithin(amount, agreed[b], Percent(kind))

TrustedPayment(b, m, amount) ==
  /\ payments' = payments \cup
       {[booking |-> b, movement |-> m, amount |-> amount,
         again |-> Confirmations(b) # {}]}
  /\ Transition(b, "CONFIRMED")

\* recordPayment: an operator types in a transfer, exact to the cent.
TransferReads(o, b) ==
  /\ session[o] = NoSession
  /\ \E amount \in Prices \cup Transfers :
       /\ AmountAccepted("transfer", b, amount)
       /\ session' = [session EXCEPT ![o] = [kind |-> "transfer", booking |-> b,
                       movement |-> Manual, amount |-> amount, owed |-> agreed[b]]]
  /\ UNCHANGED <<records, money, world, notices, tail, scan, expiry>>

TransferCommits(o) ==
  /\ session[o].kind = "transfer"
  /\ LET s == session[o]
     IN IF InState(s.booking, "AWAITING_PAYMENT")
        THEN TrustedPayment(s.booking, Manual, s.amount) /\ Afterwards(s.booking, "CONFIRMED")
        ELSE UNCHANGED <<state, payments, tail>>
  /\ session' = [session EXCEPT ![o] = NoSession]
  /\ UNCHANGED <<due, agreed, documented, quote, movement, importedAt, proposal,
                 invoices, world, notices, scan, expiry>>

-----------------------------------------------------------------------------
(* The tails *)

SetDeadline_NoQuote(b) ==
  /\ <<b, "deadline">> \in tail
  /\ due' = [due EXCEPT ![b] = "ahead"]
  /\ tail' = tail \ {<<b, "deadline">>}
  /\ UNCHANGED <<state, agreed, documented, quote, money, world, notices,
                 session, scan, expiry>>
SetDeadline(b) ==
  /\ <<b, "deadline">> \in tail
  /\ due' = [due EXCEPT ![b] = "ahead"]
  /\ tail' = (tail \ {<<b, "deadline">>}) \cup {<<b, "quote">>}
  /\ UNCHANGED <<state, agreed, documented, quote, money, world, notices,
                 session, scan, expiry>>

enqueueQuote(b) ==
  /\ <<b, "quote">> \in tail
  /\ quote' = [quote EXCEPT ![b] = IF @ = "none" THEN "queued" ELSE @]
  /\ tail' = tail \ {<<b, "quote">>}
  /\ UNCHANGED <<state, due, agreed, documented, money, world, notices,
                 session, scan, expiry>>

\* One row per event and booking: the key makes a second mail a no-op.
queueBookingMail(b, event) == notices' = notices \cup {<<b, event>>}

\* The events notify() is called for.
NotifiedEvents == {"REJECTED", "CANCELLED", "CONFIRMED"}

notify(b) ==
  \E event \in NotifiedEvents :
    /\ <<b, event>> \in tail
    /\ queueBookingMail(b, event)
    /\ tail' = tail \ {<<b, event>>}
    /\ UNCHANGED <<records, money, world, session, scan, expiry>>

Tail(b) == SetDeadline(b) \/ enqueueQuote(b) \/ notify(b)

-----------------------------------------------------------------------------
(* runQuoteJob, seen from the database: one job per booking, run by one      *)
(* worker at a time.                                                         *)

\* Its only look at the state is at the start.
QuoteStarts(b) ==
  /\ quote[b] = "queued"
  /\ InState(b, "AWAITING_PAYMENT")
  /\ quote' = [quote EXCEPT ![b] = "running"]
  /\ UNCHANGED <<state, due, agreed, documented, money, world, notices, tail,
                 session, scan, expiry>>

\* The estimate row: created unless the booking already has one.
QuoteDocuments(b) ==
  /\ quote[b] = "running"
  /\ documented' = documented \cup {b}
  /\ quote' = [quote EXCEPT ![b] = "documented"]
  /\ UNCHANGED <<state, due, agreed, money, world, notices, tail, session,
                 scan, expiry>>

\* The final update, unconditional: amounts, and a deadline if there was none.
QuoteRecords(b) ==
  /\ quote[b] = "documented"
  /\ \E price \in Prices : agreed' = [agreed EXCEPT ![b] = price]
  /\ due' = [due EXCEPT ![b] = IF @ = "none" THEN "ahead" ELSE @]
  /\ quote' = [quote EXCEPT ![b] = "done"]
  /\ UNCHANGED <<state, documented, money, world, notices, tail, session, scan,
                 expiry>>

\* A failing step throws: the outbox retries, or parks the job as DEAD.
QuoteFails(b) ==
  /\ \/ quote[b] \in {"running", "documented"}
     \/ quote[b] = "queued" /\ ~InState(b, "AWAITING_PAYMENT")
  /\ \E outcome \in {"queued", "dead"} : quote' = [quote EXCEPT ![b] = outcome]
  /\ UNCHANGED <<state, due, agreed, documented, money, world, notices, tail,
                 session, scan, expiry>>

QuoteStep(b) ==
  QuoteStarts(b) \/ QuoteDocuments(b) \/ QuoteRecords(b) \/ QuoteFails(b)

-----------------------------------------------------------------------------
(* linkExistingEstimate: the state is read first, Holded is asked, and the   *)
(* transaction acts on the state read.                                       *)

LinkReads(o, b) ==
  /\ session[o] = NoSession
  /\ session' = [session EXCEPT ![o] = [kind |-> "link", booking |-> b, was |-> state[b]]]
  /\ UNCHANGED <<records, money, world, notices, tail, scan, expiry>>

\* A request still in review must be so now, or everything is rolled back.
LinkApplies(b, was) == was = "IN_REVIEW" => InState(b, "IN_REVIEW")

LinkState_LeftInReview(b, was) == state[b]
LinkState(b, was) == IF was = "IN_REVIEW" THEN "AWAITING_PAYMENT" ELSE state[b]

LinkCommits(o) ==
  /\ session[o] # NoSession
  /\ session[o].kind = "link"
  /\ LET b == session[o].booking
         was == session[o].was
     IN IF LinkApplies(b, was)
        THEN /\ documented' = documented \cup {b}
             /\ \E total \in Prices : agreed' = [agreed EXCEPT ![b] = total]
             /\ state' = [state EXCEPT ![b] = LinkState(b, was)]
        ELSE UNCHANGED <<documented, agreed, state>>
  /\ session' = [session EXCEPT ![o] = NoSession]
  /\ UNCHANGED <<due, quote, money, world, notices, tail, scan, expiry>>
=============================================================================
