--------------------------- MODULE ReserveInvoice ---------------------------
(***************************************************************************)
(* booking.reserve-invoice jobs in the outbox: runReserveInvoiceJob of     *)
(* booking/services/reserve-invoice.ts creates, approves and mails one     *)
(* invoice for a booking a bank movement has paid.  DocumentIssuance says  *)
(* how far the creation got, HoldedDocument which invoice it is.           *)
(*                                                                         *)
(* Every Holded call and every database statement is a step, and each may  *)
(* fail; meanwhile an operator edits, deletes or approves the draft in     *)
(* Holded and a late quote attempt changes the amounts.  An invoice is the *)
(* amount it asks for, the other fields isCompatibleReserveInvoice         *)
(* compares follow it.  Delivery is ProviderWrite's (DocumentDelivery.tla).*)
(***************************************************************************)
EXTENDS Outbox

CONSTANT Totals   \* amounts a booking may have agreed, advance and deposit

ASSUME InvoiceAssumption == Totals # {} /\ Totals \subseteq Nat \ {0}

VARIABLES
  issuance,   \* DocumentIssuance.status, "NONE" without a row
  document,   \* bookings with a HoldedDocument row of type RESERVE_INVOICE
  agreed,     \* advanceCents + depositCents
  delivery,   \* "open" (no row, PREPARED or FAILED), "unknown" or "accepted"
  created,    \* Holded: how many invoices the job has created
  asks,       \* Holded: what the newest of them asks for, 0 if there is none
  approved,   \* Holded: bookings whose newest invoice is out of draft
  mailed,     \* Holded: what the invoice asked for when it was mailed, or 0
  at,         \* the next step of each drain's handler
  owed        \* the amount each handler has read

rows == <<issuance, document, agreed, delivery>>
holded == <<created, asks, approved, mailed>>
handler == <<at, owed>>
ivars == <<ovars, rows, holded, handler>>

Issuances == {"NONE", "PREPARED", "IN_FLIGHT", "ISSUED", "BLOCKED", "UNKNOWN", "FAILED"}
Decided == {"ISSUED", "BLOCKED", "UNKNOWN"}
HandlerSteps == {"start", "block", "interrupted", "inspect", "series", "claim", "create",
                 "refused", "unanswered", "save", "orphan", "approve", "unapproved",
                 "issue", "deliver"}
None == 0

\* Each of these jobs is one booking's.
Bookings == Jobs \ Unhandled

TypeOK ==
  /\ OutboxTypeOK
  /\ issuance \in [Bookings -> Issuances]
  /\ document \subseteq Bookings
  /\ agreed \in [Bookings -> Totals]
  /\ delivery \in [Bookings -> {"open", "unknown", "accepted"}]
  /\ created \in [Bookings -> Nat]
  /\ asks \in [Bookings -> Totals \cup {None}]
  /\ approved \subseteq Bookings
  /\ mailed \in [Bookings -> Totals \cup {None}]
  /\ at \in [Drains -> HandlerSteps]
  /\ owed \in [Drains -> Totals \cup {None}]

Init ==
  /\ OutboxInit
  /\ issuance = [j \in Bookings |-> "NONE"]
  /\ document = {}
  /\ agreed \in [Bookings -> Totals]
  /\ delivery = [j \in Bookings |-> "open"]
  /\ created = [j \in Bookings |-> 0]
  /\ asks = [j \in Bookings |-> None]
  /\ approved = {}
  /\ mailed = [j \in Bookings |-> None]
  /\ at = [d \in Drains |-> "start"]
  /\ owed = [d \in Drains |-> None]

Running(d, step) == pc[d] = "running" /\ at[d] = step
Continue(d, step) == at' = [at EXCEPT ![d] = step] /\ UNCHANGED ovars
Leave(d, how) == HandlerEnds(d, how) /\ UNCHANGED at
Becomes(j, to) == issuance' = [issuance EXCEPT ![j] = to]

-----------------------------------------------------------------------------
(* runReserveInvoiceJob *)

\* enqueueReserveInvoice: the issuance row and the job, in one transaction.
enqueueReserveInvoice(j) ==
  /\ enqueueJob(j)
  /\ issuance' = [i \in Bookings |-> IF i = j /\ issuance[i] = "NONE"
                                      THEN "PREPARED" ELSE issuance[i]]
  /\ UNCHANGED <<document, agreed, delivery, holded, handler>>

\* What an attempt does about the row it finds.
AfterRead(j) ==
  CASE issuance[j] = "ISSUED" -> IF j \in document THEN "deliver" ELSE "block"
    [] issuance[j] = "IN_FLIGHT" /\ j \notin document -> "interrupted"
    [] OTHER -> IF j \in document THEN "inspect" ELSE "series"

\* The issuance, booking, document and payment are read once.
Start(d) ==
  LET j == taken[d] IN
  /\ Running(d, "start")
  /\ IF issuance[j] \in {"BLOCKED", "UNKNOWN"}
     THEN Leave(d, "returned")
     ELSE Continue(d, AfterRead(j))
  /\ owed' = [owed EXCEPT ![d] = agreed[j]]
  /\ UNCHANGED <<rows, holded>>

\* markBlocked.
Block(d) ==
  /\ Running(d, "block")
  /\ Becomes(taken[d], "BLOCKED")
  /\ Leave(d, "returned")
  /\ UNCHANGED <<document, agreed, delivery, holded, owed>>

\* An attempt that ended between its claim and its record is not repeated.
Interrupted(d) ==
  /\ Running(d, "interrupted")
  /\ Becomes(taken[d], "UNKNOWN")
  /\ Leave(d, "returned")
  /\ UNCHANGED <<document, agreed, delivery, holded, owed>>

\* The client's getInvoice: an invoice deleted in Holded reads as none.
InvoiceRead(d) == asks[taken[d]]

\* isCompatibleReserveInvoice, of the invoice the row names.
Compatible(d) == InvoiceRead(d) = owed[d]

getInvoice(d) ==
  /\ Running(d, "inspect")
  /\ Continue(d, IF ~Compatible(d) THEN "block"
                 ELSE IF taken[d] \in approved THEN "issue" ELSE "approve")
  /\ UNCHANGED <<rows, holded, owed>>

\* Without the series F no invoice is made.
listNumberingSeries(d) ==
  /\ Running(d, "series")
  /\ \/ Continue(d, "claim") /\ UNCHANGED issuance
     \/ Becomes(taken[d], "FAILED") /\ Leave(d, "threw")
  /\ UNCHANGED <<document, agreed, delivery, holded, owed>>

\* From here on Holded may know of an invoice.
IssuanceClaimable(j) == issuance[j] \in {"PREPARED", "FAILED"}

ClaimIssuance(d) ==
  /\ Running(d, "claim")
  /\ IF IssuanceClaimable(taken[d])
     THEN Becomes(taken[d], "IN_FLIGHT") /\ Continue(d, "create")
     ELSE Leave(d, "returned") /\ UNCHANGED issuance
  /\ UNCHANGED <<document, agreed, delivery, holded, owed>>

Create(d) ==
  /\ created' = [created EXCEPT ![taken[d]] = @ + 1]
  /\ asks' = [asks EXCEPT ![taken[d]] = owed[d]]
  /\ approved' = approved \ {taken[d]}

\* Created and answered; created, or not, without an answer; refused.
createInvoice(d) ==
  /\ Running(d, "create")
  /\ \/ Create(d) /\ \E next \in {"save", "unanswered"} : Continue(d, next)
     \/ /\ \E next \in {"refused", "unanswered"} : Continue(d, next)
        /\ UNCHANGED <<created, asks, approved>>
  /\ UNCHANGED <<rows, mailed, owed>>

Refused(d) ==
  /\ Running(d, "refused")
  /\ Becomes(taken[d], "FAILED")
  /\ Leave(d, "threw")
  /\ UNCHANGED <<document, agreed, delivery, holded, owed>>

Unanswered_TriedAgain(d) ==
  /\ Running(d, "unanswered")
  /\ Becomes(taken[d], "FAILED")
  /\ Leave(d, "threw")
  /\ UNCHANGED <<document, agreed, delivery, holded, owed>>
Unanswered(d) ==
  /\ Running(d, "unanswered")
  /\ Becomes(taken[d], "UNKNOWN")
  /\ Leave(d, "returned")
  /\ UNCHANGED <<document, agreed, delivery, holded, owed>>

\* The row that names the invoice and its link, in one transaction; if that
\* fails the invoice is nobody's, and the issuance says so - if it can.
SaveDocument(d) ==
  /\ Running(d, "save")
  /\ \/ document' = document \cup {taken[d]} /\ Continue(d, "approve")
     \/ Continue(d, "orphan") /\ UNCHANGED document
  /\ UNCHANGED <<issuance, agreed, delivery, holded, owed>>

Orphan(d) ==
  /\ Running(d, "orphan")
  /\ issuance' = [issuance EXCEPT ![taken[d]] = IF @ = "IN_FLIGHT" THEN "UNKNOWN" ELSE @]
  /\ Leave(d, "threw")
  /\ UNCHANGED <<document, agreed, delivery, holded, owed>>

\* issueKnownInvoice: approve; an approval that may have failed is a failure.
approveInvoice(d) ==
  /\ Running(d, "approve")
  /\ \/ /\ asks[taken[d]] # None
        /\ approved' = approved \cup {taken[d]}
        /\ \E next \in {"issue", "unapproved"} : Continue(d, next)
     \/ Continue(d, "unapproved") /\ UNCHANGED approved
  /\ UNCHANGED <<rows, created, asks, mailed, owed>>

Unapproved(d) ==
  /\ Running(d, "unapproved")
  /\ Becomes(taken[d], "FAILED")
  /\ Leave(d, "threw")
  /\ UNCHANGED <<document, agreed, delivery, holded, owed>>

Issue(d) ==
  /\ Running(d, "issue")
  /\ Becomes(taken[d], "ISSUED")
  /\ Continue(d, "deliver")
  /\ UNCHANGED <<document, agreed, delivery, holded, owed>>

\* deliverInvoice: unless it was sent or may have been.
DeliverInvoice_Failing(d) ==
  LET j == taken[d] IN
  /\ Running(d, "deliver")
  /\ delivery' = [delivery EXCEPT ![j] = "unknown"]
  /\ Becomes(j, "FAILED")
  /\ Leave(d, "threw")
  /\ UNCHANGED <<document, agreed, holded, owed>>
DeliverInvoice(d) ==
  LET j == taken[d] IN
  /\ Running(d, "deliver")
  /\ IF delivery[j] # "open"
     THEN Leave(d, "returned") /\ UNCHANGED <<delivery, mailed>>
     ELSE /\ mailed' = [mailed EXCEPT ![j] = asks[j]]
          /\ \/ Leave(d, "returned") /\ delivery' = [delivery EXCEPT ![j] = "accepted"]
             \/ Leave(d, "threw") /\ delivery' = [delivery EXCEPT ![j] = "unknown"]
  /\ UNCHANGED <<issuance, document, agreed, created, asks, approved, owed>>

\* Any step may fail without effect: a refused read, a database error, a
\* payment or a setting that is missing.
Fails(d) ==
  /\ HandlerEnds(d, "threw")
  /\ UNCHANGED <<rows, holded, handler>>

Handler(d) ==
  \/ Start(d) \/ Block(d) \/ Interrupted(d) \/ getInvoice(d) \/ listNumberingSeries(d)
  \/ ClaimIssuance(d) \/ createInvoice(d) \/ Refused(d) \/ Unanswered(d)
  \/ SaveDocument(d) \/ Orphan(d) \/ approveInvoice(d) \/ Unapproved(d)
  \/ Issue(d) \/ DeliverInvoice(d) \/ Fails(d)

-----------------------------------------------------------------------------
(* The outbox around the handler, and everybody else *)

\* Whatever the handler held is gone when it is left.
LeavesHandler(d) ==
  /\ at' = [at EXCEPT ![d] = "start"]
  /\ owed' = [owed EXCEPT ![d] = None]
  /\ UNCHANGED <<rows, holded>>

Drain(d) == Queue(d) /\ LeavesHandler(d)
Dies(d) == Abandon(d) /\ LeavesHandler(d)

Backoff(j) == BackoffPasses(j) /\ UNCHANGED <<rows, holded, handler>>

\* A quote attempt that read the booking before its payment records late.
AmountsChange(j) ==
  /\ agreed' \in {[agreed EXCEPT ![j] = total] : total \in Totals \ {agreed[j]}}
  /\ UNCHANGED <<ovars, issuance, document, delivery, holded, handler>>

\* A draft in Holded can be changed, deleted or approved by hand; an approved
\* invoice stays as it is.
EditDraft(j) ==
  /\ asks[j] # None /\ j \notin approved
  /\ \/ \E total \in (Totals \cup {None}) \ {asks[j]} :
          asks' = [asks EXCEPT ![j] = total] /\ UNCHANGED approved
     \/ approved' = approved \cup {j} /\ UNCHANGED asks
  /\ UNCHANGED <<ovars, rows, created, mailed, handler>>

UninterruptedInvoiceNext ==
  \/ \E j \in Jobs : enqueueReserveInvoice(j) \/ Backoff(j)
  \/ \E d \in Drains : Handler(d) \/ Drain(d)
  \/ \E j \in Bookings : AmountsChange(j) \/ EditDraft(j)

InvoiceNext == UninterruptedInvoiceNext \/ \E d \in Drains : Dies(d)

InvoiceSpec == Init /\ [][InvoiceNext]_ivars

\* As FairSpec of Outbox; a handler's calls have time limits, so its steps end.
InvoiceFairSpec ==
  /\ InvoiceSpec
  /\ \A d \in Drains : WF_ivars(Handler(d) \/ Drain(d))
  /\ \A j \in Jobs : WF_ivars(Backoff(j))
  /\ <>[][UninterruptedInvoiceNext]_ivars

-----------------------------------------------------------------------------
(* Properties *)

\* "At most one reserve-invoice issuance" per booking: however attempts fail, are cut
\* short or go unanswered, no second invoice is created in Holded, and what the
\* requester is mailed is the one approved invoice, asking for what it still asks for.
OneReserveInvoice ==
  \A j \in Bookings :
    /\ created[j] <= 1
    /\ mailed[j] # None => j \in approved /\ asks[j] = mailed[j]

\* An issuance that is ISSUED, BLOCKED or UNKNOWN waits for an operator: no
\* later attempt, and no late write of an earlier one, takes it back.
DecidedStaysDecided ==
  [][\A j \in Bookings : issuance[j] \in Decided => issuance'[j] = issuance[j]]_ivars
=============================================================================
