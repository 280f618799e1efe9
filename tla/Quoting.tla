------------------------------ MODULE Quoting ------------------------------
(***************************************************************************)
(* booking.quote jobs in the outbox: runQuoteJob of                        *)
(* booking/services/quoting.ts turns an approved booking into a contact    *)
(* and an estimate in Holded.  Every Holded call and every database        *)
(* statement is a step; a call may fail, or be carried out while its       *)
(* answer is lost, and either way the handler throws and the outbox        *)
(* retries.  Meanwhile an operator may link an estimate of their own, add  *)
(* or update the contact (contact-sync.ts) or cancel the booking.          *)
(*                                                                         *)
(* Abstractions.  A quote is the amount its lines ask for; the advance,    *)
(* the deposit and the stay follow from it.  A request whose answer was    *)
(* lost has been carried out by then.  Delivery is the at-most-once write  *)
(* of ProviderWrite (DocumentDelivery.tla shows that it is one).           *)
(***************************************************************************)
EXTENDS Outbox

CONSTANTS
  Customers,    \* tax identifiers
  CustomerOf,   \* the customer of each booking (each job is one booking's)
  Prices,       \* amounts the services read from Holded can lead to
  ByHand,       \* the amount of an estimate made by hand in Holded
  MaxContacts   \* contacts of one customer an operator adds to

ASSUME QuotingAssumption ==
  /\ CustomerOf \in [Jobs -> Customers]
  /\ Prices \subseteq Nat \ {0}
  /\ ByHand \in Nat \ {0} /\ MaxContacts \in Nat

VARIABLES
  awaiting,   \* bookings in AWAITING_PAYMENT
  linked,     \* customers with a holdedContactId
  row,        \* the estimate HoldedDocument names: "none", "own" or "foreign"
  agreed,     \* advanceCents + depositCents, 0 while null
  delivery,   \* "open" (no row, PREPARED or FAILED), "unknown" or "accepted"
  contacts,   \* Holded: contacts with the tax identifier
  estimates,  \* Holded: estimates created by the job
  shown,      \* Holded: what the newest own and the foreign estimate ask for
  approved,   \* Holded: estimates taken out of draft
  mailed,     \* Holded: the amount asked for by the estimate as it was mailed
  saving,     \* customers whose contact an operator's request is about to link
  at,         \* the next step of each drain's handler
  found,      \* the row each handler read when it started
  price       \* the amount each handler has computed

database == <<awaiting, linked, row, agreed, delivery>>
holded == <<contacts, estimates, shown, approved, mailed>>
handler == <<at, found, price>>
qvars == <<ovars, database, holded, saving, handler>>

Estimates == {"own", "foreign"}
HandlerSteps == {"start", "find", "contact", "save", "price", "estimate", "document",
                 "lines", "approve", "deliver", "record"}

\* Nothing is deducted yet on a new estimate, and nothing was mailed.
Nothing == 0
Amounts == Prices \cup {ByHand, Nothing}

TypeOK ==
  /\ OutboxTypeOK
  /\ awaiting \subseteq Jobs
  /\ linked \subseteq Customers
  /\ row \in [Jobs -> Estimates \cup {"none"}]
  /\ agreed \in [Jobs -> Amounts]
  /\ delivery \in [Jobs -> {"open", "unknown", "accepted"}]
  /\ contacts \in [Customers -> Nat]
  /\ estimates \in [Jobs -> Nat]
  /\ shown \in [Jobs -> [Estimates -> Amounts]]
  /\ approved \subseteq Jobs \X Estimates
  /\ mailed \in [Jobs -> Amounts]
  /\ saving \subseteq Customers
  /\ at \in [Drains -> HandlerSteps]
  /\ found \in [Drains -> Estimates \cup {"none"}]
  /\ price \in [Drains -> Amounts]

\* Approved bookings; some customers already are contacts in Holded.
Init ==
  /\ OutboxInit
  /\ awaiting = Jobs
  /\ linked = {}
  /\ row = [j \in Jobs |-> "none"]
  /\ agreed = [j \in Jobs |-> Nothing]
  /\ delivery = [j \in Jobs |-> "open"]
  /\ contacts \in [Customers -> {0, 1}]
  /\ estimates = [j \in Jobs |-> 0]
  /\ shown = [j \in Jobs |-> [e \in Estimates |-> IF e = "own" THEN Nothing ELSE ByHand]]
  /\ approved = {}
  /\ mailed = [j \in Jobs |-> Nothing]
  /\ saving = {}
  /\ at = [d \in Drains |-> "start"]
  /\ found = [d \in Drains |-> "none"]
  /\ price = [d \in Drains |-> Nothing]

Running(d, step) == pc[d] = "running" /\ at[d] = step
Continue(d, step) == at' = [at EXCEPT ![d] = step] /\ UNCHANGED ovars

\* A call whose effect took place goes on, or fails for want of an answer.
Answered(d, next) ==
  \/ Continue(d, next)
  \/ HandlerEnds(d, "threw") /\ UNCHANGED at

-----------------------------------------------------------------------------
(* runQuoteJob *)

\* The booking is read once, with its customer and documents.
Start(d) ==
  LET j == taken[d] IN
  /\ Running(d, "start")
  /\ j \in awaiting
  /\ found' = [found EXCEPT ![d] = row[j]]
  /\ Continue(d, IF CustomerOf[j] \in linked THEN "price" ELSE "find")
  /\ UNCHANGED <<database, holded, price>>

\* Step 1, contact: looked up by tax identifier, created when absent.
AfterFind(c) == IF contacts[c] > 0 THEN "save" ELSE "contact"

findContactByTaxId(d) ==
  /\ Running(d, "find")
  /\ Continue(d, AfterFind(CustomerOf[taken[d]]))
  /\ UNCHANGED <<database, holded, found, price>>

createContact(d) ==
  /\ Running(d, "contact")
  /\ contacts' = [contacts EXCEPT ![CustomerOf[taken[d]]] = @ + 1]
  /\ Answered(d, "save")
  /\ UNCHANGED <<database, estimates, shown, approved, mailed, found, price>>

SaveContact(d) ==
  /\ Running(d, "save")
  /\ linked' = linked \cup {CustomerOf[taken[d]]}
  /\ Continue(d, "price")
  /\ UNCHANGED <<awaiting, row, agreed, delivery, holded, found, price>>

\* Step 2, price: read from Holded again on every attempt.
AfterPrice_AlwaysNew(d) == "estimate"
AfterPrice(d) == IF found[d] = "none" THEN "estimate" ELSE "lines"

Price(d) ==
  /\ Running(d, "price")
  /\ \E p \in Prices : price' = [price EXCEPT ![d] = p]
  /\ Continue(d, AfterPrice(d))
  /\ UNCHANGED <<database, holded, found>>

\* Step 3, estimate: a numbered draft with the stay line only.
createEstimate(d) ==
  LET j == taken[d] IN
  /\ Running(d, "estimate")
  /\ estimates' = [estimates EXCEPT ![j] = @ + 1]
  /\ shown' = [shown EXCEPT ![j]["own"] = Nothing]
  /\ approved' = approved \ {<<j, "own">>}
  /\ Answered(d, "document")
  /\ UNCHANGED <<database, contacts, mailed, found, price>>

\* One ESTIMATE row per booking: if an operator linked one meanwhile the create
\* fails on the unique index.
SaveDocument(d) ==
  LET j == taken[d] IN
  /\ Running(d, "document")
  /\ IF row[j] = "none"
     THEN row' = [row EXCEPT ![j] = "own"] /\ Continue(d, "lines")
     ELSE UNCHANGED <<row, at>> /\ HandlerEnds(d, "threw")
  /\ UNCHANGED <<awaiting, linked, agreed, delivery, holded, found, price>>

\* The estimate in hand: the one read at the start, or the one just created.
InHand(d) == IF found[d] = "none" THEN "own" ELSE found[d]

\* Step 4, the deductions; the lines are replaced on every attempt.
replaceEstimateLines(d) ==
  /\ Running(d, "lines")
  /\ shown' = [shown EXCEPT ![taken[d]][InHand(d)] = price[d]]
  /\ Answered(d, "approve")
  /\ UNCHANGED <<database, contacts, estimates, approved, mailed, found, price>>

\* Step 5, approve ...
approveEstimate(d) ==
  /\ Running(d, "approve")
  /\ approved' = approved \cup {<<taken[d], InHand(d)>>}
  /\ Answered(d, "deliver")
  /\ UNCHANGED <<database, contacts, estimates, shown, mailed, found, price>>

\* ... and deliver: what the row names now, unless it was sent or may have been.
deliverDocument(d) ==
  LET j == taken[d] IN
  /\ Running(d, "deliver")
  /\ IF delivery[j] # "open"
     THEN Continue(d, "record") /\ UNCHANGED <<delivery, mailed>>
     ELSE /\ mailed' = [mailed EXCEPT ![j] = shown[j][row[j]]]
          /\ \/ /\ Continue(d, "record")
                /\ delivery' = [delivery EXCEPT ![j] = "accepted"]
             \/ /\ HandlerEnds(d, "threw") /\ UNCHANGED at
                /\ delivery' = [delivery EXCEPT ![j] = "unknown"]
  /\ UNCHANGED <<awaiting, linked, row, agreed, contacts, estimates, shown,
                 approved, found, price>>

\* The final update, whatever state the booking is in by now.
Recorded_Stale(d) == IF agreed[taken[d]] = Nothing THEN price[d] ELSE agreed[taken[d]]
Recorded(d) == price[d]

Record(d) ==
  /\ Running(d, "record")
  /\ agreed' = [agreed EXCEPT ![taken[d]] = Recorded(d)]
  /\ HandlerEnds(d, "returned")
  /\ UNCHANGED <<awaiting, linked, row, delivery, holded, handler>>

\* Any step may fail without effect: a refused call, a database error, a
\* booking that left AWAITING_PAYMENT, a setting that is missing.
Fails(d) ==
  /\ HandlerEnds(d, "threw")
  /\ UNCHANGED <<database, holded, handler>>

Handler(d) ==
  \/ Start(d) \/ findContactByTaxId(d) \/ createContact(d) \/ SaveContact(d)
  \/ Price(d) \/ createEstimate(d) \/ SaveDocument(d) \/ replaceEstimateLines(d)
  \/ approveEstimate(d) \/ deliverDocument(d) \/ Record(d) \/ Fails(d)

-----------------------------------------------------------------------------
(* The outbox around the handler, and the operator *)

\* Whatever the handler held is gone when it is left.
Drain(d) ==
  /\ Queue(d) \/ Abandon(d)
  /\ at' = [at EXCEPT ![d] = "start"]
  /\ found' = [found EXCEPT ![d] = "none"]
  /\ price' = [price EXCEPT ![d] = Nothing]
  /\ UNCHANGED <<database, holded>>

JobTable ==
  /\ \E j \in Jobs : enqueueJob(j) \/ BackoffPasses(j)
  /\ UNCHANGED <<database, holded, handler>>

Cancel(j) ==
  /\ j \in awaiting
  /\ awaiting' = awaiting \ {j}
  /\ UNCHANGED <<ovars, linked, row, agreed, delivery, holded, handler>>

\* Only an estimate of the customer's contact; it replaces whatever the row named.
linkExistingEstimate(j) ==
  /\ contacts[CustomerOf[j]] > 0
  /\ row[j] # "foreign"
  /\ row' = [row EXCEPT ![j] = "foreign"]
  /\ agreed' = [agreed EXCEPT ![j] = ByHand]
  /\ UNCHANGED <<ovars, awaiting, linked, delivery, holded, handler>>

\* The operator adds the customer to Holded, or finds them there and overwrites their
\* data; then the customer's row names that contact.  Either step may fail.
createCustomerContact(c) ==
  /\ contacts[c] < MaxContacts
  /\ contacts' = [contacts EXCEPT ![c] = @ + 1]
  /\ saving' \in {saving, saving \cup {c}}
  /\ UNCHANGED <<ovars, database, estimates, shown, approved, mailed, handler>>

updateCustomerContact(c) ==
  /\ contacts[c] > 0
  /\ saving' = saving \cup {c}
  /\ UNCHANGED <<ovars, database, holded, handler>>

SaveCustomer(c) ==
  /\ c \in saving /\ saving' = saving \ {c}
  /\ linked' \in {linked, linked \cup {c}}
  /\ UNCHANGED <<ovars, awaiting, row, agreed, delivery, holded, handler>>

\* Without an operator in Holded.
UnlinkedNext ==
  /\ \/ \E d \in Drains : Handler(d) \/ Drain(d)
     \/ JobTable
     \/ \E j \in Jobs : Cancel(j)
  /\ UNCHANGED saving

UnlinkedSpec == Init /\ [][UnlinkedNext]_qvars

QuoteNext ==
  \/ UnlinkedNext
  \/ \E j \in Jobs : linkExistingEstimate(j) /\ UNCHANGED saving
  \/ \E c \in Customers :
       createCustomerContact(c) \/ updateCustomerContact(c) \/ SaveCustomer(c)

QuoteSpec == Init /\ [][QuoteNext]_qvars

-----------------------------------------------------------------------------
(* Properties *)

\* Once the booking knows the job's estimate, no attempt creates another,
\* whatever failed, was retried or was linked in between.
KnownEstimateReused ==
  [][\A j \in Jobs : row[j] = "own" => estimates'[j] = estimates[j]]_qvars

\* A quote that is finished adds up: the amount the payment is compared with is
\* the one its approved estimate asks for, and somebody tried to mail it - even
\* when prices changed between attempts.
FinishedQuoteAddsUp ==
  \A j \in Jobs : status[j] = "SUCCEEDED" /\ row[j] = "own" =>
    /\ agreed[j] = shown[j]["own"]
    /\ <<j, "own">> \in approved
    /\ delivery[j] # "open"

-----------------------------------------------------------------------------
(* What the documents say and the code does not keep *)

\* "The requester never receives a document that is about to be rewritten"
\* (specs/20260909-project-specification/spec.md): once mailed, the estimate keeps asking for what the mail asked for.
MailedEstimateKept ==
  [][\A j \in Jobs : mailed[j] # Nothing => shown'[j] = shown[j]]_qvars
=============================================================================
