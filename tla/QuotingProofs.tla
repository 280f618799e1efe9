--------------------------- MODULE QuotingProofs ---------------------------
(***************************************************************************)
(* Theorems about Quoting, for any bookings, drains, customers and prices. *)
(*                                                                         *)
(* The outbox gives a booking to one handler at a time (OutboxProofs), so  *)
(* nobody but an operator touches its estimate while a handler works on    *)
(* it.  What an operator does is to link another one, and then the row     *)
(* names the job's own estimate no more.                                   *)
(***************************************************************************)
EXTENDS Quoting, OutboxProofs

\* The amount agreed on is the one the approved estimate asks for, and it was mailed.
AddsUp(j) ==
  /\ agreed[j] = shown[j]["own"]
  /\ <<j, "own">> \in approved
  /\ delivery[j] # "open"

\* What a handler at each of its steps may rely on.
HandlerKnows(d) ==
  LET j == taken[d] IN
  /\ pc[d] = "running" =>
       /\ found[d] = "own" => row[j] \in Estimates
       /\ found[d] = "foreign" => row[j] = "foreign"
       /\ at[d] \in {"estimate", "document"} => found[d] = "none"
       /\ at[d] \in {"find", "contact", "save", "price", "estimate", "document"} /\ found[d] = "none" =>
            row[j] # "own"
       /\ at[d] \in {"lines", "approve", "deliver", "record"} => row[j] \in Estimates
       /\ at[d] \in {"approve", "deliver", "record"} /\ InHand(d) = "own" =>
            shown[j]["own"] = price[d]
       /\ at[d] \in {"deliver", "record"} /\ InHand(d) = "own" => <<j, "own">> \in approved
       /\ at[d] = "record" => delivery[j] # "open"
  /\ pc[d] = "returned" /\ row[j] = "own" => AddsUp(j)

QuoteInv ==
  /\ OutboxInv /\ TypeOK
  /\ \A d \in Drains : HandlerKnows(d)
  /\ FinishedQuoteAddsUp

LEMMA InitQuoteInv == Init => QuoteInv
  <1> SUFFICES ASSUME Init PROVE QuoteInv
    OBVIOUS
  <1>1. OutboxInv
    BY OutboxInitially DEF Init
  <1>2. TypeOK
    <2>1. shown \in [Jobs -> [Estimates -> Amounts]]
      BY QuotingAssumption DEF Init, Estimates, Amounts, Nothing
    <2>2. contacts \in [Customers -> Nat]
      BY DEF Init
    <2>3. QED
      BY <1>1, <2>1, <2>2 DEF Init, TypeOK, OutboxInv, HandlerSteps, Amounts, Nothing
  <1>3. \A d \in Drains : HandlerKnows(d)
    BY DEF Init, OutboxInit, HandlerKnows
  <1>4. FinishedQuoteAddsUp
    BY DEF Init, OutboxInit, FinishedQuoteAddsUp
  <1>5. QED
    BY <1>1, <1>2, <1>3, <1>4 DEF QuoteInv

-----------------------------------------------------------------------------
(* The steps of the outbox, and the types *)

\* A handler's step is its end, or leaves the outbox alone.
LEMMA HandlerLeavesOutbox ==
  ASSUME NEW d \in Drains, Handler(d)
  PROVE  /\ pc[d] = "running"
         /\ UNCHANGED ovars \/ HandlerEnds(d, "returned") \/ HandlerEnds(d, "threw")
         /\ UNCHANGED <<status, attempts, due, taken, counted>>
         /\ pc' \in {pc, [pc EXCEPT ![d] = "returned"], [pc EXCEPT ![d] = "threw"]}
  <1>1. /\ pc[d] = "running"
        /\ UNCHANGED ovars \/ HandlerEnds(d, "returned") \/ HandlerEnds(d, "threw")
    BY DEF Handler, Start, findContactByTaxId, createContact, SaveContact, Price, createEstimate,
           SaveDocument, replaceEstimateLines, approveEstimate, deliverDocument, Record, Fails,
           Running, Continue, Answered, HandlerEnds
  <1>2. QED
    BY <1>1 DEF ovars, job, drain, HandlerEnds, Goto

\* Every step is one of the outbox, or leaves the outbox alone.
LEMMA OutboxSteps == QuoteNext => [Next]_ovars
  <1>1. ASSUME NEW d \in Drains, Handler(d) PROVE [Next]_ovars
    BY <1>1, HandlerLeavesOutbox DEF Next, UninterruptedNext, DrainStep
  <1>2. ASSUME NEW d \in Drains, Drain(d) PROVE [Next]_ovars
    BY <1>2 DEF Drain, Next, UninterruptedNext, DrainStep
  <1>3. CASE JobTable
    BY <1>3 DEF JobTable, Next, UninterruptedNext
  <1>4. ASSUME NEW j \in Jobs, Cancel(j) \/ linkExistingEstimate(j) PROVE [Next]_ovars
    BY <1>4 DEF Cancel, linkExistingEstimate
  <1>5. ASSUME NEW c \in Customers,
               createCustomerContact(c) \/ updateCustomerContact(c) \/ SaveCustomer(c)
        PROVE  [Next]_ovars
    BY <1>5 DEF createCustomerContact, updateCustomerContact, SaveCustomer
  <1>6. QED
    BY <1>1, <1>2, <1>3, <1>4, <1>5 DEF QuoteNext, UnlinkedNext

LEMMA OutboxStays == QuoteInv /\ [QuoteNext]_qvars => OutboxInv'
  <1> SUFFICES ASSUME QuoteInv, [QuoteNext]_qvars PROVE OutboxInv'
    OBVIOUS
  <1>1. [Next]_ovars
    BY OutboxSteps DEF qvars
  <1>2. QED
    BY <1>1, OutboxKept DEF QuoteInv

LEMMA TypesStay == QuoteInv /\ [QuoteNext]_qvars => TypeOK'
  <1> SUFFICES ASSUME QuoteInv, [QuoteNext]_qvars PROVE TypeOK'
    OBVIOUS
  <1>1. OutboxTypeOK'
    BY OutboxStays DEF OutboxInv
  <1>2. ByHand \in Amounts /\ Prices \subseteq Amounts /\ Nothing \in Amounts
    BY DEF Amounts
  <1> USE DEF TypeOK, QuoteInv, HandlerSteps, database, holded, handler
  <1>3. ASSUME NEW d \in Drains, Handler(d), UNCHANGED saving PROVE TypeOK'
    <2> DEFINE j == taken[d]
    <2>1. j \in Jobs /\ CustomerOf[j] \in Customers /\ saving' = saving /\ HandlerKnows(d)
      BY <1>3, QuotingAssumption DEF OutboxTypeOK
    <2>2. CASE Start(d)
      BY <1>1, <2>1, <2>2 DEF Start, Continue
    <2>3. CASE findContactByTaxId(d) \/ SaveContact(d)
      BY <1>1, <2>1, <2>3 DEF findContactByTaxId, SaveContact, Continue, AfterFind
    <2>12. CASE createContact(d)
      BY <1>1, <2>1, <2>12 DEF createContact, Continue, Answered
    <2>4. CASE Price(d)
      BY <1>1, <1>2, <2>1, <2>4 DEF Price, Continue, AfterPrice
    <2>5. CASE createEstimate(d)
      BY <1>1, <1>2, <2>1, <2>5 DEF createEstimate, Continue, Answered, Estimates
    <2>6. CASE SaveDocument(d)
      BY <1>1, <2>1, <2>6 DEF SaveDocument, Continue, Estimates
    <2>7. CASE replaceEstimateLines(d)
      BY <1>1, <2>1, <2>7 DEF replaceEstimateLines, Continue, Answered, InHand, Estimates
    <2>8. CASE approveEstimate(d)
      BY <1>1, <2>1, <2>8 DEF approveEstimate, Continue, Answered, InHand, Estimates
    <2>9. CASE deliverDocument(d)
      <3>1. row[j] \in Estimates
        BY <2>1, <2>9 DEF deliverDocument, HandlerKnows, Running
      <3>2. shown[j][row[j]] \in Amounts
        BY <2>1, <3>1
      <3>3. /\ mailed' \in [Jobs -> Amounts]
            /\ delivery' \in [Jobs -> {"open", "unknown", "accepted"}]
            /\ at' \in [Drains -> HandlerSteps]
        <4>1. mailed' = mailed \/ mailed' = [mailed EXCEPT ![j] = shown[j][row[j]]]
          BY <2>9 DEF deliverDocument
        <4>2. \/ delivery' = delivery
              \/ \E outcome \in {"accepted", "unknown"} : delivery' = [delivery EXCEPT ![j] = outcome]
          BY <2>9 DEF deliverDocument
        <4>3. at' = at \/ at' = [at EXCEPT ![d] = "record"]
          BY <2>9 DEF deliverDocument, Continue
        <4>4. mailed' \in [Jobs -> Amounts]
          BY <2>1, <3>2, <4>1
        <4>5. delivery' \in [Jobs -> {"open", "unknown", "accepted"}]
          BY <2>1, <4>2
        <4>6. at' \in [Drains -> HandlerSteps]
          BY <4>3
        <4> QED BY <4>4, <4>5, <4>6
      <3>4. UNCHANGED <<awaiting, linked, row, agreed, contacts, estimates, shown, approved, found, price>>
        BY <2>9 DEF deliverDocument
      <3>5. QED
        BY <1>1, <2>1, <3>3, <3>4
    <2>10. CASE Record(d) \/ Fails(d)
      BY <1>1, <2>1, <2>10 DEF Record, Recorded, Fails
    <2>11. QED
      BY <1>3, <2>2, <2>3, <2>12, <2>4, <2>5, <2>6, <2>7, <2>8, <2>9, <2>10 DEF Handler
  <1>4. ASSUME NEW d \in Drains, Drain(d), UNCHANGED saving PROVE TypeOK'
    BY <1>1, <1>2, <1>4 DEF Drain
  <1>5. CASE JobTable /\ UNCHANGED saving
    BY <1>1, <1>5 DEF JobTable
  <1>6. ASSUME NEW j \in Jobs, Cancel(j) \/ linkExistingEstimate(j), UNCHANGED saving PROVE TypeOK'
    BY <1>1, <1>2, <1>6 DEF Cancel, linkExistingEstimate, Estimates
  <1>7. ASSUME NEW c \in Customers,
               createCustomerContact(c) \/ updateCustomerContact(c) \/ SaveCustomer(c)
        PROVE  TypeOK'
    BY <1>1, <1>7 DEF createCustomerContact, updateCustomerContact, SaveCustomer
  <1>8. CASE UNCHANGED qvars
    BY <1>1, <1>8 DEF qvars
  <1>9. QED
    BY <1>3, <1>4, <1>5, <1>6, <1>7, <1>8 DEF QuoteNext, UnlinkedNext

-----------------------------------------------------------------------------
(* The steps of handlers *)

OtherRowsKept(j) ==
  \A k \in Jobs \ {j} :
    /\ row'[k] = row[k] /\ agreed'[k] = agreed[k] /\ delivery'[k] = delivery[k]
    /\ shown'[k] = shown[k] /\ estimates'[k] = estimates[k]
    /\ <<k, "own">> \in approved => <<k, "own">> \in approved'

OtherHandlersKept(d) ==
  \A e \in Drains \ {d} :
    pc'[e] = pc[e] /\ taken'[e] = taken[e] /\ at'[e] = at[e] /\ found'[e] = found[e]
    /\ price'[e] = price[e]

\* What one handler does to the booking it holds, and to no other.
LEMMA HandlerStepsAreSound ==
  ASSUME QuoteInv, TypeOK', NEW d \in Drains, Handler(d)
  PROVE  /\ HandlerKnows(d)' /\ OtherRowsKept(taken[d]) /\ OtherHandlersKept(d)
         /\ row[taken[d]] = "own" => estimates'[taken[d]] = estimates[taken[d]]
  <1> DEFINE j == taken[d]
  <1>1. /\ j \in Jobs /\ pc[d] = "running" /\ taken' = taken
        /\ HandlerKnows(d) /\ TypeOK
    BY HandlerLeavesOutbox DEF QuoteInv, TypeOK, OutboxTypeOK
  <1>2. pc \in [Drains -> DrainSteps] /\ at \in [Drains -> HandlerSteps]
    BY DEF QuoteInv, TypeOK, OutboxTypeOK
  <1>15. \A e \in Drains \ {d} : pc'[e] = pc[e]
    BY <1>2, HandlerLeavesOutbox
  <1> USE DEF TypeOK, HandlerSteps, database, holded, handler, HandlerKnows, OtherRowsKept,
              OtherHandlersKept, Running, Continue, HandlerEnds, Goto, InHand, ovars, job, drain
  <1>3. CASE Start(d)
    BY <1>1, <1>2, <1>15, <1>3 DEF Start, Estimates
  <1>4. CASE findContactByTaxId(d) \/ SaveContact(d)
    BY <1>1, <1>2, <1>15, <1>4 DEF findContactByTaxId, SaveContact, AfterFind
  <1>5. CASE createContact(d)
    BY <1>1, <1>2, <1>15, <1>5 DEF createContact, Answered
  <1>6. CASE Price(d)
    BY <1>1, <1>2, <1>15, <1>6 DEF Price, AfterPrice, Estimates
  <1>7. CASE createEstimate(d)
    BY <1>1, <1>2, <1>15, <1>7 DEF createEstimate, Answered
  <1>8. CASE SaveDocument(d)
    BY <1>1, <1>2, <1>15, <1>8 DEF SaveDocument, Estimates
  <1>9. CASE replaceEstimateLines(d)
    BY <1>1, <1>2, <1>15, <1>9 DEF replaceEstimateLines, Answered, Estimates
  <1>10. CASE approveEstimate(d)
    BY <1>1, <1>2, <1>15, <1>10 DEF approveEstimate, Answered
  <1>11. CASE deliverDocument(d)
    BY <1>1, <1>2, <1>15, <1>11 DEF deliverDocument
  <1>12. CASE Record(d)
    BY <1>1, <1>2, <1>15, <1>12 DEF Record, Recorded, AddsUp, Estimates
  <1>13. CASE Fails(d)
    BY <1>1, <1>2, <1>15, <1>13 DEF Fails
  <1>14. QED
    BY <1>3, <1>4, <1>5, <1>6, <1>7, <1>8, <1>9, <1>10, <1>11, <1>12, <1>13 DEF Handler

\* A job that is finished is in nobody's hands.
LEMMA HeldAreClaimed ==
  ASSUME QuoteInv, NEW d \in Drains, pc[d] \in Owning
  PROVE  /\ taken[d] \in Jobs /\ status[taken[d]] = "CLAIMED"
         /\ \A e \in Drains \ {d} : pc[e] \in Owning => taken[e] # taken[d]
  BY DEF QuoteInv, OutboxInv, OneHandlerAtATime, Holds, OutboxTypeOK

LEMMA HandlerKept ==
  ASSUME QuoteInv, TypeOK', OutboxInv', NEW d \in Drains, Handler(d)
  PROVE  QuoteInv'
  <1> DEFINE j == taken[d]
  <1>1. pc[d] = "running" /\ UNCHANGED <<status, taken>>
    BY HandlerLeavesOutbox
  <1>2. HandlerKnows(d)' /\ OtherRowsKept(j) /\ OtherHandlersKept(d)
    BY HandlerStepsAreSound
  <1>3. /\ j \in Jobs /\ status[j] = "CLAIMED"
        /\ \A e \in Drains \ {d} : pc[e] \in Owning => taken[e] # j
    BY <1>1, HeldAreClaimed DEF Owning
  <1>4. ASSUME NEW e \in Drains \ {d} PROVE HandlerKnows(e)'
    <2>1. HandlerKnows(e) /\ taken[e] \in Jobs
      BY DEF QuoteInv, TypeOK, OutboxTypeOK
    <2>2. CASE pc[e] \in Owning
      <3>1. taken[e] \in Jobs \ {j}
        BY <1>3, <2>1, <2>2
      <3>2. QED
        BY <1>2, <2>1, <3>1 DEF HandlerKnows, OtherRowsKept, OtherHandlersKept, InHand, AddsUp
    <2>3. CASE pc[e] \notin Owning
      BY <1>2, <2>3 DEF HandlerKnows, OtherHandlersKept, Owning
    <2>4. QED
      BY <2>2, <2>3
  <1>5. FinishedQuoteAddsUp'
    BY <1>1, <1>2, <1>3 DEF QuoteInv, FinishedQuoteAddsUp, OtherRowsKept
  <1>6. QED
    BY <1>2, <1>4, <1>5 DEF QuoteInv

\* The outbox takes a handler's result, or lets it start afresh.
LEMMA DrainKept ==
  ASSUME QuoteInv, TypeOK', OutboxInv', NEW d \in Drains, Drain(d)
  PROVE  QuoteInv'
  <1>1. /\ Queue(d) \/ Abandon(d)
        /\ UNCHANGED <<row, agreed, delivery, shown, approved>>
    BY DEF Drain, database, holded
  <1>2. /\ found' = [found EXCEPT ![d] = "none"] /\ at' = [at EXCEPT ![d] = "start"]
        /\ price' = [price EXCEPT ![d] = Nothing]
    BY DEF Drain
  <1>3. TypeOK /\ OutboxTypeOK
    BY DEF QuoteInv, TypeOK
  <1>4. /\ at'[d] = "start" /\ found'[d] = "none" /\ pc'[d] # "returned"
        /\ \A e \in Drains \ {d} : pc'[e] = pc[e] /\ taken'[e] = taken[e]
    BY <1>1, <1>2, <1>3 DEF TypeOK, OutboxTypeOK, Queue, ReadCandidate, Claim, ParkUnhandled,
       HandlerStarts, completeJob, CompleteThrows, failJob, Abandon, Goto, job
  <1>5. HandlerKnows(d)'
    BY <1>4 DEF HandlerKnows
  <1>6. ASSUME NEW e \in Drains \ {d} PROVE HandlerKnows(e)'
    <2>1. HandlerKnows(e)
      BY DEF QuoteInv
    <2>2. found'[e] = found[e] /\ at'[e] = at[e] /\ price'[e] = price[e]
      BY <1>2, <1>3 DEF TypeOK
    <2>3. QED
      BY <1>1, <1>4, <2>1, <2>2 DEF HandlerKnows, InHand, AddsUp
  <1>7. ASSUME NEW j \in Jobs, status'[j] = "SUCCEEDED", row[j] = "own" PROVE AddsUp(j)
    <2>1. CASE status[j] = "SUCCEEDED"
      BY <1>7, <2>1 DEF QuoteInv, FinishedQuoteAddsUp, AddsUp
    <2>2. CASE status[j] # "SUCCEEDED"
      <3>1. pc[d] = "returned" /\ taken[d] = j
        BY <1>1, <1>3, <1>7, <2>2 DEF OutboxTypeOK, Queue, ReadCandidate, Claim, ParkUnhandled,
           HandlerStarts, completeJob, CompleteThrows, failJob, Abandon, SetStatus, job
      <3>2. QED
        BY <1>7, <3>1 DEF QuoteInv, HandlerKnows
    <2>3. QED
      BY <2>1, <2>2
  <1>8. FinishedQuoteAddsUp'
    BY <1>1, <1>7 DEF FinishedQuoteAddsUp, AddsUp
  <1>9. QED
    BY <1>5, <1>6, <1>8 DEF QuoteInv

\* Neither a new job nor the operator takes from a handler what it relies on.
LEMMA OthersKept ==
  ASSUME QuoteInv, TypeOK', OutboxInv',
         \/ JobTable
         \/ \E j \in Jobs : Cancel(j) \/ linkExistingEstimate(j)
         \/ \E c \in Customers :
              createCustomerContact(c) \/ updateCustomerContact(c) \/ SaveCustomer(c)
         \/ UNCHANGED qvars
  PROVE  QuoteInv'
  <1>1. /\ UNCHANGED <<pc, taken, at, found, price, delivery, shown, approved>>
        /\ \A j \in Jobs : status'[j] = "SUCCEEDED" => status[j] = "SUCCEEDED"
    BY DEF JobTable, enqueueJob, BackoffPasses, Cancel, linkExistingEstimate, createCustomerContact,
           updateCustomerContact, SaveCustomer, qvars, ovars, job, drain, database, holded, handler,
           SetStatus, QuoteInv, OutboxInv, OutboxTypeOK
  <1>2. \A j \in Jobs : (row'[j] = row[j] /\ agreed'[j] = agreed[j]) \/ row'[j] = "foreign"
    BY DEF JobTable, Cancel, linkExistingEstimate, createCustomerContact, updateCustomerContact,
           SaveCustomer, qvars, database, holded, handler, QuoteInv, TypeOK
  <1>3. ASSUME NEW d \in Drains PROVE HandlerKnows(d)'
    <2>1. HandlerKnows(d) /\ taken[d] \in Jobs
      BY DEF QuoteInv, TypeOK, OutboxTypeOK
    <2>2. QED
      BY <1>1, <1>2, <2>1 DEF HandlerKnows, InHand, AddsUp, Estimates
  <1>4. FinishedQuoteAddsUp'
    BY <1>1, <1>2 DEF QuoteInv, FinishedQuoteAddsUp
  <1>5. QED
    BY <1>3, <1>4 DEF QuoteInv

LEMMA QuoteInvKept == QuoteInv /\ [QuoteNext]_qvars => QuoteInv'
  <1> SUFFICES ASSUME QuoteInv, [QuoteNext]_qvars PROVE QuoteInv'
    OBVIOUS
  <1>1. TypeOK' /\ OutboxInv'
    BY TypesStay, OutboxStays
  <1>2. CASE \E d \in Drains : Handler(d)
    BY <1>1, <1>2, HandlerKept
  <1>3. CASE \E d \in Drains : Drain(d)
    BY <1>1, <1>3, DrainKept
  <1>4. CASE \/ JobTable
             \/ \E j \in Jobs : Cancel(j) \/ linkExistingEstimate(j)
             \/ \E c \in Customers :
                  createCustomerContact(c) \/ updateCustomerContact(c) \/ SaveCustomer(c)
             \/ UNCHANGED qvars
    BY <1>1, <1>4, OthersKept
  <1>5. QED
    BY <1>2, <1>3, <1>4 DEF QuoteNext, UnlinkedNext

LEMMA QuoteInvAlways == QuoteSpec => []QuoteInv
  BY InitQuoteInv, QuoteInvKept, PTL DEF QuoteSpec

-----------------------------------------------------------------------------
(* The theorems *)

\* Bookings, estimates, jobs and the handlers' drains keep their types.
THEOREM QuoteTypeCorrect == QuoteSpec => []TypeOK
  BY QuoteInvAlways, PTL DEF QuoteInv

\* A quote that is finished adds up, whatever prices, failures and operators did
\* between its attempts (runQuoteJob).
THEOREM FinishedAddsUp == QuoteSpec => []FinishedQuoteAddsUp
  BY QuoteInvAlways, PTL DEF QuoteInv

\* No attempt creates an estimate once the booking's row names the job's own: a
\* handler that creates one has read a row that named none, and still names none
\* but an operator's (runQuoteJob, step 3).
THEOREM EstimateReused == QuoteSpec => KnownEstimateReused
  <1>1. QuoteInv /\ [QuoteNext]_qvars =>
          [\A j \in Jobs : row[j] = "own" => estimates'[j] = estimates[j]]_qvars
    <2> SUFFICES ASSUME QuoteInv, [QuoteNext]_qvars, NEW j \in Jobs, row[j] = "own"
                 PROVE  estimates'[j] = estimates[j]
      BY Zenon
    <2>1. ASSUME NEW d \in Drains, Handler(d) PROVE estimates'[j] = estimates[j]
      <3>1. TypeOK'
        BY TypesStay
      <3>2. QED
        BY <2>1, <3>1, HandlerStepsAreSound DEF OtherRowsKept
    <2>2. ASSUME NEW d \in Drains, Drain(d) PROVE estimates'[j] = estimates[j]
      BY <2>2 DEF Drain, holded
    <2>3. CASE \/ JobTable
               \/ \E k \in Jobs : Cancel(k) \/ linkExistingEstimate(k)
               \/ \E c \in Customers :
                    createCustomerContact(c) \/ updateCustomerContact(c) \/ SaveCustomer(c)
               \/ UNCHANGED qvars
      BY <2>3 DEF JobTable, Cancel, linkExistingEstimate, createCustomerContact,
                  updateCustomerContact, SaveCustomer, qvars, holded
    <2>4. QED
      BY <2>1, <2>2, <2>3 DEF QuoteNext, UnlinkedNext
  <1>2. QED
    BY <1>1, QuoteInvAlways, PTL DEF QuoteSpec, KnownEstimateReused
=============================================================================
