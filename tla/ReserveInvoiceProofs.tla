------------------------ MODULE ReserveInvoiceProofs ------------------------
(***************************************************************************)
(* Theorems about ReserveInvoice, for any bookings, drains and amounts.    *)
(*                                                                         *)
(* The outbox gives a booking to one handler at a time (OutboxProofs), so  *)
(* what a handler has read of the issuance, the document and the invoice   *)
(* stays true while it works, but for what is edited in Holded by hand.    *)
(* An invoice is created only in a claim, and a claim is only made while   *)
(* no row lets one exist.                                                  *)
(***************************************************************************)
EXTENDS ReserveInvoice, OutboxProofs

\* What the rows of a booking say of the invoice in Holded.
RowsAgree(j) ==
  /\ created[j] \in {0, 1}
  /\ created[j] = 0 => asks[j] = None /\ j \notin approved /\ mailed[j] = None
  /\ created[j] = 1 => issuance[j] \notin {"NONE", "PREPARED"}
  /\ created[j] = 1 /\ issuance[j] = "FAILED" => j \in document
  /\ issuance[j] = "ISSUED" => j \in document /\ j \in approved
  /\ mailed[j] # None => j \in approved /\ asks[j] = mailed[j]

\* What a handler at each of its steps may rely on.
HandlerKnows(d) ==
  pc[d] = "running" =>
    LET j == taken[d] IN
    /\ j \in Bookings
    /\ at[d] \notin {"start", "deliver"} => issuance[j] \notin Decided
    /\ at[d] \in {"series", "claim", "create", "refused"} => created[j] = 0
    /\ at[d] \in {"create", "refused", "unanswered", "save", "orphan"} =>
         issuance[j] = "IN_FLIGHT"
    /\ at[d] \in {"inspect", "approve", "unapproved", "issue"} => j \in document
    /\ at[d] \in {"issue", "deliver"} => j \in approved

IInv ==
  /\ OutboxInv /\ TypeOK
  /\ \A j \in Bookings : RowsAgree(j)
  /\ \A d \in Drains : HandlerKnows(d)

LEMMA InitIInv == Init => IInv
<1> SUFFICES ASSUME Init PROVE IInv
  OBVIOUS
<1>1. OutboxInv
  BY OutboxInitially DEF Init
<1>2. TypeOK
  BY <1>1 DEF Init, TypeOK, OutboxInv, Issuances, HandlerSteps
<1>3. \A j \in Bookings : RowsAgree(j)
  BY DEF Init, RowsAgree, Bookings
<1>4. \A d \in Drains : HandlerKnows(d)
  BY DEF Init, OutboxInit, HandlerKnows
<1> QED BY <1>1, <1>2, <1>3, <1>4 DEF IInv

-----------------------------------------------------------------------------
(* The steps of the outbox, and the types *)

\* Every step is one of the outbox, or leaves the outbox alone.
LEMMA OutboxSteps == InvoiceNext => [Next]_ovars
<1>1. ASSUME NEW j \in Jobs, enqueueReserveInvoice(j) \/ Backoff(j)
      PROVE  [Next]_ovars
  BY <1>1 DEF enqueueReserveInvoice, Backoff, Next, UninterruptedNext
<1>2. ASSUME NEW d \in Drains, Drain(d) \/ Dies(d)
      PROVE  [Next]_ovars
  BY <1>2 DEF Drain, Dies, Next, UninterruptedNext, DrainStep
<1>3. ASSUME NEW d \in Drains, NEW how \in {"returned", "threw"}, HandlerEnds(d, how)
      PROVE  [Next]_ovars
  BY <1>3 DEF Next, UninterruptedNext, DrainStep
<1>4. ASSUME NEW d \in Drains, Handler(d)
      PROVE  [Next]_ovars
  BY <1>3, <1>4
     DEF Handler, Start, Block, Interrupted, getInvoice, listNumberingSeries, ClaimIssuance,
         createInvoice, Refused, Unanswered, SaveDocument, Orphan, approveInvoice, Unapproved,
         Issue, DeliverInvoice, Fails, Leave, Continue
<1>5. ASSUME NEW j \in Bookings, AmountsChange(j) \/ EditDraft(j)
      PROVE  [Next]_ovars
  BY <1>5 DEF AmountsChange, EditDraft
<1> QED BY <1>1, <1>2, <1>4, <1>5 DEF InvoiceNext, UninterruptedInvoiceNext

LEMMA OutboxStays == IInv /\ [InvoiceNext]_ivars => OutboxInv'
<1> SUFFICES ASSUME IInv, [InvoiceNext]_ivars PROVE OutboxInv'
  OBVIOUS
<1>1. [Next]_ovars
  BY OutboxSteps DEF ivars
<1> QED BY <1>1, OutboxKept DEF IInv

\* The job of a running handler is a booking's.
LEMMA HandlersHaveBookings ==
  ASSUME IInv, NEW d \in Drains, pc[d] = "running"
  PROVE  taken[d] \in Bookings
BY DEF IInv, HandlerKnows

LEMMA TypesStay == IInv /\ [InvoiceNext]_ivars => TypeOK'
<1> SUFFICES ASSUME IInv, [InvoiceNext]_ivars PROVE TypeOK'
  OBVIOUS
<1>1. OutboxTypeOK'
  BY OutboxStays DEF OutboxInv
<1> USE DEF TypeOK, IInv, Issuances, HandlerSteps, Running, Continue, Leave, Becomes, Bookings,
            rows, holded, handler
<1>2. ASSUME NEW j \in Jobs, enqueueReserveInvoice(j) \/ Backoff(j)
      PROVE  TypeOK'
  BY <1>1, <1>2 DEF enqueueReserveInvoice, Backoff
<1>3. ASSUME NEW d \in Drains, Drain(d) \/ Dies(d)
      PROVE  TypeOK'
  BY <1>1, <1>3 DEF Drain, Dies, LeavesHandler
<1>4. ASSUME NEW j \in Bookings, AmountsChange(j) \/ EditDraft(j)
      PROVE  TypeOK'
  BY <1>1, <1>4 DEF AmountsChange, EditDraft
<1>5. ASSUME NEW d \in Drains, Handler(d)
      PROVE  TypeOK'
  <2> DEFINE j == taken[d]
  <2>1. pc[d] = "running" /\ j \in Bookings
    BY <1>5, HandlersHaveBookings
       DEF Handler, Start, Block, Interrupted, getInvoice, listNumberingSeries, ClaimIssuance,
           createInvoice, Refused, Unanswered, SaveDocument, Orphan, approveInvoice,
           Unapproved, Issue, DeliverInvoice, Fails, HandlerEnds
  <2>2. CASE Start(d)
    BY <1>1, <2>1, <2>2 DEF Start, AfterRead
  <2>3. CASE Block(d) \/ Interrupted(d) \/ Refused(d) \/ Unanswered(d) \/ Unapproved(d)
    BY <1>1, <2>1, <2>3 DEF Block, Interrupted, Refused, Unanswered, Unapproved
  <2>4. CASE getInvoice(d) \/ listNumberingSeries(d) \/ ClaimIssuance(d)
    BY <1>1, <2>1, <2>4 DEF getInvoice, listNumberingSeries, ClaimIssuance
  <2>5. CASE createInvoice(d)
    BY <1>1, <2>1, <2>5 DEF createInvoice, Create
  <2>6. CASE SaveDocument(d) \/ Orphan(d)
    BY <1>1, <2>1, <2>6 DEF SaveDocument, Orphan
  <2>7. CASE approveInvoice(d) \/ Issue(d)
    BY <1>1, <2>1, <2>7 DEF approveInvoice, Issue
  <2>8. CASE DeliverInvoice(d)
    BY <1>1, <2>1, <2>8 DEF DeliverInvoice
  <2>9. CASE Fails(d)
    BY <1>1, <2>1, <2>9 DEF Fails
  <2> QED BY <1>5, <2>2, <2>3, <2>4, <2>5, <2>6, <2>7, <2>8, <2>9 DEF Handler
<1>6. CASE UNCHANGED ivars
  BY <1>1, <1>6 DEF ivars
<1> QED BY <1>2, <1>3, <1>4, <1>5, <1>6 DEF InvoiceNext, UninterruptedInvoiceNext

-----------------------------------------------------------------------------
(* The steps of handlers *)

OtherRowsKept(j) ==
  \A k \in Bookings \ {j} :
    /\ issuance'[k] = issuance[k] /\ (k \in document' <=> k \in document)
    /\ created'[k] = created[k] /\ asks'[k] = asks[k]
    /\ (k \in approved' <=> k \in approved) /\ mailed'[k] = mailed[k]

\* What one handler does to the booking it holds.
LEMMA HandlerStepsAreSound ==
  ASSUME IInv, NEW d \in Drains, Handler(d)
  PROVE  /\ RowsAgree(taken[d])' /\ HandlerKnows(d)'
         /\ OtherRowsKept(taken[d])
         /\ issuance[taken[d]] \in Decided => issuance'[taken[d]] = issuance[taken[d]]
         /\ pc[d] = "running" /\ taken[d] \in Bookings /\ taken' = taken
         /\ \A q \in Drains \ {d} : pc'[q] = pc[q] /\ at'[q] = at[q]
<1> DEFINE j == taken[d]
<1>1. pc[d] = "running" /\ j \in Bookings
  BY HandlersHaveBookings
     DEF Handler, Start, Block, Interrupted, getInvoice, listNumberingSeries, ClaimIssuance,
         createInvoice, Refused, Unanswered, SaveDocument, Orphan, approveInvoice,
         Unapproved, Issue, DeliverInvoice, Fails, HandlerEnds, Running
<1>2. RowsAgree(j) /\ HandlerKnows(d) /\ TypeOK /\ OutboxTypeOK
  BY <1>1 DEF IInv, TypeOK
<1> USE <1>1, <1>2
    DEF TypeOK, OutboxTypeOK, Running, Continue, Leave, HandlerEnds, Goto, Becomes, ovars, job,
        drain, rows, holded, handler, RowsAgree, HandlerKnows, OtherRowsKept, Decided, None
<1>3. CASE Start(d)
  <2>1. UNCHANGED <<issuance, document, created, asks, approved, mailed, taken>>
    BY <1>3 DEF Start
  <2>2. CASE issuance[j] \in {"BLOCKED", "UNKNOWN"}
    BY <1>3, <2>1, <2>2 DEF Start
  <2>3. CASE issuance[j] \notin {"BLOCKED", "UNKNOWN"}
    <3>1. pc' = pc /\ at' = [at EXCEPT ![d] = AfterRead(j)]
      BY <1>3, <2>3 DEF Start
    <3>2. CASE issuance[j] = "ISSUED"
      BY <2>1, <3>1, <3>2 DEF AfterRead
    <3>3. CASE issuance[j] = "IN_FLIGHT" /\ j \notin document
      BY <2>1, <3>1, <3>3 DEF AfterRead
    <3>4. CASE issuance[j] # "ISSUED" /\ ~(issuance[j] = "IN_FLIGHT" /\ j \notin document)
      <4>1. AfterRead(j) = IF j \in document THEN "inspect" ELSE "series"
        BY <3>4, Zenon DEF AfterRead
      <4>2. j \notin document => created[j] = 0
        BY <2>3, <3>4 DEF Issuances
      <4> QED BY <2>1, <2>3, <3>1, <3>4, <4>1, <4>2
    <3> QED BY <3>2, <3>3, <3>4
  <2> QED BY <2>2, <2>3
<1>4. CASE Block(d)
  BY <1>4 DEF Block
<1>5. CASE Interrupted(d)
  BY <1>5 DEF Interrupted
<1>6. CASE getInvoice(d)
  BY <1>6 DEF getInvoice
<1>7. CASE listNumberingSeries(d)
  BY <1>7 DEF listNumberingSeries
<1>8. CASE ClaimIssuance(d)
  BY <1>8 DEF ClaimIssuance
<1>9. CASE createInvoice(d)
  BY <1>9 DEF createInvoice, Create
<1>10. CASE Refused(d)
  BY <1>10 DEF Refused
<1>11. CASE Unanswered(d)
  BY <1>11 DEF Unanswered
<1>12. CASE SaveDocument(d)
  BY <1>12 DEF SaveDocument
<1>13. CASE Orphan(d)
  BY <1>13 DEF Orphan
<1>14. CASE approveInvoice(d)
  BY <1>14 DEF approveInvoice
<1>15. CASE Unapproved(d)
  BY <1>15 DEF Unapproved
<1>16. CASE Issue(d)
  BY <1>16 DEF Issue
<1>17. CASE DeliverInvoice(d)
  BY <1>17 DEF DeliverInvoice
<1>18. CASE Fails(d)
  BY <1>18 DEF Fails
<1> QED
  BY <1>3, <1>4, <1>5, <1>6, <1>7, <1>8, <1>9, <1>10, <1>11, <1>12, <1>13, <1>14, <1>15,
     <1>16, <1>17, <1>18 DEF Handler

\* The rows of the other bookings, and what the other handlers know, are not touched.
LEMMA HandlerKeeps ==
  ASSUME IInv, NEW d \in Drains, Handler(d)
  PROVE  (\A k \in Bookings : RowsAgree(k)') /\ (\A q \in Drains : HandlerKnows(q)')
<1> DEFINE j == taken[d]
<1>1. ASSUME NEW k \in Bookings, k # j PROVE RowsAgree(k)'
  BY <1>1, HandlerStepsAreSound DEF OtherRowsKept, IInv, RowsAgree
<1>2. ASSUME NEW q \in Drains, q # d PROVE HandlerKnows(q)'
  <2>1. CASE pc[q] = "running"
    <3>1. taken[q] \in Bookings /\ taken[q] # j
      BY <1>2, <2>1, HandlerStepsAreSound, HandlersHaveBookings
         DEF IInv, OutboxInv, OneHandlerAtATime, Holds, Owning, Bookings
    <3> QED BY <1>2, <2>1, <3>1, HandlerStepsAreSound DEF OtherRowsKept, IInv, HandlerKnows
  <2>2. CASE pc[q] # "running"
    BY <1>2, <2>2, HandlerStepsAreSound DEF HandlerKnows
  <2> QED BY <2>1, <2>2
<1> QED BY <1>1, <1>2, HandlerStepsAreSound

-----------------------------------------------------------------------------
(* The other steps *)

LEMMA OthersKeep ==
  ASSUME IInv, TypeOK',
         \/ \E j \in Jobs : enqueueReserveInvoice(j) \/ Backoff(j)
         \/ \E d \in Drains : Drain(d) \/ Dies(d)
         \/ \E j \in Bookings : AmountsChange(j) \/ EditDraft(j)
         \/ UNCHANGED ivars
  PROVE  /\ \A k \in Bookings : RowsAgree(k)' /\ (issuance[k] \in Decided => issuance'[k] = issuance[k])
         /\ \A q \in Drains : HandlerKnows(q)'
<1> USE DEF IInv, TypeOK, OutboxTypeOK, RowsAgree, HandlerKnows, rows, holded, handler, Decided,
            None
<1>1. ASSUME NEW j \in Jobs, enqueueReserveInvoice(j)
      PROVE  /\ \A k \in Bookings : RowsAgree(k)' /\ (issuance[k] \in Decided => issuance'[k] = issuance[k])
             /\ \A q \in Drains : HandlerKnows(q)'
  <2>1. \A k \in Bookings : issuance'[k] = (IF k = j /\ issuance[k] = "NONE" THEN "PREPARED"
                                           ELSE issuance[k])
    BY <1>1 DEF enqueueReserveInvoice
  <2>2. UNCHANGED <<document, created, asks, approved, mailed, at, pc, taken>>
    BY <1>1 DEF enqueueReserveInvoice, enqueueJob, drain
  <2>3. \A q \in Drains : pc[q] = "running" => status[taken[q]] = "CLAIMED"
    BY DEF OutboxInv, OneHandlerAtATime, Holds, Owning
  <2>4. \A q \in Drains : pc[q] = "running" => taken[q] # j
    BY <1>1, <2>3 DEF enqueueReserveInvoice, enqueueJob
  <2> QED BY <2>1, <2>2, <2>4
<1>2. ASSUME NEW d \in Drains, Drain(d) \/ Dies(d)
      PROVE  /\ \A k \in Bookings : RowsAgree(k)' /\ (issuance[k] \in Decided => issuance'[k] = issuance[k])
             /\ \A q \in Drains : HandlerKnows(q)'
  <2>1. UNCHANGED <<issuance, document, created, asks, approved, mailed>>
        /\ at' = [at EXCEPT ![d] = "start"]
    BY <1>2 DEF Drain, Dies, LeavesHandler
  <2>2. \A q \in Drains \ {d} : pc'[q] = pc[q] /\ taken'[q] = taken[q]
    BY <1>2 DEF Drain, Dies, Queue, ReadCandidate, Claim, ParkUnhandled, HandlerStarts,
                completeJob, CompleteThrows, failJob, Abandon, Goto, job
  <2>3. pc'[d] = "running" => taken'[d] \in Bookings
    BY <1>2 DEF Drain, Dies, Queue, ReadCandidate, Claim, ParkUnhandled, HandlerStarts,
                completeJob, CompleteThrows, failJob, Abandon, Goto, job, Bookings
  <2> QED BY <2>1, <2>2, <2>3
<1>3. ASSUME NEW j \in Jobs, Backoff(j)
      PROVE  /\ \A k \in Bookings : RowsAgree(k)' /\ (issuance[k] \in Decided => issuance'[k] = issuance[k])
             /\ \A q \in Drains : HandlerKnows(q)'
  BY <1>3 DEF Backoff, BackoffPasses, drain
<1>4. ASSUME NEW j \in Bookings, AmountsChange(j) \/ EditDraft(j)
      PROVE  /\ \A k \in Bookings : RowsAgree(k)' /\ (issuance[k] \in Decided => issuance'[k] = issuance[k])
             /\ \A q \in Drains : HandlerKnows(q)'
  BY <1>4 DEF AmountsChange, EditDraft, ovars, drain
<1>5. ASSUME UNCHANGED ivars
      PROVE  /\ \A k \in Bookings : RowsAgree(k)' /\ (issuance[k] \in Decided => issuance'[k] = issuance[k])
             /\ \A q \in Drains : HandlerKnows(q)'
  BY <1>5 DEF ivars, ovars, drain
<1> QED BY <1>1, <1>2, <1>3, <1>4, <1>5

LEMMA NextIInv == IInv /\ [InvoiceNext]_ivars => IInv'
<1> SUFFICES ASSUME IInv, [InvoiceNext]_ivars PROVE IInv'
  OBVIOUS
<1>1. OutboxInv' /\ TypeOK'
  BY OutboxStays, TypesStay
<1>2. (\A k \in Bookings : RowsAgree(k)') /\ (\A q \in Drains : HandlerKnows(q)')
  BY <1>1, HandlerKeeps, OthersKeep DEF InvoiceNext, UninterruptedInvoiceNext
<1> QED BY <1>1, <1>2 DEF IInv

LEMMA SpecIInv == InvoiceSpec => []IInv
BY InitIInv, NextIInv, PTL DEF InvoiceSpec

-----------------------------------------------------------------------------
(* Theorems *)

\* The rows of reserve-invoice.ts, what Holded has and what handlers hold keep their types.
THEOREM InvoiceTypeCorrect == InvoiceSpec => []TypeOK
<1>1. IInv => TypeOK
  BY DEF IInv
<1> QED BY <1>1, SpecIInv, PTL

\* runReserveInvoiceJob creates one invoice per booking at most, and mails it only as it
\* was approved, whatever fails, is cut short or goes unanswered.
THEOREM OneInvoicePerBooking == InvoiceSpec => []OneReserveInvoice
<1>1. IInv => OneReserveInvoice
  BY DEF IInv, RowsAgree, OneReserveInvoice
<1> QED BY <1>1, SpecIInv, PTL

\* An issuance that is ISSUED, BLOCKED or UNKNOWN is never written again.
THEOREM DecisionsStay == InvoiceSpec => DecidedStaysDecided
<1>1. ASSUME IInv, [InvoiceNext]_ivars, NEW j \in Bookings, issuance[j] \in Decided
      PROVE  issuance'[j] = issuance[j]
  <2>1. ASSUME NEW d \in Drains, Handler(d) PROVE issuance'[j] = issuance[j]
    BY <1>1, <2>1, HandlerStepsAreSound DEF OtherRowsKept
  <2>2. TypeOK'
    BY <1>1, TypesStay
  <2> QED BY <1>1, <2>1, <2>2, OthersKeep DEF InvoiceNext, UninterruptedInvoiceNext
<1>2. IInv /\ [InvoiceNext]_ivars =>
        [\A j \in Bookings : issuance[j] \in Decided => issuance'[j] = issuance[j]]_ivars
  BY <1>1
<1> QED BY <1>2, SpecIInv, PTL DEF InvoiceSpec, DecidedStaysDecided
=============================================================================
