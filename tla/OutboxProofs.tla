---------------------------- MODULE OutboxProofs ----------------------------
(* Proofs about Outbox for any sets of jobs and drains. *)
EXTENDS Outbox, TLAPS

\* The drains, their rows and what they know of them fit together.
OutboxInv ==
  /\ OutboxTypeOK
  /\ OneHandlerAtATime
  /\ KnownAttempts
  /\ DeadMeansExhausted

LEMMA OutboxInitially == OutboxInit => OutboxInv
  BY DEF OutboxInit, OutboxInv, OutboxTypeOK, OneHandlerAtATime, KnownAttempts,
         DeadMeansExhausted, Holds, Owning, Statuses, DrainSteps

LEMMA OutboxTypes == OutboxTypeOK /\ [Next]_ovars => OutboxTypeOK'
  <1> SUFFICES ASSUME OutboxTypeOK, [Next]_ovars PROVE OutboxTypeOK'
    OBVIOUS
  <1> USE DEF OutboxTypeOK, Statuses, DrainSteps, Owning, job, drain, ovars,
              Goto, SetStatus
  <1>1. ASSUME NEW j \in Jobs, enqueueJob(j) \/ BackoffPasses(j) PROVE OutboxTypeOK'
    BY <1>1 DEF enqueueJob, BackoffPasses
  <1>2. ASSUME NEW d \in Drains, ReadCandidate(d) PROVE OutboxTypeOK'
    BY <1>2 DEF ReadCandidate
  <1>3. ASSUME NEW d \in Drains, Claim(d) PROVE OutboxTypeOK'
    BY <1>3 DEF Claim, CountedAfterClaim
  <1>4. ASSUME NEW d \in Drains,
               \/ ParkUnhandled(d) \/ HandlerStarts(d) \/ completeJob(d)
               \/ CompleteThrows(d) \/ failJob(d) \/ Abandon(d)
        PROVE  OutboxTypeOK'
    BY <1>4 DEF ParkUnhandled, HandlerStarts, completeJob, CompleteThrows, failJob,
                Abandon
  <1>5. ASSUME NEW d \in Drains, HandlerEnds(d, "returned") \/ HandlerEnds(d, "threw")
        PROVE  OutboxTypeOK'
    BY <1>5 DEF HandlerEnds
  <1>6. CASE UNCHANGED ovars
    BY <1>6
  <1>7. QED
    BY <1>1, <1>2, <1>3, <1>4, <1>5, <1>6 DEF Next, UninterruptedNext, DrainStep, Queue

\* A claim is won by one drain: nobody holds a PENDING job, and everybody else
\* leaves the rows of held jobs alone.
LEMMA OutboxKept == OutboxInv /\ [Next]_ovars => OutboxInv'
  <1> SUFFICES ASSUME OutboxInv, [Next]_ovars PROVE OutboxInv'
    OBVIOUS
  <1>1. OutboxTypeOK'
    BY OutboxTypes DEF OutboxInv
  <1> USE DEF OutboxInv, OutboxTypeOK, OneHandlerAtATime, KnownAttempts,
              DeadMeansExhausted, Holds, Owning, job, drain, Goto, SetStatus
  <1>2. ASSUME NEW j \in Jobs, enqueueJob(j) \/ BackoffPasses(j) PROVE OutboxInv'
    BY <1>1, <1>2 DEF enqueueJob, BackoffPasses
  <1>3. ASSUME NEW d \in Drains, ReadCandidate(d) PROVE OutboxInv'
    BY <1>1, <1>3 DEF ReadCandidate
  <1>4. ASSUME NEW d \in Drains, Claim(d) PROVE OutboxInv'
    BY <1>1, <1>4 DEF Claim, Claimable, CountedAfterClaim
  <1>5. ASSUME NEW d \in Drains, ParkUnhandled(d) \/ completeJob(d) PROVE OutboxInv'
    BY <1>1, <1>5 DEF ParkUnhandled, completeJob
  <1>6. ASSUME NEW d \in Drains,
               \/ HandlerStarts(d) \/ CompleteThrows(d) \/ Abandon(d)
               \/ HandlerEnds(d, "returned") \/ HandlerEnds(d, "threw")
        PROVE  OutboxInv'
    BY <1>1, <1>6 DEF HandlerStarts, CompleteThrows, Abandon, HandlerEnds
  <1>7. ASSUME NEW d \in Drains, failJob(d) PROVE OutboxInv'
    BY <1>1, <1>7, OutboxAssumption DEF failJob, Exhausted
  <1>8. CASE UNCHANGED ovars
    BY <1>1, <1>8 DEF ovars
  <1>9. QED
    BY <1>2, <1>3, <1>4, <1>5, <1>6, <1>7, <1>8
       DEF Next, UninterruptedNext, DrainStep, Queue

LEMMA OutboxInvariant == Spec => []OutboxInv
  BY OutboxInitially, OutboxKept, PTL DEF Spec

\* Every row and every drain keeps its type.
THEOREM OutboxTypeCorrect == Spec => []OutboxTypeOK
  BY OutboxInvariant, PTL DEF OutboxInv

\* However many drains race for it, a job is in the hands of at most one.
THEOREM ClaimsExclude == Spec => []OneHandlerAtATime
  BY OutboxInvariant, PTL DEF OutboxInv

\* A job of a known kind is parked only after MAX_ATTEMPTS attempts.
THEOREM ParkedAfterAllAttempts == Spec => []DeadMeansExhausted
  BY OutboxInvariant, PTL DEF OutboxInv

\* A finished job is never touched again: whoever holds a job holds a CLAIMED
\* row, and a claim needs a PENDING one.
THEOREM FinishedForGood == Spec => FinishedStaysFinished
  <1>1. OutboxInv /\ [Next]_ovars =>
          [\A j \in Jobs : status[j] \in Final => status'[j] = status[j]]_ovars
    <2> SUFFICES ASSUME OutboxInv, [Next]_ovars, NEW j \in Jobs, status[j] \in Final
                 PROVE  status'[j] = status[j]
      BY Zenon
    <2> USE DEF OutboxInv, OutboxTypeOK, OneHandlerAtATime, Holds, Owning, Final,
                job, drain, SetStatus
    <2>1. ASSUME NEW k \in Jobs, enqueueJob(k) \/ BackoffPasses(k)
          PROVE  status'[j] = status[j]
      BY <2>1 DEF enqueueJob, BackoffPasses
    <2>2. ASSUME NEW d \in Drains, ReadCandidate(d) \/ HandlerStarts(d)
                 \/ CompleteThrows(d) \/ Abandon(d)
                 \/ HandlerEnds(d, "returned") \/ HandlerEnds(d, "threw")
          PROVE  status'[j] = status[j]
      BY <2>2 DEF ReadCandidate, HandlerStarts, CompleteThrows, Abandon, HandlerEnds
    <2>3. ASSUME NEW d \in Drains,
                 Claim(d) \/ ParkUnhandled(d) \/ completeJob(d) \/ failJob(d)
          PROVE  status'[j] = status[j]
      BY <2>3 DEF Claim, Claimable, ParkUnhandled, completeJob, failJob
    <2>4. CASE UNCHANGED ovars
      BY <2>4 DEF ovars
    <2>5. QED
      BY <2>1, <2>2, <2>3, <2>4 DEF Next, UninterruptedNext, DrainStep, Queue
  <1>2. QED
    BY <1>1, OutboxInvariant, PTL DEF Spec, FinishedStaysFinished
=============================================================================
