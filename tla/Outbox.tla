------------------------------- MODULE Outbox -------------------------------
(***************************************************************************)
(* The outbox the booking services put their slow work into:               *)
(* booking/services/outbox.ts.  Several drains may run at once, one per    *)
(* application instance; every database statement is a step.  What a       *)
(* handler does is left open (Quoting.tla fills it in for one kind of      *)
(* job): it returns or it throws.                                          *)
(*                                                                         *)
(* Time is reduced to whether a job's runAfter has passed.  Among the due  *)
(* jobs the code takes the oldest; here a drain takes any.                 *)
(***************************************************************************)
EXTENDS Naturals, FiniteSets

CONSTANTS
  Jobs,         \* idempotency keys
  Unhandled,    \* jobs of a kind JOB_HANDLERS does not know
  Drains,       \* running drainOutbox calls
  MaxAttempts   \* MAX_ATTEMPTS

ASSUME OutboxAssumption ==
  /\ Unhandled \subseteq Jobs
  /\ MaxAttempts \in Nat \ {0}

VARIABLES
  status,    \* IntegrationJob.status, "NONE" without a row
  attempts,  \* IntegrationJob.attempts
  due,       \* jobs whose runAfter has passed
  pc,        \* where each drain is
  taken,     \* the job each drain has read or claimed
  counted    \* job.attempts as that drain knows it

job == <<status, attempts, due>>
drain == <<pc, taken, counted>>
ovars == <<job, drain>>

Statuses == {"NONE", "PENDING", "CLAIMED", "SUCCEEDED", "DEAD"}
Final == {"SUCCEEDED", "DEAD"}

\* A drain at one of these steps has claimed the job it has taken.
Owning == {"claimed", "running", "returned", "threw"}
DrainSteps == {"idle", "candidate"} \cup Owning

Holds(d, j) == pc[d] \in Owning /\ taken[d] = j

OutboxTypeOK ==
  /\ status \in [Jobs -> Statuses]
  /\ attempts \in [Jobs -> Nat]
  /\ due \subseteq Jobs
  /\ pc \in [Drains -> DrainSteps]
  /\ taken \in [Drains -> Jobs]
  /\ counted \in [Drains -> Nat]

OutboxInit ==
  /\ status = [j \in Jobs |-> "NONE"]
  /\ attempts = [j \in Jobs |-> 0]
  /\ due = {}
  /\ pc = [d \in Drains |-> "idle"]
  /\ taken \in [Drains -> Jobs]
  /\ counted = [d \in Drains |-> 0]

Goto(d, step) == pc' = [pc EXCEPT ![d] = step]
SetStatus(j, to) == status' = [status EXCEPT ![j] = to]

-----------------------------------------------------------------------------
\* enqueueJob: the unique idempotency key turns a second enqueue into a no-op.
enqueueJob(j) ==
  /\ status[j] = "NONE"
  /\ SetStatus(j, "PENDING")
  /\ due' = due \cup {j}
  /\ UNCHANGED <<attempts, drain>>

\* claimNextJob: the read of a candidate ...
ReadCandidate(d) ==
  /\ pc[d] = "idle"
  /\ \E j \in due :
       /\ status[j] = "PENDING"
       /\ taken' = [taken EXCEPT ![d] = j]
       /\ counted' = [counted EXCEPT ![d] = attempts[j]]
  /\ Goto(d, "candidate")
  /\ UNCHANGED job

\* ... and the update, conditional on PENDING and on nothing else.  The caller
\* gets the attempts of the read plus one.
Claimable_Always(j) == TRUE
Claimable(j) == status[j] = "PENDING"

CountedAfterClaim(d) == counted[d] + 1

Claim(d) ==
  /\ pc[d] = "candidate"
  /\ LET j == taken[d] IN
     IF Claimable(j)
     THEN /\ SetStatus(j, "CLAIMED")
          /\ attempts' = [attempts EXCEPT ![j] = @ + 1]
          /\ counted' = [counted EXCEPT ![d] = CountedAfterClaim(d)]
          /\ Goto(d, "claimed")
     ELSE Goto(d, "idle") /\ UNCHANGED <<status, attempts, counted>>
  /\ UNCHANGED <<due, taken>>

\* drainOutbox: a kind without a handler is parked, any other job is run.
ParkUnhandled(d) ==
  /\ pc[d] = "claimed"
  /\ taken[d] \in Unhandled
  /\ SetStatus(taken[d], "DEAD")
  /\ Goto(d, "idle")
  /\ UNCHANGED <<attempts, due, taken, counted>>

HandlerStarts(d) ==
  /\ pc[d] = "claimed"
  /\ taken[d] \notin Unhandled
  /\ Goto(d, "running")
  /\ UNCHANGED <<job, taken, counted>>

HandlerEnds(d, how) ==
  /\ pc[d] = "running"
  /\ Goto(d, how)
  /\ UNCHANGED <<job, taken, counted>>

\* completeJob.  It is inside the try: if it throws, the job has failed.
completeJob(d) ==
  /\ pc[d] = "returned"
  /\ SetStatus(taken[d], "SUCCEEDED")
  /\ Goto(d, "idle")
  /\ UNCHANGED <<attempts, due, taken, counted>>

CompleteThrows(d) ==
  /\ pc[d] = "returned"
  /\ Goto(d, "threw")
  /\ UNCHANGED <<job, taken, counted>>

\* failJob: decides on the attempts this drain knows.
Exhausted(d) == counted[d] >= MaxAttempts

failJob_Failed(d) ==
  /\ pc[d] = "threw"
  /\ SetStatus(taken[d], IF Exhausted(d) THEN "DEAD" ELSE "FAILED")
  /\ due' = IF Exhausted(d) THEN due ELSE due \ {taken[d]}
  /\ Goto(d, "idle")
  /\ UNCHANGED <<attempts, taken, counted>>
failJob(d) ==
  /\ pc[d] = "threw"
  /\ SetStatus(taken[d], IF Exhausted(d) THEN "DEAD" ELSE "PENDING")
  /\ due' = IF Exhausted(d) THEN due ELSE due \ {taken[d]}
  /\ Goto(d, "idle")
  /\ UNCHANGED <<attempts, taken, counted>>

\* backoffFor(attempts) goes by.
BackoffPasses(j) ==
  /\ status[j] = "PENDING"
  /\ j \notin due
  /\ due' = due \cup {j}
  /\ UNCHANGED <<status, attempts, drain>>

\* The process dies, or failJob itself throws and ends the drain: the row stays
\* CLAIMED, and nothing ever looks for claimed rows again.
Abandon(d) ==
  /\ pc[d] # "idle"
  /\ Goto(d, "idle")
  /\ UNCHANGED <<job, taken, counted>>

Queue(d) ==
  \/ ReadCandidate(d) \/ Claim(d) \/ ParkUnhandled(d) \/ HandlerStarts(d)
  \/ completeJob(d) \/ CompleteThrows(d) \/ failJob(d)

DrainStep(d) == Queue(d) \/ HandlerEnds(d, "returned") \/ HandlerEnds(d, "threw")

UninterruptedNext ==
  \/ \E j \in Jobs : enqueueJob(j) \/ BackoffPasses(j)
  \/ \E d \in Drains : DrainStep(d)

Next == UninterruptedNext \/ \E d \in Drains : Abandon(d)

Spec == OutboxInit /\ [][Next]_ovars

\* Each drain is restarted by its timer, each backoff ends, and drains are not
\* cut short for ever.
FairSpec ==
  /\ Spec
  /\ \A d \in Drains : WF_ovars(DrainStep(d))
  /\ \A j \in Jobs : WF_ovars(BackoffPasses(j))
  /\ <>[][UninterruptedNext]_ovars

-----------------------------------------------------------------------------
(* Properties *)

\* However claims race, a job is in the hands of one drain at a time, and its
\* row says so for as long as it is.
OneHandlerAtATime ==
  \A d \in Drains, j \in Jobs :
    Holds(d, j) =>
      /\ status[j] = "CLAIMED"
      /\ \A e \in Drains \ {d} : ~Holds(e, j)

\* "A successful job is never executed a second time", and a dead one neither:
\* no late claim, retry or repeated enqueue brings a finished job back.
FinishedStaysFinished ==
  [][\A j \in Jobs : status[j] \in Final => status'[j] = status[j]]_ovars

\* A job is given up only after its attempts were made.
DeadMeansExhausted ==
  \A j \in Jobs \ Unhandled : status[j] = "DEAD" => attempts[j] >= MaxAttempts

\* What a drain knows of the attempts never exceeds the row.
KnownAttempts == \A d \in Drains : counted[d] <= attempts[taken[d]]

\* A pending job ends: it succeeds or is parked, unless a drain was cut short
\* while it held the job, the only way a job can be stuck.
Abandoned(j) == status[j] = "CLAIMED" /\ \A d \in Drains : ~Holds(d, j)
JobsSettle ==
  \A j \in Jobs : status[j] = "PENDING" ~> status[j] \in Final \/ Abandoned(j)
=============================================================================
