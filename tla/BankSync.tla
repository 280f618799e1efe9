------------------------------ MODULE BankSync ------------------------------
(***************************************************************************)
(* Synchronization runs of one treasury account:                           *)
(* banking/services/synchronization.ts.  Workers claim the account's run   *)
(* under a lease, read Holded page by page and commit each page with its   *)
(* checkpoint.  A worker may stall, die, or lose its lease to another.     *)
(*                                                                         *)
(* A timestamp is kept relative to the real clock: "left" is how many      *)
(* ticks away it lies (nothing or less: it has passed), "age" how many     *)
(* ticks ago a worker took the time it calls now.  What the pages hold is  *)
(* reduced to whether an item is invalid; Reconciliation.tla has the rest. *)
(***************************************************************************)
EXTENDS Integers, Sequences, FiniteSets

CONSTANTS
  Sweeps,       \* scheduler tasks that run runBankingSweep, one per instance
  Expiries,     \* runs of expireUnpaidBookings, each of them once
  Nobody,       \* no leaseToken
  Pages,        \* pages of the full retained window
  RecentPages,  \* pages of the 14-day window
  MaxAttempts,  \* BANK_SYNC_MAX_ATTEMPTS
  Lease,        \* BANK_SYNC_LEASE_MS, in ticks
  Backoff,      \* the delay before a retry, in ticks
  MaxRuns,      \* bound: runs ever created
  MaxAge        \* bound: ticks a worker may stall between two looks at the clock

ASSUME SyncAssumption ==
  /\ Sweeps \cap Expiries = {}
  /\ Nobody \notin Sweeps \cup Expiries
  /\ Pages \in Nat /\ RecentPages \in 1..Pages
  /\ MaxAttempts \in Nat \ {0} /\ Lease \in Nat \ {0} /\ Backoff \in Nat \ {0}
  /\ MaxRuns \in Nat \ {0} /\ MaxAge \in Nat

VARIABLES
  runs,   \* the account's BankSyncRun rows, oldest first
  worker  \* what each worker is doing and knows

vars == <<runs, worker>>

Workers == Sweeps \cup Expiries

Nonterminal == {"QUEUED", "RUNNING", "RETRYING"}
Terminal == {"SUCCEEDED", "PARTIAL", "FAILED"}
Windows == {"full", "recent"}

LastPage(window) == IF window = "full" THEN Pages ELSE RecentPages

\* A worker's variables: the run it works on, the row as it read it, the page
\* it asks for, the page it was given, its time, the expiry runs that had begun
\* by then, and its rounds (BankEvidence).
Idle ==
  [at |-> "idle", run |-> 1, attempts |-> 0, progress |-> FALSE, cursor |-> 1,
   restarted |-> FALSE, invalid |-> FALSE, seen |-> {}, age |-> 0, begun |-> {},
   round |-> 0]

At(w, step) == worker[w].at = step
Becomes(w, known) == worker' = [worker EXCEPT ![w] = known]
Goes(w, step) == Becomes(w, [worker[w] EXCEPT !.at = step])
Ends(w) ==
  Becomes(w, [Idle EXCEPT !.at = IF w \in Expiries THEN "over" ELSE "idle"])

UnderWay(w) == worker[w].at \notin {"idle", "over"}

RunOf(w) == runs[worker[w].run]
SetRun(w, run) == runs' = [runs EXCEPT ![worker[w].run] = run]

\* A sweep looks at the clock often; an expiry run has one time for all it does.
Age(w) == worker[w].age
AgeNow(w) == IF w \in Expiries THEN Age(w) ELSE 0
BegunNow(w) == IF w \in Expiries THEN worker[w].begun ELSE {}
Aging(w) == UnderWay(w) /\ (At(w, "page") => w \in Expiries)

\* The worker at another step, with no more than its run, time and round.
AtStep(w, step) ==
  [Idle EXCEPT !.at = step, !.run = worker[w].run, !.age = AgeNow(w),
               !.begun = BegunNow(w), !.round = worker[w].round]

\* The expiry runs that have started.  A worker that starts takes the time.
Started == {e \in Expiries : ~At(e, "idle")}
Begins(w, step) ==
  Becomes(w, [worker[w] EXCEPT !.at = step, !.begun = Started \cup ({w} \cap Expiries)])

-----------------------------------------------------------------------------
(* Creating runs.  A partial unique index allows one nonterminal run; a       *)
(* creation that loses against it is rolled back.                             *)

\* done, own, seen and spoilt record what was imported: the pages committed by
\* this run or one it resumes, those by this run, the expiry runs that had
\* started when each page was read, and whether a page had an invalid item.
NewRun(window, left) ==
  [status |-> "QUEUED", window |-> window, cursor |-> 1, attempts |-> 0,
   holder |-> Nobody, left |-> left, fresh |-> {}, incidents |-> FALSE,
   exhausted |-> FALSE, done |-> {}, own |-> {},
   seen |-> [p \in 1..Pages |-> {}], spoilt |-> FALSE]

\* resumedFromRunId: the window and the cursor of a run that did not succeed.
ResumedRun(run) ==
  [NewRun(run.window, 0) EXCEPT !.cursor = run.cursor, !.done = run.done, !.seen = run.seen]

ActiveRuns == {i \in DOMAIN runs : runs[i].status \in Nonterminal}
MayCreate == ActiveRuns = {} /\ Len(runs) < MaxRuns

requestManualBankSync ==
  /\ MayCreate
  /\ \/ runs' = Append(runs, NewRun("full", 0))
     \/ \E i \in DOMAIN runs :
          /\ runs[i].status \in {"PARTIAL", "FAILED"}
          /\ runs' = Append(runs, ResumedRun(runs[i]))
  /\ UNCHANGED worker

\* The 14-day window may follow an exhausted scan of the full one.
ScheduledWindows ==
  {"full"} \cup
    IF \E i \in DOMAIN runs : runs[i].exhausted /\ runs[i].window = "full"
    THEN {"recent"} ELSE {}

\* runBankingSweep takes the time once, for the due run and for the claim.
SweepStarts(w) ==
  /\ At(w, "idle")
  /\ Begins(w, "sweeping")
  /\ UNCHANGED runs

enqueueDueBankSyncRuns(w) ==
  /\ At(w, "sweeping")
  /\ \/ UNCHANGED runs
     \/ MayCreate /\ \E window \in ScheduledWindows :
          runs' = Append(runs, NewRun(window, -Age(w)))
  /\ Goes(w, "claiming")

-----------------------------------------------------------------------------
(* Claiming: a read, then an update with the read's condition *)

Due_NotAbandoned(run, w) ==
  run.status \in {"QUEUED", "RETRYING"} /\ run.left + Age(w) <= 0
Due(run, w) == run.status \in Nonterminal /\ run.left + Age(w) <= 0

\* A sweep takes any due run, an expiry run the one it is after.
Candidates(w) ==
  {i \in DOMAIN runs : Due(runs[i], w) /\ (w \in Expiries => i = worker[w].run)}

ClaimReads(w) ==
  /\ At(w, "claiming")
  /\ \/ \E i \in Candidates(w) : Becomes(w,
          [worker[w] EXCEPT !.at = "candidate", !.run = i, !.attempts = runs[i].attempts,
             !.progress = (runs[i].own # {}), !.cursor = runs[i].cursor])
     \/ Candidates(w) = {} /\ Ends(w)
  /\ UNCHANGED runs

\* The claim's loop, with the time it began with.
ClaimsAgain(w) == Becomes(w, [AtStep(w, "claiming") EXCEPT
                             !.age = Age(w), !.begun = worker[w].begun])

TooOften(row) == row.attempts >= MaxAttempts

\* A run claimed too often ends with what it has.
GivesUp(w) ==
  /\ At(w, "candidate")
  /\ TooOften(worker[w])
  /\ IF TooOften(RunOf(w)) /\ Due(RunOf(w), w)
     THEN SetRun(w, [RunOf(w) EXCEPT
                       !.status = IF worker[w].progress THEN "PARTIAL" ELSE "FAILED",
                       !.holder = Nobody, !.left = 0])
     ELSE UNCHANGED runs
  /\ IF w \in Expiries THEN Ends(w) ELSE ClaimsAgain(w)

Claimable(run, w) == Due(run, w)

\* startedAt is set unless the row read already had one: the expiry runs that
\* began no later than it take the run for fresh.
Claimed(run, w) ==
  [run EXCEPT !.status = "RUNNING", !.attempts = @ + 1, !.holder = w,
              !.left = Lease - Age(w),
              !.fresh = IF worker[w].attempts = 0 THEN worker[w].begun ELSE @]

ClaimWrites(w) ==
  /\ At(w, "candidate")
  /\ ~TooOften(worker[w])
  /\ IF Claimable(RunOf(w), w)
     THEN /\ SetRun(w, Claimed(RunOf(w), w))
          /\ Becomes(w, [AtStep(w, "page") EXCEPT !.cursor = worker[w].cursor])
     ELSE ClaimsAgain(w) /\ UNCHANGED runs

-----------------------------------------------------------------------------
(* processBankSync *)

\* The condition of every update a worker makes to its run.
Holds(w) ==
  RunOf(w).status = "RUNNING" /\ RunOf(w).holder = w /\ RunOf(w).left + Age(w) > 0

\* The scheduler's task is over; an expiry run looks at the outcome.
Finishes(w) == IF w \in Expiries THEN Becomes(w, AtStep(w, "outcome")) ELSE Ends(w)

\* Holded answers with a page, as the bank is at this moment.
PageArrives(w) ==
  /\ At(w, "page")
  /\ \E invalid \in BOOLEAN : Becomes(w,
       [worker[w] EXCEPT !.at = "arrived", !.invalid = invalid, !.seen = Started,
                         !.age = AgeNow(w)])
  /\ UNCHANGED runs

IncidentsAfter_LastPage(run, invalid) == invalid
IncidentsAfter(run, invalid) == run.incidents \/ invalid

IsLast(w) == worker[w].cursor = LastPage(RunOf(w).window)

\* The items, the counters, the checkpoint and the new lease in one transaction.
WithPage(run, w) ==
  LET page == worker[w].cursor
      incidents == IncidentsAfter(run, worker[w].invalid)
      counted == [run EXCEPT !.incidents = incidents, !.done = @ \cup {page},
                    !.own = @ \cup {page}, !.seen[page] = worker[w].seen,
                    !.spoilt = @ \/ worker[w].invalid]
  IN IF IsLast(w)
     THEN [counted EXCEPT !.status = IF incidents THEN "PARTIAL" ELSE "SUCCEEDED",
             !.holder = Nobody, !.left = 0, !.cursor = 1, !.exhausted = TRUE]
     ELSE [counted EXCEPT !.left = Lease - Age(w), !.cursor = page + 1]

PageCommits(w) ==
  /\ At(w, "arrived")
  /\ Holds(w)
  /\ SetRun(w, WithPage(RunOf(w), w))
  /\ IF IsLast(w) THEN Finishes(w)
     ELSE Becomes(w, [AtStep(w, "page") EXCEPT !.cursor = worker[w].cursor + 1,
                                              !.restarted = worker[w].restarted])

\* "Bank synchronization lease was lost", or any other error: rolled back.
PageRollsBack(w) ==
  /\ At(w, "arrived")
  /\ Finishes(w)
  /\ UNCHANGED runs

\* transitionAfterKnownFailure
Retries(run, retryable) == retryable /\ ~TooOften(run)

Failed_SkippingThePage(run, w, retryable) ==
  IF Retries(run, retryable)
  THEN [run EXCEPT !.status = "RETRYING", !.holder = Nobody, !.left = Backoff - Age(w),
                   !.cursor = LastPage(run.window)]
  ELSE [run EXCEPT !.status = "FAILED", !.holder = Nobody, !.left = 0]
Failed(run, w, retryable) ==
  IF Retries(run, retryable)
  THEN [run EXCEPT !.status = "RETRYING", !.holder = Nobody, !.left = Backoff - Age(w)]
  ELSE [run EXCEPT !.status = IF run.own # {} THEN "PARTIAL" ELSE "FAILED",
                   !.holder = Nobody, !.left = 0]

PageFails(w) ==
  /\ At(w, "page")
  /\ IF Holds(w)
     THEN \E retryable \in BOOLEAN : SetRun(w, Failed(RunOf(w), w, retryable))
     ELSE UNCHANGED runs
  /\ Finishes(w)

\* An error that is not Holded's leaves the run to its lease.
ProcessThrows(w) ==
  /\ At(w, "page")
  /\ Finishes(w)
  /\ UNCHANGED runs

\* restartRejectedCursor: once per claim, back to the first page.
CursorRejected(w) ==
  /\ At(w, "page")
  /\ worker[w].cursor > 1 /\ ~worker[w].restarted
  /\ IF Holds(w)
     THEN /\ SetRun(w, [RunOf(w) EXCEPT !.cursor = 1, !.left = Lease - Age(w)])
          /\ Becomes(w, [worker[w] EXCEPT !.cursor = 1, !.restarted = TRUE])
     ELSE Finishes(w) /\ UNCHANGED runs

\* The process of a worker dies.
Dies(w) ==
  /\ UnderWay(w)
  /\ Ends(w)
  /\ UNCHANGED runs

\* Time passes.
Later(run) ==
  IF run.status \in Nonterminal /\ run.left > -MaxAge
  THEN [run EXCEPT !.left = @ - 1] ELSE run

Tick ==
  /\ \A w \in Workers : Aging(w) => Age(w) < MaxAge
  /\ worker' = [w \in Workers |->
       IF Aging(w) THEN [worker[w] EXCEPT !.age = @ + 1] ELSE worker[w]]
  /\ runs' = [i \in DOMAIN runs |-> Later(runs[i])]
=============================================================================
