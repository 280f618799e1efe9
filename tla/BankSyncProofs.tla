--------------------------- MODULE BankSyncProofs ---------------------------
(* Proofs about BankEvidence for any workers, pages, attempts and leases. *)
EXTENDS BankEvidence, SequenceTheorems, TLAPS

\* What lies before a cursor is imported.
Covers(run, cursor) ==
  /\ cursor \in 1..LastPage(run.window)
  /\ 1..(cursor - 1) \subseteq run.done

\* A row that tells the truth about what was imported.
Truthful(run) ==
  /\ run \in Run
  /\ Covers(run, run.cursor)
  /\ run.exhausted => 1..LastPage(run.window) \subseteq run.done
  /\ run.spoilt => run.incidents
  /\ run.status = "SUCCEEDED" => ~run.spoilt

\* A worker with a run in hand has a cursor into that run.
Sound(known, rows) ==
  /\ known \in Worker
  /\ known.run \in DOMAIN rows
  /\ IF known.at \in {"candidate", "page", "arrived"}
     THEN Covers(rows[known.run], known.cursor)
     ELSE known.cursor = 1

TruthfulRuns == runs \in Seq(Run) /\ \A i \in DOMAIN runs : Truthful(runs[i])

SoundWorkers ==
  /\ worker \in [Workers -> Worker]
  /\ \A w \in Workers : Sound(worker[w], runs)

IInv == TruthfulRuns /\ SoundWorkers

\* What any step does to a row: a run that has ended keeps its outcome, and
\* what was imported stays imported.
Follows(run, next) ==
  /\ next.window = run.window
  /\ run.done \subseteq next.done
  /\ run.status \in Terminal => next.status = run.status /\ next.own = run.own

RowsFollow ==
  /\ DOMAIN runs \subseteq DOMAIN runs'
  /\ \A i \in DOMAIN runs : Follows(runs[i], runs'[i])

RowsKept == TruthfulRuns' /\ RowsFollow

-----------------------------------------------------------------------------
(* Steps of the table: nothing, a new row, another row in the place of one, *)
(* or time.                                                                  *)

LEMMA LastPages == \A window : LastPage(window) \in 1..Pages
  BY SyncAssumption DEF LastPage

LEMMA NoRowChanges ==
  ASSUME TruthfulRuns, UNCHANGED runs
  PROVE  RowsKept
  BY DEF RowsKept, TruthfulRuns, RowsFollow, Follows, Truthful, Covers, Run

LEMMA RowAdded ==
  ASSUME TruthfulRuns, NEW run, Truthful(run), runs' = Append(runs, run)
  PROVE  RowsKept /\ DOMAIN runs' = 1..(Len(runs) + 1)
  <1>1. run \in Run
    BY DEF Truthful
  <1>2. /\ runs' \in Seq(Run)
        /\ DOMAIN runs = 1..Len(runs)
        /\ DOMAIN runs' = 1..(Len(runs) + 1)
        /\ \A i \in DOMAIN runs : runs'[i] = runs[i]
        /\ runs'[Len(runs) + 1] = run
    BY <1>1 DEF TruthfulRuns
  <1>3. Len(runs) \in Nat
    BY DEF TruthfulRuns
  <1>4. ASSUME NEW i \in DOMAIN runs' PROVE Truthful(runs'[i])
    BY <1>2, <1>3, <1>4 DEF TruthfulRuns
  <1>5. \A i \in DOMAIN runs : Follows(runs[i], runs'[i])
    BY <1>2 DEF Follows
  <1>6. TruthfulRuns'
    BY <1>2, <1>4 DEF TruthfulRuns, Truthful, Covers, Run
  <1>7. QED
    BY <1>2, <1>3, <1>5, <1>6 DEF RowsKept, RowsFollow

LEMMA RowReplaced ==
  ASSUME TruthfulRuns, NEW i \in DOMAIN runs, NEW run, Truthful(run),
         Follows(runs[i], run), runs' = [runs EXCEPT ![i] = run]
  PROVE  RowsKept /\ DOMAIN runs' = DOMAIN runs /\ runs'[i] = run
  <1>1. run \in Run /\ DOMAIN runs = 1..Len(runs)
    BY DEF Truthful, TruthfulRuns
  <1>2. runs' \in Seq(Run)
    BY <1>1, ExceptSeq DEF TruthfulRuns
  <1>3. /\ DOMAIN runs' = DOMAIN runs
        /\ \A j \in DOMAIN runs : runs'[j] = IF j = i THEN run ELSE runs[j]
    OBVIOUS
  <1>4. \A j \in DOMAIN runs : Truthful(runs'[j])
    BY <1>3 DEF TruthfulRuns
  <1>5. \A j \in DOMAIN runs : Follows(runs[j], runs'[j])
    BY <1>3 DEF Follows
  <1>6. TruthfulRuns'
    BY <1>2, <1>3, <1>4 DEF TruthfulRuns, Truthful, Covers, Run
  <1>7. QED
    BY <1>3, <1>5, <1>6 DEF RowsKept, RowsFollow

LEMMA RowsAge ==
  ASSUME TruthfulRuns, runs' = [i \in DOMAIN runs |-> Later(runs[i])]
  PROVE  RowsKept
  <1>1. DOMAIN runs = 1..Len(runs) /\ Len(runs) \in Nat
    BY DEF TruthfulRuns
  <1>2. ASSUME NEW i \in DOMAIN runs
        PROVE  Truthful(Later(runs[i])) /\ Follows(runs[i], Later(runs[i]))
    <2>1. runs[i] \in Run /\ Truthful(runs[i])
      BY DEF TruthfulRuns, Truthful
    <2>2. CASE ~(runs[i].status \in Nonterminal /\ runs[i].left > -MaxAge)
      BY <2>1, <2>2 DEF Later, Follows
    <2>3. CASE runs[i].status \in Nonterminal /\ runs[i].left > -MaxAge
      <3>1. Later(runs[i]) = [runs[i] EXCEPT !.left = @ - 1]
        BY <2>3 DEF Later
      <3>2. Later(runs[i]) \in Run
        BY <2>1, <3>1 DEF Run
      <3>3. QED
        BY <2>1, <2>3, <3>1, <3>2 DEF Truthful, Covers, Follows, Run, Nonterminal, Terminal
    <2>4. QED
      BY <2>2, <2>3
  <1>3. DOMAIN runs' = DOMAIN runs /\ \A i \in DOMAIN runs : runs'[i] = Later(runs[i])
    OBVIOUS
  <1>4. runs' \in [1..Len(runs) -> Run]
    BY <1>1, <1>2 DEF Truthful
  <1>5. runs' \in Seq(Run)
    BY <1>1, <1>4, SeqDef
  <1>6. TruthfulRuns'
    BY <1>2, <1>3, <1>5 DEF TruthfulRuns, Truthful, Covers, Run
  <1>7. QED
    BY <1>2, <1>3, <1>6 DEF RowsKept, RowsFollow

-----------------------------------------------------------------------------
(* Workers *)

LEMMA StaysSound ==
  ASSUME TruthfulRuns, RowsKept, NEW known, Sound(known, runs)
  PROVE  Sound(known, runs')
  BY DEF RowsKept, RowsFollow, Follows, Sound, Covers

LEMMA WorkerMoves ==
  ASSUME IInv, RowsKept, NEW w \in Workers, NEW known, Sound(known, runs'),
         Becomes(w, known)
  PROVE  IInv' /\ RowsFollow
  <1>1. known \in Worker
    BY DEF Sound
  <1>2. /\ worker' \in [Workers -> Worker]
        /\ \A v \in Workers : worker'[v] = IF v = w THEN known ELSE worker[v]
    BY <1>1 DEF Becomes, IInv, SoundWorkers
  <1>3. ASSUME NEW v \in Workers PROVE Sound(worker'[v], runs')
    BY <1>2, StaysSound DEF IInv, SoundWorkers
  <1>4. SoundWorkers'
    BY <1>2, <1>3 DEF SoundWorkers, Sound, Worker, Covers
  <1>5. QED
    BY <1>4 DEF IInv, RowsKept

LEMMA WorkersStay ==
  ASSUME IInv, RowsKept, UNCHANGED worker
  PROVE  IInv' /\ RowsFollow
  <1>1. ASSUME NEW v \in Workers PROVE Sound(worker'[v], runs')
    BY StaysSound DEF IInv, SoundWorkers
  <1>2. SoundWorkers'
    BY <1>1 DEF SoundWorkers, IInv, Sound, Worker, Covers
  <1>3. QED
    BY <1>2 DEF IInv, RowsKept

-----------------------------------------------------------------------------
(* Rows *)

LEMMA NewRuns ==
  ASSUME NEW window \in Windows, NEW left \in Int
  PROVE  Truthful(NewRun(window, left))
  <1>1. 1 \in 1..LastPage(window)
    BY LastPages DEF LastPage
  <1>2. NewRun(window, left) \in Run
    BY <1>1, LastPages, SyncAssumption DEF NewRun, Run, Nonterminal
  <1>3. 1..(1 - 1) = {}
    OBVIOUS
  <1>4. QED
    BY <1>1, <1>2, <1>3 DEF Truthful, Covers, NewRun

LEMMA ResumedRuns ==
  ASSUME NEW run, Truthful(run)
  PROVE  Truthful(ResumedRun(run))
  <1>1. run \in Run
    BY DEF Truthful
  <1>2. NewRun(run.window, 0) \in Run
    <2>1. run.window \in Windows
      BY <1>1 DEF Run
    <2>2. QED
      BY <2>1, NewRuns DEF Truthful
  <1>3. ResumedRun(run) \in Run
    BY <1>1, <1>2 DEF ResumedRun, Run
  <1>4. /\ ResumedRun(run).window = run.window
        /\ ResumedRun(run).cursor = run.cursor
        /\ ResumedRun(run).done = run.done
        /\ ~ResumedRun(run).exhausted
        /\ ~ResumedRun(run).spoilt
    BY DEF ResumedRun, NewRun
  <1>5. QED
    BY <1>3, <1>4 DEF Truthful, Covers

LEMMA EndedRow ==
  ASSUME NEW run \in Run, NEW status \in Nonterminal \cup Terminal,
         NEW holder \in Workers \cup {Nobody}, NEW left \in Int,
         NEW cursor \in 1..Pages, NEW exhausted \in BOOLEAN
  PROVE  [run EXCEPT !.status = status, !.holder = holder, !.left = left,
                     !.cursor = cursor, !.exhausted = exhausted] \in Run
  BY DEF Run

LEMMA LeftRow ==
  ASSUME NEW run \in Run, NEW status \in Nonterminal \cup Terminal,
         NEW holder \in Workers \cup {Nobody}, NEW left \in Int
  PROVE  [run EXCEPT !.status = status, !.holder = holder, !.left = left] \in Run
  BY DEF Run

LEMMA ClaimedRow ==
  ASSUME NEW run \in Run, NEW status \in Nonterminal \cup Terminal,
         NEW attempts \in Nat, NEW holder \in Workers \cup {Nobody}, NEW left \in Int,
         NEW fresh \in SUBSET Expiries
  PROVE  [run EXCEPT !.status = status, !.attempts = attempts, !.holder = holder,
                     !.left = left, !.fresh = fresh] \in Run
  BY DEF Run

\* A row that goes on, or ends, without new pages.
LEMMA SamePages ==
  ASSUME NEW run, Truthful(run), run.status \in Nonterminal,
         NEW next \in Run, next.status # "SUCCEEDED",
         next.window = run.window, next.cursor = run.cursor, next.done = run.done,
         next.exhausted = run.exhausted, next.spoilt = run.spoilt,
         next.incidents = run.incidents
  PROVE  Truthful(next) /\ Follows(run, next)
  BY DEF Truthful, Covers, Follows, Nonterminal, Terminal

LEMMA PageAdded ==
  ASSUME IInv, NEW w \in Workers, At(w, "arrived"), Holds(w)
  PROVE  /\ Truthful(WithPage(RunOf(w), w))
         /\ Follows(RunOf(w), WithPage(RunOf(w), w))
         /\ ~IsLast(w) => Covers(WithPage(RunOf(w), w), worker[w].cursor + 1)
  <1> DEFINE run == RunOf(w)
             page == worker[w].cursor
             next == WithPage(run, w)
             incidents == IncidentsAfter(run, worker[w].invalid)
  <1>1. worker[w] \in Worker /\ Truthful(run) /\ Covers(run, page) /\ run \in Run
    BY DEF IInv, SoundWorkers, TruthfulRuns, Sound, At, RunOf, Truthful
  <1>2. run.status = "RUNNING"
    BY DEF Holds
  <1>3. page \in 1..LastPage(run.window) /\ LastPage(run.window) \in 1..Pages
    BY <1>1, LastPages DEF Covers
  <1>4. incidents \in BOOLEAN /\ Age(w) \in Nat
    BY <1>1 DEF IncidentsAfter, Run, Worker, Age
  <1>5. /\ next.window = run.window
        /\ next.done = run.done \cup {page}
        /\ next.incidents = incidents
        /\ next.spoilt = (run.spoilt \/ worker[w].invalid)
        /\ next.cursor = IF IsLast(w) THEN 1 ELSE page + 1
        /\ next.exhausted = IF IsLast(w) THEN TRUE ELSE run.exhausted
        /\ next.status = IF IsLast(w)
                         THEN IF incidents THEN "PARTIAL" ELSE "SUCCEEDED"
                         ELSE run.status
    BY <1>1 DEF WithPage, Run
  <1>6. next \in Run
    <2> DEFINE counted == [run EXCEPT !.incidents = incidents, !.done = @ \cup {page},
                             !.own = @ \cup {page}, !.seen[page] = worker[w].seen,
                             !.spoilt = @ \/ worker[w].invalid]
    <2>1. counted \in Run
      BY <1>1, <1>3, <1>4 DEF Run, Worker
    <2>2. CASE IsLast(w)
      <3> DEFINE ending == IF incidents THEN "PARTIAL" ELSE "SUCCEEDED"
      <3>1. next = [counted EXCEPT !.status = ending, !.holder = Nobody, !.left = 0,
                      !.cursor = 1, !.exhausted = TRUE]
        BY <2>2 DEF WithPage
      <3>2. ending \in Nonterminal \cup Terminal /\ 1 \in 1..Pages /\ 0 \in Int
        BY SyncAssumption DEF Terminal
      <3> HIDE DEF counted, next, ending
      <3>3. QED
        BY <2>1, <3>1, <3>2, EndedRow
    <2>3. CASE ~IsLast(w)
      <3>1. next = [counted EXCEPT !.left = Lease - Age(w), !.cursor = page + 1]
        BY <2>3 DEF WithPage
      <3>2. page + 1 \in 1..Pages
        BY <1>3, <2>3, SyncAssumption DEF IsLast, RunOf
      <3>3. Lease - Age(w) \in Int
        BY <1>4, SyncAssumption
      <3> HIDE DEF counted, next
      <3>4. QED
        BY <2>1, <3>1, <3>2, <3>3 DEF Run
    <2>4. QED
      BY <2>2, <2>3
  <1>7. 1..page \subseteq next.done
    BY <1>1, <1>3, <1>5 DEF Covers
  <1>8. Covers(next, next.cursor) /\ (~IsLast(w) => Covers(next, page + 1))
    BY <1>3, <1>5, <1>7 DEF Covers, IsLast, RunOf
  <1>9. next.exhausted => 1..LastPage(next.window) \subseteq next.done
    BY <1>1, <1>5, <1>7 DEF IsLast, RunOf, Truthful
  <1>10. next.spoilt => next.incidents
    BY <1>1, <1>5 DEF IncidentsAfter, Truthful
  <1>11. next.status = "SUCCEEDED" => ~next.spoilt
    BY <1>2, <1>5, <1>10
  <1>12. Follows(run, next)
    BY <1>2, <1>5 DEF Follows, Terminal
  <1>13. QED
    BY <1>6, <1>8, <1>9, <1>10, <1>11, <1>12 DEF Truthful

-----------------------------------------------------------------------------
(* Each action *)

Step == IInv' /\ RowsFollow

\* Steps without a run in hand.
Quiet == {"idle", "sweeping", "claiming", "latest", "active", "enqueue", "outcome",
          "ready", "over"}

LEMMA WorkerFacts ==
  ASSUME IInv, NEW w \in Workers
  PROVE  /\ worker[w] \in Worker /\ Sound(worker[w], runs)
         /\ worker[w].run \in DOMAIN runs
         /\ RunOf(w) \in Run /\ Truthful(RunOf(w))
         /\ Age(w) \in Nat /\ AgeNow(w) \in Nat
         /\ worker[w].begun \in SUBSET Expiries /\ BegunNow(w) \in SUBSET Expiries
         /\ DOMAIN runs = 1..Len(runs) /\ 1 \in DOMAIN runs
  <1>1. Sound(worker[w], runs) /\ worker[w] \in Worker
    BY DEF IInv, SoundWorkers
  <1>2. worker[w].run \in DOMAIN runs
    BY <1>1 DEF Sound
  <1>3. Truthful(RunOf(w)) /\ RunOf(w) \in Run
    BY <1>2 DEF IInv, TruthfulRuns, RunOf, Truthful
  <1>4. /\ Age(w) \in Nat /\ AgeNow(w) \in Nat
        /\ worker[w].begun \in SUBSET Expiries /\ BegunNow(w) \in SUBSET Expiries
    BY <1>1 DEF Age, AgeNow, BegunNow, Worker
  <1>5. runs \in Seq(Run)
    BY DEF IInv, TruthfulRuns
  <1>6. DOMAIN runs = 1..Len(runs) /\ Len(runs) \in Nat
    BY <1>5
  <1>7. 1 \in DOMAIN runs
    BY <1>2, <1>6
  <1>8. QED
    BY <1>1, <1>2, <1>3, <1>4, <1>6, <1>7

LEMMA QuietSound ==
  ASSUME RowsKept, NEW known \in Worker, known.at \in Quiet, known.cursor = 1,
         known.run \in DOMAIN runs
  PROVE  Sound(known, runs')
  BY DEF RowsKept, RowsFollow, Sound, Quiet

LEMMA IdleWorker == Idle \in Worker
  BY SyncAssumption DEF Idle, Worker

LEMMA WorkerEnds ==
  ASSUME IInv, RowsKept, NEW w \in Workers, Ends(w)
  PROVE  Step
  <1> DEFINE at == IF w \in Expiries THEN "over" ELSE "idle"
             known == [Idle EXCEPT !.at = at]
  <1>1. at \in Quiet
    BY DEF Quiet
  <1>2. known \in Worker /\ known.at \in Quiet /\ known.cursor = 1 /\ known.run = 1
    <2> HIDE DEF at
    <2>1. QED
      BY <1>1, IdleWorker DEF Idle, Worker, Quiet
  <1>3. Becomes(w, known)
    BY DEF Ends
  <1> HIDE DEF known
  <1>4. Sound(known, runs')
    BY <1>2, QuietSound, WorkerFacts
  <1>5. QED
    BY <1>3, <1>4, WorkerMoves DEF Step

LEMMA AtStepFacts ==
  ASSUME IInv, NEW w \in Workers, NEW step \in Quiet \cup {"page"}
  PROVE  /\ AtStep(w, step) \in Worker
         /\ AtStep(w, step).at = step
         /\ AtStep(w, step).run = worker[w].run
         /\ AtStep(w, step).cursor = 1
  BY WorkerFacts, IdleWorker DEF AtStep, Worker, Idle, Quiet

LEMMA WorkerAtStep ==
  ASSUME IInv, RowsKept, NEW w \in Workers, NEW step \in Quiet,
         Becomes(w, AtStep(w, step))
  PROVE  Step
  BY AtStepFacts, QuietSound, WorkerFacts, WorkerMoves DEF Step

LEMMA WorkerClaimsAgain ==
  ASSUME IInv, RowsKept, NEW w \in Workers, ClaimsAgain(w)
  PROVE  Step
  <1> DEFINE begun == worker[w].begun
             known == [AtStep(w, "claiming") EXCEPT !.age = Age(w), !.begun = begun]
  <1>1. /\ known \in Worker /\ known.at = "claiming" /\ known.cursor = 1
        /\ known.run = worker[w].run
    <2> DEFINE again == AtStep(w, "claiming")
               aged == [again EXCEPT !.age = Age(w)]
    <2>1. /\ again \in Worker /\ again.at = "claiming" /\ again.cursor = 1
          /\ again.run = worker[w].run
      BY AtStepFacts DEF Quiet
    <2>2. Age(w) \in Nat /\ begun \in SUBSET Expiries
      BY WorkerFacts
    <2> HIDE DEF again, begun
    <2>3. /\ aged \in Worker /\ aged.at = "claiming" /\ aged.cursor = 1
          /\ aged.run = worker[w].run
      BY <2>1, <2>2 DEF Worker
    <2>4. known = [aged EXCEPT !.begun = begun]
      BY <2>1 DEF again, Worker
    <2> HIDE DEF aged, known
    <2>5. QED
      BY <2>2, <2>3, <2>4 DEF Worker
  <1> HIDE DEF known
  <1>2. Sound(known, runs')
    BY <1>1, QuietSound, WorkerFacts DEF Quiet
  <1>3. QED
    BY <1>2, WorkerMoves DEF Step, ClaimsAgain, known

LEMMA WorkerFinishes ==
  ASSUME IInv, RowsKept, NEW w \in Workers, Finishes(w)
  PROVE  Step
  BY WorkerAtStep, WorkerEnds DEF Finishes, Quiet

\* Between two steps without a run in hand, with a run that exists.
LEMMA WorkerGoesTo ==
  ASSUME IInv, RowsKept, NEW w \in Workers, worker[w].at \in Quiet,
         NEW step \in Quiet, NEW i \in DOMAIN runs',
         Becomes(w, [worker[w] EXCEPT !.run = i, !.at = step])
  PROVE  Step
  <1> DEFINE known == [worker[w] EXCEPT !.run = i, !.at = step]
  <1>1. i \in Nat \ {0}
    <2>1. runs' \in Seq(Run)
      BY DEF RowsKept, TruthfulRuns
    <2>2. QED
      BY <2>1
  <1>2. worker[w].cursor = 1
    BY WorkerFacts DEF Sound, Quiet
  <1>3. /\ known \in Worker /\ known.at = step /\ known.cursor = 1
        /\ known.run = i
    BY <1>1, <1>2, WorkerFacts DEF Worker, Quiet
  <1> HIDE DEF known
  <1>4. Sound(known, runs')
    BY <1>3 DEF Sound, Quiet
  <1>5. QED
    BY <1>4, WorkerMoves DEF Step, known

LEMMA WorkerGoes ==
  ASSUME IInv, RowsKept, NEW w \in Workers, worker[w].at \in Quiet,
         NEW step \in Quiet, Goes(w, step)
  PROVE  Step
  <1>1. worker[w].run \in DOMAIN runs'
    BY WorkerFacts DEF RowsKept, RowsFollow
  <1>2. [worker[w] EXCEPT !.at = step] = [worker[w] EXCEPT !.run = worker[w].run, !.at = step]
    BY WorkerFacts DEF Worker
  <1>3. QED
    BY <1>1, <1>2, WorkerGoesTo DEF Goes

LEMMA WorkerBegins ==
  ASSUME IInv, RowsKept, NEW w \in Workers, worker[w].at \in Quiet,
         NEW step \in Quiet, Begins(w, step)
  PROVE  Step
  <1> DEFINE begun == Started \cup ({w} \cap Expiries)
             known == [worker[w] EXCEPT !.at = step, !.begun = begun]
  <1>1. begun \in SUBSET Expiries /\ Becomes(w, known)
    BY DEF Started, Begins
  <1>2. worker[w].cursor = 1
    BY WorkerFacts DEF Sound, Quiet
  <1> HIDE DEF begun
  <1>3. /\ known \in Worker /\ known.at = step /\ known.cursor = 1
        /\ known.run = worker[w].run
    BY <1>1, <1>2, WorkerFacts DEF Worker, Quiet
  <1> HIDE DEF known
  <1>4. Sound(known, runs')
    BY <1>3, QuietSound, WorkerFacts
  <1>5. QED
    BY <1>1, <1>4, WorkerMoves DEF Step

LEMMA StepCreates ==
  ASSUME IInv, requestManualBankSync
  PROVE  Step
  <1>1. TruthfulRuns
    BY DEF IInv
  <1>2. RowsKept
    <2>1. CASE runs' = Append(runs, NewRun("full", 0))
      BY <1>1, <2>1, NewRuns, RowAdded DEF Windows
    <2>2. CASE \E i \in DOMAIN runs : runs' = Append(runs, ResumedRun(runs[i]))
      BY <1>1, <2>2, ResumedRuns, RowAdded DEF TruthfulRuns
    <2>3. QED
      BY <2>1, <2>2 DEF requestManualBankSync
  <1>3. QED
    BY <1>2, WorkersStay DEF Step, requestManualBankSync

LEMMA StepSweeps ==
  ASSUME IInv, NEW w \in Sweeps, SweepStep(w)
  PROVE  Step
  <1>1. TruthfulRuns /\ w \in Workers
    BY DEF IInv, Workers
  <1>2. CASE SweepStarts(w)
    BY <1>1, <1>2, NoRowChanges, WorkerBegins DEF SweepStarts, At, Quiet
  <1>3. CASE enqueueDueBankSyncRuns(w)
    <2>1. RowsKept
      <3>1. CASE UNCHANGED runs
        BY <1>1, <3>1, NoRowChanges
      <3>2. CASE \E window \in ScheduledWindows : runs' = Append(runs, NewRun(window, -Age(w)))
        <4>1. PICK window \in ScheduledWindows : runs' = Append(runs, NewRun(window, -Age(w)))
          BY <3>2
        <4>2. window \in Windows /\ -Age(w) \in Int
          BY <1>1, WorkerFacts DEF ScheduledWindows, Windows
        <4>3. QED
          BY <1>1, <4>1, <4>2, NewRuns, RowAdded
      <3>3. QED
        BY <1>3, <3>1, <3>2 DEF enqueueDueBankSyncRuns
    <2>2. QED
      BY <1>1, <1>3, <2>1, WorkerGoes DEF enqueueDueBankSyncRuns, At, Quiet
  <1>4. QED
    BY <1>2, <1>3 DEF SweepStep

LEMMA StepReads ==
  ASSUME IInv, NEW w \in Workers, ClaimReads(w)
  PROVE  Step
  <1>1. RowsKept
    BY NoRowChanges DEF IInv, ClaimReads
  <1>2. CASE Ends(w)
    BY <1>1, <1>2, WorkerEnds
  <1>3. ASSUME NEW i \in Candidates(w),
               Becomes(w, [worker[w] EXCEPT !.at = "candidate", !.run = i,
                  !.attempts = runs[i].attempts, !.progress = (runs[i].own # {}),
                  !.cursor = runs[i].cursor])
        PROVE  Step
    <2> DEFINE known == [worker[w] EXCEPT !.at = "candidate", !.run = i,
                  !.attempts = runs[i].attempts, !.progress = (runs[i].own # {}),
                  !.cursor = runs[i].cursor]
    <2>1. i \in DOMAIN runs /\ runs[i] \in Run /\ Truthful(runs[i])
      BY DEF Candidates, IInv, TruthfulRuns, Truthful
    <2>2. i \in Nat \ {0}
      BY <2>1, WorkerFacts
    <2>3. runs[i].attempts \in Nat /\ runs[i].cursor \in 1..Pages
      BY <2>1 DEF Run
    <2>4. /\ known \in Worker /\ known.at = "candidate" /\ known.run = i
          /\ known.cursor = runs[i].cursor
      BY <2>2, <2>3, WorkerFacts DEF Worker
    <2> HIDE DEF known
    <2>5. Sound(known, runs)
      BY <2>1, <2>4 DEF Sound, Truthful
    <2>6. Sound(known, runs')
      BY <1>1, <2>5, StaysSound DEF IInv
    <2>7. QED
      BY <1>1, <1>3, <2>6, WorkerMoves DEF Step, known
  <1>4. QED
    BY <1>2, <1>3 DEF ClaimReads

\* The row of a worker is replaced by one with the same pages.
LEMMA RowOfWorker ==
  ASSUME IInv, NEW w \in Workers, NEW next \in Run, RunOf(w).status \in Nonterminal,
         next.status # "SUCCEEDED", next.window = RunOf(w).window,
         next.cursor = RunOf(w).cursor, next.done = RunOf(w).done,
         next.exhausted = RunOf(w).exhausted, next.spoilt = RunOf(w).spoilt,
         next.incidents = RunOf(w).incidents, SetRun(w, next)
  PROVE  RowsKept
  <1>1. Truthful(next) /\ Follows(RunOf(w), next)
    BY SamePages, WorkerFacts
  <1>2. QED
    BY <1>1, WorkerFacts, RowReplaced DEF IInv, SetRun, RunOf

LEMMA StepGivesUp ==
  ASSUME IInv, NEW w \in Workers, GivesUp(w)
  PROVE  Step
  <1>1. RowsKept
    <2>1. CASE UNCHANGED runs
      BY <2>1, NoRowChanges DEF IInv
    <2>2. CASE Due(RunOf(w), w) /\ ~UNCHANGED runs
      <3> DEFINE status == IF worker[w].progress THEN "PARTIAL" ELSE "FAILED"
                 next == [RunOf(w) EXCEPT !.status = status, !.holder = Nobody, !.left = 0]
      <3>1. SetRun(w, next)
        BY <2>2 DEF GivesUp
      <3>2. status \in Nonterminal \cup Terminal /\ status # "SUCCEEDED" /\ 0 \in Int
        BY DEF Terminal
      <3> HIDE DEF status
      <3>3. next \in Run
        BY <3>2, WorkerFacts, LeftRow
      <3>4. RunOf(w) \in Run /\ RunOf(w).status \in Nonterminal
        BY <2>2, WorkerFacts DEF Due
      <3>5. /\ next.status = status /\ next.window = RunOf(w).window
            /\ next.cursor = RunOf(w).cursor /\ next.done = RunOf(w).done
            /\ next.exhausted = RunOf(w).exhausted /\ next.spoilt = RunOf(w).spoilt
            /\ next.incidents = RunOf(w).incidents
        BY <3>4 DEF Run
      <3> HIDE DEF next
      <3>6. QED
        BY <3>1, <3>2, <3>3, <3>4, <3>5, RowOfWorker
    <2>3. QED
      BY <2>1, <2>2 DEF GivesUp
  <1>2. QED
    BY <1>1, WorkerEnds, WorkerClaimsAgain DEF GivesUp

\* A worker that asks for a page of its run, as the row now is.
LEMMA WorkerAsks ==
  ASSUME IInv, RowsKept, NEW w \in Workers, NEW known \in Worker,
         known.at \in {"page", "arrived"}, known.run = worker[w].run,
         Covers(runs'[worker[w].run], known.cursor), Becomes(w, known)
  PROVE  Step
  <1>1. worker[w].run \in DOMAIN runs'
    BY WorkerFacts DEF RowsKept, RowsFollow
  <1>2. Sound(known, runs')
    BY <1>1 DEF Sound
  <1>3. QED
    BY <1>2, WorkerMoves DEF Step

LEMMA StepClaims ==
  ASSUME IInv, NEW w \in Workers, ClaimWrites(w)
  PROVE  Step
  <1>1. CASE ClaimsAgain(w) /\ UNCHANGED runs
    BY <1>1, NoRowChanges, WorkerClaimsAgain DEF IInv
  <1>2. CASE Claimable(RunOf(w), w) /\ ~(ClaimsAgain(w) /\ UNCHANGED runs)
    <2> DEFINE fresh == IF worker[w].attempts = 0 THEN worker[w].begun ELSE RunOf(w).fresh
               next == [RunOf(w) EXCEPT !.status = "RUNNING",
                          !.attempts = RunOf(w).attempts + 1, !.holder = w,
                          !.left = Lease - Age(w), !.fresh = fresh]
               cursor == worker[w].cursor
               known == [AtStep(w, "page") EXCEPT !.cursor = cursor]
    <2>1. RunOf(w) \in Run /\ RunOf(w).status \in Nonterminal
      BY <1>2, WorkerFacts DEF Claimable, Due
    <2>2. SetRun(w, next) /\ Becomes(w, known)
      BY <1>2, <2>1 DEF ClaimWrites, Claimed
    <2>3. RowsKept
      <3>1. fresh \in SUBSET Expiries
        BY <2>1, WorkerFacts DEF Run
      <3> HIDE DEF fresh
      <3>2. /\ "RUNNING" \in Nonterminal \cup Terminal /\ RunOf(w).attempts + 1 \in Nat
            /\ Lease - Age(w) \in Int
        BY <2>1, WorkerFacts, SyncAssumption DEF Nonterminal, Run
      <3>3. next \in Run
        BY <2>1, <3>1, <3>2, ClaimedRow
      <3>4. /\ next.status = "RUNNING" /\ next.window = RunOf(w).window
            /\ next.cursor = RunOf(w).cursor /\ next.done = RunOf(w).done
            /\ next.exhausted = RunOf(w).exhausted /\ next.spoilt = RunOf(w).spoilt
            /\ next.incidents = RunOf(w).incidents
        BY <2>1 DEF Run
      <3> HIDE DEF next
      <3>5. QED
        BY <2>1, <2>2, <3>3, <3>4, RowOfWorker
    <2>4. Covers(RunOf(w), cursor) /\ cursor \in 1..Pages
      BY WorkerFacts DEF ClaimWrites, At, Sound, RunOf, Worker
    <2>5. Covers(runs'[worker[w].run], cursor)
      BY <2>3, <2>4, WorkerFacts DEF RowsKept, RowsFollow, Follows, Covers, RunOf
    <2>6. known \in Worker /\ known.at = "page" /\ known.run = worker[w].run /\ known.cursor = cursor
      <3> DEFINE step == AtStep(w, "page")
      <3>1. step \in Worker /\ step.at = "page" /\ step.run = worker[w].run
        BY AtStepFacts
      <3> HIDE DEF step, cursor
      <3>2. /\ [step EXCEPT !.cursor = cursor] \in Worker
            /\ [step EXCEPT !.cursor = cursor].at = "page"
            /\ [step EXCEPT !.cursor = cursor].run = worker[w].run
            /\ [step EXCEPT !.cursor = cursor].cursor = cursor
        BY <2>4, <3>1 DEF Worker
      <3>3. QED
        BY <3>2 DEF step
    <2> HIDE DEF known, cursor
    <2>7. QED
      BY <2>2, <2>3, <2>5, <2>6, WorkerAsks
  <1>3. QED
    BY <1>1, <1>2 DEF ClaimWrites

LEMMA StepArrives ==
  ASSUME IInv, NEW w \in Workers, PageArrives(w)
  PROVE  Step
  <1>1. RowsKept /\ runs' = runs
    BY NoRowChanges DEF IInv, PageArrives
  <1>2. PICK invalid \in BOOLEAN : Becomes(w,
          [worker[w] EXCEPT !.at = "arrived", !.invalid = invalid, !.seen = Started,
                            !.age = AgeNow(w)])
    BY DEF PageArrives
  <1> DEFINE known == [worker[w] EXCEPT !.at = "arrived", !.invalid = invalid,
                                        !.seen = Started, !.age = AgeNow(w)]
  <1>3. Started \in SUBSET Expiries /\ AgeNow(w) \in Nat /\ worker[w] \in Worker
    BY WorkerFacts DEF Started
  <1>4. /\ known \in Worker /\ known.at = "arrived" /\ known.run = worker[w].run
        /\ known.cursor = worker[w].cursor
    BY <1>3 DEF Worker
  <1>5. Covers(runs'[worker[w].run], worker[w].cursor)
    BY <1>1, WorkerFacts DEF PageArrives, At, Sound
  <1> HIDE DEF known
  <1>6. QED
    BY <1>1, <1>2, <1>4, <1>5, WorkerAsks DEF known

LEMMA StepCommits ==
  ASSUME IInv, NEW w \in Workers, PageCommits(w)
  PROVE  Step
  <1> DEFINE next == WithPage(RunOf(w), w)
             page == worker[w].cursor
  <1>1. Truthful(next) /\ Follows(RunOf(w), next) /\ (~IsLast(w) => Covers(next, page + 1))
    BY PageAdded DEF PageCommits
  <1> HIDE DEF next
  <1>2. RowsKept /\ runs'[worker[w].run] = next
    BY <1>1, WorkerFacts, RowReplaced DEF IInv, PageCommits, SetRun, RunOf, next
  <1>3. CASE IsLast(w)
    BY <1>2, <1>3, WorkerFinishes DEF PageCommits
  <1>4. CASE ~IsLast(w)
    <2> DEFINE known == [AtStep(w, "page") EXCEPT !.cursor = page + 1,
                           !.restarted = worker[w].restarted]
    <2>1. Covers(next, page + 1) /\ page + 1 \in 1..Pages
      BY <1>1, <1>4, LastPages, SyncAssumption DEF Covers
    <2>2. worker[w].restarted \in BOOLEAN
      BY WorkerFacts DEF Worker
    <2>3. known \in Worker /\ known.at = "page" /\ known.run = worker[w].run /\ known.cursor = page + 1
      <3> DEFINE step == AtStep(w, "page")
                 restarted == worker[w].restarted
                 cursor == page + 1
                 asked == [step EXCEPT !.cursor = cursor, !.restarted = restarted]
      <3>1. step \in Worker /\ step.at = "page" /\ step.run = worker[w].run
        BY AtStepFacts
      <3>2. cursor \in 1..Pages /\ restarted \in BOOLEAN
        BY <2>1, <2>2
      <3> HIDE DEF step, cursor, restarted
      <3>3. /\ asked \in Worker /\ asked.at = "page" /\ asked.run = worker[w].run
            /\ asked.cursor = cursor
        BY <3>1, <3>2 DEF Worker
      <3>4. QED
        BY <3>3 DEF step, restarted, cursor
    <2>4. Becomes(w, known)
      BY <1>4 DEF PageCommits
    <2> HIDE DEF known
    <2>5. QED
      BY <1>2, <2>1, <2>3, <2>4, WorkerAsks
  <1>5. QED
    BY <1>3, <1>4

LEMMA StepFails ==
  ASSUME IInv, NEW w \in Workers, PageFails(w)
  PROVE  Step
  <1>1. RowsKept
    <2>1. CASE UNCHANGED runs
      BY <2>1, NoRowChanges DEF IInv
    <2>2. ASSUME Holds(w), NEW retryable \in BOOLEAN, SetRun(w, Failed(RunOf(w), w, retryable))
          PROVE  RowsKept
      <3> DEFINE retries == Retries(RunOf(w), retryable)
                 ending == IF RunOf(w).own # {} THEN "PARTIAL" ELSE "FAILED"
                 status == IF retries THEN "RETRYING" ELSE ending
                 left == IF retries THEN Backoff - Age(w) ELSE 0
                 next == [RunOf(w) EXCEPT !.status = status, !.holder = Nobody, !.left = left]
      <3>1. SetRun(w, next)
        BY <2>2 DEF Failed
      <3>2. status \in Nonterminal \cup Terminal /\ status # "SUCCEEDED"
        BY DEF Nonterminal, Terminal
      <3>3. left \in Int
        BY WorkerFacts, SyncAssumption
      <3> HIDE DEF status, left
      <3>4. next \in Run
        BY <3>2, <3>3, WorkerFacts, LeftRow
      <3>5. RunOf(w) \in Run /\ RunOf(w).status \in Nonterminal
        BY <2>2, WorkerFacts DEF Holds, Nonterminal
      <3>6. /\ next.status = status /\ next.window = RunOf(w).window
            /\ next.cursor = RunOf(w).cursor /\ next.done = RunOf(w).done
            /\ next.exhausted = RunOf(w).exhausted /\ next.spoilt = RunOf(w).spoilt
            /\ next.incidents = RunOf(w).incidents
        BY <3>5 DEF Run
      <3> HIDE DEF next
      <3>7. QED
        BY <3>1, <3>2, <3>4, <3>5, <3>6, RowOfWorker
    <2>3. QED
      BY <2>1, <2>2 DEF PageFails
  <1>2. QED
    BY <1>1, WorkerFinishes DEF PageFails

LEMMA StepRestarts ==
  ASSUME IInv, NEW w \in Workers, CursorRejected(w)
  PROVE  Step
  <1>1. CASE UNCHANGED runs /\ Finishes(w)
    BY <1>1, NoRowChanges, WorkerFinishes DEF IInv
  <1>2. CASE Holds(w) /\ ~(UNCHANGED runs /\ Finishes(w))
    <2> DEFINE left == Lease - Age(w)
               next == [RunOf(w) EXCEPT !.cursor = 1, !.left = left]
               known == [worker[w] EXCEPT !.cursor = 1, !.restarted = TRUE]
    <2>1. SetRun(w, next) /\ Becomes(w, known)
      BY <1>2 DEF CursorRejected
    <2>2. RunOf(w) \in Run /\ Truthful(RunOf(w)) /\ RunOf(w).status = "RUNNING"
      BY <1>2, WorkerFacts DEF Holds
    <2>3. left \in Int /\ 1 \in 1..Pages
      BY WorkerFacts, SyncAssumption
    <2> HIDE DEF left
    <2>4. /\ next \in Run /\ next.status = "RUNNING" /\ next.window = RunOf(w).window
          /\ next.cursor = 1 /\ next.done = RunOf(w).done
          /\ next.exhausted = RunOf(w).exhausted /\ next.spoilt = RunOf(w).spoilt
          /\ next.incidents = RunOf(w).incidents
      BY <2>2, <2>3 DEF Run
    <2>5. Covers(next, 1)
      BY <2>4, LastPages, SyncAssumption DEF Covers
    <2>6. Truthful(next) /\ Follows(RunOf(w), next)
      BY <2>2, <2>4, <2>5 DEF Truthful, Follows, Terminal
    <2> HIDE DEF next
    <2>7. RowsKept /\ runs'[worker[w].run] = next
      BY <2>1, <2>6, WorkerFacts, RowReplaced DEF IInv, SetRun, RunOf
    <2>8. /\ known \in Worker /\ known.at = "page" /\ known.run = worker[w].run
          /\ known.cursor = 1
      BY <2>3, WorkerFacts DEF Worker, CursorRejected, At
    <2> HIDE DEF known
    <2>9. QED
      BY <2>1, <2>5, <2>7, <2>8, WorkerAsks
  <1>3. QED
    BY <1>1, <1>2 DEF CursorRejected

LEMMA StepProcesses ==
  ASSUME IInv, NEW w \in Workers, ProcessStep(w)
  PROVE  Step
  <1>1. CASE PageRollsBack(w) \/ ProcessThrows(w)
    BY <1>1, NoRowChanges, WorkerFinishes DEF IInv, PageRollsBack, ProcessThrows
  <1>2. QED
    BY <1>1, StepReads, StepGivesUp, StepClaims, StepArrives, StepCommits, StepFails,
       StepRestarts DEF ProcessStep

LEMMA StepExpires ==
  ASSUME IInv, NEW e \in Expiries, ExpiryStarts(e) \/ ExpiryStep(e)
  PROVE  Step
  <1>1. e \in Workers /\ TruthfulRuns
    BY DEF Workers, IInv
  <1>2. CASE UNCHANGED runs
    <2>1. RowsKept /\ runs' = runs
      BY <1>1, <1>2, NoRowChanges
    <2>2. CASE Ends(e)
      BY <1>1, <2>1, <2>2, WorkerEnds
    <2>3. CASE ExpiryStarts(e)
      BY <1>1, <2>1, <2>3, WorkerBegins DEF ExpiryStarts, At, Quiet
    <2>4. CASE InspectsLatest(e) /\ ~Ends(e)
      <3>1. CASE Goes(e, "active")
        BY <1>1, <2>1, <2>4, <3>1, WorkerGoes DEF InspectsLatest, At, Quiet
      <3>2. CASE Becomes(e, [AtStep(e, "ready") EXCEPT !.run = Len(runs)])
        <4> DEFINE step == AtStep(e, "ready")
                   latest == Len(runs)
                   known == [step EXCEPT !.run = latest]
        <4>1. step \in Worker /\ step.at = "ready" /\ step.cursor = 1
          BY <1>1, AtStepFacts DEF Quiet
        <4>2. latest \in Nat \ {0} /\ latest \in DOMAIN runs
          <5>1. DOMAIN runs = 1..Len(runs) /\ 1 \in DOMAIN runs /\ Len(runs) \in Nat
            BY <1>1, WorkerFacts DEF TruthfulRuns
          <5>2. QED
            BY <5>1
        <4> HIDE DEF step, latest
        <4>3. /\ known \in Worker /\ known.at = "ready" /\ known.cursor = 1
              /\ known.run = latest
          BY <4>1, <4>2 DEF Worker
        <4>4. Becomes(e, known)
          BY <3>2 DEF step, latest
        <4> HIDE DEF known
        <4>5. Sound(known, runs')
          BY <2>1, <4>2, <4>3, QuietSound DEF Quiet
        <4>6. QED
          BY <1>1, <2>1, <4>4, <4>5, WorkerMoves DEF Step
      <3>3. QED
        BY <2>4, <3>1, <3>2 DEF InspectsLatest
    <2>5. CASE LooksForActive(e) /\ ~Ends(e)
      <3>1. CASE Goes(e, "enqueue")
        BY <1>1, <2>1, <2>5, <3>1, WorkerGoes DEF LooksForActive, At, Quiet
      <3>2. CASE \E i \in ActiveRuns :
                   Becomes(e, [worker[e] EXCEPT !.run = i, !.at = "claiming"])
        BY <1>1, <2>1, <2>5, <3>2, WorkerGoesTo DEF LooksForActive, At, Quiet, ActiveRuns
      <3>3. QED
        BY <2>5, <3>1, <3>2 DEF LooksForActive
    <2>6. CASE enqueueBankSync(e)
      <3>1. \E i \in ActiveRuns : Becomes(e, [worker[e] EXCEPT !.run = i, !.at = "claiming"])
        <4>1. runs # Append(runs, NewRun("full", -Age(e)))
          BY <1>1 DEF TruthfulRuns
        <4>2. QED
          BY <1>2, <2>6, <4>1 DEF enqueueBankSync
      <3>2. QED
        BY <1>1, <2>1, <2>6, <3>1, WorkerGoesTo DEF enqueueBankSync, At, Quiet, ActiveRuns
    <2>7. CASE InspectsOutcome(e) /\ ~Ends(e)
      <3>1. CASE Goes(e, "ready")
        BY <1>1, <2>1, <2>7, <3>1, WorkerGoes DEF InspectsOutcome, At, Quiet
      <3>2. CASE Becomes(e, [worker[e] EXCEPT !.at = "latest", !.round = worker[e].round + 1])
        <4> DEFINE round == worker[e].round + 1
                   known == [worker[e] EXCEPT !.at = "latest", !.round = round]
        <4>1. /\ worker[e] \in Worker /\ round \in Nat /\ worker[e].cursor = 1
              /\ worker[e].run \in DOMAIN runs
          BY <1>1, <2>7, WorkerFacts DEF Worker, InspectsOutcome, At, Sound
        <4>2. Becomes(e, known)
          BY <3>2
        <4> HIDE DEF round
        <4>3. /\ known \in Worker /\ known.at = "latest" /\ known.cursor = 1
              /\ known.run = worker[e].run
          BY <4>1 DEF Worker
        <4> HIDE DEF known
        <4>4. Sound(known, runs')
          BY <2>1, <4>1, <4>3, QuietSound DEF Quiet
        <4>5. QED
          BY <1>1, <2>1, <4>2, <4>4, WorkerMoves DEF Step
      <3>3. QED
        BY <2>7, <3>1, <3>2 DEF InspectsOutcome
    <2>8. QED
      BY <2>2, <2>3, <2>4, <2>5, <2>6, <2>7
         DEF ExpiryStep, EnqueueFails, Releases
  <1>3. CASE ~UNCHANGED runs
    <2>1. /\ At(e, "enqueue") /\ runs' = Append(runs, NewRun("full", -Age(e)))
          /\ Becomes(e, [worker[e] EXCEPT !.run = Len(runs) + 1, !.at = "claiming"])
      BY <1>3 DEF ExpiryStarts, ExpiryStep, InspectsLatest, LooksForActive,
                  enqueueBankSync, EnqueueFails, InspectsOutcome, Releases
    <2>2. Truthful(NewRun("full", -Age(e)))
      <3>1. "full" \in Windows /\ -Age(e) \in Int
        BY <1>1, WorkerFacts DEF Windows
      <3>2. QED
        BY <3>1, NewRuns
    <2>3. RowsKept /\ DOMAIN runs' = 1..(Len(runs) + 1) /\ Len(runs) \in Nat
      BY <1>1, <2>1, <2>2, RowAdded DEF TruthfulRuns
    <2>4. QED
      <3> DEFINE created == Len(runs) + 1
      <3>1. created \in DOMAIN runs'
        BY <2>3
      <3>2. worker[e].at \in Quiet /\ "claiming" \in Quiet
        BY <2>1 DEF At, Quiet
      <3>3. Becomes(e, [worker[e] EXCEPT !.run = created, !.at = "claiming"])
        BY <2>1
      <3> HIDE DEF created
      <3>4. QED
        BY <1>1, <2>3, <3>1, <3>2, <3>3, WorkerGoesTo
  <1>4. QED
    BY <1>2, <1>3

LEMMA StepTicks ==
  ASSUME IInv, Tick
  PROVE  Step
  <1>1. RowsKept
    BY RowsAge DEF IInv, Tick
  <1>2. ASSUME NEW w \in Workers PROVE Sound(worker'[w], runs')
    <2>1. CASE worker'[w] = worker[w]
      BY <1>1, <2>1, WorkerFacts, StaysSound DEF IInv
    <2>2. CASE worker'[w] = [worker[w] EXCEPT !.age = @ + 1]
      <3> DEFINE age == worker[w].age + 1
                 known == [worker[w] EXCEPT !.age = age]
      <3>1. worker[w] \in Worker /\ age \in Nat /\ worker'[w] = known
        BY <2>2, WorkerFacts DEF Worker
      <3> HIDE DEF age
      <3>2. /\ known \in Worker /\ known.at = worker[w].at
            /\ known.run = worker[w].run /\ known.cursor = worker[w].cursor
        BY <3>1 DEF Worker
      <3> HIDE DEF known
      <3>3. Sound(known, runs)
        BY <3>2, WorkerFacts DEF Sound
      <3>4. Sound(known, runs')
        BY <1>1, <3>3, StaysSound DEF IInv
      <3>5. QED
        BY <3>1, <3>4
    <2>3. QED
      BY <2>1, <2>2 DEF Tick
  <1>3. worker' \in [Workers -> Worker]
    BY <1>2 DEF Tick, Sound
  <1>4. SoundWorkers'
    BY <1>2, <1>3 DEF SoundWorkers, Sound, Worker, Covers
  <1>5. QED
    BY <1>1, <1>4 DEF Step, IInv, RowsKept

LEMMA Initially == Init => IInv
  <1> SUFFICES ASSUME Init PROVE IInv
    OBVIOUS
  <1> DEFINE first == NewRun("full", 0)
  <1>1. Truthful(first) /\ first \in Run
    BY NewRuns DEF Windows, Truthful
  <1>2. runs = <<first>>
    BY DEF Init
  <1> HIDE DEF first
  <1>3. TruthfulRuns /\ DOMAIN runs = {1}
    BY <1>1, <1>2 DEF TruthfulRuns
  <1>4. worker \in [Workers -> Worker] /\ \A w \in Workers : worker[w] = Idle
    BY IdleWorker DEF Init
  <1>5. \A w \in Workers : Sound(worker[w], runs)
    BY <1>3, <1>4, IdleWorker DEF Sound, Idle
  <1>6. QED
    BY <1>3, <1>4, <1>5 DEF IInv, SoundWorkers

LEMMA Preserved == IInv /\ [Next]_vars => IInv' /\ RowsFollow
  <1> SUFFICES ASSUME IInv, [Next]_vars PROVE Step
    BY DEF Step
  <1>1. CASE UNCHANGED vars
    BY <1>1, NoRowChanges, WorkersStay DEF vars, IInv, Step
  <1>2. ASSUME NEW w \in Workers, Dies(w) PROVE Step
    BY <1>2, NoRowChanges, WorkerEnds DEF Dies, IInv
  <1>3. QED
    BY <1>1, <1>2, StepSweeps, StepExpires, StepProcesses, StepCreates, StepTicks
       DEF Next, UninterruptedNext

-----------------------------------------------------------------------------
(* Who may write a page has the newest reading of it *)

SeenByStarted == \A i \in DOMAIN runs, p \in 1..Pages : runs[i].seen[p] \subseteq Started

HolderIsNewest ==
  \A w \in Workers : At(w, "arrived") /\ RunOf(w).holder = w =>
    \A p \in 1..Pages : RunOf(w).seen[p] \subseteq worker[w].seen

PagesByStarted == \A w \in Workers : At(w, "arrived") => worker[w].seen \subseteq Started

SeenInv == SeenByStarted /\ PagesByStarted /\ HolderIsNewest

NewerStep ==
  \A i \in DOMAIN runs, p \in 1..Pages : runs[i].seen[p] \subseteq runs'[i].seen[p]

\* A worker puts away what it had in hand.
Leaves(w) ==
  \E known : /\ Becomes(w, known)
             /\ known.at # "arrived"
             /\ known.at = "idle" => w \notin Expiries

\* No row gets a page, and only w may have become a holder.
SeenSteady(w) ==
  /\ DOMAIN runs \subseteq DOMAIN runs'
  /\ \A i \in DOMAIN runs : /\ runs'[i].seen = runs[i].seen
                            /\ runs'[i].holder \in {runs[i].holder, w, Nobody}
  /\ \A i \in DOMAIN runs' \ DOMAIN runs, p \in 1..Pages : runs'[i].seen[p] \subseteq Started

LEMMA LeavesSeen ==
  ASSUME IInv, SeenInv, NEW w \in Workers, Leaves(w), SeenSteady(w)
  PROVE  SeenInv' /\ NewerStep
  <1>1. PICK known : /\ Becomes(w, known) /\ known.at # "arrived"
                     /\ known.at = "idle" => w \notin Expiries
    BY DEF Leaves
  <1>2. \A v \in Workers : worker'[v] = IF v = w THEN known ELSE worker[v]
    BY <1>1 DEF Becomes, IInv, SoundWorkers
  <1>3. Started \subseteq Started'
    BY <1>1, <1>2 DEF Started, At, Workers
  <1>4. SeenByStarted'
    BY <1>3 DEF SeenInv, SeenByStarted, SeenSteady
  <1>5. ASSUME NEW v \in Workers, At(v, "arrived")', (RunOf(v).holder = v)',
               NEW p \in 1..Pages
        PROVE  (RunOf(v).seen[p])' \subseteq worker'[v].seen
    <2>1. v # w /\ worker'[v] = worker[v]
      BY <1>1, <1>2, <1>5 DEF At
    <2>2. worker[v].run \in DOMAIN runs /\ v # Nobody
      BY WorkerFacts, SyncAssumption DEF Workers
    <2>3. RunOf(v).holder = v /\ (RunOf(v).seen)' = RunOf(v).seen
      BY <1>5, <2>1, <2>2 DEF SeenSteady, RunOf
    <2>4. QED
      BY <1>5, <2>1, <2>3 DEF SeenInv, HolderIsNewest, At, RunOf
  <1>6. NewerStep
    BY DEF SeenSteady, NewerStep
  <1>7. PagesByStarted'
    BY <1>1, <1>2, <1>3 DEF SeenInv, PagesByStarted, At
  <1>8. QED
    BY <1>4, <1>5, <1>6, <1>7 DEF SeenInv, HolderIsNewest

LEMMA EndsLeaves ==
  ASSUME NEW w \in Workers, Ends(w)
  PROVE  Leaves(w)
  <1> DEFINE at == IF w \in Expiries THEN "over" ELSE "idle"
             known == [Idle EXCEPT !.at = at]
  <1>1. known.at = at
    BY DEF Idle
  <1>2. Becomes(w, known)
    BY DEF Ends
  <1> HIDE DEF known
  <1>3. QED
    BY <1>1, <1>2 DEF Leaves

LEMMA AtStepLeaves ==
  ASSUME IInv, NEW w \in Workers, NEW step \in Quiet \cup {"page"}, step # "idle",
         Becomes(w, AtStep(w, step))
  PROVE  Leaves(w)
  BY AtStepFacts DEF Leaves, Quiet

LEMMA FinishesLeaves ==
  ASSUME IInv, NEW w \in Workers, Finishes(w)
  PROVE  Leaves(w)
  BY EndsLeaves, AtStepLeaves DEF Finishes, Quiet

LEMMA ClaimsAgainLeaves ==
  ASSUME IInv, NEW w \in Workers, ClaimsAgain(w)
  PROVE  Leaves(w)
  <1> DEFINE step == AtStep(w, "claiming")
             known == [step EXCEPT !.age = Age(w), !.begun = worker[w].begun]
  <1>1. step \in Worker /\ step.at = "claiming"
    BY AtStepFacts DEF Quiet
  <1>2. Becomes(w, known)
    BY DEF ClaimsAgain
  <1> HIDE DEF step
  <1>3. known.at = "claiming"
    BY <1>1 DEF Worker
  <1> HIDE DEF known
  <1>4. QED
    BY <1>2, <1>3 DEF Leaves

LEMMA GoesLeaves ==
  ASSUME IInv, NEW w \in Workers, NEW step \in Quiet, step # "idle", Goes(w, step)
  PROVE  Leaves(w)
  <1> DEFINE known == [worker[w] EXCEPT !.at = step]
  <1>1. known.at = step
    BY WorkerFacts DEF Worker
  <1>2. Becomes(w, known)
    BY DEF Goes
  <1> HIDE DEF known
  <1>3. QED
    BY <1>1, <1>2 DEF Leaves, Quiet

LEMMA BeginsLeaves ==
  ASSUME IInv, NEW w \in Workers, NEW step \in Quiet, step # "idle", Begins(w, step)
  PROVE  Leaves(w)
  <1> DEFINE begun == Started \cup ({w} \cap Expiries)
             known == [worker[w] EXCEPT !.at = step, !.begun = begun]
  <1>1. known.at = step
    BY WorkerFacts DEF Worker
  <1>2. Becomes(w, known)
    BY DEF Begins
  <1> HIDE DEF known
  <1>3. QED
    BY <1>1, <1>2 DEF Leaves, Quiet

LEMMA SteadyRows ==
  ASSUME NEW w, UNCHANGED runs
  PROVE  SeenSteady(w)
  BY DEF SeenSteady

LEMMA SteadyRow ==
  ASSUME IInv, NEW w \in Workers, NEW next, SetRun(w, next),
         next.seen = RunOf(w).seen, next.holder \in {RunOf(w).holder, w, Nobody}
  PROVE  SeenSteady(w)
  BY WorkerFacts DEF SeenSteady, SetRun, RunOf

LEMMA SteadyAppend ==
  ASSUME IInv, SeenInv, NEW w, NEW run, runs' = Append(runs, run),
         \A p \in 1..Pages : run.seen[p] \subseteq Started
  PROVE  SeenSteady(w)
  <1>1. runs \in Seq(Run)
    BY DEF IInv, TruthfulRuns
  <1>2. /\ DOMAIN runs = 1..Len(runs) /\ Len(runs) \in Nat
        /\ DOMAIN runs' = 1..(Len(runs) + 1)
        /\ \A i \in DOMAIN runs : runs'[i] = runs[i]
        /\ runs'[Len(runs) + 1] = run
    BY <1>1
  <1>3. QED
    BY <1>2 DEF SeenSteady

LEMMA FirstSeen ==
  ASSUME NEW window, NEW left
  PROVE  \A p \in 1..Pages : NewRun(window, left).seen[p] = {}
  BY DEF NewRun

SeenStep == SeenInv' /\ NewerStep

LEMMA SeenSweeps ==
  ASSUME IInv, SeenInv, NEW w \in Sweeps, SweepStep(w)
  PROVE  SeenStep
  <1>1. w \in Workers
    BY DEF Workers
  <1>2. Leaves(w)
    BY <1>1, GoesLeaves, BeginsLeaves DEF SweepStep, SweepStarts, enqueueDueBankSyncRuns, Quiet
  <1>3. SeenSteady(w)
    <2>1. CASE UNCHANGED runs
      BY <2>1, SteadyRows
    <2>2. CASE \E window \in ScheduledWindows : runs' = Append(runs, NewRun(window, -Age(w)))
      BY <2>2, FirstSeen, SteadyAppend
    <2>3. QED
      BY <2>1, <2>2 DEF SweepStep, SweepStarts, enqueueDueBankSyncRuns
  <1>4. QED
    BY <1>1, <1>2, <1>3, LeavesSeen DEF SeenStep

LEMMA SeenClaims ==
  ASSUME IInv, SeenInv, NEW w \in Workers, ClaimReads(w) \/ GivesUp(w) \/ ClaimWrites(w)
  PROVE  SeenStep
  <1>1. worker[w] \in Worker /\ RunOf(w) \in Run
    BY WorkerFacts
  <1>2. Leaves(w)
    <2>1. CASE Ends(w) \/ ClaimsAgain(w)
      BY <2>1, EndsLeaves, ClaimsAgainLeaves
    <2>2. ASSUME NEW i \in Candidates(w),
                 Becomes(w, [worker[w] EXCEPT !.at = "candidate", !.run = i,
                    !.attempts = runs[i].attempts, !.progress = (runs[i].own # {}),
                    !.cursor = runs[i].cursor])
          PROVE  Leaves(w)
      <3> DEFINE known == [worker[w] EXCEPT !.at = "candidate", !.run = i,
                    !.attempts = runs[i].attempts, !.progress = (runs[i].own # {}),
                    !.cursor = runs[i].cursor]
      <3>1. known.at = "candidate"
        BY <1>1 DEF Worker
      <3> HIDE DEF known
      <3>2. QED
        BY <2>2, <3>1 DEF Leaves, known
    <2>3. CASE Becomes(w, [AtStep(w, "page") EXCEPT !.cursor = worker[w].cursor])
      <3> DEFINE known == [AtStep(w, "page") EXCEPT !.cursor = worker[w].cursor]
      <3>1. known.at = "page"
        BY AtStepFacts DEF Worker
      <3> HIDE DEF known
      <3>2. QED
        BY <2>3, <3>1 DEF Leaves, known
    <2>4. QED
      BY <2>1, <2>2, <2>3 DEF ClaimReads, GivesUp, ClaimWrites
  <1>3. SeenSteady(w)
    <2>1. CASE UNCHANGED runs
      BY <2>1, SteadyRows
    <2>2. CASE GivesUp(w) /\ ~UNCHANGED runs
      <3> DEFINE status == IF worker[w].progress THEN "PARTIAL" ELSE "FAILED"
                 next == [RunOf(w) EXCEPT !.status = status, !.holder = Nobody, !.left = 0]
      <3>1. next.seen = RunOf(w).seen /\ next.holder = Nobody
        BY <1>1 DEF Run
      <3>2. SetRun(w, next)
        BY <2>2 DEF GivesUp
      <3> HIDE DEF next
      <3>3. QED
        BY <3>1, <3>2, SteadyRow
    <2>3. CASE ClaimWrites(w) /\ ~UNCHANGED runs
      <3> DEFINE next == Claimed(RunOf(w), w)
      <3>1. next.seen = RunOf(w).seen /\ next.holder = w
        BY <1>1 DEF Run, Claimed
      <3>2. SetRun(w, next)
        BY <2>3 DEF ClaimWrites
      <3> HIDE DEF next
      <3>3. QED
        BY <3>1, <3>2, SteadyRow
    <2>4. QED
      BY <2>1, <2>2, <2>3 DEF ClaimReads
  <1>4. QED
    BY <1>2, <1>3, LeavesSeen DEF SeenStep

\* The page that arrives is newer than every reading of it so far.
LEMMA SeenArrives ==
  ASSUME IInv, SeenInv, NEW w \in Workers, PageArrives(w)
  PROVE  SeenStep
  <1>1. runs' = runs /\ worker[w].at = "page"
    BY DEF PageArrives, At
  <1>2. PICK invalid \in BOOLEAN : Becomes(w,
          [worker[w] EXCEPT !.at = "arrived", !.invalid = invalid, !.seen = Started,
                            !.age = AgeNow(w)])
    BY DEF PageArrives
  <1> DEFINE known == [worker[w] EXCEPT !.at = "arrived", !.invalid = invalid,
                                        !.seen = Started, !.age = AgeNow(w)]
  <1>3. known.at = "arrived" /\ known.seen = Started /\ known.run = worker[w].run
    BY WorkerFacts DEF Worker
  <1> HIDE DEF known
  <1>4. \A v \in Workers : worker'[v] = IF v = w THEN known ELSE worker[v]
    BY <1>2 DEF Becomes, IInv, SoundWorkers, known
  <1>5. Started' = Started
    BY <1>1, <1>3, <1>4 DEF Started, At, Workers
  <1>6. SeenByStarted'
    BY <1>1, <1>5 DEF SeenInv, SeenByStarted
  <1>7. ASSUME NEW v \in Workers, At(v, "arrived")', (RunOf(v).holder = v)',
               NEW p \in 1..Pages
        PROVE  (RunOf(v).seen[p])' \subseteq worker'[v].seen
    <2>1. CASE v = w
      <3>1. worker[w].run \in DOMAIN runs
        BY WorkerFacts
      <3>2. QED
        BY <1>1, <1>3, <1>4, <2>1, <3>1 DEF SeenInv, SeenByStarted, RunOf
    <2>2. CASE v # w
      BY <1>1, <1>4, <1>7, <2>2 DEF SeenInv, HolderIsNewest, At, RunOf
    <2>3. QED
      BY <2>1, <2>2
  <1>8. NewerStep
    BY <1>1 DEF NewerStep
  <1>9. PagesByStarted'
    BY <1>3, <1>4, <1>5 DEF SeenInv, PagesByStarted, At
  <1>10. QED
    BY <1>6, <1>7, <1>8, <1>9 DEF SeenStep, SeenInv, HolderIsNewest

\* Who commits a page holds the run, so nobody has a newer one.
LEMMA SeenCommits ==
  ASSUME IInv, SeenInv, NEW w \in Workers, PageCommits(w)
  PROVE  SeenStep
  <1> DEFINE run == RunOf(w)
             page == worker[w].cursor
             next == WithPage(run, w)
  <1>1. /\ worker[w] \in Worker /\ run \in Run /\ worker[w].run \in DOMAIN runs
        /\ run.holder = w /\ worker[w].at = "arrived" /\ w # Nobody
    BY WorkerFacts, SyncAssumption DEF PageCommits, Holds, At, Workers
  <1>2. page \in 1..Pages /\ worker[w].seen \subseteq Started
    BY <1>1 DEF Worker, SeenInv, PagesByStarted, At
  <1>3. /\ next.seen = [run.seen EXCEPT ![page] = worker[w].seen]
        /\ next.holder \in {w, Nobody}
    BY <1>1 DEF WithPage, Run
  <1>4. run.seen \in [1..Pages -> SUBSET Expiries]
    BY <1>1 DEF Run
  <1>5. runs' = [runs EXCEPT ![worker[w].run] = next]
    BY DEF PageCommits, SetRun
  <1>6. Leaves(w)
    <2>1. CASE Finishes(w)
      BY <2>1, FinishesLeaves
    <2>2. CASE Becomes(w, [AtStep(w, "page") EXCEPT !.cursor = worker[w].cursor + 1,
                                                   !.restarted = worker[w].restarted])
      <3> DEFINE known == [AtStep(w, "page") EXCEPT !.cursor = worker[w].cursor + 1,
                                                   !.restarted = worker[w].restarted]
      <3>1. known.at = "page"
        BY AtStepFacts DEF Worker
      <3> HIDE DEF known
      <3>2. QED
        BY <2>2, <3>1 DEF Leaves, known
    <2>3. QED
      BY <2>1, <2>2 DEF PageCommits
  <1>7. \A p \in 1..Pages : run.seen[p] \subseteq next.seen[p] /\ next.seen[p] \subseteq Started
    BY <1>1, <1>2, <1>3, <1>4 DEF SeenInv, SeenByStarted, HolderIsNewest, At, RunOf
  <1> HIDE DEF next
  <1>8. /\ DOMAIN runs' = DOMAIN runs
        /\ \A i \in DOMAIN runs : runs'[i] = IF i = worker[w].run THEN next ELSE runs[i]
    BY <1>5
  <1>9. PICK known : /\ Becomes(w, known) /\ known.at # "arrived"
                     /\ known.at = "idle" => w \notin Expiries
    BY <1>6 DEF Leaves
  <1>10. \A v \in Workers : worker'[v] = IF v = w THEN known ELSE worker[v]
    BY <1>9 DEF Becomes, IInv, SoundWorkers
  <1>11. Started \subseteq Started'
    BY <1>9, <1>10 DEF Started, At, Workers
  <1>12. SeenByStarted'
    BY <1>7, <1>8, <1>11 DEF SeenInv, SeenByStarted
  <1>13. PagesByStarted'
    BY <1>9, <1>10, <1>11 DEF SeenInv, PagesByStarted, At
  <1>14. ASSUME NEW v \in Workers, At(v, "arrived")', (RunOf(v).holder = v)',
                NEW p \in 1..Pages
         PROVE  (RunOf(v).seen[p])' \subseteq worker'[v].seen
    <2>1. v # w /\ worker'[v] = worker[v] /\ worker[v].run \in DOMAIN runs /\ v # Nobody
      BY <1>9, <1>10, <1>14, WorkerFacts, SyncAssumption DEF At, Workers
    <2>2. worker[v].run # worker[w].run
      BY <1>3, <1>8, <1>14, <2>1 DEF RunOf
    <2>3. QED
      BY <1>8, <1>14, <2>1, <2>2 DEF SeenInv, HolderIsNewest, At, RunOf
  <1>15. NewerStep
    BY <1>7, <1>8 DEF NewerStep, RunOf
  <1>16. QED
    BY <1>12, <1>13, <1>14, <1>15 DEF SeenStep, SeenInv, HolderIsNewest

LEMMA SeenFails ==
  ASSUME IInv, SeenInv, NEW w \in Workers,
         PageRollsBack(w) \/ PageFails(w) \/ ProcessThrows(w) \/ CursorRejected(w)
  PROVE  SeenStep
  <1>1. worker[w] \in Worker /\ RunOf(w) \in Run
    BY WorkerFacts
  <1>2. Leaves(w)
    <2>1. CASE Finishes(w)
      BY <2>1, FinishesLeaves
    <2>2. CASE CursorRejected(w) /\ ~Finishes(w)
      <3> DEFINE known == [worker[w] EXCEPT !.cursor = 1, !.restarted = TRUE]
      <3>1. known.at = "page"
        BY <1>1, <2>2 DEF Worker, CursorRejected, At
      <3>2. Becomes(w, known)
        BY <2>2 DEF CursorRejected
      <3> HIDE DEF known
      <3>3. QED
        BY <3>1, <3>2 DEF Leaves
    <2>3. QED
      BY <2>1, <2>2 DEF PageRollsBack, PageFails, ProcessThrows
  <1>3. SeenSteady(w)
    <2>1. CASE UNCHANGED runs
      BY <2>1, SteadyRows
    <2>2. ASSUME NEW retryable \in BOOLEAN, SetRun(w, Failed(RunOf(w), w, retryable))
          PROVE  SeenSteady(w)
      <3> DEFINE next == Failed(RunOf(w), w, retryable)
      <3>1. next.seen = RunOf(w).seen /\ next.holder = Nobody
        BY <1>1 DEF Run, Failed
      <3> HIDE DEF next
      <3>2. QED
        BY <2>2, <3>1, SteadyRow DEF next
    <2>3. CASE SetRun(w, [RunOf(w) EXCEPT !.cursor = 1, !.left = Lease - Age(w)])
      <3> DEFINE next == [RunOf(w) EXCEPT !.cursor = 1, !.left = Lease - Age(w)]
      <3>1. next.seen = RunOf(w).seen /\ next.holder = RunOf(w).holder
        BY <1>1 DEF Run
      <3> HIDE DEF next
      <3>2. QED
        BY <2>3, <3>1, SteadyRow DEF next
    <2>4. QED
      BY <2>1, <2>2, <2>3 DEF PageRollsBack, PageFails, ProcessThrows, CursorRejected
  <1>4. QED
    BY <1>2, <1>3, LeavesSeen DEF SeenStep

LEMMA SeenExpires ==
  ASSUME IInv, SeenInv, NEW e \in Expiries, ExpiryStarts(e) \/ ExpiryStep(e)
  PROVE  SeenStep
  <1>1. e \in Workers /\ worker[e] \in Worker
    BY WorkerFacts DEF Workers
  <1>2. SeenSteady(e)
    <2>1. CASE UNCHANGED runs
      BY <2>1, SteadyRows
    <2>2. CASE runs' = Append(runs, NewRun("full", -Age(e)))
      BY <2>2, FirstSeen, SteadyAppend
    <2>3. QED
      BY <2>1, <2>2 DEF ExpiryStarts, ExpiryStep, InspectsLatest, LooksForActive,
         enqueueBankSync, EnqueueFails, InspectsOutcome, Releases
  <1>3. Leaves(e)
    <2>1. CASE Ends(e)
      BY <1>1, <2>1, EndsLeaves
    <2>2. CASE \E step \in {"latest", "active", "enqueue", "ready"} :
                 Goes(e, step) \/ Begins(e, step)
      BY <1>1, <2>2, GoesLeaves, BeginsLeaves DEF Quiet
    <2>3. CASE Becomes(e, [AtStep(e, "ready") EXCEPT !.run = Len(runs)])
      <3> DEFINE known == [AtStep(e, "ready") EXCEPT !.run = Len(runs)]
      <3>1. known.at = "ready"
        BY <1>1, AtStepFacts DEF Worker, Quiet
      <3> HIDE DEF known
      <3>2. QED
        BY <2>3, <3>1 DEF Leaves, known
    <2>4. ASSUME NEW i, Becomes(e, [worker[e] EXCEPT !.run = i, !.at = "claiming"])
          PROVE  Leaves(e)
      <3> DEFINE known == [worker[e] EXCEPT !.run = i, !.at = "claiming"]
      <3>1. known.at = "claiming"
        BY <1>1 DEF Worker
      <3> HIDE DEF known
      <3>2. QED
        BY <2>4, <3>1 DEF Leaves, known
    <2>5. ASSUME NEW round, Becomes(e, [worker[e] EXCEPT !.at = "latest", !.round = round])
          PROVE  Leaves(e)
      <3> DEFINE known == [worker[e] EXCEPT !.at = "latest", !.round = round]
      <3>1. known.at = "latest"
        BY <1>1 DEF Worker
      <3> HIDE DEF known
      <3>2. QED
        BY <2>5, <3>1 DEF Leaves, known
    <2>6. CASE InspectsLatest(e) \/ LooksForActive(e)
      BY <2>1, <2>2, <2>3, <2>4, <2>6 DEF InspectsLatest, LooksForActive
    <2>7. CASE enqueueBankSync(e)
      BY <2>4, <2>7 DEF enqueueBankSync
    <2>8. CASE InspectsOutcome(e)
      BY <2>1, <2>2, <2>5, <2>8 DEF InspectsOutcome
    <2>9. QED
      BY <2>1, <2>2, <2>6, <2>7, <2>8 DEF ExpiryStarts, ExpiryStep, EnqueueFails, Releases
  <1>4. QED
    BY <1>1, <1>2, <1>3, LeavesSeen DEF SeenStep

LEMMA SeenCreates ==
  ASSUME IInv, SeenInv, requestManualBankSync
  PROVE  SeenStep
  <1>1. \A w : SeenSteady(w)
    <2>1. CASE runs' = Append(runs, NewRun("full", 0))
      BY <2>1, FirstSeen, SteadyAppend
    <2>2. ASSUME NEW i \in DOMAIN runs, runs' = Append(runs, ResumedRun(runs[i]))
          PROVE  \A w : SeenSteady(w)
      <3>1. ResumedRun(runs[i]).seen = runs[i].seen
        BY DEF ResumedRun, NewRun
      <3>2. QED
        BY <2>2, <3>1, SteadyAppend DEF SeenInv, SeenByStarted
    <2>3. QED
      BY <2>1, <2>2 DEF requestManualBankSync
  <1>2. worker' = worker /\ Started' = Started
    BY DEF requestManualBankSync, Started, At
  <1>3. SeenByStarted' /\ PagesByStarted' /\ NewerStep
    BY <1>1, <1>2 DEF SeenInv, SeenByStarted, PagesByStarted, SeenSteady, NewerStep, At
  <1>4. ASSUME NEW v \in Workers, At(v, "arrived")', (RunOf(v).holder = v)',
               NEW p \in 1..Pages
        PROVE  (RunOf(v).seen[p])' \subseteq worker'[v].seen
    <2>1. worker[v].run \in DOMAIN runs /\ v # Nobody
      BY WorkerFacts, SyncAssumption DEF Workers
    <2>2. RunOf(v).holder = v /\ (RunOf(v).seen)' = RunOf(v).seen
      BY <1>1, <1>2, <1>4, <2>1 DEF SeenSteady, RunOf
    <2>3. QED
      BY <1>2, <1>4, <2>2 DEF SeenInv, HolderIsNewest, At, RunOf
  <1>5. QED
    BY <1>3, <1>4 DEF SeenStep, SeenInv, HolderIsNewest

LEMMA SeenTicks ==
  ASSUME IInv, SeenInv, Tick
  PROVE  SeenStep
  <1>1. ASSUME NEW v \in Workers
        PROVE  /\ worker'[v].at = worker[v].at /\ worker'[v].run = worker[v].run
               /\ worker'[v].seen = worker[v].seen
    BY WorkerFacts DEF Tick, Worker
  <1>2. /\ DOMAIN runs' = DOMAIN runs
        /\ \A i \in DOMAIN runs : runs'[i].seen = runs[i].seen /\ runs'[i].holder = runs[i].holder
    <2>1. ASSUME NEW i \in DOMAIN runs
          PROVE  Later(runs[i]).seen = runs[i].seen /\ Later(runs[i]).holder = runs[i].holder
      <3>1. runs[i] \in Run
        BY DEF IInv, TruthfulRuns
      <3>2. QED
        BY <3>1 DEF Later, Run
    <2>2. QED
      BY <2>1 DEF Tick
  <1>3. Started' = Started
    BY <1>1 DEF Started, At, Workers
  <1>4. \A v \in Workers : worker[v].run \in DOMAIN runs
    BY WorkerFacts
  <1>5. SeenByStarted' /\ PagesByStarted' /\ NewerStep
    BY <1>1, <1>2, <1>3 DEF SeenInv, SeenByStarted, PagesByStarted, NewerStep, At
  <1>6. HolderIsNewest'
    BY <1>1, <1>2, <1>4 DEF SeenInv, HolderIsNewest, At, RunOf
  <1>7. QED
    BY <1>5, <1>6 DEF SeenStep, SeenInv

LEMMA SeenInitially == Init => SeenInv
  BY FirstSeen DEF Init, SeenInv, SeenByStarted, PagesByStarted, HolderIsNewest, At, Idle

LEMMA SeenPreserved == IInv /\ SeenInv /\ [Next]_vars => SeenInv' /\ NewerStep
  <1> SUFFICES ASSUME IInv, SeenInv, [Next]_vars PROVE SeenStep
    BY DEF SeenStep
  <1>1. CASE UNCHANGED vars
    BY <1>1 DEF vars, SeenStep, SeenInv, SeenByStarted, PagesByStarted, HolderIsNewest,
                NewerStep, Started, At, RunOf
  <1>2. ASSUME NEW w \in Workers, Dies(w) PROVE SeenStep
    BY <1>2, EndsLeaves, SteadyRows, LeavesSeen DEF Dies, SeenStep
  <1>3. ASSUME NEW w \in Workers, ProcessStep(w) PROVE SeenStep
    BY <1>3, SeenClaims, SeenArrives, SeenCommits, SeenFails DEF ProcessStep
  <1>4. QED
    BY <1>1, <1>2, <1>3, SeenSweeps, SeenExpires, SeenCreates, SeenTicks
       DEF Next, UninterruptedNext

-----------------------------------------------------------------------------
(* A run an expiry run takes for fresh was read after that expiry run had    *)
(* begun: whoever marks it fresh has seen it unclaimed at or after its time, *)
(* so every page of it was read later still.                                 *)

OnRun(known, i) == known.at \in {"page", "arrived"} /\ known.run = i

\* Whatever was read of a run, or is in hand, is newer than the expiry runs es.
Reads(i, es) ==
  /\ \A p \in runs[i].own : es \subseteq runs[i].seen[p]
  /\ \A w \in Workers : At(w, "arrived") /\ worker[w].run = i => es \subseteq worker[w].seen

BegunStarted ==
  /\ \A w \in Workers : worker[w].begun \subseteq Started
  /\ \A i \in DOMAIN runs : runs[i].fresh \subseteq Started

Unclaimed ==
  \A i \in DOMAIN runs : runs[i].attempts = 0 =>
    runs[i].own = {} /\ \A w \in Workers : ~OnRun(worker[w], i)

FreshRuns == \A i \in DOMAIN runs : Reads(i, runs[i].fresh)

FreshClaims ==
  \A w \in Workers : At(w, "candidate") /\ worker[w].attempts = 0 =>
    Reads(worker[w].run, worker[w].begun)

ReadyRuns ==
  \A e \in Expiries : At(e, "ready") => RunOf(e).status \in Terminal /\ e \in RunOf(e).fresh

FreshInv == BegunStarted /\ Unclaimed /\ FreshRuns /\ FreshClaims /\ ReadyRuns

\* What a step may do to a row ...
RowKeeps(i, next) ==
  /\ next.attempts = 0 => runs[i].attempts = 0 /\ next.own = {}
  /\ \A es \in SUBSET Expiries : Reads(i, es) => \A p \in next.own : es \subseteq next.seen[p]
  /\ Reads(i, next.fresh) /\ next.fresh \subseteq Started
  /\ runs[i].status \in Terminal => next.fresh = runs[i].fresh

RowsKeep ==
  /\ DOMAIN runs \subseteq DOMAIN runs'
  /\ \A i \in DOMAIN runs : RowKeeps(i, runs'[i])
  /\ \A i \in DOMAIN runs' \ DOMAIN runs : runs'[i].own = {} /\ runs'[i].fresh = {}

\* ... and to a worker.
Turn(w, known) ==
  /\ known.at = "idle" => w \notin Expiries
  /\ known.begun \subseteq Started \cup ({w} \cap Expiries)
  /\ known.at = "arrived" => known.seen = Started
  /\ known.at \in {"page", "arrived"} =>
       /\ known.run = worker[w].run
       /\ worker[w].at \in {"page", "arrived"} \/ runs'[known.run].attempts # 0
  /\ known.at = "candidate" =>
       /\ known.run \in DOMAIN runs /\ known.attempts = runs[known.run].attempts
       /\ known.begun \subseteq Started
  /\ known.at = "ready" =>
       /\ known.run \in DOMAIN runs
       /\ runs[known.run].status \in Terminal /\ w \in runs[known.run].fresh

Stays(w, known) ==
  /\ known.at = worker[w].at /\ known.run = worker[w].run
  /\ known.attempts = worker[w].attempts
  /\ known.begun = worker[w].begun /\ known.seen = worker[w].seen

LEMMA FreshMoves ==
  ASSUME IInv, FreshInv, RowsFollow, RowsKeep,
         \A w \in Workers : Stays(w, worker'[w]) \/ Turn(w, worker'[w])
  PROVE  FreshInv'
  <1>1. Started \subseteq Started'
    BY DEF Started, At, Stays, Turn, Workers
  <1>2. ASSUME NEW w \in Workers
        PROVE  /\ worker[w].run \in DOMAIN runs /\ worker[w].run \in DOMAIN runs'
               /\ worker[w].begun \in SUBSET Expiries /\ worker[w].begun \subseteq Started
    BY WorkerFacts DEF RowsKeep, FreshInv, BegunStarted
  <1>3. ASSUME NEW w \in Workers PROVE worker'[w].begun \subseteq Started'
    <2>1. CASE Stays(w, worker'[w])
      BY <1>1, <1>2, <2>1 DEF Stays
    <2>2. CASE Turn(w, worker'[w])
      BY <1>1, <2>2 DEF Turn, Started, At
    <2>3. QED
      BY <2>1, <2>2
  <1>4. BegunStarted'
    BY <1>1, <1>3 DEF BegunStarted, RowsKeep, RowKeeps
  <1>5. ASSUME NEW i \in DOMAIN runs', runs'[i].attempts = 0
        PROVE  runs'[i].own = {} /\ \A w \in Workers : ~OnRun(worker'[w], i)
    <2>1. CASE i \in DOMAIN runs
      <3>1. /\ runs[i].attempts = 0 /\ runs'[i].own = {}
            /\ \A w \in Workers : ~OnRun(worker[w], i)
        BY <1>5, <2>1 DEF RowsKeep, RowKeeps, FreshInv, Unclaimed
      <3>2. QED
        BY <1>5, <3>1 DEF OnRun, Stays, Turn
    <2>2. CASE i \notin DOMAIN runs
      BY <1>2, <2>2 DEF OnRun, Stays, Turn, RowsKeep
    <2>3. QED
      BY <2>1, <2>2
  <1> DEFINE ReadsNext(i, es) ==
        /\ \A p \in runs'[i].own : es \subseteq runs'[i].seen[p]
        /\ \A w \in Workers : worker'[w].at = "arrived" /\ worker'[w].run = i
                             => es \subseteq worker'[w].seen
  <1>6. ASSUME NEW i \in DOMAIN runs, NEW es \in SUBSET Expiries, Reads(i, es), es \subseteq Started
        PROVE  ReadsNext(i, es)
    <2>1. \A p \in runs'[i].own : es \subseteq runs'[i].seen[p]
      BY <1>6 DEF RowsKeep, RowKeeps
    <2>2. ASSUME NEW w \in Workers, worker'[w].at = "arrived", worker'[w].run = i
          PROVE  es \subseteq worker'[w].seen
      BY <1>6, <2>2 DEF Stays, Turn, Reads, At
    <2>3. QED
      BY <2>1, <2>2
  <1>7. ASSUME NEW i \in DOMAIN runs' PROVE ReadsNext(i, runs'[i].fresh)
    <2>1. CASE i \in DOMAIN runs
      <3>1. /\ runs'[i].fresh \subseteq Started /\ Reads(i, runs'[i].fresh)
        BY <2>1 DEF RowsKeep, RowKeeps
      <3>2. runs'[i].fresh \in SUBSET Expiries
        BY <3>1 DEF Started
      <3>3. QED
        BY <1>6, <2>1, <3>1, <3>2
    <2>2. CASE i \notin DOMAIN runs
      BY <2>2 DEF RowsKeep
    <2>3. QED
      BY <2>1, <2>2
  <1>8. ASSUME NEW w \in Workers, worker'[w].at = "candidate", worker'[w].attempts = 0
        PROVE  ReadsNext(worker'[w].run, worker'[w].begun)
    <2> DEFINE i == worker'[w].run
               es == worker'[w].begun
    <2>1. i \in DOMAIN runs /\ es \in SUBSET Expiries /\ es \subseteq Started
      BY <1>2, <1>8 DEF Stays, Turn, Started
    <2>2. Reads(i, es)
      <3>1. CASE Stays(w, worker'[w])
        BY <1>8, <3>1 DEF Stays, FreshInv, FreshClaims, At
      <3>2. CASE Turn(w, worker'[w])
        BY <1>8, <3>2 DEF Turn, FreshInv, Unclaimed, OnRun, Reads, At
      <3>3. QED
        BY <3>1, <3>2
    <2> HIDE DEF i, es
    <2>3. ReadsNext(i, es)
      BY <1>6, <2>1, <2>2
    <2>4. QED
      BY <2>3 DEF i, es
  <1>9. ASSUME NEW e \in Expiries, worker'[e].at = "ready"
        PROVE  /\ runs'[worker'[e].run].status \in Terminal
               /\ e \in runs'[worker'[e].run].fresh
    <2>1. e \in Workers
      BY DEF Workers
    <2>2. /\ worker'[e].run \in DOMAIN runs
          /\ runs[worker'[e].run].status \in Terminal /\ e \in runs[worker'[e].run].fresh
      BY <1>2, <1>9, <2>1 DEF Stays, Turn, FreshInv, ReadyRuns, At, RunOf
    <2>3. QED
      BY <2>2 DEF RowsKeep, RowKeeps, RowsFollow, Follows
  <1>10. Unclaimed'
    BY <1>5 DEF Unclaimed
  <1>11. FreshRuns' /\ FreshClaims'
    BY <1>7, <1>8 DEF FreshRuns, FreshClaims, At, Reads
  <1>12. ReadyRuns'
    BY <1>9 DEF ReadyRuns, At, RunOf
  <1>13. QED
    BY <1>4, <1>10, <1>11, <1>12 DEF FreshInv

FreshStep == FreshInv'

Turns(w) == \E known : Becomes(w, known) /\ Turn(w, known)

LEMMA FreshTurn ==
  ASSUME IInv, FreshInv, RowsFollow, RowsKeep, NEW w \in Workers, Turns(w)
  PROVE  FreshStep
  <1>1. PICK known : Becomes(w, known) /\ Turn(w, known)
    BY DEF Turns
  <1>2. \A v \in Workers : worker'[v] = IF v = w THEN known ELSE worker[v]
    BY <1>1 DEF Becomes, IInv, SoundWorkers
  <1>3. \A v \in Workers : Stays(v, worker'[v]) \/ Turn(v, worker'[v])
    BY <1>1, <1>2 DEF Stays
  <1>4. QED
    BY <1>3, FreshMoves DEF FreshStep

\* The same row, as far as freshness goes.
Alike(run, next) ==
  /\ next.attempts = run.attempts /\ next.own = run.own
  /\ next.seen = run.seen /\ next.fresh = run.fresh

LEMMA AlikeKeeps ==
  ASSUME FreshInv, NEW i \in DOMAIN runs, NEW next, Alike(runs[i], next)
  PROVE  RowKeeps(i, next)
  BY DEF FreshInv, Unclaimed, FreshRuns, BegunStarted, Alike, RowKeeps, Reads

LEMMA SameRows ==
  ASSUME FreshInv, UNCHANGED runs
  PROVE  RowsKeep
  BY AlikeKeeps DEF Alike, RowsKeep

LEMMA OneRow ==
  ASSUME IInv, FreshInv, NEW w \in Workers, NEW next, SetRun(w, next),
         RowKeeps(worker[w].run, next)
  PROVE  RowsKeep
  <1>1. /\ DOMAIN runs' = DOMAIN runs
        /\ \A i \in DOMAIN runs : runs'[i] = IF i = worker[w].run THEN next ELSE runs[i]
    BY WorkerFacts DEF SetRun
  <1>2. QED
    BY <1>1, AlikeKeeps DEF Alike, RowsKeep

LEMMA AlikeRow ==
  ASSUME IInv, FreshInv, NEW w \in Workers, NEW next, SetRun(w, next), Alike(RunOf(w), next)
  PROVE  RowsKeep
  BY WorkerFacts, AlikeKeeps, OneRow DEF RunOf

LEMMA MoreRows ==
  ASSUME IInv, FreshInv, NEW run, run.own = {}, run.fresh = {}, runs' = Append(runs, run)
  PROVE  RowsKeep
  <1>1. runs \in Seq(Run)
    BY DEF IInv, TruthfulRuns
  <1>2. /\ DOMAIN runs = 1..Len(runs) /\ Len(runs) \in Nat
        /\ DOMAIN runs' = 1..(Len(runs) + 1)
        /\ \A i \in DOMAIN runs : runs'[i] = runs[i]
        /\ runs'[Len(runs) + 1] = run
    BY <1>1
  <1>3. QED
    BY <1>2, AlikeKeeps DEF Alike, RowsKeep

\* A worker without a run in hand, and nothing accepted.
Calm == Quiet \ {"idle", "ready"}

LEMMA CalmTurns ==
  ASSUME NEW w \in Workers, NEW known, Becomes(w, known), known.at \in Calm \cup {"idle"},
         known.at = "idle" => w \notin Expiries,
         known.begun \subseteq Started \cup ({w} \cap Expiries)
  PROVE  Turns(w)
  BY DEF Turns, Turn, Calm, Quiet

LEMMA BegunFacts ==
  ASSUME IInv, FreshInv, NEW w \in Workers
  PROVE  worker[w].begun \subseteq Started /\ BegunNow(w) \subseteq Started
  BY DEF FreshInv, BegunStarted, BegunNow

LEMMA AtStepBegun ==
  ASSUME NEW w, NEW step
  PROVE  AtStep(w, step).begun = BegunNow(w)
  BY DEF AtStep, Idle

LEMMA EndsTurns ==
  ASSUME NEW w \in Workers, Ends(w)
  PROVE  Turns(w)
  <1> DEFINE at == IF w \in Expiries THEN "over" ELSE "idle"
             known == [Idle EXCEPT !.at = at]
  <1>1. known.at = at /\ known.begun = {}
    BY DEF Idle
  <1>2. Becomes(w, known)
    BY DEF Ends
  <1> HIDE DEF known
  <1>3. QED
    BY <1>1, <1>2, CalmTurns DEF Calm, Quiet

LEMMA FinishesTurns ==
  ASSUME IInv, FreshInv, NEW w \in Workers, Finishes(w)
  PROVE  Turns(w)
  <1> DEFINE known == AtStep(w, "outcome")
  <1>1. known.at = "outcome" /\ known.begun \subseteq Started
    BY AtStepFacts, AtStepBegun, BegunFacts DEF Quiet
  <1> HIDE DEF known
  <1>2. CASE Becomes(w, known)
    BY <1>1, <1>2, CalmTurns DEF Calm, Quiet
  <1>3. QED
    BY <1>2, EndsTurns DEF Finishes, known

LEMMA ClaimsAgainTurns ==
  ASSUME IInv, FreshInv, NEW w \in Workers, ClaimsAgain(w)
  PROVE  Turns(w)
  <1> DEFINE step == AtStep(w, "claiming")
             known == [step EXCEPT !.age = Age(w), !.begun = worker[w].begun]
  <1>1. step \in Worker /\ step.at = "claiming"
    BY AtStepFacts DEF Quiet
  <1>2. Becomes(w, known)
    BY DEF ClaimsAgain
  <1> HIDE DEF step
  <1>3. known.at = "claiming" /\ known.begun = worker[w].begun
    BY <1>1 DEF Worker
  <1> HIDE DEF known
  <1>4. QED
    BY <1>2, <1>3, BegunFacts, CalmTurns DEF Calm, Quiet

LEMMA GoesTurns ==
  ASSUME IInv, FreshInv, NEW w \in Workers, NEW step \in Calm, Goes(w, step)
  PROVE  Turns(w)
  <1> DEFINE known == [worker[w] EXCEPT !.at = step]
  <1>1. known.at = step /\ known.begun = worker[w].begun
    BY WorkerFacts DEF Worker
  <1>2. Becomes(w, known)
    BY DEF Goes
  <1> HIDE DEF known
  <1>3. QED
    BY <1>1, <1>2, BegunFacts, CalmTurns DEF Calm, Quiet

LEMMA BeginsTurns ==
  ASSUME IInv, NEW w \in Workers, NEW step \in Calm, Begins(w, step)
  PROVE  Turns(w)
  <1> DEFINE begun == Started \cup ({w} \cap Expiries)
             known == [worker[w] EXCEPT !.at = step, !.begun = begun]
  <1>1. known.at = step /\ known.begun = begun
    BY WorkerFacts DEF Worker
  <1>2. Becomes(w, known)
    BY DEF Begins
  <1> HIDE DEF known
  <1>3. QED
    BY <1>1, <1>2, CalmTurns DEF Calm, Quiet

LEMMA FreshSweeps ==
  ASSUME IInv, FreshInv, RowsFollow, NEW w \in Sweeps, SweepStep(w)
  PROVE  FreshStep
  <1>1. w \in Workers
    BY DEF Workers
  <1>2. Turns(w)
    BY <1>1, GoesTurns, BeginsTurns
       DEF SweepStep, SweepStarts, enqueueDueBankSyncRuns, Calm, Quiet
  <1>3. RowsKeep
    <2>1. CASE UNCHANGED runs
      BY <2>1, SameRows
    <2>2. CASE \E window \in ScheduledWindows : runs' = Append(runs, NewRun(window, -Age(w)))
      BY <2>2, MoreRows DEF NewRun
    <2>3. QED
      BY <2>1, <2>2 DEF SweepStep, SweepStarts, enqueueDueBankSyncRuns
  <1>4. QED
    BY <1>1, <1>2, <1>3, FreshTurn

LEMMA FreshReads ==
  ASSUME IInv, FreshInv, RowsFollow, NEW w \in Workers, ClaimReads(w) \/ GivesUp(w)
  PROVE  FreshStep
  <1>1. worker[w] \in Worker /\ RunOf(w) \in Run
    BY WorkerFacts
  <1>2. Turns(w)
    <2>1. CASE Ends(w) \/ ClaimsAgain(w)
      BY <2>1, EndsTurns, ClaimsAgainTurns
    <2>2. ASSUME NEW i \in Candidates(w),
                 Becomes(w, [worker[w] EXCEPT !.at = "candidate", !.run = i,
                    !.attempts = runs[i].attempts, !.progress = (runs[i].own # {}),
                    !.cursor = runs[i].cursor])
          PROVE  Turns(w)
      <3> DEFINE known == [worker[w] EXCEPT !.at = "candidate", !.run = i,
                    !.attempts = runs[i].attempts, !.progress = (runs[i].own # {}),
                    !.cursor = runs[i].cursor]
      <3>1. /\ known.at = "candidate" /\ known.run = i
            /\ known.attempts = runs[i].attempts /\ known.begun = worker[w].begun
        BY <1>1 DEF Worker
      <3> HIDE DEF known
      <3>2. Turn(w, known)
        BY <3>1, BegunFacts DEF Turn, Candidates
      <3>3. QED
        BY <2>2, <3>2 DEF Turns, known
    <2>3. QED
      BY <2>1, <2>2 DEF ClaimReads, GivesUp
  <1>3. RowsKeep
    <2>1. CASE UNCHANGED runs
      BY <2>1, SameRows
    <2>2. CASE GivesUp(w) /\ ~UNCHANGED runs
      <3> DEFINE status == IF worker[w].progress THEN "PARTIAL" ELSE "FAILED"
                 next == [RunOf(w) EXCEPT !.status = status, !.holder = Nobody, !.left = 0]
      <3>1. Alike(RunOf(w), next)
        BY <1>1 DEF Run, Alike
      <3>2. SetRun(w, next)
        BY <2>2 DEF GivesUp
      <3> HIDE DEF next
      <3>3. QED
        BY <3>1, <3>2, AlikeRow
    <2>3. QED
      BY <2>1, <2>2 DEF ClaimReads
  <1>4. QED
    BY <1>2, <1>3, FreshTurn

\* Who sets startedAt has read the run as never claimed.
LEMMA FreshClaimed ==
  ASSUME IInv, FreshInv, RowsFollow, NEW w \in Workers, ClaimWrites(w)
  PROVE  FreshStep
  <1>1. CASE ClaimsAgain(w) /\ UNCHANGED runs
    BY <1>1, ClaimsAgainTurns, SameRows, FreshTurn
  <1>2. CASE Claimable(RunOf(w), w) /\ ~(ClaimsAgain(w) /\ UNCHANGED runs)
    <2> DEFINE i == worker[w].run
               next == Claimed(RunOf(w), w)
               known == [AtStep(w, "page") EXCEPT !.cursor = worker[w].cursor]
    <2>1. /\ RunOf(w) \in Run /\ RunOf(w).status \in Nonterminal
          /\ i \in DOMAIN runs /\ RunOf(w) = runs[i]
      BY <1>2, WorkerFacts DEF Claimable, Due, RunOf
    <2>2. SetRun(w, next) /\ Becomes(w, known) /\ At(w, "candidate")
      BY <1>2 DEF ClaimWrites
    <2>3. /\ next.attempts = runs[i].attempts + 1 /\ runs[i].attempts \in Nat
          /\ next.own = runs[i].own /\ next.seen = runs[i].seen
          /\ next.fresh = IF worker[w].attempts = 0 THEN worker[w].begun ELSE runs[i].fresh
      BY <2>1 DEF Claimed, Run
    <2>4. Reads(i, next.fresh) /\ next.fresh \subseteq Started
      BY <2>1, <2>2, <2>3, BegunFacts DEF FreshInv, FreshClaims, FreshRuns, BegunStarted
    <2>5. /\ known.at = "page" /\ known.run = i /\ known.begun = BegunNow(w)
      BY AtStepFacts, AtStepBegun DEF Worker
    <2> HIDE DEF next, known
    <2>6. RowKeeps(i, next)
      BY <2>1, <2>3, <2>4 DEF RowKeeps, Reads, Nonterminal, Terminal
    <2>7. RowsKeep
      BY <2>2, <2>6, OneRow
    <2>8. runs'[i].attempts # 0
      BY <2>1, <2>2, <2>3 DEF SetRun
    <2>9. Turn(w, known)
      BY <2>5, <2>8, BegunFacts DEF Turn
    <2>10. QED
      BY <2>2, <2>7, <2>9, FreshTurn DEF Turns
  <1>3. QED
    BY <1>1, <1>2 DEF ClaimWrites

LEMMA FreshArrives ==
  ASSUME IInv, FreshInv, RowsFollow, NEW w \in Workers, PageArrives(w)
  PROVE  FreshStep
  <1>1. PICK invalid \in BOOLEAN : Becomes(w,
          [worker[w] EXCEPT !.at = "arrived", !.invalid = invalid, !.seen = Started,
                            !.age = AgeNow(w)])
    BY DEF PageArrives
  <1> DEFINE known == [worker[w] EXCEPT !.at = "arrived", !.invalid = invalid,
                                        !.seen = Started, !.age = AgeNow(w)]
  <1>2. /\ known.at = "arrived" /\ known.seen = Started /\ known.run = worker[w].run
        /\ known.begun = worker[w].begun
    BY WorkerFacts DEF Worker
  <1> HIDE DEF known
  <1>3. Turn(w, known)
    BY <1>2, BegunFacts DEF Turn, PageArrives, At
  <1>4. QED
    BY <1>1, <1>3, SameRows, FreshTurn DEF PageArrives, Turns, known

\* The page committed was in hand, so it is newer than what the run is fresh for.
LEMMA FreshCommits ==
  ASSUME IInv, FreshInv, RowsFollow, NEW w \in Workers, PageCommits(w)
  PROVE  FreshStep
  <1> DEFINE i == worker[w].run
             page == worker[w].cursor
             next == WithPage(RunOf(w), w)
  <1>1. /\ worker[w] \in Worker /\ runs[i] \in Run /\ i \in DOMAIN runs
        /\ RunOf(w) = runs[i] /\ worker[w].at = "arrived"
    BY WorkerFacts DEF PageCommits, At, RunOf
  <1>2. page \in 1..Pages /\ runs[i].seen \in [1..Pages -> SUBSET Expiries]
        /\ runs[i].own \subseteq 1..Pages
    BY <1>1 DEF Worker, Run
  <1>3. /\ next.seen = [runs[i].seen EXCEPT ![page] = worker[w].seen]
        /\ next.own = runs[i].own \cup {page}
        /\ next.attempts = runs[i].attempts /\ next.fresh = runs[i].fresh
    BY <1>1 DEF WithPage, Run
  <1>4. SetRun(w, next)
    BY DEF PageCommits
  <1>5. runs[i].attempts # 0
    BY <1>1 DEF FreshInv, Unclaimed, OnRun
  <1> HIDE DEF next
  <1>6. RowKeeps(i, next)
    <2>1. ASSUME NEW es \in SUBSET Expiries, Reads(i, es), NEW p \in next.own
          PROVE  es \subseteq next.seen[p]
      BY <1>1, <1>2, <1>3, <2>1 DEF Reads, At
    <2>2. Reads(i, next.fresh) /\ next.fresh \subseteq Started
      BY <1>1, <1>3 DEF FreshInv, FreshRuns, BegunStarted
    <2>3. QED
      BY <1>3, <1>5, <2>1, <2>2 DEF RowKeeps
  <1>7. RowsKeep
    BY <1>4, <1>6, OneRow
  <1>8. Turns(w)
    <2>1. CASE Becomes(w, [AtStep(w, "page") EXCEPT !.cursor = worker[w].cursor + 1,
                                                   !.restarted = worker[w].restarted])
      <3> DEFINE known == [AtStep(w, "page") EXCEPT !.cursor = worker[w].cursor + 1,
                                                   !.restarted = worker[w].restarted]
      <3>1. known.at = "page" /\ known.run = i /\ known.begun = BegunNow(w)
        BY AtStepFacts, AtStepBegun DEF Worker
      <3> HIDE DEF known
      <3>2. Turn(w, known)
        BY <1>1, <3>1, BegunFacts DEF Turn
      <3>3. QED
        BY <2>1, <3>2 DEF Turns, known
    <2>2. QED
      BY <2>1, FinishesTurns DEF PageCommits
  <1>9. QED
    BY <1>7, <1>8, FreshTurn

LEMMA FreshFails ==
  ASSUME IInv, FreshInv, RowsFollow, NEW w \in Workers,
         PageRollsBack(w) \/ PageFails(w) \/ ProcessThrows(w) \/ CursorRejected(w)
  PROVE  FreshStep
  <1>1. worker[w] \in Worker /\ RunOf(w) \in Run
    BY WorkerFacts
  <1>2. Turns(w)
    <2>1. CASE Finishes(w)
      BY <2>1, FinishesTurns
    <2>2. CASE CursorRejected(w) /\ ~Finishes(w)
      <3> DEFINE known == [worker[w] EXCEPT !.cursor = 1, !.restarted = TRUE]
      <3>1. /\ known.at = "page" /\ worker[w].at = "page" /\ known.run = worker[w].run
            /\ known.begun = worker[w].begun
        BY <1>1, <2>2 DEF Worker, CursorRejected, At
      <3>2. Becomes(w, known)
        BY <2>2 DEF CursorRejected
      <3> HIDE DEF known
      <3>3. Turn(w, known)
        BY <3>1, BegunFacts DEF Turn
      <3>4. QED
        BY <3>2, <3>3 DEF Turns
    <2>3. QED
      BY <2>1, <2>2 DEF PageRollsBack, PageFails, ProcessThrows
  <1>3. RowsKeep
    <2>1. CASE UNCHANGED runs
      BY <2>1, SameRows
    <2>2. ASSUME NEW retryable \in BOOLEAN, SetRun(w, Failed(RunOf(w), w, retryable))
          PROVE  RowsKeep
      <3> DEFINE next == Failed(RunOf(w), w, retryable)
      <3>1. Alike(RunOf(w), next)
        BY <1>1 DEF Run, Failed, Alike
      <3> HIDE DEF next
      <3>2. QED
        BY <2>2, <3>1, AlikeRow DEF next
    <2>3. CASE SetRun(w, [RunOf(w) EXCEPT !.cursor = 1, !.left = Lease - Age(w)])
      <3> DEFINE next == [RunOf(w) EXCEPT !.cursor = 1, !.left = Lease - Age(w)]
      <3>1. Alike(RunOf(w), next)
        BY <1>1 DEF Run, Alike
      <3> HIDE DEF next
      <3>2. QED
        BY <2>3, <3>1, AlikeRow DEF next
    <2>4. QED
      BY <2>1, <2>2, <2>3 DEF PageRollsBack, PageFails, ProcessThrows, CursorRejected
  <1>4. QED
    BY <1>2, <1>3, FreshTurn

\* What an expiry run accepts has succeeded and is fresh for it.
LEMMA VerdictReady ==
  ASSUME NEW run, NEW e, Verdict(run, e) = "ready"
  PROVE  run.status \in Terminal /\ e \in run.fresh
  BY DEF Verdict, Terminal

LEMMA FreshExpires ==
  ASSUME IInv, FreshInv, RowsFollow, NEW e \in Expiries, ExpiryStarts(e) \/ ExpiryStep(e)
  PROVE  FreshStep
  <1>1. /\ e \in Workers /\ worker[e] \in Worker /\ worker[e].run \in DOMAIN runs
        /\ RunOf(e) = runs[worker[e].run] /\ worker[e].begun \subseteq Started
    BY WorkerFacts, BegunFacts DEF Workers, RunOf
  <1>2. RowsKeep
    <2>1. CASE UNCHANGED runs
      BY <2>1, SameRows
    <2>2. CASE runs' = Append(runs, NewRun("full", -Age(e)))
      BY <2>2, MoreRows DEF NewRun
    <2>3. QED
      BY <2>1, <2>2 DEF ExpiryStarts, ExpiryStep, InspectsLatest, LooksForActive,
         enqueueBankSync, EnqueueFails, InspectsOutcome, Releases
  <1>3. Turns(e)
    <2>1. CASE Ends(e)
      BY <1>1, <2>1, EndsTurns
    <2>2. CASE \E step \in {"latest", "active", "enqueue"} : Goes(e, step) \/ Begins(e, step)
      BY <1>1, <2>2, GoesTurns, BeginsTurns DEF Calm, Quiet
    <2>3. CASE /\ Verdict(runs[Len(runs)], e) = "ready"
               /\ Becomes(e, [AtStep(e, "ready") EXCEPT !.run = Len(runs)])
      <3> DEFINE latest == Len(runs)
                 step == AtStep(e, "ready")
                 known == [step EXCEPT !.run = latest]
      <3>1. known.at = "ready" /\ known.run = latest /\ known.begun = BegunNow(e)
        <4>1. step \in Worker /\ step.at = "ready" /\ step.begun = BegunNow(e)
          BY <1>1, AtStepFacts, AtStepBegun DEF Quiet
        <4> HIDE DEF step, latest
        <4>2. QED
          BY <4>1 DEF Worker
      <3>2. latest \in DOMAIN runs
        <4>1. DOMAIN runs = 1..Len(runs) /\ 1 \in DOMAIN runs /\ Len(runs) \in Nat
          BY <1>1, WorkerFacts DEF IInv, TruthfulRuns
        <4>2. QED
          BY <4>1
      <3>3. runs[latest].status \in Terminal /\ e \in runs[latest].fresh
        BY <2>3, VerdictReady
      <3> HIDE DEF known, latest
      <3>4. Turn(e, known)
        BY <1>1, <3>1, <3>2, <3>3, BegunFacts DEF Turn
      <3>5. QED
        BY <2>3, <3>4 DEF Turns, known, latest, step
    <2>4. ASSUME NEW i, Becomes(e, [worker[e] EXCEPT !.run = i, !.at = "claiming"])
          PROVE  Turns(e)
      <3> DEFINE known == [worker[e] EXCEPT !.run = i, !.at = "claiming"]
      <3>1. known.at = "claiming" /\ known.begun = worker[e].begun
        BY <1>1 DEF Worker
      <3> HIDE DEF known
      <3>2. QED
        BY <1>1, <2>4, <3>1, CalmTurns DEF known, Calm, Quiet
    <2>5. ASSUME NEW round, Becomes(e, [worker[e] EXCEPT !.at = "latest", !.round = round])
          PROVE  Turns(e)
      <3> DEFINE known == [worker[e] EXCEPT !.at = "latest", !.round = round]
      <3>1. known.at = "latest" /\ known.begun = worker[e].begun
        BY <1>1 DEF Worker
      <3> HIDE DEF known
      <3>2. QED
        BY <1>1, <2>5, <3>1, CalmTurns DEF known, Calm, Quiet
    <2>6. CASE Verdict(RunOf(e), e) = "ready" /\ Goes(e, "ready")
      <3> DEFINE known == [worker[e] EXCEPT !.at = "ready"]
      <3>1. known.at = "ready" /\ known.run = worker[e].run /\ known.begun = worker[e].begun
        BY <1>1 DEF Worker
      <3>2. RunOf(e).status \in Terminal /\ e \in RunOf(e).fresh
        BY <2>6, VerdictReady
      <3> HIDE DEF known
      <3>3. Turn(e, known)
        BY <1>1, <3>1, <3>2 DEF Turn
      <3>4. QED
        BY <2>6, <3>3 DEF Turns, known, Goes
    <2>7. CASE InspectsLatest(e) \/ LooksForActive(e)
      BY <2>1, <2>2, <2>3, <2>4, <2>7 DEF InspectsLatest, LooksForActive
    <2>8. CASE enqueueBankSync(e)
      BY <2>4, <2>8 DEF enqueueBankSync
    <2>9. CASE InspectsOutcome(e)
      BY <2>1, <2>5, <2>6, <2>9 DEF InspectsOutcome
    <2>10. QED
      BY <2>1, <2>2, <2>7, <2>8, <2>9 DEF ExpiryStarts, ExpiryStep, EnqueueFails, Releases
  <1>4. QED
    BY <1>1, <1>2, <1>3, FreshTurn

LEMMA FreshCreates ==
  ASSUME IInv, FreshInv, RowsFollow, requestManualBankSync
  PROVE  FreshStep
  <1>1. \A i \in DOMAIN runs : ResumedRun(runs[i]).own = {} /\ ResumedRun(runs[i]).fresh = {}
    BY DEF ResumedRun, NewRun
  <1>2. NewRun("full", 0).own = {} /\ NewRun("full", 0).fresh = {}
    BY DEF NewRun
  <1>3. RowsKeep
    BY <1>1, <1>2, MoreRows DEF requestManualBankSync
  <1>4. \A w \in Workers : Stays(w, worker'[w])
    BY DEF requestManualBankSync, Stays
  <1>5. QED
    BY <1>3, <1>4, FreshMoves DEF FreshStep

LEMMA FreshTicks ==
  ASSUME IInv, FreshInv, RowsFollow, Tick
  PROVE  FreshStep
  <1>1. ASSUME NEW w \in Workers PROVE Stays(w, worker'[w])
    BY WorkerFacts DEF Tick, Worker, Stays
  <1>2. ASSUME NEW i \in DOMAIN runs PROVE RowKeeps(i, Later(runs[i]))
    <2>1. runs[i] \in Run
      BY DEF IInv, TruthfulRuns
    <2>2. Alike(runs[i], Later(runs[i]))
      BY <2>1 DEF Later, Run, Alike
    <2>3. QED
      BY <2>2, AlikeKeeps
  <1>3. RowsKeep
    BY <1>2 DEF Tick, RowsKeep
  <1>4. QED
    BY <1>1, <1>3, FreshMoves DEF FreshStep

LEMMA FreshInitially == Init => FreshInv
  <1> SUFFICES ASSUME Init PROVE FreshInv
    OBVIOUS
  <1>1. DOMAIN runs = {1} /\ runs[1] = NewRun("full", 0)
    BY DEF Init
  <1>2. runs[1].own = {} /\ runs[1].fresh = {}
    BY <1>1 DEF NewRun
  <1>3. \A w \in Workers : worker[w].at = "idle" /\ worker[w].begun = {}
    BY DEF Init, Idle
  <1>4. QED
    BY <1>1, <1>2, <1>3 DEF FreshInv, BegunStarted, Unclaimed, FreshRuns, FreshClaims,
       ReadyRuns, Reads, OnRun, At, Workers

LEMMA FreshPreserved == IInv /\ FreshInv /\ [Next]_vars => FreshInv'
  <1> SUFFICES ASSUME IInv, FreshInv, [Next]_vars PROVE FreshStep
    BY DEF FreshStep
  <1>1. RowsFollow
    BY Preserved
  <1>2. CASE UNCHANGED vars
    <2>1. RowsKeep /\ \A w \in Workers : Stays(w, worker'[w])
      BY <1>2, SameRows DEF vars, Stays
    <2>2. QED
      BY <1>1, <2>1, FreshMoves DEF FreshStep
  <1>3. ASSUME NEW w \in Workers, Dies(w) PROVE FreshStep
    BY <1>1, <1>3, EndsTurns, SameRows, FreshTurn DEF Dies
  <1>4. ASSUME NEW w \in Workers, ProcessStep(w) PROVE FreshStep
    BY <1>1, <1>4, FreshReads, FreshClaimed, FreshArrives, FreshCommits, FreshFails
       DEF ProcessStep
  <1>5. QED
    BY <1>1, <1>2, <1>3, <1>4, FreshSweeps, FreshExpires, FreshCreates, FreshTicks
       DEF Next, UninterruptedNext

-----------------------------------------------------------------------------
(* Theorems *)

LEMMA Invariant == Spec => []IInv
  <1>1. IInv /\ [Next]_vars => IInv'
    BY Preserved
  <1>2. QED
    BY Initially, <1>1, PTL DEF Spec

\* Runs and workers keep their types.
THEOREM TypeCorrect == Spec => []TypeOK
  <1>1. IInv => TypeOK
    BY DEF IInv, TruthfulRuns, SoundWorkers, TypeOK
  <1>2. QED
    BY Invariant, <1>1, PTL

\* A run that reports its last page has imported every page of its window,
\* however often it was claimed, restarted, failed or resumed.
THEOREM ExhaustedIsImported == Spec => []ExhaustedMeansImported
  <1>1. IInv => ExhaustedMeansImported
    BY DEF IInv, TruthfulRuns, Truthful, ExhaustedMeansImported
  <1>2. QED
    BY Invariant, <1>1, PTL

\* No invalid item is forgotten: a run that met one does not end as SUCCEEDED.
THEOREM SucceededIsClean == Spec => []SucceededMeansClean
  <1>1. IInv => SucceededMeansClean
    BY DEF IInv, TruthfulRuns, Truthful, SucceededMeansClean
  <1>2. QED
    BY Invariant, <1>1, PTL

\* A run that has ended keeps its outcome, whoever still works on it.
THEOREM EndedForGood == Spec => EndedRunsFinal
  <1>1. RowsFollow => \A i \in DOMAIN runs : runs[i].status \in Terminal =>
          runs'[i].status = runs[i].status /\ runs'[i].own = runs[i].own
    BY DEF RowsFollow, Follows
  <1>2. IInv /\ [Next]_vars => \A i \in DOMAIN runs : runs[i].status \in Terminal =>
          runs'[i].status = runs[i].status /\ runs'[i].own = runs[i].own
    BY <1>1, Preserved
  <1>3. QED
    BY Invariant, <1>2, PTL DEF Spec, EndedRunsFinal

\* A page is never replaced by an older reading of it: whoever commits one holds
\* the run's lease, and has read the page after everybody who committed before.
THEOREM NewestPagesKept == Spec => NewerPageKept
  <1>1. IInv /\ [Next]_vars => IInv'
    BY Preserved
  <1>2. Spec => []SeenInv
    BY Initially, SeenInitially, SeenPreserved, <1>1, PTL DEF Spec
  <1>3. NewerStep => \A i \in DOMAIN runs, p \in 1..Pages :
                       runs[i].seen[p] \subseteq runs'[i].seen[p]
    BY DEF NewerStep
  <1>4. IInv /\ SeenInv /\ [Next]_vars =>
          \A i \in DOMAIN runs, p \in 1..Pages : runs[i].seen[p] \subseteq runs'[i].seen[p]
    BY <1>3, SeenPreserved
  <1>5. QED
    BY Invariant, <1>2, <1>4, PTL DEF Spec, NewerPageKept

\* The evidence an expiry run accepts was read from Holded after it had begun:
\* the time a claim writes to startedAt is never later than the first page.
THEOREM EvidenceFresh == Spec => []EvidenceIsFresh
  <1>1. IInv /\ [Next]_vars => IInv'
    BY Preserved
  <1>2. Spec => []FreshInv
    BY Initially, FreshInitially, FreshPreserved, <1>1, PTL DEF Spec
  <1>3. IInv /\ FreshInv => EvidenceIsFresh
    <2> SUFFICES ASSUME IInv, FreshInv, NEW e \in Expiries, At(e, "ready"),
                        NEW p \in RunOf(e).own
                 PROVE  e \in RunOf(e).seen[p]
      BY DEF EvidenceIsFresh
    <2>1. e \in RunOf(e).fresh /\ worker[e].run \in DOMAIN runs
      BY WorkerFacts DEF FreshInv, ReadyRuns, Workers
    <2>2. QED
      BY <2>1 DEF FreshInv, FreshRuns, Reads, RunOf
  <1>4. QED
    BY Invariant, <1>2, <1>3, PTL
=============================================================================
