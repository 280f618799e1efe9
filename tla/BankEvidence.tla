---------------------------- MODULE BankEvidence ----------------------------
(***************************************************************************)
(* The evidence expiry waits for: ensureFreshBankEvidenceForExpiry of      *)
(* banking/services/expiry.ts.  It inspects the account's latest run,      *)
(* takes over or creates one when that is not enough, and processes it     *)
(* itself, beside the sweeps of BankSync.                                  *)
(***************************************************************************)
EXTENDS BankSync

\* Rounds of the loop before it gives up.
MaxSteps == 4

\* inspectRun: "running" when the run may still become evidence, "none" when
\* it tells nothing.
Verdict_AnyTime(run, e) ==
  CASE run.status = "SUCCEEDED" -> IF run.exhausted THEN "ready" ELSE "none"
    [] run.status = "RETRYING" -> "deferred"
    [] run.status \in {"PARTIAL", "FAILED"} -> "none"
    [] OTHER -> "running"
Verdict(run, e) ==
  CASE run.status = "SUCCEEDED" -> IF e \in run.fresh /\ run.exhausted THEN "ready" ELSE "none"
    [] run.status = "RETRYING" -> "deferred"
    [] run.status \in {"PARTIAL", "FAILED"} -> IF e \in run.fresh THEN "deferred" ELSE "none"
    [] OTHER -> "running"

ExpiryStarts(e) ==
  /\ At(e, "idle")
  /\ Begins(e, "latest")
  /\ UNCHANGED runs

\* The newest run.  (Its id and its row are two reads; a run that gets a
\* successor in between has ended, so the row is as it was.)
InspectsLatest(e) ==
  /\ At(e, "latest")
  /\ LET verdict == Verdict(runs[Len(runs)], e) IN
     IF verdict = "deferred" THEN Ends(e)
     ELSE IF verdict = "ready" THEN Becomes(e, [AtStep(e, "ready") EXCEPT !.run = Len(runs)])
     ELSE Goes(e, "active")
  /\ UNCHANGED runs

LooksForActive(e) ==
  /\ At(e, "active")
  /\ \/ ActiveRuns = {} /\ Goes(e, "enqueue")
     \/ \E i \in ActiveRuns :
          IF runs[i].status = "RETRYING" THEN Ends(e)
          ELSE Becomes(e, [worker[e] EXCEPT !.run = i, !.at = "claiming"])
  /\ UNCHANGED runs

\* enqueueBankSync: the full window, from the first page; a run that has become
\* active meanwhile is taken as it is.
enqueueBankSync(e) ==
  /\ At(e, "enqueue")
  /\ \/ /\ MayCreate
        /\ runs' = Append(runs, NewRun("full", -Age(e)))
        /\ Becomes(e, [worker[e] EXCEPT !.run = Len(runs) + 1, !.at = "claiming"])
     \/ \E i \in ActiveRuns :
          Becomes(e, [worker[e] EXCEPT !.run = i, !.at = "claiming"]) /\ UNCHANGED runs

\* The unique index was against it: the task fails.
EnqueueFails(e) ==
  /\ At(e, "enqueue")
  /\ Ends(e)
  /\ UNCHANGED runs

InspectsOutcome(e) ==
  /\ At(e, "outcome")
  /\ LET verdict == Verdict(RunOf(e), e)
         round == worker[e].round + 1
     IN IF verdict = "ready" THEN Goes(e, "ready")
        ELSE IF verdict = "none" /\ round < MaxSteps
        THEN Becomes(e, [worker[e] EXCEPT !.at = "latest", !.round = round])
        ELSE Ends(e)
  /\ UNCHANGED runs

\* The bookings are released (BookingExpiry.tla).
Releases(e) ==
  /\ At(e, "ready")
  /\ Ends(e)
  /\ UNCHANGED runs

-----------------------------------------------------------------------------
Init ==
  /\ runs = <<NewRun("full", 0)>>   \* saveTreasuryAccount
  /\ worker = [w \in Workers |-> Idle]

SweepStep(w) == SweepStarts(w) \/ enqueueDueBankSyncRuns(w)

ExpiryStep(e) ==
  \/ InspectsLatest(e) \/ LooksForActive(e) \/ enqueueBankSync(e) \/ EnqueueFails(e)
  \/ InspectsOutcome(e) \/ Releases(e)

ProcessStep(w) ==
  \/ ClaimReads(w) \/ GivesUp(w) \/ ClaimWrites(w)
  \/ PageArrives(w) \/ PageCommits(w) \/ PageRollsBack(w)
  \/ PageFails(w) \/ ProcessThrows(w) \/ CursorRejected(w)

UninterruptedNext ==
  \/ \E w \in Sweeps : SweepStep(w)
  \/ \E e \in Expiries : ExpiryStarts(e) \/ ExpiryStep(e)
  \/ \E w \in Workers : ProcessStep(w)
  \/ requestManualBankSync
  \/ Tick

Next == UninterruptedNext \/ \E w \in Workers : Dies(w)

Spec == Init /\ [][Next]_vars

\* Time passes, every instance's sweep is started again and goes on until it
\* ends (statements and provider calls have deadlines), and from some time on
\* no process dies.
FairSpec ==
  /\ Spec
  /\ <>[][UninterruptedNext]_vars
  /\ WF_vars(Tick)
  /\ \A w \in Sweeps : WF_vars(SweepStep(w))
  /\ \A e \in Expiries : WF_vars(ExpiryStep(e))
  /\ \A w \in Workers : WF_vars(ProcessStep(w))

-----------------------------------------------------------------------------
Run ==
  [status : Nonterminal \cup Terminal, window : Windows, cursor : 1..Pages,
   attempts : Nat, holder : Workers \cup {Nobody}, left : Int,
   fresh : SUBSET Expiries, incidents : BOOLEAN, exhausted : BOOLEAN,
   done : SUBSET (1..Pages), own : SUBSET (1..Pages),
   seen : [1..Pages -> SUBSET Expiries], spoilt : BOOLEAN]

Worker ==
  [at : {"idle", "sweeping", "claiming", "candidate", "page", "arrived", "latest",
         "active", "enqueue", "outcome", "ready", "over"},
   run : Nat \ {0}, attempts : Nat, progress : BOOLEAN, cursor : 1..Pages,
   restarted : BOOLEAN, invalid : BOOLEAN, seen : SUBSET Expiries, age : Nat,
   begun : SUBSET Expiries, round : Nat]

TypeOK == runs \in Seq(Run) /\ worker \in [Workers -> Worker]

\* Whoever claims, resumes, restarts or loses the run: a run that reports its
\* last page has imported every page of its window, itself or through the runs
\* it resumes.  Retention deletes movements on the strength of this.
ExhaustedMeansImported ==
  \A i \in DOMAIN runs :
    runs[i].exhausted => 1..LastPage(runs[i].window) \subseteq runs[i].done

\* A run with an invalid item on any of its pages never ends as SUCCEEDED, over
\* however many attempts and workers the pages were spread.
SucceededMeansClean ==
  \A i \in DOMAIN runs : runs[i].status = "SUCCEEDED" => ~runs[i].spoilt

\* The evidence an expiry run accepts was read after that run had started, as
\* far as the accepted run read it itself.
EvidenceIsFresh ==
  \A e \in Expiries : At(e, "ready") =>
    \A p \in RunOf(e).own : e \in RunOf(e).seen[p]

\* A run that has ended stays as it ended: no late page, failure or claim.
EndedRunsFinal ==
  [][\A i \in DOMAIN runs : runs[i].status \in Terminal =>
       runs'[i].status = runs[i].status /\ runs'[i].own = runs[i].own]_vars

\* A page is never replaced by an older reading of it: who stalled with a page
\* in hand, and lost the lease to somebody who read it again, does not write it.
NewerPageKept ==
  [][\A i \in DOMAIN runs, p \in 1..Pages :
       runs[i].seen[p] \subseteq runs'[i].seen[p]]_vars

\* The one nonterminal run an account may have ends, whoever held it.
RunsEnd ==
  \A i \in 1..MaxRuns :
    [](i \in ActiveRuns => <>(i \notin ActiveRuns))

\* "Expires due bookings only after a fresh, complete bank scan"
\* (booking/services/expiry.ts).
EvidenceIsComplete ==
  \A e \in Expiries : At(e, "ready") =>
    \A p \in 1..Pages : e \in RunOf(e).seen[p]
=============================================================================
