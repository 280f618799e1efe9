---------------------------- MODULE BookingExpiry ----------------------------
(***************************************************************************)
(* Releasing unpaid bookings: booking/services/expiry.ts, and of           *)
(* banking/services/expiry.ts what decides it - a clean bank scan that     *)
(* started after the run did (see ScanReads and ExpiryAfter).              *)
(***************************************************************************)
EXTENDS Reconciliation

\* setUTCDate(+ PAYMENT_WINDOW_DAYS) days go by.
DeadlinePasses(b) ==
  /\ due[b] = "ahead"
  /\ due' = [due EXCEPT ![b] = "passed"]
  /\ UNCHANGED <<state, agreed, documented, quote, money, world, notices, tail,
                 session, scan, expiry>>

Overdue(b) == InState(b, "AWAITING_PAYMENT") /\ due[b] = "passed"
OverdueBookings == {b \in Bookings : Overdue(b)}

\* inspectRun: a page already being written is of a run that started too early.
ScanTooEarly == IF scan = NoScan THEN NoScan ELSE [scan EXCEPT !.fresh = FALSE]

ExpiryReads ==
  /\ expiry.at = "idle"
  /\ OverdueBookings # {}
  /\ expiry' = [at |-> "waiting", since |-> bankChanges,
                candidates |-> OverdueBookings]
  /\ scan' = ScanTooEarly
  /\ UNCHANGED <<records, money, world, notices, tail, session>>

\* No evidence: deferred to the next day's run.
ExpiryDefers ==
  /\ expiry.at = "waiting"
  /\ expiry' = NoExpiry
  /\ UNCHANGED <<records, money, world, notices, tail, session, scan>>

\* The transaction re-reads every candidate.
Releasable_IgnoringProposals(b) == Overdue(b)
Releasable_NeverProposed(b) ==
  Overdue(b) /\ \A m \in Movements : proposal[m][b] = "NONE"
Releasable(b) == Overdue(b) /\ \A m \in Movements : proposal[m][b] # "PENDING"

ExpiryChecks ==
  /\ expiry.at = "ready"
  /\ expiry' = [expiry EXCEPT !.at = "checked",
                 !.candidates = {b \in expiry.candidates : Releasable(b)}]
  /\ UNCHANGED <<records, money, world, notices, tail, session, scan>>

\* One candidate that moved meanwhile rolls the whole run back.
StillAwaiting_Unchecked(candidates) == TRUE
StillAwaiting(candidates) == \A b \in candidates : InState(b, "AWAITING_PAYMENT")

ExpiryCommits ==
  /\ expiry.at = "checked"
  /\ state' = [b \in Bookings |->
       IF b \in expiry.candidates /\ StillAwaiting(expiry.candidates)
       THEN "EXPIRED" ELSE state[b]]
  /\ expiry' = NoExpiry
  /\ UNCHANGED <<due, agreed, documented, quote, money, world, notices, tail,
                 session, scan>>
=============================================================================
