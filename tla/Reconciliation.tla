--------------------------- MODULE Reconciliation ---------------------------
(***************************************************************************)
(* Matching bank movements with bookings:                                  *)
(* banking/services/reconciliation.ts and the transaction of               *)
(* synchronization.ts that calls it for each page.  PostgreSQL runs these  *)
(* transactions under READ COMMITTED, so each is a step for its reads, one *)
(* for each later reading it decides by, and one for its writes, which are *)
(* conditional where the code's are.  (Unique indexes: one Payment per     *)
(* movement, one proposal per movement and booking.)                       *)
(***************************************************************************)
EXTENDS Decisions

Decide(m, b, status) == proposal' = [proposal EXCEPT ![m][b] = status]

-----------------------------------------------------------------------------
(* The bank, and one page of it written by a synchronization run *)

\* A transfer arrives, or the bank corrects one.
BankChanges(m) ==
  /\ bankChanges < MaxBankChanges
  /\ \E content \in Movement \ {bank[m]} : bank' = [bank EXCEPT ![m] = content]
  /\ bankChanges' = bankChanges + 1
  /\ UNCHANGED <<records, money, notices, tail, session, scan, expiry>>

\* Only rows that are new or differ from the page are reconciled.
Changed == {m \in Movements : bank[m] # movement[m]}

Creates(m, b) ==
  ~IsPaid(m) /\ proposal[m][b] = "NONE" /\ isAutomaticMatch(bank[m], b)

Invalidates(m, b) ==
  proposal[m][b] = "PENDING" /\ (IsPaid(m) \/ ~isAutomaticMatch(bank[m], b))

ToCreate == {p \in Changed \X Bookings : Creates(p[1], p[2])}
ToInvalidate == {p \in Changed \X Bookings : Invalidates(p[1], p[2])}

\* CONFIRMED_MATCH_CHANGED makes the run PARTIAL instead of SUCCEEDED.
CorrectsConfirmed ==
  \E m \in Changed, b \in Bookings :
    proposal[m][b] = "CONFIRMED" /\ ~isCandidate(bank[m], b)

\* The run's single page.  It is fresh until an expiry run starts after it.
ScanReads ==
  /\ scan = NoScan
  /\ scan' = [running |-> TRUE, page |-> bank, at |-> bankChanges,
              create |-> ToCreate, invalidate |-> ToInvalidate,
              incident |-> CorrectsConfirmed, fresh |-> TRUE]
  /\ UNCHANGED <<records, money, world, notices, tail, session, expiry>>

\* createMany skips duplicates, and only PENDING rows are invalidated.
Reconciled_Unconditional(m, b) ==
  IF <<m, b>> \in scan.create THEN "PENDING"
  ELSE IF <<m, b>> \in scan.invalidate THEN "INVALIDATED" ELSE proposal[m][b]
Reconciled(m, b) ==
  IF <<m, b>> \in scan.create /\ proposal[m][b] = "NONE" THEN "PENDING"
  ELSE IF <<m, b>> \in scan.invalidate /\ proposal[m][b] = "PENDING"
  THEN "INVALIDATED" ELSE proposal[m][b]

ExpiryAfter(scanned) ==
  IF ~(scan.fresh /\ expiry.at = "waiting") THEN expiry
  ELSE IF scanned /\ ~scan.incident THEN [expiry EXCEPT !.at = "ready"]
  ELSE NoExpiry

ScanCommits ==
  /\ scan # NoScan
  /\ movement' = scan.page
  /\ importedAt' = scan.at
  /\ proposal' = [m \in Movements |-> [b \in Bookings |-> Reconciled(m, b)]]
  /\ expiry' = ExpiryAfter(TRUE)
  /\ scan' = NoScan
  /\ UNCHANGED <<records, payments, invoices, world, notices, tail, session>>

\* A lost lease or a database error rolls the page back.
ScanFails ==
  /\ scan # NoScan
  /\ expiry' = ExpiryAfter(FALSE)
  /\ scan' = NoScan
  /\ UNCHANGED <<records, money, world, notices, tail, session>>

-----------------------------------------------------------------------------
(* confirmReconciliationProposal ("proposal"), confirmBookingPaymentCandidate *)
(* ("candidate") and dismissBookingPaymentCandidate ("dismissal")             *)

Kinds == {"proposal", "candidate", "dismissal"}

\* The checks made on the rows read when the transaction starts.
Acceptable(kind, m, b) ==
  /\ ~IsPaid(m)
  /\ IF kind = "proposal"
     THEN proposal[m][b] = "PENDING" /\ isAutomaticMatch(movement[m], b)
     ELSE isCandidate(movement[m], b)

OperatorReads(o, kind, m, b) ==
  /\ session[o] = NoSession
  /\ Acceptable(kind, m, b)
  /\ session' = [session EXCEPT ![o] =
       [kind |-> kind, booking |-> b, movement |-> m, amount |-> movement[m].amount,
        owed |-> 0]]
  /\ UNCHANGED <<records, money, world, notices, tail, scan, expiry>>

\* A candidate's row is upserted; then the row must be PENDING to be decided.
Claimable(s) ==
  LET status == proposal[s.movement][s.booking]
  IN status = "PENDING" \/ (s.kind # "proposal" /\ status = "NONE")

\* The row is claimed, and recordTrustedPayment reads again what the booking owes.
MayAccept_StaleAmount(s) == Claimable(s)
MayAccept(s) == Claimable(s) /\ AmountAccepted(s.kind, s.booking, s.amount)

OperatorAccepts(o) ==
  /\ session[o].kind \in {"proposal", "candidate"}
  /\ session[o].owed = 0
  /\ LET s == session[o]
     IN session' = [session EXCEPT ![o] =
          IF MayAccept(s) THEN [s EXCEPT !.owed = agreed[s.booking]] ELSE NoSession]
  /\ UNCHANGED <<records, money, world, notices, tail, scan, expiry>>

\* The claimed row and the inserted payment are locked until the commit, and who
\* wants them waits to find them decided or taken.  Here the first to commit has
\* them and the others fail, which leaves the same rows.
MayConfirm_TrustingReads(s) == InState(s.booking, "AWAITING_PAYMENT")
MayConfirm(s) ==
  /\ Claimable(s)
  /\ ~IsPaid(s.movement)
  /\ InState(s.booking, "AWAITING_PAYMENT")

\* Every other PENDING proposal of the movement or of the booking goes.
Confirmed(s, m, b) ==
  IF m = s.movement /\ b = s.booking THEN "CONFIRMED"
  ELSE IF (m = s.movement \/ b = s.booking) /\ proposal[m][b] = "PENDING"
  THEN "INVALIDATED" ELSE proposal[m][b]

InvoicesAfter(b) == invoices \cup {b}

Confirms(s) ==
  /\ TrustedPayment(s.booking, s.movement, s.amount)
  /\ proposal' = [m \in Movements |-> [b \in Bookings |-> Confirmed(s, m, b)]]
  /\ invoices' = InvoicesAfter(s.booking)
  /\ Afterwards(s.booking, "CONFIRMED")

\* The transaction commits as a whole, or an error leaves everything as it was.
OperatorCommits(o) ==
  /\ session[o].kind \in Kinds
  /\ session[o].kind = "dismissal" \/ session[o].owed # 0
  /\ LET s == session[o]
     IN \/ s.kind # "dismissal" /\ MayConfirm(s) /\ Confirms(s)
        \/ /\ s.kind = "dismissal" /\ Claimable(s)
           /\ Decide(s.movement, s.booking, "DISMISSED")
           /\ UNCHANGED <<state, payments, invoices, tail>>
        \/ /\ ~(s.kind # "dismissal" /\ MayConfirm(s))
           /\ ~(s.kind = "dismissal" /\ Claimable(s))
           /\ UNCHANGED <<state, payments, proposal, invoices, tail>>
  /\ session' = [session EXCEPT ![o] = NoSession]
  /\ UNCHANGED <<due, agreed, documented, quote, movement, importedAt, world,
                 notices, scan, expiry>>

\* dismissReconciliationProposal: one conditional update.
Dismiss(m, b) ==
  /\ proposal[m][b] = "PENDING"
  /\ Decide(m, b, "DISMISSED")
  /\ UNCHANGED <<records, movement, importedAt, payments, invoices, world,
                 notices, tail, session, scan, expiry>>
=============================================================================
