------------------------------ MODULE Retention ------------------------------
(***************************************************************************)
(* How long bank data is kept (services/retention.ts), beside everything   *)
(* that uses it: the choice of the account (accounts.ts), the queueing of  *)
(* its synchronizations (synchronization.ts), and the proposals and        *)
(* payments made with its movements.                                       *)
(*                                                                         *)
(* A pass erases the movements of an account in a transaction that holds   *)
(* the account's row: until it commits nobody chooses the account, queues  *)
(* a run of it or imports a movement, but proposals and payments go on.    *)
(* Dates and days are numbers; a movement is an account and a date.        *)
(***************************************************************************)
EXTENDS Integers, FiniteSets, FiniteSetsExt

CONSTANTS
  Accounts,      \* treasury accounts Holded has
  Movements,     \* movements the bank has, pairs of an account and a date
  KeepDays,      \* BANK_RETENTION_DAYS
  RecentDays,    \* BANK_SYNC_RECENT_WINDOW_DAYS
  MaxRuns,       \* bounds of an instance: runs kept at a time
  MaxDay         \* ... and the last day

ASSUME RetentionAssumption ==
  /\ Movements \subseteq Accounts \X (0 .. MaxDay)
  /\ {KeepDays, RecentDays, MaxRuns, MaxDay} \subseteq Nat

VARIABLES
  treasury,   \* HoldedTreasuryAccount of each account: chosen once, active, start, floor
  syncRun,    \* BankSyncRun: account, window, status, day exhausted, day finished
  imported,   \* movements in the database
  proposal,   \* status of the proposal of each movement
  paid,       \* movements that are some booking's payment
  pass,       \* what runBankRetention is doing: accounts left, and what it read
  today

retentionVars == <<treasury, syncRun, imported, proposal, paid, pass, today>>

Never == -1
NoPass == [at |-> "idle", left |-> {}, account |-> "none", floor |-> Never, doomed |-> {}]

RetentionInit ==
  /\ treasury = [a \in Accounts |->
       [exists |-> FALSE, active |-> FALSE, start |-> 0, floor |-> Never]]
  /\ syncRun = {} /\ imported = {} /\ paid = {}
  /\ proposal = [m \in Movements |-> "none"]
  /\ pass = NoPass /\ today = 0

\* The row is free of a transaction of the pass.
Unlocked(a) == pass.account # a

Live == {"PENDING", "CONFIRMED"}

-----------------------------------------------------------------------------
(* The account, and its synchronizations *)

fullBankSyncWindowStart(a) ==
  IF treasury[a].floor > treasury[a].start THEN treasury[a].floor ELSE treasury[a].start

\* Runs that read everything from the given date on, to the end.
FullScans(a, start) ==
  {r \in syncRun : /\ r.account = a /\ r.status \in {"SUCCEEDED", "PARTIAL"}
                   /\ r.exhausted # Never /\ r.window <= start}

scheduledBankSyncWindowStart(a) ==
  LET full == fullBankSyncWindowStart(a) IN
  IF \E r \in FullScans(a, full) : r.exhausted = today /\ today - RecentDays > full
  THEN today - RecentDays ELSE full

Queued(a, window) ==
  [account |-> a, window |-> window, status |-> "QUEUED", exhausted |-> Never, finished |-> Never]

Open(r) == r.status = "QUEUED"

saveTreasuryAccount(a, start) ==
  LET locked == \E r \in syncRun : r.account = a IN
  /\ start <= today
  /\ Unlocked(a) /\ \A b \in Accounts : treasury[b].active => Unlocked(b)
  /\ treasury[a].exists /\ locked => start = treasury[a].start
  /\ treasury' = [b \in Accounts |->
       IF b = a THEN [treasury[a] EXCEPT !.exists = TRUE, !.active = TRUE, !.start = start]
       ELSE [treasury[b] EXCEPT !.active = FALSE]]
  /\ \/ ~locked /\ Cardinality(syncRun) < MaxRuns
        /\ syncRun' = syncRun \cup {Queued(a, start)}
     \/ locked /\ UNCHANGED syncRun
  /\ UNCHANGED <<imported, proposal, paid, pass, today>>

\* Scheduled or manual; a manual one may take up the window of one that failed.
QueueRun(a) ==
  /\ treasury[a].active /\ Unlocked(a) /\ Cardinality(syncRun) < MaxRuns
  /\ \A r \in syncRun : r.account = a => ~Open(r)
  /\ \E window \in {scheduledBankSyncWindowStart(a), fullBankSyncWindowStart(a)} \cup
                   {r.window : r \in {s \in syncRun : s.account = a
                                        /\ s.status \in {"PARTIAL", "FAILED"}}} :
       syncRun' = syncRun \cup {Queued(a, window)}
  /\ UNCHANGED <<treasury, imported, proposal, paid, pass, today>>

\* A run imports what there is from its window on, in any order and number.
ImportMovement(m) ==
  /\ m \notin imported /\ m[2] <= today /\ Unlocked(m[1])
  /\ \E r \in syncRun : r.account = m[1] /\ Open(r) /\ r.window <= m[2]
  /\ imported' = imported \cup {m}
  /\ UNCHANGED <<treasury, syncRun, proposal, paid, pass, today>>

RunEnds(r) ==
  /\ Open(r)
  /\ \E status \in {"SUCCEEDED", "PARTIAL", "FAILED"}, exhausted \in BOOLEAN :
       /\ status = "SUCCEEDED" => exhausted
       /\ status = "FAILED" => ~exhausted
       /\ syncRun' = (syncRun \ {r}) \cup
            {[r EXCEPT !.status = status, !.finished = today,
                       !.exhausted = IF exhausted THEN today ELSE Never]}
  /\ UNCHANGED <<treasury, imported, proposal, paid, pass, today>>

-----------------------------------------------------------------------------
(* Proposals and payments *)

ProposalMoves(m, from, to) ==
  /\ m \in imported /\ proposal[m] = from
  /\ proposal' = [proposal EXCEPT ![m] = to]
  /\ UNCHANGED <<treasury, syncRun, imported, pass, today>>

Propose(m) == ProposalMoves(m, "none", "PENDING") /\ UNCHANGED paid
Confirm(m) == ProposalMoves(m, "PENDING", "CONFIRMED") /\ paid' = paid \cup {m}
Dismiss(m) == ProposalMoves(m, "PENDING", "DISMISSED") /\ UNCHANGED paid

-----------------------------------------------------------------------------
(* Retention *)

StartPass ==
  /\ pass.at = "idle"
  /\ \E a \in Accounts : treasury[a].exists
  /\ pass' = [NoPass EXCEPT !.at = "between",
                            !.left = {a \in Accounts : treasury[a].exists}]
  /\ UNCHANGED <<treasury, syncRun, imported, proposal, paid, today>>

\* The floor an account comes to have: the day's, once a run has read all that
\* is going to be behind it.
CandidateFloor == today - KeepDays
EffectiveFloor(a) ==
  LET old == treasury[a].floor
      required == IF old = Never THEN treasury[a].start ELSE old
  IN IF old # Never /\ CandidateFloor <= old THEN old
     ELSE IF FullScans(a, required) # {} THEN CandidateFloor ELSE Never

\* The transaction, up to its reading of what may go.
ReadDoomed(a) ==
  /\ pass.at = "between" /\ a \in pass.left
  /\ LET floor == EffectiveFloor(a)
         doomed == {m \in imported : /\ m[1] = a /\ m[2] < floor /\ m \notin paid
                                     /\ proposal[m] \notin Live}
     IN pass' = IF floor = Never \/ (doomed = {} /\ floor = treasury[a].floor)
                THEN [pass EXCEPT !.left = @ \ {a}]
                ELSE [pass EXCEPT !.left = @ \ {a}, !.at = "erasing", !.account = a,
                                  !.floor = floor, !.doomed = doomed]
  /\ UNCHANGED <<treasury, syncRun, imported, proposal, paid, today>>

\* Proposals of the doomed that are settled by now go first; a movement that still
\* has one, or a payment, may not go (onDelete: Restrict).
Restricted_Cascade == {}
Restricted == {m \in pass.doomed : m \in paid \/ proposal[m] \in Live}

Erase ==
  /\ pass.at = "erasing"
  /\ IF Restricted = {}
     THEN /\ treasury' = [treasury EXCEPT ![pass.account].floor = pass.floor]
          /\ imported' = imported \ pass.doomed
          /\ proposal' = [m \in Movements |->
               IF m \in pass.doomed /\ proposal[m] \notin Live THEN "none" ELSE proposal[m]]
          /\ pass' = [pass EXCEPT !.at = "between", !.account = "none",
                                  !.floor = Never, !.doomed = {}]
     ELSE \* The transaction is rolled back and the whole pass throws.
          pass' = NoPass /\ UNCHANGED <<treasury, imported, proposal>>
  /\ UNCHANGED <<syncRun, paid, today>>

PruneRuns ==
  /\ pass.at = "between" /\ pass.left = {}
  /\ syncRun' = {r \in syncRun : Open(r) \/ r.finished >= today - KeepDays}
  /\ pass' = NoPass
  /\ UNCHANGED <<treasury, imported, proposal, paid, today>>

\* Before the commit nothing has happened.
PassDies ==
  /\ pass.at # "idle" /\ pass' = NoPass
  /\ UNCHANGED <<treasury, syncRun, imported, proposal, paid, today>>

DayPasses ==
  /\ today < MaxDay /\ pass.at = "idle" /\ today' = today + 1
  /\ UNCHANGED <<treasury, syncRun, imported, proposal, paid, pass>>

RetentionNext ==
  \/ \E a \in Accounts :
       \/ \E start \in 0 .. MaxDay : saveTreasuryAccount(a, start)
       \/ QueueRun(a) \/ ReadDoomed(a)
  \/ \E m \in Movements : ImportMovement(m) \/ Propose(m) \/ Confirm(m) \/ Dismiss(m)
  \/ \E r \in syncRun : RunEnds(r)
  \/ StartPass \/ Erase \/ PruneRuns \/ PassDies \/ DayPasses

-----------------------------------------------------------------------------
(* Properties *)

\* Retention never erases the movement of a payment or of a proposal that is pending
\* or confirmed, also of one made after the pass chose what to erase; and a run reads
\* nothing from before the date the account is imported from.
EvidenceKept ==
  /\ \A m \in Movements : m \in paid \/ proposal[m] \in Live => m \in imported
  /\ \A r \in syncRun : r.window >= treasury[r.account].start

\* What the data model says of the date (data-model.md:93: "immutable after first run
\* is queued"; :125: "Reselecting a historical account reuses its locked import date
\* and retention floor"); the code forgets the runs it goes by when it prunes them.
StartDateLocked ==
  [][\A a \in Accounts : treasury[a].exists => treasury'[a].start = treasury[a].start]_retentionVars
=============================================================================
