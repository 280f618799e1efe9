# Formal model of Bereius

TLA+ specifications of the parts of Bereius where order, races and failures
decide whether a booking is handled correctly, with TLC configurations that
check them on small instances and TLAPS proofs that hold for any number of
bookings, movements, operators, workers and jobs.

Bereius is a Next.js application with a PostgreSQL database (Prisma, READ
COMMITTED). Several instances may run at once (`README.md:176-181` of the
repository). It takes booking requests from Gravity Forms, quotes them in the
invoicing service Holded, mails the customer, watches a bank account through
Holded, and confirms or releases bookings. Atomicity comes from three things
only, and the models keep exactly these: one SQL statement, `updateMany` with a
condition (a compare-and-set), and unique indexes. A transaction that reads
first and writes later is two steps here, because READ COMMITTED lets others
commit in between.

## The system

| Component | State | Operations | Meets | What must hold |
| --- | --- | --- | --- | --- |
| Lifecycle and decisions (`booking/services/lifecycle.ts`, `decisions.ts`) | `BookingRequest.state`, `paymentDueAt`, agreed amounts, `Payment` | approve, reject, cancel, record a payment; notices | operators, outbox | only allowed transitions; confirmed exactly with money; decisions announced |
| Intake (`intake.ts`) | `IntakeCursor`, customers, requests | hourly or manual import | scheduler, Gravity Forms | every valid entry arrives, the cursor never ahead of it, newest contact data |
| Quoting (`quoting.ts`, `pricing.ts`) | `HoldedDocument`, contact ids, amounts | one job per booking: contact, estimate, lines, approve, send, record | outbox, Holded, contact sync | one contact and one estimate; amounts agree with the estimate that is mailed |
| Document delivery (`document-delivery.ts`) | `DocumentDelivery`, `sentAt` | prepare, deliver, park | quoting, reserve invoices, Holded | at most one e-mail, to frozen recipients |
| Reserve invoices (`reserve-invoice.ts`) | `DocumentIssuance` | create, issue, deliver | outbox, reconciliation, Holded | one invoice per paid booking, mailed as approved |
| Outbox (`outbox.ts`) | `IntegrationJob` | enqueue, claim, complete, fail | everything slow | one handler at a time, bounded retries, finished stays finished |
| Expiry (`booking/services/expiry.ts`, `banking/services/expiry.ts`) | - | daily run | bank synchronization, reconciliation | never releases a booking whose money is there |
| Bank synchronization (`synchronization.ts`) | `BankSyncRun` (lease, cursor, attempts), `BankMovement` | enqueue, claim, page, retry | scheduler, expiry, Holded | one run per account, pages applied once by the lease holder |
| Reconciliation (`reconciliation.ts`, `payment-matching.ts`) | `BankReconciliationProposal` | propose, invalidate, confirm, dismiss | synchronization, decisions | a movement pays one booking once; decided proposals final |
| Retention, accounts (`retention.ts`, `accounts.ts`) | movements, runs, the active account | prune, choose | synchronization, reconciliation | nothing still needed is deleted |
| Contact sync (`contact-sync.ts`) | customer fields, linked estimate | pull, push, create, link an estimate | quoting, lifecycle | a linked estimate implies approval; one contact per customer |
| Scheduler (`scheduler.ts`) | timers | five tasks, each never overlapping itself | all of the above | every task is run again |
| Holded client (`lib/holded/client.ts`) | an in-process read cache | reads and writes with deadlines | all of the above | a fresh read is fresh; an outcome says what happened |
| Settings (`booking/services/settings.ts`, `actions/settings.ts`) | one row per provider: credential, configuration, verification | save, test, use | administrators, Holded, mail | a verified row was verified as it is |
| Login, signup (`lib/auth-adapter.ts`, `modules/login`, `signup`) | users, tokens, intents, sessions | challenges by link or code, activation | the mail gate | single use, bounded guesses |
| Account security, deletion, export (`modules/account`) | links, authorizations; three dialogs in the browser | prove the mailbox again, revoke, delete, download | login's tables | nothing outlives an account; the page tells the truth; an export of one moment |
| Rate limits, provider availability (`lib/shared-rate-limit.ts`, `provider-availability.ts`) | `RateLimitBucket` | count, observe, probe | login and signup | allowances hold; a mail goes out only while the provider is thought healthy |

`PROJECT.json` lists these and the rest (pages, queries, SMTP) with
their status, and under `hazards` every place where an interleaving, a crash, a
lost answer or stale data could break one of the last column's promises.

## Modules

```
BookingRecords <- Decisions <- Reconciliation <- BookingExpiry <- Booking <- MCBooking
                                                    BookingLifecycle <-'  '- BookingProofs
ProviderWrite <- DocumentDelivery <- ServicesProofs
Outbox <- OutboxProofs
       |- Quoting <- MCQuoting
       |        '- QuotingProofs
       '- ReserveInvoice <- ReserveInvoiceProofs
BankSync <- BankEvidence <- BankSyncProofs
Pricing <- Intake <- MCIntake
              '- IntakeProofs
Accounts <- SignIn <- AccountLinks <- MCAccounts, AccountProofs
DeletionDialog, SessionDialog, ExportPanel, DataExport <- MCServices, AccountProofs
MailGate, HoldedClient, Settings, Retention <- MCServices, ServicesProofs
```

An arrow points from a module to one that uses it. `ReserveInvoiceProofs` and
`QuotingProofs` also use `OutboxProofs`. `DocumentDelivery`,
`ReserveInvoice` and `BankEvidence` are run as they are; the `MC` modules add
the definitions their configurations need. `MCServices` puts
several parts side by side. These meet others only through answers, any of which the
other side may give, so nothing is lost when a behaviour is one of one part (the variable
`part`) while the others rest. A product of them would only multiply states.

### Bookings and their money

`BookingLifecycle` is the abstract specification: requests make the moves of
`ALLOWED_TRANSITIONS`, and a booking is confirmed in the same step its money is
recorded. `Booking` composes the detailed one out of four parts.

- `BookingRecords`: the rows all services share, and the helpers of
  `lifecycle.ts` and `payment-matching.ts`.
- `Decisions`: approve, reject, cancel, record a payment, link an estimate, and
  the database side of the quote job. A service commits its transition first and
  does the rest in later statements: `tail` holds what is still to be done
  (deadline, then quote job; or a notice), and a crash empties it.
  `linkExistingEstimate` is a session: it reads the state, calls Holded, and
  commits later. So is a transfer recorded by hand: `TransferReads` reads what the
  booking owes and accepts the amount; `TransferCommits` inserts the payment and moves
  the booking on its state alone, so other amounts may be committed in between.
- `Reconciliation`: the bank (`BankChanges`), the page of a synchronization run
  (`ScanReads` reads the page and decides the proposals, `ScanCommits` writes
  them, `ScanFails` rolls back), and the operator's three transactions
  (`OperatorReads`, what the operator chose and checks that may be stale by the time
  it matters; `OperatorAccepts`, where `recordTrustedPayment` reads again what the
  booking owes; `OperatorCommits`, whose transition looks at the state alone; and
  `Dismiss`, which is one statement). The rows a transaction has claimed or inserted
  are locked until it commits; here the first to commit has them and the others
  fail, which leaves the same rows.
- `BookingExpiry`: the run reads its overdue candidates, waits for evidence,
  re-reads (`ExpiryChecks`) and releases (`ExpiryCommits`). The conditional
  updates of all candidates are in one transaction, so one candidate that moved
  rolls all of them back.

Abstractions: dates are reduced to a deadline that is absent, ahead or passed;
a movement is an amount and the set of estimates its narrative names; one
account, one page. A scan is `fresh` when it starts while an expiry run waits
for it; which run `ensureFreshBankEvidenceForExpiry` really accepts is the subject
of `BankEvidence`.
`INVOICED` and `COMPLETED` are in the table of transitions but no service moves a
booking there. `Payment.again` tells a second payment row of one booking
from the first, which a set would hide.

### Delivering a document

`ProviderWrite` is the promise: an effect outside the database that happens at
most once; it may be retried only when it certainly did not happen, and
uncertainty is parked. `DocumentDelivery` models
`prepareDocumentDelivery` and `deliverPreparedDocument`, statement by
statement, for any number of workers. A request may be answered, refused,
answered into the void, or outlive its caller (`inTransit`). Workers die anywhere.
`OperatorResolves` is the repair described in `docs/berea-cat-wordpress.md`.

### The outbox and its handlers

`Outbox` models any number of `drainOutbox` calls. `claimNextJob` is two steps, a
read and a conditional update, so a drain may hold a candidate while another
drain claims, fails and releases it. `Abandon` is a process that dies, or a
`failJob` that throws: the row stays CLAIMED. A drain takes any due job where the
code takes the oldest, which allows more orders than the code does.

`Quoting` runs `runQuoteJob` inside those drains. A call to Holded fails before
it does anything, or does its work and is answered, or does it and the answer is
lost; a lost answer's work is done by the time of the retry. Delivery is the
write of `ProviderWrite`. Linking an estimate, cancelling, and an operator who
creates or updates the customer's contact (`createCustomerContact`,
`updateCustomerContact`, then `SaveCustomer`) happen at any time.

`ReserveInvoice` runs `runReserveInvoiceJob` inside the same drains, from the
PREPARED issuance a confirmed payment leaves behind: series, claim, creation,
the saved document, approval, the check of what was approved, delivery. Drafts may
be edited, deleted or approved in Holded meanwhile, and the agreed amounts change.
An invoice is the amount it asks for. `Orphan` is the step at which a created
invoice's row cannot be saved; a second drain that finds the issuance IN_FLIGHT marks
it UNKNOWN (`Interrupted`).

### Intake and prices

`Pricing` has `countNights`, the bands, the advance and the deposit in integer cents.
`Intake` has runs that read a page after the cursor, insert customers and requests
entry by entry and move the cursor by a compare-and-set at the end of each page; two
runs may hold overlapping pages, and the unique indexes on entries and on tax
identifiers decide between them. A malformed entry is rejected and passed; one whose
stay is impossible throws, and stops its run where it is, as an integration test of the
repository expects (`booking-intake.test.ts:182`).

### Accounts, links and mails

`Accounts` has the tables (`tables`) and what all mailed links share: a request stores
its token and supersedes older ones, sends the mail, and confirms or compensates;
each is a step, and a request may die between two (`Dies`). Transactions take the
advisory lock of an address (`AddressFree`), of an account (`AccountFree`) or of both,
and signing out and the expiry of a session (`deleteSession`) take none. A transaction
is one step but for the one that issues a link, which looks at the session
(`LooksAtSession`) and stores the link (`StoreLink`) while it holds its locks: both
locks for security and export links, that of the address alone for deletion links
(`LocksAccount`). So a session may sign out between the two, and a deletion link may be
stored for a session that was revoked or evicted a moment before, which
`NoLinkOnceRevoked` therefore does not promise; the link still acts on its account only
while that account is there (`NothingOutlivesAccount`).
`SignIn` adds login (link or code; the comparison of a guess comes before the
statement that charges it, and is a step of its own) and signup (intent,
preflight, activation). `AccountLinks` adds security, deletion and export links,
revocations and the deletion, each of which looks at its session before its
work and again under its locks.

`MailGate` is what a request for such a mail passes: the allowances of client
and address, the cached health, the probe with its lock that expires, and what the
provider's answers record. Buckets are rows that expire and may be cleaned up, and the
deletion of an account deletes that of its address, however long it still counts
(`ForgetsAddress`). `let` is when each allowance let an attempt through; after a deletion
the allowance of the address begins anew, and so does `let`: an address that signs up
and is deleted again and again is let through without a bound.

`DeletionDialog`, `SessionDialog` and `ExportPanel` are pages of the account with their
requests, timers, reloads and lost answers. The server behind them is a choice
among the answers it can give, and does its work before, after or without them. In
`DeletionDialog` it may carry a deletion out long after its page has gone.

`DataExport` is one download (`generatePersonalDataExport`): the admission, then a
REPEATABLE READ transaction that reads every section twice while the account is renamed,
its other devices sign in and out and it is deleted. The snapshot is taken by the
first statement; `moments` is what the rows were at each moment. `updateCurrentUserName`
is the profile's only write. The size limit, a rate limit and canonical JSON are
outcomes.

### Services

`HoldedClient` has the cache of one process with its tags: reads that share a pending
load, a load that a write drops from the cache (what it returns may be older than the
write), loads that fail, the order of last use by which entries are evicted, and the outcome a write's status is given
(`deliveryOutcome`, `creationOutcome`) beside what really happened.
`Settings` has several administrators on one row per provider, statements without
a transaction, a test that calls the service meanwhile, and a key that goes
missing. `Retention` has the daily pass beside the choice of the account, queued runs,
imports and decisions: the account's row lock keeps queueing and imports out, and
proposals and payments go on, so what the pass erases it checks in the deletion
itself (`Restricted` is the foreign key that refuses). `saveTreasuryAccount` and the
batches of a pass are one step each.

### Bank synchronization and the evidence of expiry

`BankSync` models the `BankSyncRun` rows of one account and the workers that
process them: the scheduler's sweeps (`Sweeps`) and the expiry runs
(`Expiries`; each name stands for one run of `expireUnpaidBookings`).

- Creation: `enqueueDueBankSyncRuns`, `requestManualBankSync` (a new run, or one
  that resumes the cursor and window of a run that did not succeed) and, in
  `BankEvidence`, `enqueueBankSync`. A partial unique index allows one nonterminal
  run; a creation that loses against it is rolled back and shows as no step, or,
  where the expiry run needs the result, as `EnqueueFails`.
- `claimBankSyncRun` is a read (`ClaimReads`) and a conditional update (`ClaimWrites`
  or `GivesUp`). The update repeats the read's condition but takes `attemptCount`,
  `pageCount`, `nextCursor` and `startedAt` from the row as it was read.
- `processBankSync`: `PageArrives` is Holded's answer and the time taken with it,
  `PageCommits` the transaction that writes items, counters, checkpoint and lease,
  `PageRollsBack` its failure, `PageFails` what `transitionAfterKnownFailure` writes,
  `ProcessThrows` any other error, `CursorRejected` the one restart per claim.
- `BankEvidence` adds `ensureFreshBankEvidenceForExpiry`: `InspectsLatest`,
  `LooksForActive`, `enqueueBankSync`, the claim and the processing of `BankSync`,
  `InspectsOutcome`, for at most four rounds (`MaxSteps`).

Time is relative. `left` is how many ticks away a row's timestamp (the end of its
lease, or its next attempt) lies, and `age` how long ago a worker took the time it
calls now; `left + age > 0` is the comparison the code makes. A sweep takes the
time before each page. An expiry run passes a clock that always returns the time
it started with (`clock: () => now`), so its age only grows, and its leases are
short by it. `begun` is which expiry runs had begun when a worker took its time: a
run whose `startedAt` is that time is fresh for those. `done`, `own`, `seen` and `spoilt` are history: which pages the run
or the runs it resumes committed, which it committed itself, which expiry runs had
started when each page was read, and whether an item was invalid.

Left out: several accounts and switching between them and retention, which
`Retention` has; what a page contains, which `Reconciliation` has; and the cooldown of
manual refreshes.

## What the runs check

| Run | Instance | Shows |
| --- | --- | --- |
| `BookingSafety` | 1 booking from intake on, 1 movement corrected up to 2 times, 1 operator, 2 prices, an exact and a wrong transfer, crashes | payments cover what the confirming transaction read as owed; decided proposals stay decided; no booking in review holds a contract; none is released past a pending proposal; `BookingLifecycle` implemented |
| `BookingPair` | 2 quoted overdue bookings, a transfer that is exact and names both or near and names none, 2 operators, no crash | one payment per booking; states, proposals, payments and invoice jobs agree; the transfer pays one of the two |
| `BookingLive` | 1 booking, no crash, Holded readable | decisions are announced; approvals get their deadline and quote job; an overdue booking is released or waits for an operator |
| `DocumentDelivery` | 3 workers, 2 recipient lists, crashes, repairs | at most one e-mail; implements `ProviderWrite`; deliveries end sent, refused or parked |
| `ReserveInvoice` | 1 paid booking and a job nobody handles, 2 drains cut short anywhere, 2 attempts, 2 totals, edits in Holded | one handler at a time; one invoice per booking, mailed as approved; decided issuances stay decided; jobs end unless their drain died |
| `Quoting` | 1 booking, 2 drains, 2 prices, 3 attempts, linking, cancelling, an operator writing the contact | known estimates reused; finished quotes add up |
| `BankEvidence` | 1 sweep, 1 expiry run, 2 runs of 2 pages (1 in the recent window), 2 attempts, lease and stall of 1 tick, deaths | an exhausted run has imported its window; SUCCEEDED means no invalid item; accepted evidence is fresh |
| `BankLive` | the same with 1 run, lease and stall of 2 ticks | the run ends |
| `Intake` | 2 runs, 5 entries on pages of 2, one malformed, one impossible, two of one customer, deaths and failed fetches | the cursor passes nothing that was not dealt with; newest contact data; prices to the cent for every headcount, board and deposit; entries before an impossible one arrive |
| `Accounts` | 1 address, 2 requests, 2 users, 2 tokens, 3 sessions (2 allowed), budget of 2 guesses, 1 death | a link is used once; guesses exceed the budget by those under way at most; nothing outlives an account; no security or export link for a session once revoked |
| `Services` | 2 readers, 1 writer, a cache of 1; 2 administrators, 2 providers; 1 movement, 2 accounts, 2 synchronization runs, 2 days; 2 mailers, allowances of 1, deletions of the account; the three dialogs; a download with 2 changes | reads see this process's writes; staleness is bounded; an outcome is true; settings add up; evidence is kept; the mail gate holds; the deletion page tells what happened; a closed dialog means revoked; the panel waits; an export shows one moment |
| `BookingRelinked` | 1 quoted booking, 2 totals, 2 operators, no crash | the disagreement described below |

Type invariants: those of `DocumentDelivery`, `Booking`, `Outbox`, `BankSync` (with
`BankEvidence`), `ReserveInvoice`, `Quoting`, `Intake` and `Accounts` are proved.

Why the bounds suffice. Every race here is between two actors over one row, or
over two rows that name each other: two operators, two bookings and one scan, a
sweep and an expiry run give each pair of transactions every order. The third
worker in `DocumentDelivery` is there because two of them are needed to change a row
back to what a third has read (fail and retry). `MaxBankChanges` lets a transfer appear and
be corrected, `MaxAttempts` = 3 lets a quote fail twice and succeed, and 2 in
`BankEvidence` lets a run be taken over once and then given up. `BookingPair` starts
from a state the quote job and time lead to, with both deadlines passed. Two pages
give a cursor a beginning and an end, and a resumed run a page it does not read
itself; five entries on pages of two give two intake runs pages that overlap in part.
A worker may stall for a whole lease (`MaxAge` = `Lease`), which is what a
takeover needs. Two tokens let a link supersede another, two users let an address
be deleted and signed up again, three sessions let one be evicted, and
two requests race each other at every step. `MaxTicks`, `MaxTime`, `MaxSeconds`, `MaxDay`
and `MaxMoment` reach the end of the longest wait of their module, or past it. Two bookings *and* two
movements *and* two operators together are beyond TLC's reach; the proofs cover them.
The instance of `Services` never fills its cache, so `MadeRoom` (eviction) is not
exercised there; the proofs about the cache cover it at every limit.

Deadlock is not checked: requests, jobs, entries and runs are finite in number in an
instance, and the system rests when all have ended.

### Where documents and code differ

`BookingRelinked` checks a sentence of the repository that the code does not keep
(`ConfirmedToTheCent`): `recordTrustedPayment` says that anything but the exact amount
is left for review rather than quietly confirming a booking that is still owed money.
One operator's transfer is found exact; before its transaction commits, another links an
estimate with a larger total, which leaves the state as it was; the booking is confirmed
with the smaller amount. `PROJECT.json` quotes the comment. What the code does keep is
`PaymentCoversReading`: the payment covers what the confirming transaction has read.

More formulas of this kind are kept in the modules, each beside the sentence it
states. TLC finds them violated when they are added to a configuration:

| Formula | Where | Behaviour |
| --- | --- | --- |
| `ApprovalsSurviveCrashes` | `Booking`, `CrashingSpec` with one price, `ExactOnly`, `MaxBankChanges` 0 | a process that dies inside `approveBooking`, after its first commit, leaves a booking with no deadline and no quote job |
| `NeverReleasedUnread` | `Booking`, `MaxBankChanges` 1 | only new or changed movements are matched, so a transfer imported before its booking was quoted is never proposed and the booking can expire |
| `EvidenceIsComplete` | `BankEvidence`, lease and stall of 2 | the run an expiry run accepts may have covered the 14-day window only, or have begun at a later page |
| `MailedEstimateKept` | `Quoting` | a retry rewrites an estimate that was already mailed, at the price of that moment |
| `FiveGuesses` | `AccountLinks` | guesses compared before the first of them is charged exceed the budget |
| `NewerExportKept` | `AccountLinks` | the link of an older export request, delivered late, replaces that of a newer one |
| `ErrorMeansUnchanged` | `DeletionDialog` | the dialog says the account is unchanged while a deletion is still under way |
| `RetryDisabled` | `ExportPanel` | an expiry in the second of an answer enables a request during a wait |
| `StaleIsVisible` | `Settings` | a configuration saved during a test is marked as verified by it |
| `StartDateLocked` | `Retention` | the start date of an account that is chosen again can change although history depends on it |

Modelling showed more of this kind that no formula states: expiry queues no mail; a
page decided before a confirmation writes a pending proposal for the paid booking
after it; an estimate whose creation was not answered is created again; a queued
quote job rewrites an estimate an operator has linked; a stale candidate
makes one attempt above the maximum, in the outbox and in the synchronization;
listings of estimates end at 20 pages of 100; the deletion dialog stays "recovering"
after a check that could not be read or a signal that lapsed; its "refresh_error" and that of the
session dialog cannot occur with `router.refresh`, which does not fail; and an
export's `generatedAt` is its transaction's timestamp, which precedes the snapshot, so a
session authenticated in between is shown as not recent.

## Fairness

Fairness is weak but for one call, and nothing is assumed about operators or the bank's
owner.

- `DocumentDelivery`, `FairSpec`: a worker that has started goes on, as every
  statement is awaited and `sendDocument` has a deadline of its own. Workers may
  still die, and `DeliverySettles` excepts only the one that did.
- `ReserveInvoice`, `InvoiceFairSpec`: `scheduler.ts` restarts each drain every minute and
  a handler awaits calls that have deadlines, so both go on; backoffs end; and drains are not cut
  short for ever. `JobsSettle` names the job a dead drain left behind.
- `Intake`, `FairSpec`: a run that has begun goes on, the hourly task begins another, no
  process dies for ever, and `fetchEntriesAfter` is strongly fair: a fetch that is tried
  again and again succeeds sometime. `EntriesArrive` excepts what lies behind an
  impossible entry.
- `BookingLive`, `HealthySpec`: a request handler executes its next statement
  (`HandlersRun`), since it awaits database statements only; time passes, the daily
  expiry run is scheduled, its scan ends, and Holded answers (no failed page, no
  deferral). Without the last assumption a booking may be deferred for ever, by
  design. Processes do not die in this run; `CrashingSpec` has
  crashes and `HandlersRun`.
- `BankLive`, `FairSpec`: time passes, sweeps and expiry runs take their next step,
  and from some time on none dies. No assumption says that Holded answers.

## What is proved

TLAPS proves these from the assumptions on the constants only
(`RecordsAssumption`, `NoRecipientsAssumption`, `OutboxAssumption`,
`SyncAssumption`, `InvoiceAssumption`, `IntakeAssumption`, `ExportPanelAssumption`,
`DataExportAssumption`, `HoldedAssumption`, `SettingsAssumption`,
`RetentionAssumption`, `AccountsAssumption`, `MailGateAssumption`,
`QuotingAssumption`), for any instance.

`ServicesProofs`, the delivery of a document. `DeliveryInv` strengthens the properties with: one worker at
most is past its claim (`OneHolder`); what that worker knows about its request
agrees with what Holded did (`HolderKnows`); sent plus late requests are at most
one (`OneEffect`); a worker about to claim works on the frozen recipients
(`CopiesFrozen`). `AtMostOneEmail` alone is not inductive: it needs to know that
a claimable row has neither an effect nor a request on its way. From `DeliveryInv`:
`TypeCorrect`, `DeliveredAtMostOnce`, `RetriesAreSafe`, `SentTogetherAndTruly`,
`SendsAreFrozen`, and `DeliveryImplementsProviderWrite` (each step maps to a step
of `ProviderWrite` or a stutter).

`BookingProofs`. The many steps are first reduced to five shapes (`Shape`): a step
leaves state and money alone, makes one allowed move, releases awaiting bookings
together, pays by hand, or pays through the bank. Then `MoneyInv`, the
conjunction of the types and the four properties on payments, is preserved by
each shape: a booking that is awaiting payment has no payment yet
(`MoneyMeansConfirmed`), which is why a conditional transition is enough to make
`OnePaymentPerBooking` hold without a unique index. Theorems: `TypeCorrect`,
`MoneyIsConsistent` (`MoneyAgrees`), `PaidOnce` (`PaymentsUnique`), `LifecycleImplemented` (the shapes are the steps of `BookingLifecycle`) and
`ReviewHasNoContract`, whose invariant `UntouchedInReview` says that a booking in
review has no quote job, no pending tail and no link session that believes it was
approved. `DecisionsAreFinal` (`DecidedProposalsFinal`) follows from `TypeOK` and
`MoneyMeansConfirmed` by a look at each step. `PaymentsCover` (`PaymentCoversReading`)
needs `Accepted`: an operator who is about to confirm holds an amount accepted for what
it read, which stays so while amounts change under it, because no step but its own
touches what it has read. `ReleasedPastNoProposal` (`NotReleasedWhileProposed`) needs
more, `EvidenceInv`: the rows and the page under way are what the bank said at the
moment they name (`Versioned`), and what a run decides by is as new as the run, so a
proposal it has not seen came from a newer page (`ExpiryInformed`).

`OutboxProofs`. `OutboxInv` adds that a drain never knows of more attempts than the
row has (`KnownAttempts`). Theorems: `OutboxTypeCorrect`, `ClaimsExclude`,
`ParkedAfterAllAttempts`, `FinishedForGood`.

`BankSyncProofs`. Three invariants. `IInv`: every row is `Truthful` (what lies before
its cursor is imported, an exhausted row has its window, an invalid item is
counted as an incident) and every worker with a run in hand is `Sound` (what lies
before *its* cursor, which may be stale, is imported too: `done` only grows, so a
stale cursor repeats pages and never skips one). `SeenInv`: the worker a row
names as holder has a page at least as new as all that were committed; it is
what makes the lease's condition on `leaseToken` sufficient although clocks and
workers stall. `FreshInv`: whoever marks a run as fresh for an expiry run has read
it as never claimed since that expiry run began (`FreshClaims`), and of a run
nobody has claimed nothing is read or in hand (`Unclaimed`), so every page of a
fresh run is newer (`FreshRuns`). A claim that writes `startedAt` after a stale
reading does no harm: what others have read of the run meanwhile is newer, too.
Steps on rows are reduced to four shapes first (nothing, a new row, another row in
its place, time). Theorems: `TypeCorrect`, `ExhaustedIsImported`,
`SucceededIsClean`, `EndedForGood`, `NewestPagesKept`, `EvidenceFresh`
(`EvidenceIsFresh`).

`ReserveInvoiceProofs`. On top of `OutboxInv`: `RowsAgree` (what the issuance says
agrees with what Holded has) and `HandlerKnows` (what the drain that holds the job
knows agrees with the row, which is where the exclusion of the outbox is used).
Theorems: `InvoiceTypeCorrect`, `OneInvoicePerBooking` (`OneReserveInvoice`) and
`DecisionsStay` (`DecidedStaysDecided`).

`QuotingProofs`. On top of `OutboxInv`, `HandlerKnows`: what a drain has found out about
the estimate at each step of its job still agrees with the booking's row and with
Holded. The outbox gives a job to one drain at a time, so only an operator can step
in between, and an operator who links another estimate makes the row name the job's
own no more; the invariant says of each step which of the two it may count on.
Theorems: `QuoteTypeCorrect`, `FinishedAddsUp` (`FinishedQuoteAddsUp`) and
`EstimateReused` (`KnownEstimateReused`).

`IntakeProofs`. `IInv` adds that entries appear and are imported in order, whichever of
the runs imports them (`InOrder`), that a customer shows the latest imported entry
(`CustomersCurrent`), and what a run may rely on while it holds a page that others
import too (`Informed`): all before its current entry is dealt with. Theorems:
`TypeCorrect`, `EntriesNeverSkipped` (`NothingSkipped`), `CustomersShowLatest`
(`LatestContactData`), and, with `Quotable` (a run about to import has looked at
the stay of the entry it still works on), `ImportedQuotesExact`: `QuotesAreExact` at every price and deposit
(`QuoteIsExact` is the arithmetic of `Pricing`, for any stay).

`AccountProofs`. For the tables, `LinksInv`. `AccountTakesAll` (`NothingOutlivesAccount`)
needs to know, besides whose the rows are (`LinksOwned`, `SessionsOwned`), what a
request remembers of rows that others may have removed since (`Knows`): it looks at
its session again under the locks, and user, session and token numbers are never
used again, so a remembered number that is still there is still what it was.
`LinkUsedOnce` (`OneLinkOneUse`) needs that a link's row is gone before it is of use
and that one request at most has taken it (`OnlyUse`), and which links may stand
beside each other (`LinksAlone`). `GuessesBounded` (`GuessesNearlyBounded`) counts
the guesses compared against those charged plus the requests about to charge one or
dead before they did (`Charged`). `LinksTyped` are the types. `RevokedSendsNothing`
(`NoLinkOnceRevoked`) needs `Held`: a request between its look at the session and its
link holds its locks, so its session is still there or has signed out; whoever revokes,
evicts or deletes waits for the lock.

`AccountProofs`, the dialogs and the download, and `ServicesProofs`, the rest, take the
parts of `MCServices` each by itself, under its own specification
(`SheetSpec`, `PanelSpec`, `DialogSpec`, `DownloadSpec`; `ClientSpec`, `SettingsSpec`,
`RetentionSpec`, `GateSpec`). Each has an invariant about what a page, a call or a pass
knows of the state it read: `DeletionTruthfullyTold`, `ClosedWhenRevoked`,
`PanelAlwaysWaits` and `FilesAreOfOneMoment` (both readings of a section are of the
snapshot's moment, although rows change meanwhile); `OutcomesAreTrue`,
`SettingsStayConsistent` and `RetentionKeepsEvidence`. Two need more:

- `WritesAreRead` (`ReadYourWrites`) and `ReadsAreRecent` (`StalenessBounded`), from
  `CacheInv`: nothing in the cache is older than a write that has returned
  (`CacheCurrent`); a load has read what Holded had after it began (`LoadSound`); a
  call waits for a load that began recently enough and, once it has its data, is not
  older than the writes the call knows of (`ReadingSound`). A write may return while
  a load is pending: the load is dropped from the cache, so later calls
  begin their own, and those that wait for it asked before the write returned.
- `GateAlwaysHolds` (`GateHolds`), from `GateInv`: the health row is no newer than the
  last probe plus the time it is cached (`RowsTell`), a request's verdict is that old
  at most or its own (`MailersTell`), and the attempts let through fall into the
  window of the row and the one before it, with an allowance each
  (`AllowancesKept`), also when the row was cleaned up and begun anew; for an address,
  since the last deletion of its account.

A theorem may be about a formula no run lists (`SentIsTrue`, `EndedRunsFinal` and others):
the proof says more than a run would. `ClaimsExclude` is about any handlers, and
`ReserveInvoice` checks its property with one of them.

Only model-checked: liveness under fairness (`DeliverySettles`, `DecisionsFollowedUp`,
`OverdueSettles`, `JobsSettle`, `RunsEnd`, `EntriesArrive`), which is out of the
prover's reach. Every safety property a run checks is a theorem.

## Plan

Every part with state of its own is modelled and its safety proved. What could follow
is abstract specifications for more of the parts, as `BookingLifecycle` and `ProviderWrite`
are for theirs: a job handed out once at a time and finished once for the outbox, a
cursor over a growing log for the intake, a one-time token for the links; each with a
refinement proved from the invariants above.

Not modelled, and not planned: pages and components other than the three dialogs,
messages, e-mail payloads and SMTP, the parsing of form entries and bank items,
authorization checks, read-only queries and deployment scripts. They keep no state a
step of another actor could contradict, or are data every model here leaves open.
