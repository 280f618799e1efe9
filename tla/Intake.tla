------------------------------- MODULE Intake -------------------------------
(***************************************************************************)
(* booking/services/intake.ts: runs that read form entries from Gravity    *)
(* Forms after a stored cursor and turn each into a booking request.  The  *)
(* hourly task of every instance and an operator's refresh may run at once *)
(* and may die between any two statements.                                 *)
(*                                                                         *)
(* Entries become visible in the order of their identifiers, as the cursor *)
(* presumes.  A customer is the entry its contact data was taken from; a   *)
(* malformed entry is one the submission schema refuses.                   *)
(***************************************************************************)
EXTENDS Pricing, FiniteSets, FiniteSetsExt

CONSTANTS
  Entries,     \* identifiers of Gravity Forms entries
  Malformed,   \* those the schema refuses
  TaxIds,      \* tax identifiers
  TaxIdOf,     \* the tax identifier of each entry
  StayOf,      \* the stay of each entry
  Runs,        \* running runIntake calls
  PageSize     \* GRAVITY_FORMS_PAGE_SIZE

ASSUME IntakeAssumption ==
  /\ Entries \subseteq Nat \ {0} /\ IsFiniteSet(Entries)
  /\ Malformed \subseteq Entries
  /\ TaxIdOf \in [Entries -> TaxIds]
  /\ \A e \in Entries \ Malformed :
       StayOf[e] \in [start : Int, end : Int, headcount : Nat \ {0},
                     board : {"SELF_CATERING", "FULL_BOARD"}]
  /\ PageSize \in Nat \ {0}

VARIABLES
  submitted,   \* Gravity Forms: the entries submitted so far
  cursor,      \* IntakeCursor.lastEntryId, 0 without a row
  bookings,    \* entries with a BookingRequest
  customer,    \* the entry each customer's data comes from, 0 without a row
  pc,          \* where each run is
  batch,       \* the entries it has fetched and not finished
  known        \* the cursor, or the customer, it has read

wordpress == submitted
tables == <<cursor, bookings, customer>>
run == <<pc, batch, known>>
vars == <<wordpress, tables, run>>

RunSteps == {"idle", "fetch", "entry", "commit", "advance", "swap"}

TypeOK ==
  /\ submitted \subseteq Entries
  /\ cursor \in Entries \cup {0}
  /\ bookings \subseteq Entries
  /\ customer \in [TaxIds -> Entries \cup {0}]
  /\ pc \in [Runs -> RunSteps]
  /\ batch \in [Runs -> SUBSET Entries]
  /\ known \in [Runs -> Entries \cup {0}]

Init ==
  /\ submitted = {}
  /\ cursor = 0
  /\ bookings = {}
  /\ customer = [t \in TaxIds |-> 0]
  /\ pc = [r \in Runs |-> "idle"]
  /\ batch = [r \in Runs |-> {}]
  /\ known = [r \in Runs |-> 0]

Goto(r, step) == pc' = [pc EXCEPT ![r] = step]

\* Gravity Forms numbers its entries upwards.
Submit(e) ==
  /\ e \notin submitted
  /\ \A earlier \in Entries : earlier < e => earlier \in submitted
  /\ submitted' = submitted \cup {e}
  /\ UNCHANGED <<tables, run>>

-----------------------------------------------------------------------------
(* runIntake *)

readCursor(r) ==
  /\ pc[r] = "idle"
  /\ known' = [known EXCEPT ![r] = cursor]
  /\ Goto(r, "fetch")
  /\ UNCHANGED <<wordpress, tables, batch>>

\* The first page of the entries after the cursor, or an error that ends the run.
Page(after) ==
  LET newer == {e \in submitted : e > after}
  IN {e \in newer : Cardinality({f \in newer : f < e}) < PageSize}

fetchEntriesAfter(r) ==
  /\ pc[r] = "fetch"
  /\ batch' = [batch EXCEPT ![r] = Page(known[r])]
  /\ Goto(r, IF Page(known[r]) = {} THEN "idle" ELSE "entry")
  /\ UNCHANGED <<wordpress, tables, known>>

FetchFails(r) ==
  /\ pc[r] = "fetch"
  /\ Goto(r, "idle")
  /\ UNCHANGED <<wordpress, tables, batch, known>>

\* The page is sorted by the client, whatever order it came in.
Current_Last(r) == Max(batch[r])
Current(r) == Min(batch[r])

\* A malformed entry is rejected; a stay countNights refuses throws out of the
\* whole run; for any other entry the transaction looks its customer up.
Impossible(e) == countNights(StayOf[e].start, StayOf[e].end) = None

Rejects_Throwing(r) ==
  /\ pc[r] = "entry" /\ Current(r) \in Malformed
  /\ Goto(r, "idle")
  /\ batch' = [batch EXCEPT ![r] = {}]
  /\ UNCHANGED <<wordpress, tables, known>>
Rejects(r) ==
  /\ pc[r] = "entry" /\ Current(r) \in Malformed
  /\ Goto(r, "advance")
  /\ UNCHANGED <<wordpress, tables, batch, known>>

Throws(r) ==
  /\ pc[r] = "entry" /\ Current(r) \notin Malformed
  /\ Impossible(Current(r))
  /\ Goto(r, "idle")
  /\ batch' = [batch EXCEPT ![r] = {}]
  /\ UNCHANGED <<wordpress, tables, known>>

FindsCustomer(r) ==
  /\ pc[r] = "entry" /\ Current(r) \notin Malformed
  /\ ~Impossible(Current(r))
  /\ known' = [known EXCEPT ![r] = customer[TaxIdOf[Current(r)]]]
  /\ Goto(r, "commit")
  /\ UNCHANGED <<wordpress, tables, batch>>

\* Customer and booking are written together, unless the customer found absent
\* exists by now or the entry has a booking: P2002 undoes both.
Conflicts_CustomerOnly(r, e) == known[r] = 0 /\ customer[TaxIdOf[e]] # 0
Conflicts(r, e) ==
  \/ known[r] = 0 /\ customer[TaxIdOf[e]] # 0
  \/ e \in bookings

persistSubmission(r) ==
  LET e == Current(r) IN
  /\ pc[r] = "commit"
  /\ IF Conflicts(r, e)
     THEN UNCHANGED <<bookings, customer>>
     ELSE /\ bookings' = bookings \cup {e}
          /\ customer' = [customer EXCEPT ![TaxIdOf[e]] = e]
  /\ Goto(r, "advance")
  /\ UNCHANGED <<wordpress, cursor, batch, known>>

\* The entry is done with; the next one, if any, follows.
NextEntry(r) ==
  /\ batch' = [batch EXCEPT ![r] = @ \ {Current(r)}]
  /\ Goto(r, IF batch[r] = {Current(r)} THEN "idle" ELSE "entry")

\* advanceCursor: read, and swap if it is still what was read.
AdvanceReads(r) ==
  /\ pc[r] = "advance"
  /\ known' = [known EXCEPT ![r] = cursor]
  /\ IF cursor # 0 /\ Current(r) <= cursor
     THEN NextEntry(r)
     ELSE Goto(r, "swap") /\ UNCHANGED batch
  /\ UNCHANGED <<wordpress, tables>>

Unmoved(r) == cursor = known[r]

AdvanceSwaps(r) ==
  /\ pc[r] = "swap"
  /\ IF Unmoved(r)
     THEN cursor' = Current(r) /\ NextEntry(r)
     ELSE Goto(r, "advance") /\ UNCHANGED <<cursor, batch>>
  /\ UNCHANGED <<wordpress, bookings, customer, known>>

\* A database error, or the death of the process.
Dies(r) ==
  /\ pc[r] # "idle"
  /\ Goto(r, "idle")
  /\ batch' = [batch EXCEPT ![r] = {}]
  /\ UNCHANGED <<wordpress, tables, known>>

\* What is left of a run once its page has arrived, or failed to.
Works(r) ==
  \/ readCursor(r) \/ FetchFails(r) \/ Rejects(r) \/ Throws(r) \/ FindsCustomer(r)
  \/ persistSubmission(r) \/ AdvanceReads(r) \/ AdvanceSwaps(r)

UninterruptedNext ==
  \/ \E e \in Entries : Submit(e)
  \/ \E r \in Runs : Works(r) \/ fetchEntriesAfter(r)

Next == UninterruptedNext \/ \E r \in Runs : Dies(r)

Spec == Init /\ [][Next]_vars

\* The scheduler starts the next run whatever became of the last one; Gravity
\* Forms answers now and then; processes do not die for ever.
FairSpec ==
  /\ Spec
  /\ \A r \in Runs : WF_vars(Works(r)) /\ SF_vars(fetchEntriesAfter(r))
  /\ <>[][UninterruptedNext]_vars

-----------------------------------------------------------------------------
(* Properties *)

\* The cursor never passes an entry that is neither imported nor refused by the
\* schema, also when two runs race for the entry or for its customer: a skipped
\* entry is one that some run did import.
NothingSkipped ==
  \A e \in submitted : e <= cursor => e \in bookings \cup Malformed

\* A customer has the contact data of its latest imported entry: no overlapping
\* run puts an older form's data back.
LatestContactData ==
  \A t \in TaxIds :
    customer[t] = Max({e \in bookings : TaxIdOf[e] = t} \cup {0})

\* Every entry is dealt with, unless an earlier entry, or itself, asks for an
\* impossible stay: that one throws out of every run that reaches it.
Stuck(e) == \E i \in Entries \ Malformed : i <= e /\ Impossible(i)
EntriesArrive ==
  \A e \in Entries : e \in submitted /\ ~Stuck(e) ~> e \in bookings \cup Malformed /\ cursor >= e

\* Whatever the stay and the price of an imported booking: the advance is the
\* share of the total to the nearest cent, and the rate is one whose band the
\* group has reached.
QuoteExact(stay, unitPrice, deposit) ==
  LET quote == quoteStay(stay, unitPrice, deposit)
      error == AdvanceDenominator * quote.confirmation.advance - AdvanceNumerator * quote.total
  IN /\ 2 * error \in -AdvanceDenominator + 1 .. AdvanceDenominator
     /\ quote.confirmation.amountToConfirm <= quote.total + deposit
     /\ quote.units >= Floor
     /\ quote.sku[2] <= billableHeadcount(stay.headcount)

UnitPrices == 0 .. 7
Deposits == {0, 15}
QuotesAreExact ==
  \A e \in bookings, unitPrice \in UnitPrices, deposit \in Deposits :
    QuoteExact(StayOf[e], unitPrice, deposit)
=============================================================================
