---------------------------- MODULE IntakeProofs ----------------------------
(***************************************************************************)
(* Theorems about Intake, for any entries, customers, page size and number *)
(* of runs.                                                                *)
(*                                                                         *)
(* Cursor and customers rest on one fact: whatever lies before an entry    *)
(* that is imported, that a run works on, or that the cursor has reached,  *)
(* has been dealt with.  Pages keep it because entries are numbered        *)
(* upwards and a page has no gaps; the runs keep it because each works on  *)
(* the least entry of its page.  What is imported also has a stay that was *)
(* looked at, so it can be quoted, and the quote is exact at every price.  *)
(***************************************************************************)
EXTENDS Intake, FiniteSetTheorems, WellFoundedInduction, TLAPS

Dealt(e) == e \in bookings \cup Malformed

\* Entries appear in order, and are imported in order.
InOrder ==
  /\ \A s \in submitted, e \in Entries : e < s => e \in submitted
  /\ bookings \subseteq submitted \ Malformed
  /\ \A b \in bookings, e \in submitted : e < b => Dealt(e)

CursorBehind ==
  /\ cursor \in submitted \cup {0}
  /\ NothingSkipped

\* Each customer is the latest of its imported entries.
CustomersCurrent ==
  \A t \in TaxIds :
    /\ customer[t] # 0 => customer[t] \in bookings /\ TaxIdOf[customer[t]] = t
    /\ \A b \in bookings : TaxIdOf[b] = t => b <= customer[t]

\* What a run that is to fetch knows of what lies before its page.
FetchInformed(r) ==
  pc[r] = "fetch" =>
    /\ known[r] \in submitted \cup {0}
    /\ \A e \in submitted : e <= known[r] => Dealt(e)

\* A page has no gaps.
BatchInformed(r) ==
  pc[r] \notin {"idle", "fetch"} =>
    /\ batch[r] # {} /\ batch[r] \subseteq submitted
    /\ \A b \in batch[r], e \in submitted : e < b => Dealt(e) \/ e \in batch[r]

\* A customer not found has no entry that is imported before this one.
EntryInformed(r) ==
  /\ pc[r] = "commit" =>
       /\ Current(r) \notin Malformed
       /\ known[r] = 0 => \A b \in bookings :
            TaxIdOf[b] = TaxIdOf[Current(r)] => Current(r) <= b
  /\ pc[r] \in {"advance", "swap"} => Dealt(Current(r))

Informed(r) == FetchInformed(r) /\ BatchInformed(r) /\ EntryInformed(r)

IInv ==
  /\ TypeOK /\ InOrder /\ CursorBehind /\ CustomersCurrent
  /\ \A r \in Runs : Informed(r)

-----------------------------------------------------------------------------
(* Lemmas about sets of entries *)

LEMMA MinIsLeast ==
  ASSUME NEW S, S \subseteq Nat, S # {}
  PROVE  Min(S) \in S /\ \A y \in S : Min(S) <= y
<1>1. PICK x \in S : \A y \in S : ~ (<<y, x>> \in OpToRel(<, Nat))
  BY WFMin, NatLessThanWellFounded, Zenon
<1>2. \A y \in S : x <= y
  <2> SUFFICES ASSUME NEW y \in S PROVE x <= y
    OBVIOUS
  <2>1. <<y, x>> \in Nat \X Nat
    BY SMT
  <2>2. ~(y < x)
    BY <1>1, <2>1 DEF OpToRel
  <2> QED BY <2>2, SMT
<1> QED BY <1>2, Zenon DEF Min

LEMMA MaxIsGreatest ==
  ASSUME NEW S, S \subseteq Nat, NEW m \in S, \A y \in S : y <= m
  PROVE  Max(S) = m
<1>1. m \in Nat /\ \A y \in S : m >= y
  BY SMT
<1>2. Max(S) \in S /\ \A y \in S : Max(S) >= y
  BY <1>1, Zenon DEF Max
<1>3. Max(S) \in Nat /\ Max(S) >= m /\ m >= Max(S)
  BY <1>1, <1>2, Zenon
<1> QED BY <1>1, <1>3, SMT

\* A page has no gaps: what lies between the cursor and one of its entries is in it.
LEMMA PageHasNoGaps ==
  ASSUME TypeOK, NEW after \in Nat, NEW b \in Page(after), NEW e \in submitted,
         e > after, e < b
  PROVE  e \in Page(after)
<1> DEFINE newer == {f \in submitted : f > after}
           Before(x) == {f \in newer : f < x}
<1>1. Before(b) \subseteq Entries /\ IsFiniteSet(Entries)
  BY IntakeAssumption DEF TypeOK
<1>2. IsFiniteSet(Before(b))
  BY <1>1, FS_Subset, Zenon
<1>3. Before(e) \subseteq Before(b)
  <2>1. submitted \subseteq Nat /\ e \in Nat /\ b \in Nat
    BY IntakeAssumption DEF TypeOK, Page
  <2>2. \A f \in newer : f < e => f < b
    BY <2>1, SMT
  <2> QED BY <2>2
<1>4. IsFiniteSet(Before(e)) /\ Cardinality(Before(e)) <= Cardinality(Before(b))
  BY <1>2, <1>3, FS_Subset, Zenon
<1>5. Cardinality(Before(e)) \in Nat /\ Cardinality(Before(b)) \in Nat
  BY <1>2, <1>4, FS_CardinalityType, Zenon
<1>6. Cardinality(Before(b)) < PageSize
  BY DEF Page
<1>7. Cardinality(Before(e)) < PageSize
  <2> HIDE DEF Before
  <2> QED BY <1>4, <1>5, <1>6, IntakeAssumption, SMT
<1> QED BY <1>7 DEF Page

-----------------------------------------------------------------------------
(* The inductive invariant *)

\* The entry a run works on is the first of its page, and all before it is dealt with.
LEMMA CurrentIsFirst ==
  ASSUME IInv, NEW r \in Runs, pc[r] \notin {"idle", "fetch"}
  PROVE  /\ Current(r) \in batch[r] /\ Current(r) \in submitted
         /\ Current(r) \in Nat \ {0}
         /\ \A y \in batch[r] : Current(r) <= y
         /\ \A e \in submitted : e < Current(r) => Dealt(e)
<1>1. batch[r] # {} /\ batch[r] \subseteq submitted /\ submitted \subseteq Nat \ {0}
  BY IntakeAssumption DEF IInv, Informed, BatchInformed, TypeOK
<1>2. Current(r) \in batch[r] /\ \A y \in batch[r] : Current(r) <= y
  BY <1>1, MinIsLeast DEF Current
<1>3. \A e \in submitted : e < Current(r) => Dealt(e) \/ e \in batch[r]
  BY <1>2 DEF IInv, Informed, BatchInformed
<1>4. ASSUME NEW e \in submitted, e < Current(r) PROVE e \notin batch[r]
  <2>1. e \in Nat /\ Current(r) \in Nat
    BY <1>1, <1>2
  <2>2. ~(Current(r) <= e)
    BY <1>4, <2>1, SMT
  <2> QED BY <1>2, <2>2
<1> QED BY <1>1, <1>2, <1>3, <1>4

LEMMA InitIInv == Init => IInv
BY IntakeAssumption
   DEF Init, IInv, TypeOK, RunSteps, InOrder, CursorBehind, NothingSkipped,
       CustomersCurrent, Informed, FetchInformed, BatchInformed, EntryInformed

\* A run that does not move stays informed while others import an entry.
LEMMA OthersStayInformed ==
  ASSUME IInv, NEW r \in Runs, UNCHANGED submitted,
         pc'[r] = pc[r], batch'[r] = batch[r], known'[r] = known[r],
         \/ UNCHANGED bookings
         \/ \E e \in submitted \ Malformed : e \notin bookings /\ bookings' = bookings \cup {e}
  PROVE  Informed(r)'
<1>1. \A e \in submitted : Dealt(e) => Dealt(e)'
  BY DEF Dealt
<1>2. Current(r)' = Current(r)
  BY DEF Current
<1>3. FetchInformed(r)'
  BY <1>1 DEF IInv, Informed, FetchInformed
<1>4. BatchInformed(r)'
  BY <1>1 DEF IInv, Informed, BatchInformed
<1>5. EntryInformed(r)'
  <2>1. CASE pc[r] = "commit"
    <3>1. Current(r) \in Nat /\ \A e \in submitted : e < Current(r) => Dealt(e)
      BY <2>1, CurrentIsFirst
    <3>2. \A b \in bookings' \ bookings : Current(r) <= b
      <4> SUFFICES ASSUME NEW b \in bookings' \ bookings PROVE Current(r) <= b
        OBVIOUS
      <4>1. b \in submitted /\ ~Dealt(b)
        BY DEF Dealt
      <4>2. b \in Nat
        BY <4>1, IntakeAssumption DEF IInv, TypeOK
      <4> QED BY <3>1, <4>1, <4>2, SMT
    <3> QED BY <1>2, <2>1, <3>2 DEF IInv, Informed, EntryInformed
  <2>2. CASE pc[r] # "commit"
    <3>1. pc[r] \in {"advance", "swap"} => Dealt(Current(r)) /\ Current(r) \in submitted
      BY CurrentIsFirst DEF IInv, Informed, EntryInformed
    <3> QED BY <1>1, <1>2, <2>2, <3>1 DEF EntryInformed
  <2> QED BY <2>1, <2>2
<1> QED BY <1>3, <1>4, <1>5 DEF Informed

LEMMA SubmitIInv ==
  ASSUME IInv, NEW e \in Entries, Submit(e)
  PROVE  IInv'
<1> USE DEF Submit, tables, run
<1>1. \A s \in submitted : s < e
  <2>1. \A s \in submitted : s \in Nat /\ s # e /\ ~(e < s)
    BY IntakeAssumption DEF IInv, TypeOK, InOrder
  <2> QED BY <2>1, IntakeAssumption, SMT
<1>2. \A s \in submitted : ~(e < s)
  BY <1>1, IntakeAssumption DEF IInv, TypeOK
<1>3. TypeOK'
  BY DEF IInv, TypeOK
<1>4. InOrder'
  <2>1. \A s \in submitted', f \in Entries : f < s => f \in submitted'
    BY DEF IInv, InOrder
  <2>2. bookings \subseteq submitted
    BY DEF IInv, InOrder
  <2>3. \A b \in bookings', f \in submitted' : f < b => Dealt(f)'
    BY <1>2, <2>2 DEF IInv, InOrder, Dealt
  <2> QED BY <2>1, <2>3 DEF IInv, InOrder
<1>5. CursorBehind'
  <2>1. ~(e <= cursor)
    BY <1>1, IntakeAssumption DEF IInv, TypeOK, CursorBehind
  <2> QED BY <2>1 DEF IInv, CursorBehind, NothingSkipped
<1>6. CustomersCurrent'
  BY DEF IInv, CustomersCurrent
<1>7. ASSUME NEW r \in Runs PROVE Informed(r)'
  <2>1. FetchInformed(r)'
    <3>1. \A k \in submitted \cup {0} : ~(e <= k)
      <4>1. e \in Nat \ {0} /\ submitted \subseteq Nat
        BY IntakeAssumption DEF IInv, TypeOK
      <4> QED BY <1>1, <4>1, SMT
    <3> QED BY <3>1 DEF IInv, Informed, FetchInformed, Dealt
  <2>2. BatchInformed(r)'
    BY <1>2 DEF IInv, Informed, BatchInformed, Dealt
  <2>3. EntryInformed(r)'
    BY DEF IInv, Informed, EntryInformed, Current, Dealt
  <2> QED BY <2>1, <2>2, <2>3 DEF Informed
<1> QED BY <1>3, <1>4, <1>5, <1>6, <1>7 DEF IInv

\* The steps that only move one run and tell it something keep the tables as they are.
LEMMA RunMoves ==
  ASSUME IInv, NEW r \in Runs, UNCHANGED <<submitted, tables>>,
         NEW step \in RunSteps, Goto(r, step),
         NEW b \in SUBSET Entries, batch' = [batch EXCEPT ![r] = b],
         NEW k \in Entries \cup {0}, known' = [known EXCEPT ![r] = k],
         Informed(r)'
  PROVE  IInv'
<1> USE DEF Goto, tables
<1>1. TypeOK'
  BY DEF IInv, TypeOK
<1>2. InOrder'
  BY DEF IInv, InOrder, Dealt
<1>3. CursorBehind' /\ CustomersCurrent'
  BY DEF IInv, CursorBehind, NothingSkipped, CustomersCurrent
<1>4. ASSUME NEW q \in Runs, q # r PROVE Informed(q)'
  <2>1. pc'[q] = pc[q] /\ batch'[q] = batch[q] /\ known'[q] = known[q]
    BY <1>4 DEF IInv, TypeOK
  <2> QED BY <2>1, OthersStayInformed
<1> QED BY <1>1, <1>2, <1>3, <1>4 DEF IInv

\* A run that ends forgets its page.
LEMMA RunEnds ==
  ASSUME IInv, NEW r \in Runs, UNCHANGED <<submitted, tables, known>>, Goto(r, "idle"),
         NEW b \in SUBSET Entries, batch' = [batch EXCEPT ![r] = b]
  PROVE  IInv'
<1>1. known' = [known EXCEPT ![r] = known[r]] /\ known[r] \in Entries \cup {0}
  BY DEF IInv, TypeOK
<1>2. Informed(r)'
  BY DEF IInv, TypeOK, Goto, Informed, FetchInformed, BatchInformed, EntryInformed
<1> QED BY <1>1, <1>2, RunMoves DEF RunSteps

LEMMA EndsIInv ==
  ASSUME IInv, NEW r \in Runs, FetchFails(r) \/ Throws(r) \/ Dies(r)
  PROVE  IInv'
<1>1. batch[r] \in SUBSET Entries /\ batch = [batch EXCEPT ![r] = batch[r]]
  BY DEF IInv, TypeOK
<1>2. CASE FetchFails(r)
  BY <1>1, <1>2, RunEnds DEF FetchFails, wordpress, tables
<1>3. CASE Throws(r) \/ Dies(r)
  BY <1>3, RunEnds DEF Throws, Dies, wordpress, tables
<1> QED BY <1>2, <1>3

LEMMA readCursorIInv ==
  ASSUME IInv, NEW r \in Runs, readCursor(r)
  PROVE  IInv'
<1>1. /\ batch[r] \in SUBSET Entries /\ batch' = [batch EXCEPT ![r] = batch[r]]
      /\ cursor \in Entries \cup {0}
      /\ pc'[r] = "fetch" /\ known'[r] = cursor
  BY DEF readCursor, IInv, TypeOK, Goto
<1>2. Informed(r)'
  BY <1>1 DEF readCursor, wordpress, tables, IInv, CursorBehind, NothingSkipped, Informed,
              FetchInformed, BatchInformed, EntryInformed, Dealt
<1> QED BY <1>1, <1>2, RunMoves DEF readCursor, wordpress, tables, RunSteps

LEMMA fetchEntriesAfterIInv ==
  ASSUME IInv, NEW r \in Runs, fetchEntriesAfter(r)
  PROVE  IInv'
<1> DEFINE page == Page(known[r])
<1>1. /\ known[r] \in Entries \cup {0} /\ known' = [known EXCEPT ![r] = known[r]]
      /\ page \in SUBSET Entries /\ page \subseteq submitted
      /\ batch'[r] = page /\ pc'[r] = (IF page = {} THEN "idle" ELSE "entry")
      /\ known[r] \in Nat /\ submitted \subseteq Nat
  <2>1. page \subseteq submitted /\ submitted \subseteq Entries
    BY DEF Page, IInv, TypeOK
  <2>2. known[r] \in Entries \cup {0} /\ known' = [known EXCEPT ![r] = known[r]]
    BY DEF fetchEntriesAfter, IInv, TypeOK
  <2>3. batch'[r] = page /\ pc'[r] = (IF page = {} THEN "idle" ELSE "entry")
    <3> HIDE DEF page
    <3>1. batch' = [batch EXCEPT ![r] = page] /\ Goto(r, IF page = {} THEN "idle" ELSE "entry")
      BY DEF fetchEntriesAfter, page
    <3> QED BY <3>1 DEF Goto, IInv, TypeOK
  <2> HIDE DEF page
  <2> QED BY <2>1, <2>2, <2>3, IntakeAssumption
<1>2. BatchInformed(r)'
  <2> SUFFICES ASSUME NEW b \in page, NEW e \in submitted, e < b
               PROVE  Dealt(e) \/ e \in page
    BY <1>1 DEF BatchInformed, fetchEntriesAfter, wordpress, tables, Dealt
  <2>1. CASE e <= known[r]
    BY <2>1 DEF IInv, Informed, FetchInformed, fetchEntriesAfter
  <2>2. CASE ~(e <= known[r])
    <3>1. e > known[r]
      BY <1>1, <2>2, SMT
    <3> QED BY <1>1, <3>1, PageHasNoGaps DEF IInv
  <2> QED BY <2>1, <2>2
<1>3. Informed(r)'
  BY <1>1, <1>2 DEF Informed, FetchInformed, EntryInformed
<1>4. UNCHANGED <<submitted, tables>> /\ batch' = [batch EXCEPT ![r] = page]
      /\ Goto(r, IF page = {} THEN "idle" ELSE "entry")
  BY DEF fetchEntriesAfter, wordpress, tables
<1> HIDE DEF page
<1> QED BY <1>1, <1>3, <1>4, RunMoves DEF RunSteps

LEMMA RejectsIInv ==
  ASSUME IInv, NEW r \in Runs, Rejects(r)
  PROVE  IInv'
<1>1. /\ batch[r] \in SUBSET Entries /\ batch' = [batch EXCEPT ![r] = batch[r]]
      /\ known[r] \in Entries \cup {0} /\ known' = [known EXCEPT ![r] = known[r]]
      /\ pc'[r] = "advance" /\ batch'[r] = batch[r]
  BY DEF Rejects, IInv, TypeOK, Goto
<1>2. Informed(r)'
  BY <1>1 DEF Rejects, wordpress, tables, IInv, Informed, FetchInformed, BatchInformed,
              EntryInformed, Dealt, Current
<1> QED BY <1>1, <1>2, RunMoves DEF Rejects, wordpress, tables, RunSteps

LEMMA FindsCustomerIInv ==
  ASSUME IInv, NEW r \in Runs, FindsCustomer(r)
  PROVE  IInv'
<1> DEFINE t == TaxIdOf[Current(r)]
<1>1. Current(r) \in submitted
  BY CurrentIsFirst DEF FindsCustomer
<1>2. t \in TaxIds
  BY <1>1, IntakeAssumption DEF IInv, TypeOK
<1>3. /\ batch[r] \in SUBSET Entries /\ batch' = [batch EXCEPT ![r] = batch[r]]
      /\ customer[t] \in Entries \cup {0}
      /\ pc'[r] = "commit" /\ batch'[r] = batch[r] /\ known'[r] = customer[t]
  BY <1>2 DEF FindsCustomer, IInv, TypeOK, Goto
<1>4. ASSUME customer[t] = 0, NEW b \in bookings, TaxIdOf[b] = t
      PROVE  FALSE
  <2>1. b <= 0
    BY <1>2, <1>4 DEF IInv, CustomersCurrent
  <2>2. b \in Nat \ {0}
    BY IntakeAssumption DEF IInv, TypeOK
  <2> QED BY <2>1, <2>2, SMT
<1>5. Informed(r)'
  BY <1>3, <1>4 DEF FindsCustomer, wordpress, tables, IInv, Informed, FetchInformed,
                    BatchInformed, EntryInformed, Dealt, Current
<1> QED BY <1>3, <1>5, RunMoves DEF FindsCustomer, wordpress, tables, RunSteps

\* An entry found in conflict has been imported by another run: what conflicts with a
\* customer not found is an entry that is not before it.
LEMMA ConflictMeansDealt ==
  ASSUME IInv, NEW r \in Runs, pc[r] = "commit", Conflicts(r, Current(r))
  PROVE  Dealt(Current(r))
<1> DEFINE e == Current(r)
           found == customer[TaxIdOf[e]]
<1>1. e \in submitted /\ e \in Nat
  BY CurrentIsFirst
<1>2. CASE e \in bookings
  BY <1>2 DEF Dealt
<1>3. CASE known[r] = 0 /\ found # 0
  <2>1. TaxIdOf[e] \in TaxIds
    BY <1>1, IntakeAssumption DEF IInv, TypeOK
  <2>2. found \in bookings /\ TaxIdOf[found] = TaxIdOf[e]
    BY <1>3, <2>1 DEF IInv, CustomersCurrent
  <2>3. e <= found
    BY <1>3, <2>2 DEF IInv, Informed, EntryInformed
  <2>4. found \in Nat
    BY <2>2, IntakeAssumption DEF IInv, TypeOK
  <2>5. CASE e < found
    BY <1>1, <2>2, <2>5 DEF IInv, InOrder
  <2>6. CASE e = found
    BY <2>2, <2>6 DEF Dealt
  <2> HIDE DEF e, found
  <2> QED BY <1>1, <2>3, <2>4, <2>5, <2>6, SMT
<1> QED BY <1>2, <1>3 DEF Conflicts

\* An entry that is imported comes after all that were, of its customer or another.
LEMMA persistSubmissionIInv ==
  ASSUME IInv, NEW r \in Runs, persistSubmission(r)
  PROVE  IInv'
<1> DEFINE e == Current(r)
<1>1. /\ e \in submitted /\ e \in Entries /\ e \in Nat \ {0}
      /\ \A f \in submitted : f < e => Dealt(f)
  BY CurrentIsFirst DEF persistSubmission, IInv, TypeOK
<1>2. /\ pc'[r] = "advance" /\ batch'[r] = batch[r] /\ known'[r] = known[r]
      /\ Current(r)' = e /\ pc[r] = "commit"
  BY DEF persistSubmission, Goto, IInv, TypeOK, Current
<1>3. CASE Conflicts(r, e)
  <2>1. /\ batch[r] \in SUBSET Entries /\ batch' = [batch EXCEPT ![r] = batch[r]]
        /\ known[r] \in Entries \cup {0} /\ known' = [known EXCEPT ![r] = known[r]]
    BY DEF persistSubmission, IInv, TypeOK
  <2>2. UNCHANGED <<submitted, tables>> /\ Goto(r, "advance")
    BY <1>3 DEF persistSubmission, wordpress, tables
  <2>3. Dealt(e)'
    BY <1>2, <1>3, <2>2, ConflictMeansDealt DEF Dealt, tables
  <2>4. Informed(r)'
    BY <1>2, <2>2, <2>3 DEF IInv, Informed, FetchInformed, BatchInformed, EntryInformed,
                            Dealt, tables
  <2> QED BY <2>1, <2>2, <2>4, RunMoves DEF RunSteps
<1>4. CASE ~Conflicts(r, e)
  <2>1. /\ bookings' = bookings \cup {e} /\ customer' = [customer EXCEPT ![TaxIdOf[e]] = e]
        /\ UNCHANGED <<submitted, cursor, batch, known>> /\ e \notin bookings
    BY <1>4 DEF persistSubmission, wordpress, Conflicts
  <2>2. e \notin Malformed /\ ~Dealt(e)
    BY <1>2, <2>1 DEF IInv, Informed, EntryInformed, Dealt
  <2>3. \A b \in bookings : b <= e
    <3> SUFFICES ASSUME NEW b \in bookings PROVE b <= e
      OBVIOUS
    <3>1. ~(e < b)
      BY <1>1, <2>2 DEF IInv, InOrder
    <3>2. b \in Nat
      BY IntakeAssumption DEF IInv, TypeOK
    <3> QED BY <1>1, <3>1, <3>2, SMT
  <2>4. TypeOK'
    BY <1>1, <2>1 DEF persistSubmission, Goto, RunSteps, IInv, TypeOK
  <2>5. InOrder'
    BY <1>1, <2>1, <2>2 DEF IInv, InOrder, Dealt
  <2>6. CursorBehind'
    BY <2>1 DEF IInv, CursorBehind, NothingSkipped
  <2>7. CustomersCurrent'
    <3> SUFFICES ASSUME NEW t \in TaxIds
                 PROVE  /\ customer'[t] # 0 => customer'[t] \in bookings' /\ TaxIdOf[customer'[t]] = t
                        /\ \A b \in bookings' : TaxIdOf[b] = t => b <= customer'[t]
      BY DEF CustomersCurrent
    <3>1. CASE t = TaxIdOf[e]
      BY <1>1, <2>1, <2>3, <3>1 DEF IInv, TypeOK
    <3>2. CASE t # TaxIdOf[e]
      BY <2>1, <3>2 DEF IInv, TypeOK, CustomersCurrent
    <3> QED BY <3>1, <3>2
  <2>8. ASSUME NEW q \in Runs PROVE Informed(q)'
    <3>1. CASE q = r
      BY <1>2, <2>1, <3>1 DEF IInv, Informed, FetchInformed, BatchInformed, EntryInformed, Dealt
    <3>2. CASE q # r
      <4>1. pc'[q] = pc[q]
        BY <3>2 DEF persistSubmission, Goto, IInv, TypeOK
      <4> QED BY <1>1, <2>1, <2>2, <4>1, OthersStayInformed
    <3> QED BY <3>1, <3>2
  <2> QED BY <2>4, <2>5, <2>6, <2>7, <2>8 DEF IInv
<1> QED BY <1>3, <1>4

\* A run goes on to the next entry of its page when it is done with the current one.
LEMMA NextEntryInformed ==
  ASSUME IInv, NEW r \in Runs, pc[r] \in {"advance", "swap"}, NextEntry(r),
         UNCHANGED <<submitted, bookings>>
  PROVE  Informed(r)'
<1>1. /\ batch'[r] = batch[r] \ {Current(r)}
      /\ pc'[r] = IF batch[r] = {Current(r)} THEN "idle" ELSE "entry"
  BY DEF NextEntry, Goto, IInv, TypeOK
<1>2. Dealt(Current(r)) /\ Current(r) \in batch[r]
  BY CurrentIsFirst DEF IInv, Informed, EntryInformed
<1>3. BatchInformed(r)'
  BY <1>1, <1>2 DEF IInv, Informed, BatchInformed, Dealt
<1> QED BY <1>1, <1>3 DEF Informed, FetchInformed, EntryInformed

LEMMA AdvanceReadsIInv ==
  ASSUME IInv, NEW r \in Runs, AdvanceReads(r)
  PROVE  IInv'
<1>1. UNCHANGED <<submitted, tables>> /\ known' = [known EXCEPT ![r] = cursor]
      /\ cursor \in Entries \cup {0} /\ pc[r] = "advance" /\ batch[r] \subseteq Entries
  BY DEF AdvanceReads, wordpress, IInv, TypeOK
<1>2. CASE NextEntry(r)
  <2> DEFINE rest == batch[r] \ {Current(r)}
  <2>1. Informed(r)'
    BY <1>1, <1>2, NextEntryInformed DEF tables
  <2>2. batch' = [batch EXCEPT ![r] = rest] /\ rest \in SUBSET Entries
    BY <1>1, <1>2 DEF NextEntry
  <2>3. Goto(r, IF batch[r] = {Current(r)} THEN "idle" ELSE "entry")
    BY <1>2 DEF NextEntry
  <2> HIDE DEF rest
  <2> QED BY <1>1, <2>1, <2>2, <2>3, RunMoves DEF RunSteps
<1>3. CASE Goto(r, "swap") /\ UNCHANGED batch
  <2>1. pc'[r] = "swap" /\ batch' = [batch EXCEPT ![r] = batch[r]] /\ batch'[r] = batch[r]
    BY <1>3 DEF Goto, IInv, TypeOK
  <2>2. Informed(r)'
    BY <1>1, <2>1 DEF IInv, Informed, FetchInformed, BatchInformed, EntryInformed, Dealt,
                      Current, tables
  <2> QED BY <1>1, <1>3, <2>1, <2>2, RunMoves DEF RunSteps
<1> QED BY <1>2, <1>3 DEF AdvanceReads

\* The cursor moves to an entry that is dealt with, and so is all before it.
LEMMA AdvanceSwapsIInv ==
  ASSUME IInv, NEW r \in Runs, AdvanceSwaps(r)
  PROVE  IInv'
<1>1. UNCHANGED <<submitted, bookings, customer, known>> /\ pc[r] = "swap"
      /\ batch[r] \subseteq Entries /\ known[r] \in Entries \cup {0}
  BY DEF AdvanceSwaps, wordpress, IInv, TypeOK
<1>2. CASE Unmoved(r)
  <2> DEFINE e == Current(r)
  <2>1. cursor' = e /\ NextEntry(r)
    BY <1>2 DEF AdvanceSwaps
  <2>2. /\ e \in submitted /\ e \in Nat /\ Dealt(e)
        /\ \A f \in submitted : f < e => Dealt(f)
    BY <1>1, CurrentIsFirst DEF IInv, Informed, EntryInformed
  <2>3. TypeOK'
    BY <1>1, <2>1, <2>2 DEF NextEntry, Goto, RunSteps, IInv, TypeOK
  <2>4. InOrder' /\ CustomersCurrent'
    BY <1>1 DEF IInv, InOrder, CustomersCurrent, Dealt
  <2>5. CursorBehind'
    <3>1. ASSUME NEW f \in submitted, f <= e PROVE Dealt(f)
      <4>1. f \in Nat
        BY IntakeAssumption DEF IInv, TypeOK
      <4>2. f < e \/ f = e
        BY <2>2, <3>1, <4>1, SMT
      <4> QED BY <2>2, <4>2
    <3> QED BY <1>1, <2>1, <2>2, <3>1 DEF CursorBehind, NothingSkipped, Dealt
  <2>6. ASSUME NEW q \in Runs PROVE Informed(q)'
    <3>1. CASE q = r
      BY <1>1, <2>1, <3>1, NextEntryInformed
    <3>2. CASE q # r
      <4>1. pc'[q] = pc[q] /\ batch'[q] = batch[q]
        BY <2>1, <3>2 DEF NextEntry, Goto, IInv, TypeOK
      <4> QED BY <1>1, <4>1, OthersStayInformed
    <3> QED BY <3>1, <3>2
  <2> QED BY <2>3, <2>4, <2>5, <2>6 DEF IInv
<1>3. CASE ~Unmoved(r)
  <2>1. Goto(r, "advance") /\ UNCHANGED <<cursor, batch>>
    BY <1>3 DEF AdvanceSwaps
  <2>2. /\ batch' = [batch EXCEPT ![r] = batch[r]] /\ known' = [known EXCEPT ![r] = known[r]]
        /\ pc'[r] = "advance"
    BY <1>1, <2>1 DEF Goto, IInv, TypeOK
  <2>3. Informed(r)'
    BY <1>1, <2>1, <2>2 DEF IInv, Informed, FetchInformed, BatchInformed, EntryInformed,
                            Dealt, Current
  <2> QED BY <1>1, <2>1, <2>2, <2>3, RunMoves DEF RunSteps, tables
<1> QED BY <1>2, <1>3

LEMMA NextIInv == IInv /\ [Next]_vars => IInv'
<1> SUFFICES ASSUME IInv, [Next]_vars PROVE IInv'
  OBVIOUS
<1>1. ASSUME NEW e \in Entries, Submit(e) PROVE IInv'
  BY <1>1, SubmitIInv
<1>2. ASSUME NEW r \in Runs, fetchEntriesAfter(r) PROVE IInv'
  BY <1>2, fetchEntriesAfterIInv
<1>3. ASSUME NEW r \in Runs, Works(r) PROVE IInv'
  BY <1>3, readCursorIInv, EndsIInv, RejectsIInv, FindsCustomerIInv, persistSubmissionIInv,
     AdvanceReadsIInv, AdvanceSwapsIInv DEF Works
<1>4. ASSUME NEW r \in Runs, Dies(r) PROVE IInv'
  BY <1>4, EndsIInv
<1>5. CASE UNCHANGED vars
  BY <1>5 DEF vars, wordpress, tables, run, IInv, TypeOK, InOrder, CursorBehind, NothingSkipped,
              CustomersCurrent, Informed, FetchInformed, BatchInformed, EntryInformed,
              Current, Dealt
<1> QED BY <1>1, <1>2, <1>3, <1>4, <1>5 DEF Next, UninterruptedNext

LEMMA SpecIInv == Spec => []IInv
BY InitIInv, NextIInv, PTL DEF Spec

-----------------------------------------------------------------------------
(* Theorems *)

\* The rows of intake.ts and what its runs hold keep their types.
THEOREM TypeCorrect == Spec => []TypeOK
<1>1. IInv => TypeOK
  BY DEF IInv
<1> QED BY <1>1, SpecIInv, PTL

\* advanceCursor never passes an entry that is neither imported nor malformed, with any
\* number of runs, pages of any size and deaths anywhere.
THEOREM EntriesNeverSkipped == Spec => []NothingSkipped
<1>1. IInv => NothingSkipped
  BY DEF IInv, CursorBehind
<1> QED BY <1>1, SpecIInv, PTL

\* persistSubmission leaves every customer with the data of its latest imported entry.
THEOREM CustomersShowLatest == Spec => []LatestContactData
<1>1. ASSUME IInv, NEW t \in TaxIds
      PROVE  customer[t] = Max({b \in bookings : TaxIdOf[b] = t} \cup {0})
  <2> DEFINE imported == {b \in bookings : TaxIdOf[b] = t}
             entries == imported \cup {0}
  <2>1. entries \subseteq Nat
    <3>1. imported \subseteq Nat
      BY <1>1, IntakeAssumption DEF IInv, TypeOK
    <3> HIDE DEF imported
    <3> QED BY <3>1
  <2>2. customer[t] \in entries
    BY <1>1 DEF IInv, CustomersCurrent
  <2>3. \A b \in entries : b <= customer[t]
    <3>1. customer[t] \in Nat
      BY <2>1, <2>2
    <3>2. 0 <= customer[t]
      BY <3>1, SMT
    <3> QED BY <1>1, <3>2 DEF IInv, CustomersCurrent
  <2> HIDE DEF entries
  <2>4. Max(entries) = customer[t]
    BY <2>1, <2>2, <2>3, MaxIsGreatest
  <2> QED BY <2>4 DEF entries
<1>2. IInv => LatestContactData
  BY <1>1 DEF LatestContactData
<1> QED BY <1>2, SpecIInv, PTL

-----------------------------------------------------------------------------
(* The quotes of imported bookings *)

\* The advance is rounded to the nearest cent, halves upwards.
LEMMA AdvanceIsNearest ==
  ASSUME NEW total \in Nat, NEW deposit \in Nat, NEW confirmation,
         confirmation = calculateConfirmationAmounts(total, deposit)
  PROVE  LET error == AdvanceDenominator * confirmation.advance - AdvanceNumerator * total
         IN /\ 2 * error \in -AdvanceDenominator + 1 .. AdvanceDenominator
            /\ confirmation.amountToConfirm <= total + deposit
<1>1. PICK advance : advance = (2 * (total * 3) + 10) \div (2 * 10)
  OBVIOUS
<1>2. /\ confirmation.advance = advance
      /\ confirmation.amountToConfirm = advance + deposit
  BY <1>1 DEF calculateConfirmationAmounts, RoundedDivision, AdvanceNumerator, AdvanceDenominator
<1>3. /\ advance \in Int /\ 20 * advance <= 6 * total + 10 /\ 20 * advance > 6 * total - 10
  BY <1>1
<1>4. advance <= total
  BY <1>3
<1>5. 2 * (10 * advance - 3 * total) \in -9 .. 10
  BY <1>3
<1> QED BY <1>2, <1>3, <1>4, <1>5 DEF AdvanceNumerator, AdvanceDenominator

\* The band exists, and the group or its billable size has reached it.
LEMMA BandIsReached ==
  ASSUME NEW headcount \in Nat
  PROVE  resolveHeadcountBand(headcount) <= billableHeadcount(headcount)
<1> DEFINE Fits(band) ==
      /\ band = 30 \/ headcount >= band
      /\ \A higher \in Bands : higher > band => headcount < higher
<1>1. \E band \in Bands : Fits(band)
  <2>1. headcount < 40 => Fits(30)
    BY DEF Bands
  <2>2. headcount >= 40 /\ headcount < 60 => Fits(40)
    BY DEF Bands
  <2>3. headcount >= 60 /\ headcount < 80 => Fits(60)
    BY DEF Bands
  <2>4. headcount >= 80 => Fits(80)
    BY DEF Bands
  <2> QED BY <2>1, <2>2, <2>3, <2>4 DEF Bands
<1>2. PICK band : band = resolveHeadcountBand(headcount)
  OBVIOUS
<1>3. band \in Bands /\ (band = 30 \/ headcount >= band)
  BY <1>1, <1>2 DEF resolveHeadcountBand
<1> QED BY <1>2, <1>3 DEF Bands, billableHeadcount, Floor

LEMMA TimesAtLeast ==
  ASSUME NEW n \in Nat \ {0}, NEW b \in Nat
  PROVE  n * b \in Nat /\ n * b >= b
<1>1. PICK m \in Nat : n = m + 1
  BY n - 1 \in Nat, n = (n - 1) + 1
<1>2. m * b \in Nat
  OBVIOUS
<1>3. n * b = m * b + b
  BY <1>1
<1> QED BY <1>2, <1>3

\* Whatever the stay, the price and the deposit.
LEMMA QuoteIsExact ==
  ASSUME NEW stay, stay.start \in Int, stay.end \in Int, stay.headcount \in Nat,
         countNights(stay.start, stay.end) # None,
         NEW unitPrice \in Nat, NEW deposit \in Nat
  PROVE  QuoteExact(stay, unitPrice, deposit)
<1>1. PICK nights : nights = countNights(stay.start, stay.end)
  OBVIOUS
<1>2. nights \in Nat \ {0}
  BY <1>1 DEF countNights, None
<1>3. PICK billable : billable = billableHeadcount(stay.headcount)
  OBVIOUS
<1>4. billable \in Nat /\ billable >= 30
  BY <1>3 DEF billableHeadcount, Floor
<1>5. PICK units : units = nights * billable
  OBVIOUS
<1>6. units \in Nat /\ units >= 30
  BY <1>2, <1>4, <1>5, TimesAtLeast
<1>7. PICK total : total = unitPrice * units
  OBVIOUS
<1>8. total \in Nat
  BY <1>6, <1>7
<1>9. PICK confirmation : confirmation = calculateConfirmationAmounts(total, deposit)
  OBVIOUS
<1>10. PICK band : band = resolveHeadcountBand(stay.headcount)
  OBVIOUS
<1>11. band <= billable
  BY <1>3, <1>10, BandIsReached
<1>12. PICK quote : quote = quoteStay(stay, unitPrice, deposit)
  OBVIOUS
<1>13. /\ quote.units = units /\ quote.total = total /\ quote.confirmation = confirmation
       /\ quote.sku[2] = band
  BY <1>1, <1>3, <1>5, <1>7, <1>9, <1>10, <1>12 DEF quoteStay, resolveServiceSku
<1>14. LET error == AdvanceDenominator * confirmation.advance - AdvanceNumerator * total
       IN /\ 2 * error \in -AdvanceDenominator + 1 .. AdvanceDenominator
          /\ confirmation.amountToConfirm <= total + deposit
  BY <1>8, <1>9, AdvanceIsNearest
<1> QED BY <1>3, <1>6, <1>11, <1>12, <1>13, <1>14 DEF QuoteExact, Floor

\* A stay that countNights refuses is never imported: whoever is about to import has
\* looked at the stay of the entry it still works on.
Quotable ==
  /\ \A e \in bookings : ~Impossible(e)
  /\ \A r \in Runs : pc[r] = "commit" => ~Impossible(Current(r))

LEMMA QuotableKept == IInv /\ Quotable /\ [Next]_vars => Quotable'
<1> SUFFICES ASSUME IInv, Quotable, [Next]_vars PROVE Quotable'
  OBVIOUS
<1>1. pc \in [Runs -> RunSteps] /\ batch \in [Runs -> SUBSET Entries]
  BY DEF IInv, TypeOK
<1>2. ASSUME UNCHANGED bookings,
             \A r \in Runs : pc'[r] = "commit" => pc[r] = "commit" /\ batch'[r] = batch[r]
      PROVE  Quotable'
  BY <1>2 DEF Quotable, Impossible, Current
<1>3. ASSUME NEW e \in Entries, Submit(e) PROVE Quotable'
  BY <1>2, <1>3 DEF Submit, tables, run
<1>4. ASSUME NEW r \in Runs,
             \/ readCursor(r) \/ fetchEntriesAfter(r) \/ FetchFails(r) \/ Rejects(r)
             \/ Throws(r) \/ AdvanceReads(r) \/ AdvanceSwaps(r) \/ Dies(r)
      PROVE  Quotable'
  <2>1. UNCHANGED bookings
    BY <1>4 DEF readCursor, fetchEntriesAfter, FetchFails, Rejects, Throws, AdvanceReads,
       AdvanceSwaps, Dies, tables
  <2>2. /\ \E step \in RunSteps \ {"commit"} : pc' = [pc EXCEPT ![r] = step]
        /\ \A s \in Runs : s # r => batch'[s] = batch[s]
    BY <1>1, <1>4 DEF readCursor, fetchEntriesAfter, FetchFails, Rejects, Throws, AdvanceReads,
       AdvanceSwaps, Dies, NextEntry, Goto, RunSteps
  <2>3. \A s \in Runs : pc'[s] = "commit" => pc[s] = "commit" /\ batch'[s] = batch[s]
    BY <1>1, <2>2
  <2> QED BY <1>2, <2>1, <2>3
<1>5. ASSUME NEW r \in Runs, FindsCustomer(r) PROVE Quotable'
  <2>1. /\ ~Impossible(Current(r)) /\ UNCHANGED <<bookings, batch>>
        /\ \A s \in Runs : s # r => pc'[s] = pc[s]
    BY <1>1, <1>5 DEF FindsCustomer, Goto, tables
  <2> QED BY <2>1 DEF Quotable, Impossible, Current
<1>6. ASSUME NEW r \in Runs, persistSubmission(r) PROVE Quotable'
  <2>1. pc[r] = "commit" /\ bookings' \subseteq bookings \cup {Current(r)} /\ UNCHANGED batch
    BY <1>6 DEF persistSubmission
  <2>2. \A s \in Runs : pc'[s] = "commit" => pc[s] = "commit"
    BY <1>1, <1>6 DEF persistSubmission, Goto
  <2> QED BY <2>1, <2>2 DEF Quotable, Impossible, Current
<1>7. CASE UNCHANGED vars
  BY <1>2, <1>7 DEF vars, tables, run
<1> QED BY <1>3, <1>4, <1>5, <1>6, <1>7 DEF Next, UninterruptedNext, Works

\* For every price and deposit, not only for those of the run.
AnyQuoteExact ==
  \A e \in bookings, unitPrice \in Nat, deposit \in Nat :
    QuoteExact(StayOf[e], unitPrice, deposit)

\* Every imported booking has a quote, and it is exact.
THEOREM ImportedQuotesExact == Spec => [](QuotesAreExact /\ AnyQuoteExact)
<1>1. Init => Quotable
  BY DEF Init, Quotable
<1>2. IInv /\ Quotable => AnyQuoteExact
  <2> SUFFICES ASSUME IInv, Quotable, NEW e \in bookings, NEW unitPrice \in Nat, NEW deposit \in Nat
               PROVE  QuoteExact(StayOf[e], unitPrice, deposit)
    BY DEF AnyQuoteExact
  <2>1. e \in Entries \ Malformed /\ ~Impossible(e)
    BY DEF IInv, TypeOK, InOrder, Quotable
  <2>2. PICK stay : stay = StayOf[e]
    OBVIOUS
  <2>3. /\ stay.start \in Int /\ stay.end \in Int /\ stay.headcount \in Nat
    BY <2>1, <2>2, IntakeAssumption
  <2>4. countNights(stay.start, stay.end) # None
    BY <2>1, <2>2 DEF Impossible
  <2> QED BY <2>2, <2>3, <2>4, QuoteIsExact
<1>3. AnyQuoteExact => QuotesAreExact
  BY DEF AnyQuoteExact, QuotesAreExact, UnitPrices, Deposits
<1> QED BY <1>1, <1>2, <1>3, SpecIInv, QuotableKept, PTL DEF Spec
=============================================================================
