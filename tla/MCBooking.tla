------------------------------ MODULE MCBooking ------------------------------
(* Instances of Booking for TLC. *)
EXTENDS Booking, TLC

\* Transfers asked for and paid: exact and quoting every estimate, and one
\* within the tolerance that quotes none.
Exact == [amount |-> 100, names |-> Bookings]
Near == [amount |-> 104, names |-> {}]
\* Outside the tolerance.
Wrong == [amount |-> 90, names |-> Bookings]

ExactOnly == {Exact}
ExactOrNear == {Exact, Near}
ExactOrWrong == {Exact, Wrong}

\* Bookings whose quote job has run and whose deadline has passed: the later half
\* of the lifecycle.
QuotedRequests ==
  /\ state = [b \in Bookings |-> "AWAITING_PAYMENT"]
  /\ due = [b \in Bookings |-> "passed"]
  /\ agreed = [b \in Bookings |-> 100]
  /\ documented = Bookings
  /\ quote = [b \in Bookings |-> "done"]

QuotedInit == QuotedRequests /\ NothingElse

QuotedSpec == QuotedInit /\ [][Next]_vars

QuotedUninterruptedSpec == QuotedInit /\ [][UninterruptedNext]_vars

\* Handlers run on, so that a booking that is confirmed is not merely abandoned.
QuotedFairSpec == QuotedUninterruptedSpec /\ HandlersRun

Symmetry == Permutations(Bookings) \cup Permutations(Movements)
              \cup Permutations(Operators)
=============================================================================
