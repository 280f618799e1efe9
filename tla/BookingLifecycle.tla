-------------------------- MODULE BookingLifecycle --------------------------
(***************************************************************************)
(* What the booking lifecycle promises (booking/services/lifecycle.ts): a  *)
(* request only makes the moves of ALLOWED_TRANSITIONS, and confirming it  *)
(* is one with receiving its money.  Booking.tla implements this.          *)
(***************************************************************************)
CONSTANT Bookings

VARIABLES
  state,   \* BookingRequest.state
  paid     \* the bookings money was recorded for

lifecycle == <<state, paid>>

States == {"IN_REVIEW", "AWAITING_PAYMENT", "CONFIRMED", "INVOICED",
           "COMPLETED", "REJECTED", "EXPIRED", "CANCELLED"}

\* ALLOWED_TRANSITIONS
AllowedTransitions ==
  [s \in States |->
     CASE s = "IN_REVIEW"        -> {"AWAITING_PAYMENT", "REJECTED"}
       [] s = "AWAITING_PAYMENT" -> {"CONFIRMED", "EXPIRED", "CANCELLED"}
       [] s = "CONFIRMED"        -> {"INVOICED", "CANCELLED"}
       [] s = "INVOICED"         -> {"COMPLETED"}
       [] s \in {"COMPLETED", "REJECTED", "EXPIRED", "CANCELLED"} -> {}]

canTransition(from, to) == to \in AllowedTransitions[from]

Init == /\ state = [b \in Bookings |-> "IN_REVIEW"]
        /\ paid = {}

Decide(b, to) ==
  /\ to # "CONFIRMED"
  /\ canTransition(state[b], to)
  /\ state' = [state EXCEPT ![b] = to]
  /\ UNCHANGED paid

Confirm(b) ==
  /\ canTransition(state[b], "CONFIRMED")
  /\ state' = [state EXCEPT ![b] = "CONFIRMED"]
  /\ paid' = paid \cup {b}

\* One expiry run releases all its bookings together.
Expire(released) ==
  /\ \A b \in released : canTransition(state[b], "EXPIRED")
  /\ state' = [b \in Bookings |-> IF b \in released THEN "EXPIRED" ELSE state[b]]
  /\ UNCHANGED paid

Next ==
  \/ \E b \in Bookings : Confirm(b) \/ \E to \in States : Decide(b, to)
  \/ \E released \in SUBSET Bookings : Expire(released)

Spec == Init /\ [][Next]_lifecycle
=============================================================================
