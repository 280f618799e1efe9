----------------------------- MODULE MCQuoting -----------------------------
(* Instances of Quoting for TLC. *)
EXTENDS Quoting, TLC

\* All bookings are of the same customer.
SameCustomer == [j \in Jobs |-> CHOOSE c \in Customers : TRUE]

Symmetry == Permutations(Drains)
=============================================================================
