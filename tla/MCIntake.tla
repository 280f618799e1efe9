----------------------------- MODULE MCIntake -----------------------------
(* Instances of Intake for TLC. *)
EXTENDS Intake

\* Entries 1 and 4 are of one customer.
SomeTaxIds == [e \in Entries |-> IF e \in {1, 4} THEN "returning" ELSE "other"]

\* Group sizes at the edges of the bands.
Headcounts == <<1, 39, 40, 80, 60>>
StayEnding(e, end) ==
  [start |-> 10, end |-> end, headcount |-> Headcounts[e],
   board |-> IF e = 2 THEN "FULL_BOARD" ELSE "SELF_CATERING"]

\* The last entry ends on the day it starts.
LastImpossible == [e \in Entries |-> StayEnding(e, IF e = 5 THEN 10 ELSE 10 + e)]
=============================================================================
