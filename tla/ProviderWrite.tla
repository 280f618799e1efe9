--------------------------- MODULE ProviderWrite ---------------------------
(***************************************************************************)
(* What every billable call to Holded promises (sending a document, and    *)
(* issuing a reserve invoice): the remote effect happens at most once, it  *)
(* happens only while somebody holds the claim or after the outcome became *)
(* uncertain, and a new attempt starts only when the earlier one is known  *)
(* to have had no effect.                                                  *)
(***************************************************************************)
EXTENDS Naturals

VARIABLES
  phase,    \* "open", "claimed", "parked" (outcome unknown) or "done"
  effects   \* how often the provider has carried the request out

wvars == <<phase, effects>>

Init == phase = "open" /\ effects = 0

\* Exactly one caller takes the write on itself.
Begin == phase = "open" /\ effects = 0 /\ phase' = "claimed" /\ UNCHANGED effects

\* The provider carries it out; it may do so after the caller gave up waiting.
Land ==
  /\ phase \in {"claimed", "parked"}
  /\ effects = 0
  /\ effects' = 1
  /\ UNCHANGED phase

\* The provider proved that it did nothing: the write may be tried again.
Reopen ==
  /\ phase \in {"claimed", "parked"}
  /\ effects = 0
  /\ phase' = "open"
  /\ UNCHANGED effects

\* Nobody knows: the write is never repeated on its own.
Park == phase = "claimed" /\ phase' = "parked" /\ UNCHANGED effects

Finish ==
  /\ phase \in {"claimed", "parked"}
  /\ effects = 1
  /\ phase' = "done"
  /\ UNCHANGED effects

Next == Begin \/ Land \/ Reopen \/ Park \/ Finish

Spec == Init /\ [][Next]_wvars

AtMostOnce == effects <= 1
=============================================================================
