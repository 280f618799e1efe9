------------------------- MODULE DocumentDelivery -------------------------
(***************************************************************************)
(* Sending one Holded document (an estimate or a reserve invoice) to its   *)
(* customer: booking/services/document-delivery.ts.  Any number of workers *)
(* run prepareDocumentDelivery and then deliverPreparedDocument for the    *)
(* same document, each database statement and each Holded call a step of   *)
(* its own.  A worker may die anywhere; a request it had on the network    *)
(* may still be carried out afterwards.                                    *)
(***************************************************************************)
EXTENDS Naturals

CONSTANTS
  Workers,        \* processes draining the outbox
  Recipients,     \* the To/Cc lists Holded's delegate contacts can resolve to
  NoRecipients    \* no delivery row yet

ASSUME NoRecipientsAssumption == NoRecipients \notin Recipients

VARIABLES
  status,    \* DocumentDelivery.status, "NONE" before the row exists
  frozen,    \* the row's toEmail and ccEmails
  sentAt,    \* HoldedDocument.sentAt is set
  pc,        \* where each worker is
  seen,      \* the row (or the delegate list) each worker has read
  landed,    \* e-mails Holded has sent for this document
  inTransit  \* requests still on the network whose caller stopped waiting

vars == <<status, frozen, sentAt, pc, seen, landed, inTransit>>

DeliveryStatuses == {"NONE", "PREPARED", "IN_FLIGHT", "ACCEPTED", "FAILED", "UNKNOWN"}

\* Steps at which a worker owns the claim; the last three know the outcome.
Holding == {"claimed", "sending", "accepted", "refused", "uncertain"}
Steps == {"idle", "dead", "listing", "upsert", "deliver", "park", "claim"} \cup Holding

NothingSeen == [status |-> "NONE", to |-> NoRecipients]

TypeOK ==
  /\ status \in DeliveryStatuses
  /\ frozen \in Recipients \cup {NoRecipients}
  /\ sentAt \in BOOLEAN
  /\ pc \in [Workers -> Steps]
  /\ seen \in [Workers -> [status : DeliveryStatuses, to : Recipients \cup {NoRecipients}]]
  /\ landed \in Nat
  /\ inTransit \in Nat

Init ==
  /\ status = "NONE"
  /\ frozen = NoRecipients
  /\ sentAt = FALSE
  /\ pc = [w \in Workers |-> "idle"]
  /\ seen = [w \in Workers |-> NothingSeen]
  /\ landed = 0
  /\ inTransit = 0

Goto(w, step) == pc' = [pc EXCEPT ![w] = step]
delivery == <<status, frozen, sentAt>>
provider == <<landed, inTransit>>

-----------------------------------------------------------------------------
(* prepareDocumentDelivery *)

\* The first read.  An existing row is used as it is; a document already sent
\* needs nothing (the worker stays idle).
PrepareRead(w) ==
  /\ pc[w] = "idle"
  /\ ~sentAt
  /\ Goto(w, IF status = "NONE" THEN "listing" ELSE "deliver")
  /\ UNCHANGED <<delivery, seen, provider>>

\* Whatever the pages of Holded's contacts say now; nothing when the call
\* fails, a page or a delegate is malformed, or the pages do not end.
listDelegateEmails == Recipients \cup {NoRecipients}

\* The customer's own address, or a delegate's, may be unusable.
resolveDocumentRecipients(emails) == {emails, NoRecipients}

ListDelegates(w) ==
  /\ pc[w] = "listing"
  /\ \E emails \in listDelegateEmails :
       \E r \in resolveDocumentRecipients(emails) :
         \/ /\ r # NoRecipients
            /\ seen' = [seen EXCEPT ![w] = [status |-> "NONE", to |-> r]]
            /\ Goto(w, "upsert")
         \/ r = NoRecipients /\ Goto(w, "idle") /\ UNCHANGED seen
  /\ UNCHANGED <<delivery, provider>>

\* The transaction re-reads, and its upsert leaves a row it finds untouched.
UpsertedRecipients(w) == IF status = "NONE" THEN seen[w].to ELSE frozen

Upsert(w) ==
  /\ pc[w] = "upsert"
  /\ IF sentAt
     THEN Goto(w, "idle") /\ UNCHANGED <<status, frozen>>
     ELSE /\ Goto(w, "deliver")
          /\ status' = IF status = "NONE" THEN "PREPARED" ELSE status
          /\ frozen' = UpsertedRecipients(w)
  /\ UNCHANGED <<sentAt, seen, provider>>

-----------------------------------------------------------------------------
(* deliverPreparedDocument *)

\* The read decides; an interrupted attempt is parked by the next step.
AfterRead_RetryingInterrupted ==
  IF sentAt \/ status \in {"ACCEPTED", "UNKNOWN"} THEN "idle" ELSE "claim"
AfterRead ==
  IF sentAt \/ status \in {"ACCEPTED", "UNKNOWN"} THEN "idle"
  ELSE IF status = "IN_FLIGHT" THEN "park" ELSE "claim"

DeliverRead(w) ==
  /\ pc[w] = "deliver"
  /\ Goto(w, AfterRead)
  /\ seen' = [seen EXCEPT ![w] = [status |-> status, to |-> frozen]]
  /\ UNCHANGED <<delivery, provider>>

\* updateMany ... where status = IN_FLIGHT
FromInFlight(new) == status' = IF status = "IN_FLIGHT" THEN new ELSE status

Park(w) ==
  /\ pc[w] = "park"
  /\ FromInFlight("UNKNOWN")
  /\ Goto(w, "idle")
  /\ UNCHANGED <<frozen, sentAt, seen, provider>>

\* The claim is conditional on the status read; a loser starts over.
Claimable_Unchecked(w) == TRUE
Claimable(w) == status = seen[w].status

Claim(w) ==
  /\ pc[w] = "claim"
  /\ IF Claimable(w)
     THEN status' = "IN_FLIGHT" /\ Goto(w, "claimed")
     ELSE UNCHANGED status /\ Goto(w, "deliver")
  /\ UNCHANGED <<frozen, sentAt, seen, provider>>

Send(w) ==
  /\ pc[w] = "claimed"
  /\ Goto(w, "sending")
  /\ UNCHANGED <<delivery, seen, provider>>

\* catch: definitive refusals reopen the row, every other error parks it, but
\* only while the row still is IN_FLIGHT.
FailureStatus(w) == IF pc[w] = "refused" THEN "FAILED" ELSE "UNKNOWN"

RecordFailure_OnlyDefinitive(w) ==
  /\ pc[w] \in {"refused", "uncertain"}
  /\ IF pc[w] = "refused" THEN FromInFlight("FAILED") ELSE UNCHANGED status
  /\ Goto(w, "idle")
  /\ UNCHANGED <<frozen, sentAt, seen, provider>>
RecordFailure(w) ==
  /\ pc[w] \in {"refused", "uncertain"}
  /\ FromInFlight(FailureStatus(w))
  /\ Goto(w, "idle")
  /\ UNCHANGED <<frozen, sentAt, seen, provider>>

\* One transaction, whatever the row says by now.
RecordAccepted(w) ==
  /\ pc[w] = "accepted"
  /\ status' = "ACCEPTED"
  /\ sentAt' = TRUE
  /\ Goto(w, "idle")
  /\ UNCHANGED <<frozen, seen, provider>>

-----------------------------------------------------------------------------
(* sendDocument and what Holded does with the request *)

\* A 2xx answer that arrives, or is lost on the way back.
ProviderSends(w) ==
  /\ pc[w] = "sending"
  /\ landed' = landed + 1
  /\ \E outcome \in {"accepted", "uncertain"} : Goto(w, outcome)
  /\ UNCHANGED <<delivery, seen, inTransit>>

\* A 4xx answer: HoldedDeliveryError with deliveryOutcome "definitive_failure".
ProviderRefuses(w) ==
  /\ pc[w] = "sending"
  /\ Goto(w, "refused")
  /\ UNCHANGED <<delivery, seen, provider>>

\* The deadline passes (or the connection breaks) with the request on its way.
TimesOut(w) ==
  /\ pc[w] = "sending"
  /\ Goto(w, "uncertain")
  /\ inTransit' = inTransit + 1
  /\ UNCHANGED <<delivery, seen, landed>>

\* A request nobody waits for any more is carried out, or dropped.
LateRequest ==
  /\ inTransit > 0
  /\ inTransit' = inTransit - 1
  /\ landed' \in {landed, landed + 1}
  /\ UNCHANGED <<delivery, pc, seen>>

-----------------------------------------------------------------------------
(* The process dies.  A worker's reads are lost, its request is not. *)
Crash(w) ==
  /\ pc[w] \notin {"idle", "dead"}
  /\ Goto(w, "dead")
  /\ seen' = [seen EXCEPT ![w] = NothingSeen]
  /\ inTransit' = IF pc[w] = "sending" THEN inTransit + 1 ELSE inTransit
  /\ UNCHANGED <<delivery, landed>>

Restart(w) ==
  /\ pc[w] = "dead"
  /\ Goto(w, "idle")
  /\ UNCHANGED <<delivery, seen, provider>>

\* The documented repair of an UNKNOWN row, on the evidence Holded shows once
\* nothing of the attempt is left (docs/berea-cat-wordpress.md, "Unknown
\* estimate delivery").
OperatorResolves ==
  /\ status = "UNKNOWN"
  /\ inTransit = 0
  /\ \A w \in Workers : pc[w] \notin Holding
  /\ IF landed > 0 THEN status' = "ACCEPTED" /\ sentAt' = TRUE
     ELSE status' = "FAILED" /\ UNCHANGED sentAt
  /\ UNCHANGED <<frozen, pc, seen, provider>>

WorkerStep(w) ==
  \/ ListDelegates(w) \/ Upsert(w) \/ DeliverRead(w) \/ Park(w) \/ Claim(w)
  \/ Send(w) \/ RecordFailure(w) \/ RecordAccepted(w)
  \/ ProviderSends(w) \/ ProviderRefuses(w) \/ TimesOut(w)

Next ==
  \/ \E w \in Workers : PrepareRead(w) \/ WorkerStep(w) \/ Crash(w) \/ Restart(w)
  \/ LateRequest
  \/ OperatorResolves

Spec == Init /\ [][Next]_vars

\* A worker that has started runs on until it dies: each of its steps is an
\* awaited statement, and sendDocument has a deadline of its own.
FairSpec == Spec /\ \A w \in Workers : WF_vars(WorkerStep(w))

-----------------------------------------------------------------------------
(* Properties *)

\* Whatever the interleaving of workers, crashes, lost answers and operator
\* repairs, the customer gets the document by e-mail at most once.
AtMostOneEmail == landed <= 1

\* A row the next worker may claim (PREPARED, FAILED) belongs to a document no
\* e-mail has gone out for, nor still can: FAILED is never a guess.
RetryIsSafe == status \in {"NONE", "PREPARED", "FAILED"} => landed + inTransit = 0

\* "Sent" is said exactly when it is true: sentAt and ACCEPTED are set
\* together and only for an e-mail that went out.
SentIsTrue == /\ sentAt <=> status = "ACCEPTED"
              /\ sentAt => landed = 1

\* Every request goes to the recipients frozen by the first attempt, however
\* the delegates changed in Holded between two attempts.
SendsToFrozen ==
  \A w \in Workers : pc[w] \in {"claimed", "sending"} => seen[w].to = frozen

\* A worker that takes a delivery up brings it to an end - sent, refused or
\* parked for an operator - unless it dies itself, however many others died
\* half way, or compete with it.
DeliverySettles ==
  \A w \in Workers :
    pc[w] = "deliver" ~>
      status \in {"ACCEPTED", "FAILED", "UNKNOWN"} \/ pc[w] = "dead"

\* The delivery row implements the at-most-once write of ProviderWrite.
phase ==
  CASE status \in {"NONE", "PREPARED", "FAILED"} -> "open"
    [] status = "IN_FLIGHT" -> "claimed"
    [] status = "UNKNOWN"   -> "parked"
    [] status = "ACCEPTED"  -> "done"

Write == INSTANCE ProviderWrite WITH effects <- landed

ImplementsProviderWrite == Write!Spec
=============================================================================
