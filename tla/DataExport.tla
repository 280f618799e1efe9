----------------------------- MODULE DataExport -----------------------------
(***************************************************************************)
(* One download of an account's personal data (generatePersonalDataExport  *)
(* of data-export/service.ts with its registered contributors), while the  *)
(* account is renamed, signs in and out and is deleted.                    *)
(*                                                                         *)
(* The sections are read one after the other, each of them twice, in one   *)
(* REPEATABLE READ transaction: its statements see the rows as they were   *)
(* at the first of them, which is later than the transaction's timestamp.  *)
(* A session that expires is one that signs out.  Of a download nothing    *)
(* remains on the server, so the next one is like the first.               *)
(***************************************************************************)
EXTENDS Integers, Sequences, Functions

CONSTANTS
  Names,      \* what the account may be called
  Timeout,    \* ACCOUNT_DATA_EXPORT_TIMEOUT_MS
  Recently,   \* RECENT_AUTHENTICATION_MS
  GrantTime,  \* how long an authorization lasts at most
  MaxUpdates, \* how often the rows change while an instance is watched
  MaxMoment   \* how long it is watched

ASSUME DataExportAssumption ==
  /\ {Timeout, Recently, GrantTime} \subseteq Nat \ {0}
  /\ {MaxUpdates, MaxMoment} \subseteq Nat

VARIABLES
  owner,        \* User.name, or Nobody when the account is gone
  signedIn,     \* session -> authenticatedAt
  grantedUntil, \* DataExportAuthorization of the session that downloads, or Ungranted
  generation,   \* what generatePersonalDataExport is doing
  moments,      \* the rows as they were at any time since it was asked
  changes,      \* how often they changed
  moment        \* time

exportVars == <<owner, signedIn, grantedUntil, generation, moments, changes, moment>>

Mine == "mine"                 \* the session that downloads
Devices == {Mine, "other"}
Ungranted == -1
Nobody == "nobody"

\* personalDataExportRegistry, sorted by namespace.
Contributors == <<"account", "activeSessions", "policyAcceptances">>

NoGeneration == [step |-> "idle", deadline |-> 0, generatedAt |-> 0, snapshot |-> << >>,
                 first |-> << >>, sections |-> << >>]

Rows == [owner |-> owner, signedIn |-> signedIn, grantedUntil |-> grantedUntil]

ExportInit ==
  /\ owner \in Names /\ signedIn = [s \in {Mine} |-> 0] /\ grantedUntil \in 1 .. GrantTime
  /\ generation = NoGeneration /\ moments = {} /\ changes = 0 /\ moment = 0

-----------------------------------------------------------------------------
(* The contributors: what a section says of the rows *)

accountContribution(rows) == <<rows.owner>>

isRecentlyAuthenticated(at, now) == at <= now /\ at >= now - Recently

activeSessionsContribution(rows, now) ==
  [s \in DOMAIN rows.signedIn |->
     [current |-> s = Mine,
      recentlyAuthenticated |-> isRecentlyAuthenticated(rows.signedIn[s], now)]]

\* Accepted when the account was made, kept as long as the account.
policyAcceptancesContribution(rows) == <<rows.owner # Nobody>>

contribute(namespace, rows, now) ==
  CASE namespace = "account" -> accountContribution(rows)
    [] namespace = "activeSessions" -> activeSessionsContribution(rows, now)
    [] namespace = "policyAcceptances" -> policyAcceptancesContribution(rows)

\* What the download asks of its session: `unauthenticated`, `not_ready` or none.
Objection(rows, now) ==
  CASE rows.owner = Nobody \/ Mine \notin DOMAIN rows.signedIn -> "unauthenticated"
    [] rows.grantedUntil <= now -> "not_ready"
    [] OTHER -> "none"

-----------------------------------------------------------------------------
(* generatePersonalDataExport *)

Reached(step) == generation.step = step
Outcomes == {"completed", "unauthenticated", "rate_limited", "not_ready", "unavailable"}
Generating == generation.step \notin {"idle"} \cup Outcomes

Generates(changed) ==
  /\ generation' = changed
  /\ UNCHANGED <<owner, signedIn, grantedUntil, changes, moment>>
  /\ moments' = IF Reached("idle") THEN {Rows} ELSE moments

Proceeds(step) == Generates([generation EXCEPT !.step = step])

assertWithinDeadline == moment < generation.deadline

\* resolveActiveAccountSession, a read of its own.
AdmitsDownload ==
  /\ Reached("idle")
  /\ IF owner # Nobody /\ Mine \in DOMAIN signedIn
     THEN \/ Generates([generation EXCEPT !.step = "begins", !.deadline = moment + Timeout])
          \/ Proceeds("rate_limited")
     ELSE Proceeds("unauthenticated")

\* transaction_timestamp() is the time of this step, whenever it is read.
BeginsTransaction ==
  /\ Reached("begins") /\ assertWithinDeadline
  /\ Generates([generation EXCEPT !.step = "reads", !.generatedAt = moment])

\* The transaction's first statement fixes what the others see.
ReadsFirst ==
  /\ Reached("reads")
  /\ Generates([generation EXCEPT !.step = "authorizes", !.snapshot = Rows])

Snapshot_Latest == Rows
Snapshot == generation.snapshot

AuthorizesDownload ==
  /\ Reached("authorizes") /\ assertWithinDeadline
  /\ LET objection == Objection(Snapshot, generation.generatedAt)
     IN Proceeds(IF objection = "none" THEN "contributes" ELSE objection)

\* Awaited one by one; what a contributor says twice must be the same.
Contributes ==
  LET next == Contributors[Len(generation.sections) + 1]
      said == contribute(next, Snapshot, generation.generatedAt)
  IN
  /\ Reached("contributes") /\ assertWithinDeadline
  /\ Len(generation.sections) < Len(Contributors)
  /\ \/ /\ generation.first = << >>
        /\ Generates([generation EXCEPT !.first = <<said>>])
     \/ /\ generation.first = <<said>>
        /\ Generates([generation EXCEPT !.first = << >>, !.sections = Append(@, said)])

serializePersonalDataExportEnvelope ==
  /\ Reached("contributes") /\ assertWithinDeadline
  /\ Len(generation.sections) = Len(Contributors)
  /\ Proceeds("completed")

\* The deadline is over, a contributor throws, repeats itself differently or says what it
\* must not, the file is too large, the transaction fails: nothing is handed out.
GenerationFails ==
  /\ Generating /\ Proceeds("unavailable")

-----------------------------------------------------------------------------
(* What happens to the rows meanwhile *)

Changes(named, sessions, granted) ==
  /\ changes < MaxUpdates /\ changes' = changes + 1
  /\ owner' = named /\ signedIn' = sessions /\ grantedUntil' = granted
  /\ moments' = IF Generating THEN moments \cup {Rows'} ELSE moments
  /\ UNCHANGED <<generation, moment>>

\* The write of updateProfile, which spares itself the one that changes nothing.
updateCurrentUserName(name) ==
  /\ owner \notin {Nobody, name}
  /\ Changes(name, signedIn, grantedUntil)

\* Another device signs in, or a session proves again who it is.
Authenticates(s) ==
  /\ owner # Nobody
  /\ s = Mine => Mine \in DOMAIN signedIn
  /\ Changes(owner, [d \in DOMAIN signedIn \cup {s} |-> IF d = s THEN moment ELSE signedIn[d]],
             grantedUntil)

\* The authorization goes with its session.
SignsOut(s) ==
  /\ s \in DOMAIN signedIn
  /\ Changes(owner, Restrict(signedIn, DOMAIN signedIn \ {s}),
             IF s = Mine THEN Ungranted ELSE grantedUntil)

\* A link is redeemed, and the authorization lasts as long as the link would have.
RenewsAuthorization ==
  /\ Mine \in DOMAIN signedIn
  /\ \E until \in moment + 1 .. moment + GrantTime : Changes(owner, signedIn, until)

RemovesAccount ==
  /\ owner # Nobody
  /\ Changes(Nobody, << >>, Ungranted)

MomentPasses ==
  /\ moment < MaxMoment /\ moment' = moment + 1
  /\ UNCHANGED <<owner, signedIn, grantedUntil, generation, moments, changes>>

ExportNext ==
  \/ AdmitsDownload \/ BeginsTransaction \/ ReadsFirst \/ AuthorizesDownload
  \/ Contributes \/ serializePersonalDataExportEnvelope \/ GenerationFails
  \/ \E name \in Names : updateCurrentUserName(name)
  \/ \E s \in Devices : Authenticates(s) \/ SignsOut(s)
  \/ RenewsAuthorization \/ RemovesAccount \/ MomentPasses

-----------------------------------------------------------------------------
(* Properties *)

\* "Every successful file represents one committed database snapshot for one ACTIVE
\* account" (20260823-personal-data-export/data-model.md:430): all of its sections are
\* of one moment since the download was asked for, at which its session was there and
\* that session's authorization reached beyond the file's timestamp.
ExportOfOneMoment ==
  Reached("completed") =>
    \E rows \in moments :
      /\ Objection(rows, generation.generatedAt) = "none"
      /\ \A i \in DOMAIN Contributors :
           generation.sections[i] = contribute(Contributors[i], rows, generation.generatedAt)
=============================================================================
