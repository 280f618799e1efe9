------------------------------ MODULE Settings ------------------------------
(***************************************************************************)
(* The integrations and their credentials (services/settings.ts), as the   *)
(* administrators' screen changes and tests them (actions/settings.ts).    *)
(* Every action is a sequence of statements on the row of its provider,    *)
(* without a transaction around them; a test calls the service meanwhile.  *)
(*                                                                         *)
(* A credential is a number, 0 stands for none; a configuration is valid   *)
(* or not, and may have the Holded mail template no form shows any more.   *)
(* Who is not an administrator gets an error before anything else.         *)
(***************************************************************************)
EXTENDS Naturals

CONSTANTS
  Administrators,   \* requests under way at a time
  Providers,        \* the integrations an instance has
  MaxCredentials    \* credentials submitted in an instance

ASSUME SettingsAssumption ==
  /\ Providers \subseteq {"HOLDED", "GRAVITY_FORMS", "BOOKING_MAIL"}
  /\ MaxCredentials \in Nat

VARIABLES
  row,        \* IntegrationSettings of each provider
  secretKey,  \* BOOKING_SECRET_KEY, 0 if the environment has none
  submitted,  \* credentials submitted so far
  acting,     \* what each administrator's request is doing
  tested,     \* credentials a service has accepted in a test
  overtaken   \* providers whose credential was replaced while it was tested

settingsVars == <<row, secretKey, submitted, acting, tested, overtaken>>

NoRow == [credential |-> 0, sealedWith |-> 0, valid |-> TRUE, template |-> FALSE,
          verified |-> FALSE]

Idle == [step |-> "idle", provider |-> "none", credential |-> 0, valid |-> TRUE,
         template |-> FALSE, answer |-> "none"]

\* Holded was set up and tested by an earlier version, whose form had the template.
SettingsInit ==
  /\ \E stillValid \in BOOLEAN :
       row = [p \in Providers |-> IF p = "HOLDED"
         THEN [NoRow EXCEPT !.credential = 1, !.sealedWith = 1, !.valid = stillValid,
                            !.template = TRUE, !.verified = TRUE] ELSE NoRow]
  /\ secretKey = 1 /\ submitted = 1
  /\ acting = [a \in Administrators |-> Idle]
  /\ tested = {1} /\ overtaken = {}

Doing(a, step) == acting[a].step = step

Goes(a, step) == acting' = [acting EXCEPT ![a].step = step]

\* The action answers; the administrator may send another.
Answers_(a, answer) == acting' = [acting EXCEPT ![a] = [Idle EXCEPT !.answer = answer]]

-----------------------------------------------------------------------------
(* Saving *)

\* The form of a provider, with or without a new credential (submittedSecret).
Submit(a, p) ==
  /\ Doing(a, "idle")
  /\ \E new, valid \in BOOLEAN :
       /\ new => submitted < MaxCredentials
       /\ submitted' = IF new THEN submitted + 1 ELSE submitted
       /\ acting' = [acting EXCEPT ![a] =
            [Idle EXCEPT !.step = IF p = "HOLDED" THEN "carrying over" ELSE "saving",
                         !.provider = p, !.valid = valid,
                         !.credential = IF new THEN submitted + 1 ELSE 0]]
  /\ UNCHANGED <<row, secretKey, tested, overtaken>>

readIntegrationConfig(a) ==
  /\ Doing(a, "carrying over")
  /\ acting' = [acting EXCEPT ![a].step = "saving", ![a].template = row["HOLDED"].template]
  /\ UNCHANGED <<row, secretKey, submitted, tested, overtaken>>

saveIntegrationSettings(a) ==
  LET request == acting[a] IN
  /\ Doing(a, "saving")
  /\ CASE secretKey = 0 -> Answers_(a, "storage_unavailable")
       [] ~request.valid -> Answers_(a, "invalid")
       [] request.credential = 0 /\ row[request.provider].credential = 0 -> Answers_(a, "invalid")
       [] OTHER -> Goes(a, "storing")
  /\ UNCHANGED <<row, secretKey, submitted, tested, overtaken>>

\* The update of a row: a new credential has not been tested, an old one is kept.
Updated_StillVerified(old, request) ==
  [old EXCEPT !.valid = TRUE, !.template = request.template,
              !.credential = IF request.credential = 0 THEN @ ELSE request.credential,
              !.sealedWith = IF request.credential = 0 THEN @ ELSE secretKey]
Updated(old, request) ==
  [old EXCEPT !.valid = TRUE, !.template = request.template,
              !.credential = IF request.credential = 0 THEN @ ELSE request.credential,
              !.sealedWith = IF request.credential = 0 THEN @ ELSE secretKey,
              !.verified = IF request.credential = 0 THEN @ ELSE FALSE]

UpsertSettings(a) ==
  LET p == acting[a].provider IN
  /\ Doing(a, "storing")
  /\ row' = [row EXCEPT ![p] = Updated(row[p], acting[a])]
  /\ overtaken' = IF acting[a].credential # 0
                     /\ \E b \in Administrators : acting[b].provider = p
                                                   /\ acting[b].step \in {"testing", "marking"}
                  THEN overtaken \cup {p} ELSE overtaken
  /\ Answers_(a, "saved")
  /\ UNCHANGED <<secretKey, submitted, tested>>

-----------------------------------------------------------------------------
(* Testing, and reading the Holded catalogues *)

\* resolveIntegration, and what toErrorState makes of its errors.
Resolves(p) ==
  CASE row[p].credential = 0 \/ ~row[p].valid -> "invalid"
    [] row[p].sealedWith # secretKey -> "storage_unavailable"
    [] OTHER -> "resolved"

testIntegration(a, p) ==
  /\ Doing(a, "idle")
  /\ acting' = [acting EXCEPT ![a] =
       IF Resolves(p) = "resolved"
       THEN [Idle EXCEPT !.step = "testing", !.provider = p, !.credential = row[p].credential]
       ELSE [Idle EXCEPT !.answer = Resolves(p)]]
  /\ UNCHANGED <<row, secretKey, submitted, tested, overtaken>>

ServiceErrors == {"authentication", "not_found", "connection", "rejected", "unknown"}

TestAnswered(a) ==
  /\ Doing(a, "testing")
  /\ \/ /\ Goes(a, "marking")
        /\ tested' = tested \cup {acting[a].credential}
     \/ \E error \in ServiceErrors : Answers_(a, error) /\ UNCHANGED tested
  /\ UNCHANGED <<row, secretKey, submitted, overtaken>>

markIntegrationVerified(a) ==
  /\ Doing(a, "marking")
  /\ row' = [row EXCEPT ![acting[a].provider].verified = TRUE]
  /\ Answers_(a, "verified")
  /\ UNCHANGED <<secretKey, submitted, tested, overtaken>>

\* What the screen shows where the catalogues would be.
readHoldedCatalogues(a) ==
  /\ Doing(a, "idle") /\ "HOLDED" \in Providers
  /\ \E status \in IF Resolves("HOLDED") = "resolved"
                   THEN {"ok", "unauthorized", "unavailable"} ELSE {"no_key"} :
       Answers_(a, status)
  /\ UNCHANGED <<row, secretKey, submitted, tested, overtaken>>

\* The environment loses its key, or is given another, and the process restarts.
Redeploy(key) ==
  /\ secretKey' = key /\ key # secretKey
  /\ acting' = [a \in Administrators |-> Idle]
  /\ UNCHANGED <<row, submitted, tested, overtaken>>

SettingsNext ==
  \/ \E a \in Administrators :
       \/ \E p \in Providers : Submit(a, p) \/ testIntegration(a, p)
       \/ readIntegrationConfig(a) \/ saveIntegrationSettings(a) \/ UpsertSettings(a)
       \/ TestAnswered(a) \/ markIntegrationVerified(a) \/ readHoldedCatalogues(a)
  \/ \E key \in {0, 1} : Redeploy(key)

-----------------------------------------------------------------------------
(* Properties *)

\* A credential is shown as verified only if a service has accepted it, or if it
\* replaced another while that one was being tested; and no save, of any number
\* interleaved, loses a credential or the mail template that no form submits.
SettingsAddUp ==
  \A p \in Providers :
    /\ row[p].verified => row[p].credential \in tested \/ p \in overtaken
    /\ p = "HOLDED" => row[p].template /\ row[p].credential # 0

\* What schema.prisma:416 says of verifiedAt ("Last successful test-connection, so
\* a stale credential is visible"); a test that a save overtakes marks the new one.
StaleIsVisible ==
  \A p \in Providers : row[p].verified => row[p].credential \in tested
=============================================================================
