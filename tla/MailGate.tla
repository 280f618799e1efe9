------------------------------ MODULE MailGate ------------------------------
(***************************************************************************)
(* What a request for a sign-in or sign-up mail passes before one is sent: *)
(* the allowances of its client and its address (shared-rate-limit.ts),    *)
(* the availability of the provider (provider-availability.ts) and the     *)
(* provider itself (email/http.ts, brevo.ts, mailjet.ts).  Allowances,     *)
(* health of the provider and the lock of its probe are rows of one table, *)
(* which all instances share and rows leave once they have expired, those  *)
(* of an address also when its account is deleted.                         *)
(*                                                                         *)
(* A tick is the unit of time; the clocks of the instances agree with the  *)
(* database's.  Nothing bounds how long a request waits between statements.*)
(***************************************************************************)
EXTENDS Integers, Sequences

CONSTANTS
  Mailers,      \* requests under way at a time, of one client
                 \* and for one address
  Allowance,     \* limit of the client, and of the address
  Window,        \* windowMs
  HealthCache,   \* HEALTH_CACHE_MS
  HealthLock,    \* HEALTH_LOCK_MS
  MaxAttempts,   \* bound of an instance: attempts counted in a window
  MaxTicks       \* ... and how long it is watched

ASSUME MailGateAssumption ==
  /\ Allowance \in [{"client", "address"} -> Nat \ {0}]
  /\ {Window, HealthCache, HealthLock, MaxAttempts} \subseteq Nat \ {0}
  /\ MaxTicks \in Nat

VARIABLES
  bucket,    \* RateLimitBucket: count and resetAt of each key that has a row
  mailing,   \* what each request is doing
  sound,     \* when a probe last found it up
  ill,       \* ... and when one last found it down, or got no answer
  locked,    \* the latest time a claim or a release of the lock was made with
  let,       \* when each allowance let an attempt through, one after the other, that
             \* of the address since its account was last deleted
  tick

gateVars == <<bucket, mailing, sound, ill, locked, let, tick>>

Keys == DOMAIN Allowance \cup {"health", "lock"}
Row(n, resetAt) == [count |-> n, resetAt |-> resetAt]
None == Row(-1, -1)     \* there is no row, which is as good as an expired one
LongAgo == -HealthCache - HealthLock

NoMail == [step |-> "idle", observed |-> 0, seen |-> None, healthy |-> FALSE,
           taken |-> FALSE, result |-> "none"]

GateInit ==
  /\ bucket = [k \in Keys |-> None]
  /\ mailing = [r \in Mailers |-> NoMail]
  /\ sound = LongAgo /\ ill = LongAgo /\ locked = LongAgo
  /\ let = [k \in DOMAIN Allowance |-> << >>] /\ tick = 0

On(r, step) == mailing[r].step = step
Moves(r, changed) == mailing' = [mailing EXCEPT ![r] = changed]

Answer(r, result) ==
  Moves(r, [NoMail EXCEPT !.step = "answered", !.result = result,
              !.observed = IF result = "unavailable" THEN mailing[r].observed ELSE 0])

-----------------------------------------------------------------------------
(* The allowances *)

\* The one statement that counts an attempt: in the window of the row, or in a new one.
Counted(b) ==
  IF b.resetAt <= tick THEN Row(1, tick + Window) ELSE Row(b.count + 1, b.resetAt)

Allowed(b, k) == b.count <= Allowance[k]

\* On to the next step, or 429.
consumeSharedRateLimit(r, k, next) ==
  LET counted == Counted(bucket[k]) IN
  /\ counted.count <= MaxAttempts
  /\ bucket' = [bucket EXCEPT ![k] = counted]
  /\ IF Allowed(counted, k)
     THEN /\ Moves(r, [NoMail EXCEPT !.step = next])
          /\ let' = [let EXCEPT ![k] = Append(@, tick)]
     ELSE Answer(r, "rate_limited") /\ UNCHANGED let
  /\ UNCHANGED <<sound, ill, locked, tick>>

POST(r) == (On(r, "idle") \/ On(r, "answered")) /\ consumeSharedRateLimit(r, "client", "parsing")

\* A request that is not valid goes no further, but has been counted.
Parses(r) ==
  \/ On(r, "parsing") /\ consumeSharedRateLimit(r, "address", "allowed")
  \/ /\ On(r, "parsing") /\ Answer(r, "invalid")
     /\ UNCHANGED <<bucket, sound, ill, locked, let, tick>>

\* Now and then a call deletes expired rows, whatever they are for.
Cleanup(k) ==
  /\ bucket[k] # None /\ bucket[k].resetAt <= tick
  /\ bucket' = [bucket EXCEPT ![k] = None]
  /\ UNCHANGED <<mailing, sound, ill, locked, let, tick>>

\* The deletion of the account (AccountLinks) deletes the row of its address, however
\* long it still counts; the rows of clients stay.
ForgetsAddress ==
  /\ bucket' = [bucket EXCEPT !["address"] = None]
  /\ let' = [let EXCEPT !["address"] = << >>]
  /\ UNCHANGED <<mailing, sound, ill, locked, tick>>

-----------------------------------------------------------------------------
(* The availability of the provider *)

\* The mail is sent, or the answer is 503.
snapshotResult(r, available) ==
  IF available THEN Moves(r, [NoMail EXCEPT !.step = "sending", !.observed = mailing[r].observed])
  ELSE Answer(r, "unavailable")

\* observedAt = now()
Observes(r) ==
  /\ On(r, "allowed")
  /\ Moves(r, [mailing[r] EXCEPT !.step = "reading", !.observed = tick])
  /\ UNCHANGED <<bucket, sound, ill, locked, let, tick>>

readsSnapshot(r) ==
  LET health == bucket["health"] IN
  /\ On(r, "reading")
  /\ IF health.resetAt > mailing[r].observed
     THEN snapshotResult(r, health.count = 0)
     ELSE Moves(r, [mailing[r] EXCEPT !.step = "claiming", !.seen = health])
  /\ UNCHANGED <<bucket, sound, ill, locked, let, tick>>

\* With the lock, to the probe; without it, the expired snapshot is better than none.
claimProbeLock(r) ==
  LET observed == mailing[r].observed IN
  /\ On(r, "claiming")
  /\ IF bucket["lock"].resetAt <= observed
     THEN /\ bucket' = [bucket EXCEPT !["lock"] = Row(1, observed + HealthLock)]
          /\ locked' = IF observed > locked THEN observed ELSE locked
          /\ Moves(r, [mailing[r] EXCEPT !.step = "probing"])
     ELSE /\ snapshotResult(r, mailing[r].seen.count = 0)
          /\ UNCHANGED <<bucket, locked>>
  /\ UNCHANGED <<sound, ill, let, tick>>

\* A probe finds the provider up, or down, or times out.
probeProvider(r) ==
  /\ On(r, "probing")
  /\ \E found \in BOOLEAN :
       /\ Moves(r, [mailing[r] EXCEPT !.step = "recording", !.healthy = found])
       /\ IF found THEN sound' = tick /\ UNCHANGED ill ELSE ill' = tick /\ UNCHANGED sound
  /\ UNCHANGED <<bucket, locked, let, tick>>

RefreshAfter_FromRecording(r) == tick + HealthCache
RefreshAfter(r) == mailing[r].observed + HealthCache

RecordsHealth(r) ==
  /\ On(r, "recording")
  /\ bucket' = [bucket EXCEPT !["health"] =
       Row(IF mailing[r].healthy THEN 0 ELSE 1, RefreshAfter(r))]
  /\ Moves(r, [mailing[r] EXCEPT !.step = "releasing", !.seen = None])
  /\ UNCHANGED <<sound, ill, locked, let, tick>>

\* The lock is released whoever has it by now; it may not be there any more.
ReleasesLock(r) ==
  /\ On(r, "releasing")
  /\ bucket' = IF bucket["lock"] = None THEN bucket
               ELSE [bucket EXCEPT !["lock"].resetAt = tick]
  /\ locked' = tick
  /\ snapshotResult(r, mailing[r].healthy)
  /\ UNCHANGED <<sound, ill, let, tick>>

\* A statement fails, which means unavailable; the lock is released if it was claimed.
GateFails(r) ==
  /\ On(r, "reading") \/ On(r, "claiming") \/ On(r, "recording")
  /\ \/ /\ On(r, "recording")
        /\ Moves(r, [mailing[r] EXCEPT !.step = "releasing", !.healthy = FALSE])
        /\ ill' = tick
     \/ /\ ~On(r, "recording")
        /\ Answer(r, "error") /\ UNCHANGED ill
  /\ UNCHANGED <<bucket, sound, locked, let, tick>>

\* The instance stops; nothing is released.
GateDies(r) ==
  /\ mailing[r].step \notin {"idle", "answered"}
  /\ Moves(r, NoMail)
  /\ UNCHANGED <<bucket, sound, ill, locked, let, tick>>

-----------------------------------------------------------------------------
(* The provider *)

\* What it may answer, if it does, and whether it has taken the mail.
Responses(taken) ==
  (IF taken THEN {"2xx success"} ELSE {"2xx error", "400", "401", "403", "409", "429"})
    \cup {"2xx unreadable", "5xx", "other", "network_error"}

classifyHttpStatus(response) ==
  CASE response \in {"401", "403"} -> "authentication"
    [] response = "429" -> "rate_limited"
    [] response \in {"400", "409"} -> "invalid_request"
    [] response = "5xx" -> "provider_unavailable"
    [] OTHER -> "unknown"

\* What a provider's errors in a response of success amount to, Mailjet's in detail.
embeddedErrorCategory ==
  {classifyHttpStatus(r) : r \in {"400", "401", "403", "409", "429", "5xx", "other"}}

\* normalizeBrevoResponse and normalizeMailjetResponse.
Categories(response) ==
  CASE response = "network_error" -> {"provider_unavailable"}
    [] response = "2xx success" -> {"accepted"}
    [] response = "2xx error" -> embeddedErrorCategory
    [] response = "2xx unreadable" -> {"unknown"}
    [] OTHER -> {classifyHttpStatus(response)}

sendTransactionalEmail(r) ==
  /\ On(r, "sending")
  /\ \E taken \in BOOLEAN : \E response \in Responses(taken) :
       \E category \in Categories(response) :
         Moves(r, [NoMail EXCEPT !.step = "answered", !.result = category, !.taken = taken])
  /\ UNCHANGED <<bucket, sound, ill, locked, let, tick>>

Ticks ==
  /\ tick < MaxTicks /\ tick' = tick + 1
  /\ UNCHANGED <<bucket, mailing, sound, ill, locked, let>>

GateNext ==
  \/ \E r \in Mailers :
       \/ POST(r) \/ Parses(r) \/ Observes(r) \/ readsSnapshot(r) \/ claimProbeLock(r)
       \/ probeProvider(r) \/ RecordsHealth(r) \/ ReleasesLock(r) \/ GateFails(r)
       \/ GateDies(r) \/ sendTransactionalEmail(r)
  \/ \E k \in Keys : Cleanup(k)
  \/ ForgetsAddress
  \/ Ticks

-----------------------------------------------------------------------------
(* Properties *)

\* A request is sent on only if the provider was up not longer ago than the cache
\* lasts, and turned away only if it was down, or silent, as recently; or, in either
\* case, if another request was at the probe within the time of a lock.  And no
\* window lets more attempts through than its allowance, no time as long as a window
\* more than two: the attempt that comes two allowances after another comes a window
\* later at least, also with rows cleaned up and with requests that die.  The
\* allowance of an address begins anew with the deletion of its account, and only
\* then; that of a client never does.
GateHolds ==
  /\ \A r \in Mailers :
       LET since == mailing[r].observed - HealthCache
           probedMeanwhile == locked > mailing[r].observed - HealthLock
       IN /\ On(r, "sending") => sound > since \/ probedMeanwhile
          /\ mailing[r].result = "unavailable" => ill > since \/ probedMeanwhile
          /\ mailing[r].result = "accepted" => mailing[r].taken
  /\ \A k \in DOMAIN Allowance : \A i \in DOMAIN let[k] :
       /\ bucket[k] # None /\ i + Allowance[k] \in DOMAIN let[k] =>
            \/ let[k][i] < bucket[k].resetAt - Window
            \/ let[k][i + Allowance[k]] >= bucket[k].resetAt
       /\ i + 2 * Allowance[k] \in DOMAIN let[k] =>
            let[k][i + 2 * Allowance[k]] >= let[k][i] + Window
=============================================================================
