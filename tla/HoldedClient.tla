---------------------------- MODULE HoldedClient ----------------------------
(***************************************************************************)
(* lib/holded/client.ts as its callers in one process see it: the cache of *)
(* reads, what a write does to it, and what an answer says about a write.  *)
(* The process runs one step at a time, but between the request of a read  *)
(* or write, its effect in Holded and its answer everything else may run.  *)
(*                                                                         *)
(* What Holded has is a version per kind of data; listings of several      *)
(* pages are one read.  Other processes and Holded's own users change it.  *)
(***************************************************************************)
EXTENDS Naturals, Sequences, FiniteSets

CONSTANTS
  Reads,        \* operations an instance has, of those that read
  Writes,       \* ... and of those that write
  Readers,      \* calls that read
  Writers,      \* calls that write
  CacheLimit,   \* HOLDED_READ_CACHE_MAX_ENTRIES
  Ttl,          \* how long a read may be served
  LoadTime,     \* how long a read may take: its pages, each with a timeout
  MaxChanges, MaxTime   \* bounds of an instance

ASSUME HoldedAssumption ==
  /\ Reads \subseteq {"listEstimates", "listEstimatesByContact", "getEstimate", "getContact",
                    "readService", "listCatalogue", "listTreasuryAccounts",
                    "listNumberingSeries"}
  /\ Writes \subseteq {"createEstimate", "approveEstimate", "replaceEstimateLines",
                     "createContact", "updateContact",
                     "createInvoice", "approveInvoice", "sendDocument"}
  /\ CacheLimit \in Nat \ {0}
  /\ Ttl \in Nat /\ LoadTime \in Nat /\ LoadTime <= Ttl

Calls == Readers \cup Writers

VARIABLES
  content,    \* Holded: version of each kind of data
  replaced,   \* Holded: when each version was replaced
  late,       \* Holded: kinds somebody gave up writing that may still change
  load,       \* requests made for reads, in order
  readCache,  \* holdedReadCache: <<i, j>> if load i was used before j, <<i, i>> if it is there
  call,       \* what each call is doing, and what it came to
  written,    \* newest version of each kind a returned call has written
  clock

hvars == <<content, replaced, late, load, readCache, call, written, clock>>

Kinds == {"estimate", "contact", "reference"}

\* What each read is of, and whether its callers may ask for a fresh one.  Its
\* cache key is its own, but begins with the kind.
CachedRead(kind, mayBeFresh) == [kind |-> kind, freshness |-> {FALSE, mayBeFresh}]

listEstimates == CachedRead("estimate", FALSE)
listEstimatesByContact == CachedRead("estimate", TRUE)
getEstimate == CachedRead("estimate", FALSE)
getContact == CachedRead("contact", TRUE)
readService == CachedRead("reference", TRUE)
listCatalogue == CachedRead("reference", FALSE)
listTreasuryAccounts == CachedRead("reference", TRUE)
listNumberingSeries == CachedRead("reference", FALSE)

Operations ==
  [listEstimates |-> listEstimates, listEstimatesByContact |-> listEstimatesByContact,
   getEstimate |-> getEstimate, getContact |-> getContact, readService |-> readService,
   listCatalogue |-> listCatalogue, listTreasuryAccounts |-> listTreasuryAccounts,
   listNumberingSeries |-> listNumberingSeries]

KindOf(key) == Operations[key].kind

\* The kind of data a write changes.  Nothing of an invoice is cached.
KindWritten(op) ==
  CASE op \in {"createEstimate", "approveEstimate", "replaceEstimateLines"} -> "estimate"
    [] op \in {"createContact", "updateContact"} -> "contact"
    [] OTHER -> "invoice"

NoCall == [at |-> "idle", op |-> "none", load |-> 0, fresh |-> FALSE, since |-> 0,
           floor |-> 0, value |-> 0, landed |-> FALSE, outcome |-> "none"]

Returned == [NoCall EXCEPT !.at = "returned"]

HoldedInit ==
  /\ content = [k \in Kinds |-> 1]
  /\ replaced = [k \in Kinds |-> << >>]
  /\ late = {}
  /\ load = << >>
  /\ readCache = {}
  /\ call = [c \in Calls |-> NoCall]
  /\ written = [k \in Kinds |-> 1]
  /\ clock = 0

At(c, step) == call[c].at = step

\* The data changes, and is no longer what it was.
Changed(kind) ==
  IF kind \in Kinds
  THEN /\ content' = [content EXCEPT ![kind] = @ + 1]
       /\ replaced' = [replaced EXCEPT ![kind] = Append(@, clock)]
  ELSE UNCHANGED <<content, replaced>>

-----------------------------------------------------------------------------
(* Reads *)

Loads(cache) == {i \in DOMAIN load : <<i, i>> \in cache}

Entry(key) == {i \in Loads(readCache) : load[i].key = key}

\* A pending read is joined, also by a caller that asks for a fresh one.
Servable_AlwaysCached(i, fresh) == load[i].pending \/ load[i].expiresAt > clock
Servable(i, fresh) == load[i].pending \/ (~fresh /\ load[i].expiresAt > clock)

Without(cache, removed) == {p \in cache : p[1] \notin removed /\ p[2] \notin removed}

Used(cache, i) == cache \cup {<<j, i>> : j \in Loads(cache) \cup {i}}

\* Room for one more, at the expense of the least recently used.
MadeRoom(cache) ==
  LET newer(i) == {j \in Loads(cache) \ {i} : <<i, j>> \in cache}
  IN Without(cache, {i \in Loads(cache) : Cardinality(newer(i)) + 1 >= CacheLimit})

cachedHoldedRead(c, key, fresh) ==
  LET found == Entry(key)
      new == Len(load) + 1
      waiting(i) ==
        [NoCall EXCEPT !.at = "reading", !.op = key, !.load = i, !.fresh = fresh,
                       !.since = clock, !.floor = written[KindOf(key)]]
  IN
  /\ At(c, "idle")
  /\ \/ \E i \in found :
          /\ Servable(i, fresh)
          /\ readCache' = Used(Without(readCache, {i}), i)
          /\ call' = [call EXCEPT ![c] = waiting(i)]
          /\ UNCHANGED load
     \/ /\ \A i \in found : ~Servable(i, fresh)
        /\ load' = Append(load, [key |-> key, began |-> clock, expiresAt |-> clock + Ttl,
                                 pending |-> TRUE, value |-> 0])
        /\ readCache' = Used(MadeRoom(Without(readCache, found)), new)
        /\ call' = [call EXCEPT ![c] = waiting(new)]
  /\ UNCHANGED <<content, replaced, late, written, clock>>

\* Holded looks its data up.
LoadReads(i) ==
  /\ load[i].pending /\ load[i].value = 0
  /\ load' = [load EXCEPT ![i].value = content[KindOf(load[i].key)]]
  /\ UNCHANGED <<content, replaced, late, readCache, call, written, clock>>

\* Everybody who waits for the promise gets what it resolves to.
Waiting(c, i) == At(c, "reading") /\ call[c].load = i

LoadAnswers(i) ==
  /\ load[i].pending /\ load[i].value # 0
  /\ load' = [load EXCEPT ![i].pending = FALSE]
  /\ UNCHANGED <<content, replaced, late, readCache, call, written, clock>>

\* A load that fails is not kept, whoever has taken its place is.
LoadFails(i) ==
  /\ load[i].pending
  /\ load' = [load EXCEPT ![i].pending = FALSE]
  /\ readCache' = Without(readCache, {i})
  /\ call' = [c \in Calls |-> IF Waiting(c, i) THEN Returned ELSE call[c]]
  /\ UNCHANGED <<content, replaced, late, written, clock>>

ReadReturns(c) ==
  LET i == call[c].load IN
  /\ At(c, "reading") /\ ~load[i].pending
  /\ call' = [call EXCEPT ![c].at = "returned", ![c].value = load[i].value]
  /\ UNCHANGED <<content, replaced, late, load, readCache, written, clock>>

-----------------------------------------------------------------------------
(* Writes *)

Statuses == {"200", "200 unreadable", "3xx", "401", "404", "408", "429", "4xx", "5xx", "none"}

\* What Holded answers if it did, or did not, what it was asked to do.
Answers(landed) ==
  {"3xx", "408", "5xx", "none"} \cup
  (IF landed THEN {"200", "200 unreadable"} ELSE {"401", "404", "429", "4xx"})

classify_TimeoutRefused(status) ==
  CASE status \in {"none", "3xx", "5xx"} -> "unavailable"
    [] status = "401" -> "unauthorized"
    [] status = "404" -> "not_found"
    [] status = "429" -> "rate_limited"
    [] status \in {"408", "4xx"} -> "invalid_request"
    [] OTHER -> "ok"
classify(status) ==
  CASE status \in {"none", "408", "3xx", "5xx"} -> "unavailable"
    [] status = "401" -> "unauthorized"
    [] status = "404" -> "not_found"
    [] status = "429" -> "rate_limited"
    [] status = "4xx" -> "invalid_request"
    [] OTHER -> "ok"

\* Whether the e-mail of a document went out, and whether a document was created.
deliveryOutcome(status) ==
  CASE classify(status) = "ok" -> "done"
    [] classify(status) = "unavailable" -> "unknown"
    [] OTHER -> "definitive_failure"

creationOutcome(status) ==
  IF status = "200 unreadable" THEN "unknown" ELSE deliveryOutcome(status)

\* The other writes throw what classify says and leave the rest to the caller.
Outcome(op, status) ==
  CASE op = "sendDocument" -> deliveryOutcome(status)
    [] op \in {"createEstimate", "createInvoice"} -> creationOutcome(status)
    [] OTHER -> IF status = "200" THEN "done" ELSE "unknown"

\* updateContact reads the contact it is going to replace, past the cache.
Begins(c, op) ==
  /\ At(c, "idle")
  /\ call' = [call EXCEPT ![c] = [NoCall EXCEPT !.op = op,
                !.at = IF op = "updateContact" THEN "merging" ELSE "writing"]]
  /\ UNCHANGED <<content, replaced, late, load, readCache, written, clock>>

readContactForWrite(c) ==
  /\ At(c, "merging")
  /\ \/ call' = [call EXCEPT ![c].at = "writing"]
     \/ call' = [call EXCEPT ![c] = Returned]
  /\ UNCHANGED <<content, replaced, late, load, readCache, written, clock>>

Lands(c) ==
  /\ At(c, "writing") /\ ~call[c].landed
  /\ Changed(KindWritten(call[c].op))
  /\ call' = [call EXCEPT ![c].landed = TRUE]
  /\ UNCHANGED <<late, load, readCache, written, clock>>

\* Every key of the kind that was written goes, pending or not, whatever the
\* answer; a new contact has entries only once it has its identifier.
Invalidated_SparingPending(op) ==
  {i \in Loads(readCache) : KindOf(load[i].key) = KindWritten(op) /\ ~load[i].pending}
Invalidated(op) ==
  {i \in Loads(readCache) : KindOf(load[i].key) = KindWritten(op)}

WriteReturns(c) ==
  LET op == call[c].op
      kind == KindWritten(op)
  IN
  /\ At(c, "writing")
  /\ \E status \in Answers(call[c].landed) :
       /\ call' = [call EXCEPT ![c] = [Returned EXCEPT !.landed = call[c].landed,
                                                     !.outcome = Outcome(op, status)]]
       /\ readCache' = IF op = "createContact" /\ status # "200"
                       THEN readCache ELSE Without(readCache, Invalidated(op))
       /\ written' = IF call[c].landed /\ kind \in Kinds /\ (op = "createContact" => status = "200")
                     THEN [written EXCEPT ![kind] = content[kind]] ELSE written
       /\ late' = IF ~call[c].landed /\ classify(status) = "unavailable"
                  THEN late \cup ({kind} \cap Kinds) ELSE late
  /\ UNCHANGED <<content, replaced, load, clock>>

\* A request whose caller gave up may still be carried out.
LandsLate(kind) ==
  /\ kind \in late
  /\ Changed(kind)
  /\ late' = late \ {kind}
  /\ UNCHANGED <<load, readCache, call, written, clock>>

-----------------------------------------------------------------------------
(* Everybody else, and time *)

OthersChange(kind) ==
  /\ \A k \in Kinds : content[k] <= MaxChanges
  /\ Changed(kind)
  /\ UNCHANGED <<late, load, readCache, call, written, clock>>

\* No request outlives its timeout.
ClockTicks ==
  /\ clock < MaxTime
  /\ \A i \in DOMAIN load : load[i].pending => clock < load[i].began + LoadTime
  /\ clock' = clock + 1
  /\ UNCHANGED <<content, replaced, late, load, readCache, call, written>>

HoldedNext ==
  \/ \E c \in Readers :
       \/ \E key \in Reads : \E fresh \in Operations[key].freshness :
            cachedHoldedRead(c, key, fresh)
       \/ ReadReturns(c)
  \/ \E c \in Writers :
       \/ \E op \in Writes : Begins(c, op)
       \/ readContactForWrite(c) \/ Lands(c) \/ WriteReturns(c)
  \/ \E i \in DOMAIN load : LoadReads(i) \/ LoadAnswers(i) \/ LoadFails(i)
  \/ \E kind \in Kinds : LandsLate(kind) \/ OthersChange(kind)
  \/ ClockTicks

-----------------------------------------------------------------------------
(* Properties *)

HasRead(c) == At(c, "returned") /\ call[c].value # 0

\* Whoever reads after a write has returned sees it, although a read that began
\* before the write may still be pending under the same key.
ReadYourWrites == \A c \in Calls : HasRead(c) => call[c].value >= call[c].floor

\* What a read returns was not replaced earlier than Ttl before it was asked for,
\* what a fresh one returns not earlier than the time a load takes.
StalenessBounded ==
  \A c \in Calls : HasRead(c) =>
    LET times == replaced[KindOf(call[c].op)]
        allowed == IF call[c].fresh THEN LoadTime ELSE Ttl
    IN call[c].value <= Len(times) => times[call[c].value] + allowed >= call[c].since

\* A write reported as failed for certain has had no effect, one reported as done has.
OutcomeIsTrue ==
  \A c \in Calls : At(c, "returned") =>
    /\ call[c].outcome = "definitive_failure" => ~call[c].landed
    /\ call[c].outcome = "done" => call[c].landed
=============================================================================
