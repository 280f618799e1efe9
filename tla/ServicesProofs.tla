---------------------------- MODULE ServicesProofs ----------------------------
(***************************************************************************)
(* Theorems about the client of Holded (what it says of a write, and what  *)
(* its cache serves), the settings of the integrations, the retention of   *)
(* bank data, the gate of mails and the delivery of a document, each part  *)
(* by itself, for any number of calls, administrators, accounts,           *)
(* movements, days, requests, allowances, workers and recipients.          *)
(***************************************************************************)
EXTENDS HoldedClient, Settings, Retention, MailGate, DocumentDelivery, TLAPS

-----------------------------------------------------------------------------
(* The outcome of a write *)

ClientSpec == HoldedInit /\ [][HoldedNext]_hvars

\* Before it returns a call has no outcome, afterwards a true one.
Truthful(x) ==
  /\ {"at", "landed", "outcome"} \subseteq DOMAIN x
  /\ x.landed \in BOOLEAN
  /\ x.at # "returned" => x.outcome = "none"
  /\ x.outcome = "definitive_failure" => ~x.landed
  /\ x.outcome = "done" => x.landed

OutcomeInv == DOMAIN call = Calls /\ \A c \in Calls : Truthful(call[c])

LEMMA AnswersTellTruly ==
  ASSUME NEW op, NEW effect \in BOOLEAN, NEW answer \in Answers(effect)
  PROVE  Outcome(op, answer) \in
           IF effect THEN {"done", "unknown"} ELSE {"definitive_failure", "unknown"}
<1>1. CASE effect
  <2>1. answer \in {"3xx", "408", "5xx", "none", "200", "200 unreadable"}
    BY <1>1 DEF Answers
  <2>2. classify(answer) \in {"ok", "unavailable"}
    BY <2>1 DEF classify
  <2>3. deliveryOutcome(answer) \in {"done", "unknown"}
    BY <2>2 DEF deliveryOutcome
  <2>4. Outcome(op, answer) \in {"done", "unknown"}
    BY <2>3 DEF Outcome, creationOutcome
  <2> QED BY <1>1, <2>4
<1>2. CASE ~effect
  <2>1. answer \in {"3xx", "408", "5xx", "none", "401", "404", "429", "4xx"}
    BY <1>2 DEF Answers
  <2>2. classify(answer) # "ok" /\ answer # "200"
    BY <2>1 DEF classify
  <2>3. deliveryOutcome(answer) \in {"definitive_failure", "unknown"}
    BY <2>2 DEF deliveryOutcome
  <2>4. Outcome(op, answer) \in {"definitive_failure", "unknown"}
    BY <2>2, <2>3 DEF Outcome, creationOutcome
  <2> QED BY <1>2, <2>4
<1> QED BY <1>1, <1>2

LEMMA FreshCalls == Truthful(NoCall) /\ Truthful(Returned)
BY DEF Truthful, Returned, NoCall

\* A call may go on, or come to its outcome, without a look at the others.
LEMMA OneCallMoves ==
  ASSUME OutcomeInv, NEW c \in Calls, NEW x, Truthful(x), call' = [call EXCEPT ![c] = x]
  PROVE  OutcomeInv'
BY DEF OutcomeInv

LEMMA OutcomeInitially == HoldedInit => OutcomeInv
BY FreshCalls DEF HoldedInit, OutcomeInv

LEMMA OutcomeKept == OutcomeInv /\ [HoldedNext]_hvars => OutcomeInv'
<1> SUFFICES ASSUME OutcomeInv, [HoldedNext]_hvars PROVE OutcomeInv'
  OBVIOUS
<1>0. Readers \cup Writers = Calls /\ \A c \in Calls : Truthful(call[c])
  BY DEF OutcomeInv, Calls
<1>1. ASSUME NEW c \in Readers, NEW key \in Reads, NEW fresh \in Operations[key].freshness,
             cachedHoldedRead(c, key, fresh)
      PROVE  OutcomeInv'
  <2>1. PICK i : call' = [call EXCEPT ![c] =
                   [NoCall EXCEPT !.at = "reading", !.op = key, !.load = i, !.fresh = fresh,
                                  !.since = clock, !.floor = written[KindOf(key)]]]
    BY <1>1 DEF cachedHoldedRead
  <2>2. Truthful([NoCall EXCEPT !.at = "reading", !.op = key, !.load = i, !.fresh = fresh,
                                !.since = clock, !.floor = written[KindOf(key)]])
    BY DEF Truthful, NoCall
  <2> QED BY <1>0, <2>1, <2>2, OneCallMoves
<1>2. ASSUME NEW c \in Readers, ReadReturns(c) PROVE OutcomeInv'
  <2> DEFINE x == [call[c] EXCEPT !.at = "returned", !.value = load[call[c].load].value]
  <2>1. call' = [call EXCEPT ![c] = x] /\ call[c].at = "reading"
    BY <1>2 DEF ReadReturns, At
  <2>2. Truthful(x)
    BY <1>0, <2>1 DEF Truthful
  <2> HIDE DEF x
  <2> QED BY <1>0, <2>1, <2>2, OneCallMoves
<1>3. ASSUME NEW c \in Writers, NEW op \in Writes, Begins(c, op) PROVE OutcomeInv'
  <2> DEFINE x == [NoCall EXCEPT !.op = op,
                     !.at = IF op = "updateContact" THEN "merging" ELSE "writing"]
  <2>1. call' = [call EXCEPT ![c] = x]
    BY <1>3 DEF Begins
  <2>2. Truthful(x)
    BY DEF Truthful, NoCall
  <2> HIDE DEF x
  <2> QED BY <1>0, <2>1, <2>2, OneCallMoves
<1>4. ASSUME NEW c \in Writers, readContactForWrite(c) PROVE OutcomeInv'
  <2> DEFINE x == [call[c] EXCEPT !.at = "writing"]
  <2>1. call[c].at = "merging"
        /\ (call' = [call EXCEPT ![c] = x] \/ call' = [call EXCEPT ![c] = Returned])
    BY <1>4 DEF readContactForWrite, At
  <2>2. Truthful(x)
    BY <1>0, <2>1 DEF Truthful
  <2> HIDE DEF x
  <2> QED BY <1>0, <2>1, <2>2, FreshCalls, OneCallMoves
<1>5. ASSUME NEW c \in Writers, Lands(c) PROVE OutcomeInv'
  <2> DEFINE x == [call[c] EXCEPT !.landed = TRUE]
  <2>1. call[c].at = "writing" /\ call' = [call EXCEPT ![c] = x]
    BY <1>5 DEF Lands, At
  <2>2. Truthful(x)
    BY <1>0, <2>1 DEF Truthful
  <2> HIDE DEF x
  <2> QED BY <1>0, <2>1, <2>2, OneCallMoves
<1>6. ASSUME NEW c \in Writers, WriteReturns(c) PROVE OutcomeInv'
  <2>1. PICK answer \in Answers(call[c].landed) :
          call' = [call EXCEPT ![c] = [Returned EXCEPT !.landed = call[c].landed,
                                         !.outcome = Outcome(call[c].op, answer)]]
    BY <1>6 DEF WriteReturns
  <2>2. call[c].landed \in BOOLEAN
    BY <1>0 DEF Truthful
  <2> DEFINE outcome == Outcome(call[c].op, answer)
             x == [Returned EXCEPT !.landed = call[c].landed, !.outcome = outcome]
  <2>3. outcome \in IF call[c].landed THEN {"done", "unknown"}
                                      ELSE {"definitive_failure", "unknown"}
    BY <2>2, AnswersTellTruly
  <2> HIDE DEF outcome
  <2>4. Truthful(x)
    BY <2>2, <2>3 DEF Truthful, Returned, NoCall
  <2> HIDE DEF x
  <2> QED BY <1>0, <2>1, <2>4, OneCallMoves DEF x, outcome
<1>7. ASSUME NEW i \in DOMAIN load, LoadReads(i) \/ LoadAnswers(i) \/ LoadFails(i)
      PROVE  OutcomeInv'
  <2>1. UNCHANGED call \/ call' = [c \in Calls |-> IF Waiting(c, i) THEN Returned ELSE call[c]]
    BY <1>7 DEF LoadReads, LoadAnswers, LoadFails
  <2> QED BY <2>1, FreshCalls DEF OutcomeInv
<1>8. CASE \/ \E kind \in Kinds : LandsLate(kind) \/ OthersChange(kind)
           \/ ClockTicks \/ UNCHANGED hvars
  BY <1>8 DEF LandsLate, OthersChange, ClockTicks, hvars, OutcomeInv
<1> QED
  BY <1>1, <1>2, <1>3, <1>4, <1>5, <1>6, <1>7, <1>8 DEF HoldedNext

\* What client.ts says of a write is true: a failure it is certain of has had no effect.
THEOREM OutcomesAreTrue == ClientSpec => []OutcomeIsTrue
<1>1. OutcomeInv => OutcomeIsTrue
  BY DEF OutcomeInv, OutcomeIsTrue, Truthful
<1> QED BY <1>1, OutcomeInitially, OutcomeKept, PTL DEF ClientSpec

-----------------------------------------------------------------------------
(* The cache of the client's reads *)

\* What a read may be behind by.
AllowedLag(fresh) == IF fresh THEN LoadTime ELSE Ttl

\* The data was, at that time or later, still what Holded had.
InForce(times, value, time) == value \in 1 .. Len(times) => times[value] >= time

LoadRecords ==
  [key : Reads, began : Nat, expiresAt : Nat, pending : BOOLEAN, value : Nat]
CallRecords ==
  [at : {"idle", "reading", "merging", "writing", "returned"},
   op : Reads \cup Writes \cup {"none"}, load : Nat, fresh : BOOLEAN, since : Nat,
   floor : Nat, value : Nat, landed : BOOLEAN,
   outcome : {"none", "done", "unknown", "definitive_failure"}]

\* The version of each kind is one more than the number of those replaced.
VersionsCounted ==
  /\ clock \in Nat
  /\ content \in [Kinds -> Nat] /\ replaced \in [Kinds -> Seq(Nat)]
  /\ written \in [Kinds -> Nat]
  /\ \A k \in Kinds :
       /\ content[k] = Len(replaced[k]) + 1
       /\ written[k] <= content[k]

\* A load read what Holded had after it began, and does not take long.
LoadSound(l) ==
  /\ l.expiresAt = l.began + Ttl /\ l.began <= clock
  /\ l.pending => clock <= l.began + LoadTime
  /\ l.value <= content[KindOf(l.key)]
  /\ InForce(replaced[KindOf(l.key)], l.value, l.began)

\* Nothing in the cache is older than a write that has returned.
CacheCurrent ==
  \A i \in Loads(readCache) :
    load[i].value # 0 => written[KindOf(load[i].key)] <= load[i].value

\* A call waits for a load of its key that is recent enough, and not older than the
\* writes it knows of; so is what it has returned.
ReadingSound(x) ==
  x.at = "reading" =>
    /\ x.load \in DOMAIN load /\ x.op = load[x.load].key
    /\ x.since <= clock /\ x.since <= load[x.load].began + AllowedLag(x.fresh)
    /\ x.floor <= written[KindOf(x.op)]
    /\ load[x.load].value # 0 => x.floor <= load[x.load].value

ReturnedSound(x) ==
  x.at = "returned" /\ x.value # 0 =>
    /\ x.op \in Reads /\ x.since <= clock
    /\ x.value <= content[KindOf(x.op)] /\ x.floor <= x.value
    /\ InForce(replaced[KindOf(x.op)], x.value, x.since - AllowedLag(x.fresh))

CacheInv ==
  /\ VersionsCounted
  /\ load \in Seq(LoadRecords) /\ call \in [Calls -> CallRecords]
  /\ \A i \in DOMAIN load : LoadSound(load[i])
  /\ CacheCurrent
  /\ \A c \in Calls : ReadingSound(call[c]) /\ ReturnedSound(call[c])

LEMMA KindOfRead ==
  ASSUME NEW key \in Reads
  PROVE  KindOf(key) \in Kinds /\ Operations[key].freshness \subseteq BOOLEAN
<1> DEFINE names == {"listEstimates", "listEstimatesByContact", "getEstimate", "getContact",
                     "readService", "listCatalogue", "listTreasuryAccounts",
                     "listNumberingSeries"}
<1>1. key \in names
  BY HoldedAssumption
<1>2. \A k \in names : \E kind \in Kinds, mayBeFresh \in BOOLEAN :
        Operations[k] = CachedRead(kind, mayBeFresh)
  <2> USE DEF Kinds, Operations
  <2>1. /\ Operations["listEstimates"] = CachedRead("estimate", FALSE)
        /\ Operations["listEstimatesByContact"] = CachedRead("estimate", TRUE)
        /\ Operations["getEstimate"] = CachedRead("estimate", FALSE)
        /\ Operations["getContact"] = CachedRead("contact", TRUE)
        /\ Operations["readService"] = CachedRead("reference", TRUE)
        /\ Operations["listCatalogue"] = CachedRead("reference", FALSE)
        /\ Operations["listTreasuryAccounts"] = CachedRead("reference", TRUE)
        /\ Operations["listNumberingSeries"] = CachedRead("reference", FALSE)
    BY DEF listEstimates, listEstimatesByContact, getEstimate,
       getContact, readService, listCatalogue, listTreasuryAccounts, listNumberingSeries
  <2> HIDE DEF Operations
  <2> QED BY <2>1
<1>3. PICK kind \in Kinds, mayBeFresh \in BOOLEAN : Operations[key] = CachedRead(kind, mayBeFresh)
  BY <1>1, <1>2
<1> QED BY <1>3 DEF KindOf, CachedRead

\* Taking loads out of a cache leaves the others; using one adds it.
LEMMA CacheHolds ==
  ASSUME NEW cache, NEW gone, NEW i
  PROVE  /\ Loads(Without(cache, gone)) = Loads(cache) \ gone
         /\ Loads(MadeRoom(cache)) \subseteq Loads(cache)
         /\ Loads(Used(cache, i)) \subseteq Loads(cache) \cup {i}
BY DEF Loads, Without, MadeRoom, Used

LEMMA LoadTyped ==
  ASSUME CacheInv, NEW i \in DOMAIN load
  PROVE  /\ load[i] \in LoadRecords /\ load[i].key \in Reads
         /\ load[i].began \in Nat /\ load[i].value \in Nat /\ load[i].expiresAt \in Nat
         /\ KindOf(load[i].key) \in Kinds
         /\ i \in Nat
<1>1. load[i] \in LoadRecords /\ i \in Nat
  BY DEF CacheInv
<1> QED BY <1>1, KindOfRead DEF LoadRecords

\* When data changes, what was in force stays so, and everything else too.
LEMMA ChangeKeeps ==
  ASSUME CacheInv, NEW kind, Changed(kind), UNCHANGED <<written, clock>>
  PROVE  /\ VersionsCounted'
         /\ \A k \in Kinds : content[k] <= content'[k]
         /\ \A k \in Kinds : \A v \in Nat, t \in Int :
              t <= clock /\ v <= content[k] /\ InForce(replaced[k], v, t)
                => InForce(replaced'[k], v, t)
<1>1. CASE kind \notin Kinds
  <2>1. UNCHANGED <<content, replaced>>
    BY <1>1 DEF Changed
  <2>2. VersionsCounted'
    BY <2>1 DEF CacheInv, VersionsCounted
  <2> QED BY <2>1, <2>2 DEF CacheInv, VersionsCounted
<1>2. CASE kind \in Kinds
  <2>1. /\ content' = [content EXCEPT ![kind] = @ + 1]
        /\ replaced' = [replaced EXCEPT ![kind] = Append(@, clock)]
    BY <1>2 DEF Changed
  <2>2. /\ content' \in [Kinds -> Nat] /\ replaced' \in [Kinds -> Seq(Nat)]
        /\ clock \in Nat
    <3>1. /\ content \in [Kinds -> Nat] /\ replaced \in [Kinds -> Seq(Nat)]
          /\ clock \in Nat
      BY DEF CacheInv, VersionsCounted
    <3>2. content[kind] + 1 \in Nat /\ Append(replaced[kind], clock) \in Seq(Nat)
      BY <1>2, <3>1
    <3> QED BY <2>1, <3>1, <3>2
  <2>3. ASSUME NEW k \in Kinds
        PROVE  /\ replaced[k] \in Seq(Nat)
               /\ replaced'[k] = replaced[k] \/ replaced'[k] = Append(replaced[k], clock)
               /\ content'[k] = Len(replaced'[k]) + 1
               /\ content[k] = Len(replaced[k]) + 1
               /\ content[k] <= content'[k]
    <3>1. replaced[k] \in Seq(Nat) /\ content[k] \in Nat /\ content[k] = Len(replaced[k]) + 1
      BY <2>3 DEF CacheInv, VersionsCounted
    <3>2. CASE k = kind
      <4>1. content'[k] = content[k] + 1 /\ replaced'[k] = Append(replaced[k], clock)
        BY <2>1, <2>3, <3>2 DEF CacheInv, VersionsCounted
      <4>2. Len(replaced'[k]) = Len(replaced[k]) + 1
        BY <3>1, <4>1, <2>2
      <4> QED BY <3>1, <4>1, <4>2
    <3>3. CASE k # kind
      BY <2>1, <2>3, <3>1, <3>3 DEF CacheInv, VersionsCounted
    <3> QED BY <3>2, <3>3
  <2>4. VersionsCounted'
    BY <2>2, <2>3 DEF CacheInv, VersionsCounted
  <2>5. ASSUME NEW k \in Kinds, NEW v \in Nat, NEW t \in Int, t <= clock, v <= content[k],
               InForce(replaced[k], v, t)
        PROVE  InForce(replaced'[k], v, t)
    <3>1. CASE v \in 1 .. Len(replaced[k])
      <4>1. replaced'[k][v] = replaced[k][v] /\ replaced[k][v] >= t
        <5>1. replaced[k][v] >= t
          BY <2>5, <3>1 DEF InForce
        <5>2. replaced'[k][v] = replaced[k][v]
          <6>1. Append(replaced[k], clock)[v] = replaced[k][v]
            BY <2>2, <2>3, <3>1
          <6> QED BY <2>3, <6>1
        <5> QED BY <5>1, <5>2
      <4> QED BY <4>1 DEF InForce
    <3>2. CASE v \notin 1 .. Len(replaced[k])
      <4>1. v = 0 \/ v = Len(replaced[k]) + 1
        BY <2>3, <2>5, <3>2
      <4>2. ASSUME v \in 1 .. Len(replaced'[k]) PROVE replaced'[k][v] >= t
        <5>1. replaced'[k] = Append(replaced[k], clock) /\ v = Len(replaced[k]) + 1
          BY <2>3, <4>1, <4>2
        <5>2. replaced'[k][v] = clock
          BY <2>2, <2>3, <5>1
        <5> QED BY <2>2, <2>5, <5>2
      <4> QED BY <4>2 DEF InForce
    <3> QED BY <3>1, <3>2
  <2> QED BY <2>3, <2>4, <2>5
<1> QED BY <1>1, <1>2

LEMMA LagTyped == AllowedLag(TRUE) \in Nat /\ AllowedLag(FALSE) \in Nat /\ LoadTime \in Nat /\ Ttl \in Nat
                    /\ LoadTime <= Ttl
BY HoldedAssumption DEF AllowedLag

\* A step in which Holded's data changes, and of a call at most whether it has landed.
LEMMA HoldedChanges ==
  ASSUME CacheInv, NEW kind, Changed(kind), UNCHANGED <<load, readCache, written, clock>>,
         call' \in [Calls -> CallRecords],
         \A c \in Calls : call'[c] = call[c] \/ call'[c].at = "writing"
  PROVE  CacheInv'
<1> USE ChangeKeeps
<1>1. ASSUME NEW i \in DOMAIN load PROVE LoadSound(load[i])'
  <2>1. LoadSound(load[i])
    BY DEF CacheInv
  <2>2. /\ KindOf(load[i].key) \in Kinds /\ load[i].value \in Nat /\ load[i].began \in Int
        /\ content[KindOf(load[i].key)] \in Nat /\ content'[KindOf(load[i].key)] \in Nat
        /\ content[KindOf(load[i].key)] <= content'[KindOf(load[i].key)]
    <3>1. /\ content \in [Kinds -> Nat] /\ content' \in [Kinds -> Nat]
      BY DEF CacheInv, VersionsCounted
    <3> QED BY <3>1, LoadTyped
  <2>3. InForce(replaced'[KindOf(load[i].key)], load[i].value, load[i].began)
    BY <2>1, <2>2 DEF LoadSound
  <2>4. load[i].value <= content'[KindOf(load[i].key)]
    BY <2>1, <2>2 DEF LoadSound
  <2> QED BY <2>1, <2>3, <2>4 DEF LoadSound
<1>2. CacheCurrent'
  BY DEF CacheInv, CacheCurrent, Loads
<1>3. ASSUME NEW c \in Calls PROVE ReadingSound(call[c])' /\ ReturnedSound(call[c])'
  <2>1. CASE call'[c].at = "writing"
    BY <2>1 DEF ReadingSound, ReturnedSound
  <2>2. CASE call'[c] = call[c]
    <3>1. call[c] \in CallRecords /\ ReadingSound(call[c]) /\ ReturnedSound(call[c])
      BY DEF CacheInv
    <3>2. ReadingSound(call[c])'
      BY <2>2, <3>1 DEF ReadingSound
    <3>3. call[c].value \in Nat /\ call[c].since \in Nat /\ call[c].since - AllowedLag(call[c].fresh) \in Int
          /\ (call[c].since <= clock => call[c].since - AllowedLag(call[c].fresh) <= clock)
      <4>1. call[c].value \in Nat /\ call[c].since \in Nat /\ call[c].fresh \in BOOLEAN
        BY <3>1 DEF CallRecords
      <4>2. AllowedLag(call[c].fresh) \in Nat /\ clock \in Nat
        BY <4>1, LagTyped DEF CacheInv, VersionsCounted
      <4> QED BY <4>1, <4>2
    <3>4. ReturnedSound(call[c])'
      <4> SUFFICES ASSUME call[c].at = "returned", call[c].value # 0
                   PROVE  ReturnedSound(call[c])'
        BY <2>2 DEF ReturnedSound
      <4>1. KindOf(call[c].op) \in Kinds
        BY <3>1, KindOfRead DEF ReturnedSound
      <4>2. content[KindOf(call[c].op)] \in Nat /\ content'[KindOf(call[c].op)] \in Nat
        BY <4>1 DEF CacheInv, VersionsCounted
      <4> QED BY <2>2, <3>1, <3>3, <4>1, <4>2 DEF ReturnedSound
    <3> QED BY <3>2, <3>4
  <2> QED BY <2>1, <2>2
<1> QED BY <1>1, <1>2, <1>3 DEF CacheInv

\* A step in which only calls move.
LEMMA CallsMove ==
  ASSUME CacheInv, UNCHANGED <<content, replaced, load, written, clock>>,
         Loads(readCache') \subseteq Loads(readCache),
         call' \in [Calls -> CallRecords],
         \A c \in Calls : call'[c] = call[c] \/ (ReadingSound(call'[c]) /\ ReturnedSound(call'[c]))
  PROVE  CacheInv'
<1>1. CacheCurrent'
  BY DEF CacheInv, CacheCurrent, Loads
<1>2. \A i \in DOMAIN load : LoadSound(load[i])'
  BY DEF CacheInv, LoadSound
<1>3. ASSUME NEW c \in Calls PROVE ReadingSound(call[c])' /\ ReturnedSound(call[c])'
  BY DEF CacheInv, ReadingSound, ReturnedSound
<1> QED BY <1>1, <1>2, <1>3 DEF CacheInv, VersionsCounted

LEMMA CallRecordsMade ==
  /\ NoCall \in CallRecords /\ Returned \in CallRecords
  /\ Returned.value = 0 /\ Returned.at = "returned" /\ NoCall.value = 0 /\ NoCall.at = "idle"
BY DEF NoCall, Returned, CallRecords

LEMMA CacheInitially == HoldedInit => CacheInv
<1> SUFFICES ASSUME HoldedInit PROVE CacheInv
  OBVIOUS
<1>1. VersionsCounted
  BY DEF HoldedInit, VersionsCounted
<1>2. load \in Seq(LoadRecords) /\ DOMAIN load = {}
  BY DEF HoldedInit
<1>3. CacheCurrent
  BY <1>2 DEF CacheCurrent, Loads
<1>4. \A c \in Calls : call[c] = NoCall
  BY DEF HoldedInit
<1>5. call \in [Calls -> CallRecords]
  BY CallRecordsMade DEF HoldedInit
<1> QED BY <1>1, <1>2, <1>3, <1>4, <1>5, CallRecordsMade DEF CacheInv, ReadingSound, ReturnedSound

Asks(key, fresh, i) ==
  [NoCall EXCEPT !.at = "reading", !.op = key, !.load = i, !.fresh = fresh,
                 !.since = clock, !.floor = written[KindOf(key)]]

\* A call that reads now asks for what was written until now.
LEMMA BeginsReading ==
  ASSUME CacheInv, NEW c \in Readers, NEW key \in Reads, NEW fresh \in Operations[key].freshness,
         NEW i \in Nat, NEW x, x = Asks(key, fresh, i)
  PROVE  /\ x \in CallRecords /\ x.at = "reading" /\ x.op = key /\ x.load = i /\ x.fresh = fresh
         /\ x.since = clock /\ x.floor = written[KindOf(key)] /\ fresh \in BOOLEAN
<1>1. fresh \in BOOLEAN /\ KindOf(key) \in Kinds
  BY KindOfRead
<1>2. clock \in Nat /\ written[KindOf(key)] \in Nat
  BY <1>1 DEF CacheInv, VersionsCounted
<1>3. x = [at |-> "reading", op |-> key, load |-> i, fresh |-> fresh, since |-> clock,
           floor |-> written[KindOf(key)], value |-> 0, landed |-> FALSE, outcome |-> "none"]
  BY DEF NoCall, Asks
<1>4. [at |-> "reading", op |-> key, load |-> i, fresh |-> fresh, since |-> clock,
       floor |-> written[KindOf(key)], value |-> 0, landed |-> FALSE, outcome |-> "none"]
        \in CallRecords
  BY <1>1, <1>2 DEF CallRecords
<1>5. x \in CallRecords
  BY <1>3, <1>4, Zenon
<1> QED BY <1>1, <1>3, <1>5

\* One call moves.
LEMMA CallMoves ==
  ASSUME CacheInv, NEW c \in Calls, NEW x \in CallRecords, call' = [call EXCEPT ![c] = x]
  PROVE  /\ call' \in [Calls -> CallRecords] /\ call'[c] = x
         /\ \A d \in Calls : d # c => call'[d] = call[d]
BY DEF CacheInv

\* A read joins the load that is in the cache.
LEMMA Joins ==
  ASSUME CacheInv, NEW c \in Readers, NEW key \in Reads, NEW fresh \in Operations[key].freshness,
         NEW i \in Entry(key), Servable(i, fresh),
         readCache' = Used(Without(readCache, {i}), i),
         call' = [call EXCEPT ![c] = Asks(key, fresh, i)],
         UNCHANGED <<content, replaced, load, written, clock>>
  PROVE  CacheInv'
<1>1. i \in Loads(readCache) /\ i \in DOMAIN load /\ load[i].key = key
  BY DEF Entry, Loads
<1>2. Loads(readCache') \subseteq Loads(readCache)
  <2>1. PICK cache : cache = Without(readCache, {i})
    OBVIOUS
  <2>2. Loads(cache) = Loads(readCache) \ {i}
    BY <2>1, CacheHolds, Zenon
  <2>3. Loads(Used(cache, i)) \subseteq Loads(cache) \cup {i}
    BY CacheHolds, Zenon
  <2> QED BY <1>1, <2>1, <2>2, <2>3
<1>3. PICK x : x = Asks(key, fresh, i)
  OBVIOUS
<1>4. i \in Nat
  BY <1>1, LoadTyped
<1>5. /\ x \in CallRecords /\ x.at = "reading" /\ x.op = key /\ x.load = i /\ x.fresh = fresh
      /\ x.since = clock /\ x.floor = written[KindOf(key)] /\ fresh \in BOOLEAN
  BY <1>3, <1>4, BeginsReading
<1>6. /\ LoadSound(load[i]) /\ load[i].began \in Nat /\ load[i].expiresAt \in Nat
      /\ load[i].value \in Nat /\ KindOf(key) \in Kinds
  BY <1>1, LoadTyped DEF CacheInv
<1>7. /\ clock \in Nat /\ written[KindOf(key)] \in Nat /\ x.floor <= written[KindOf(x.op)]
      /\ x.since <= clock
  BY <1>5, <1>6 DEF CacheInv, VersionsCounted
<1>8. x.since <= load[i].began + AllowedLag(x.fresh)
  <2>1. load[i].pending => clock <= load[i].began + LoadTime
    BY <1>6 DEF LoadSound
  <2>2. load[i].expiresAt = load[i].began + Ttl
    BY <1>6 DEF LoadSound
  <2>3. CASE fresh = TRUE
    BY <1>5, <1>6, <1>7, <2>1, <2>3, LagTyped DEF Servable, AllowedLag
  <2>4. CASE fresh = FALSE
    <3>1. clock <= load[i].began + Ttl
      BY <1>6, <1>7, <2>1, <2>2, <2>4, LagTyped DEF Servable
    <3> QED BY <1>5, <2>4, <3>1 DEF AllowedLag
  <2> QED BY <1>5, <2>3, <2>4
<1>9. load[i].value # 0 => x.floor <= load[i].value
  BY <1>1, <1>5 DEF CacheInv, CacheCurrent
<1>10. ReadingSound(x) /\ ReturnedSound(x)
  BY <1>1, <1>5, <1>7, <1>8, <1>9 DEF ReadingSound, ReturnedSound
<1>11. c \in Calls
  BY DEF Calls
<1>12. /\ call' \in [Calls -> CallRecords] /\ call'[c] = x
       /\ \A d \in Calls : d # c => call'[d] = call[d]
  BY <1>3, <1>5, <1>11, CallMoves
<1>13. \A d \in Calls : call'[d] = call[d] \/ (ReadingSound(call'[d]) /\ ReturnedSound(call'[d]))
  <2> TAKE d \in Calls
  <2>1. CASE d = c
    BY <1>10, <1>12, <2>1 DEF ReadingSound, ReturnedSound
  <2>2. CASE d # c
    BY <1>12, <2>2, Zenon
  <2> QED BY <2>1, <2>2, Zenon
<1> QED BY <1>2, <1>12, <1>13, CallsMove

\* A read begins a load of its own.
LEMMA LoadsAnew ==
  ASSUME CacheInv, NEW c \in Readers, NEW key \in Reads, NEW fresh \in Operations[key].freshness,
         NEW new, new = Len(load) + 1,
         load' = Append(load, [key |-> key, began |-> clock, expiresAt |-> clock + Ttl,
                               pending |-> TRUE, value |-> 0]),
         readCache' = Used(MadeRoom(Without(readCache, Entry(key))), new),
         call' = [call EXCEPT ![c] = Asks(key, fresh, new)],
         UNCHANGED <<content, replaced, written, clock>>
  PROVE  CacheInv'
<1>1. PICK l : l = [key |-> key, began |-> clock, expiresAt |-> clock + Ttl,
                    pending |-> TRUE, value |-> 0]
  OBVIOUS
<1>2. /\ load \in Seq(LoadRecords) /\ clock \in Nat /\ Ttl \in Nat /\ KindOf(key) \in Kinds
      /\ written[KindOf(key)] \in Nat /\ content[KindOf(key)] \in Nat
  BY KindOfRead, LagTyped DEF CacheInv, VersionsCounted
<1>3. l \in LoadRecords
  BY <1>1, <1>2 DEF LoadRecords
<1>4. /\ load' = Append(load, l) /\ load' \in Seq(LoadRecords) /\ new \in Nat
      /\ DOMAIN load' = DOMAIN load \cup {new} /\ load'[new] = l /\ new \notin DOMAIN load
      /\ \A i \in DOMAIN load : load'[i] = load[i]
  BY <1>1, <1>2, <1>3
<1>5. ASSUME NEW i \in DOMAIN load' PROVE LoadSound(load[i])'
  <2>1. CASE i \in DOMAIN load
    BY <1>4, <2>1 DEF CacheInv, LoadSound
  <2>2. CASE i = new
    <3>1. InForce(replaced[KindOf(key)], 0, clock)
      BY DEF InForce
    <3>2. clock <= clock + LoadTime
      BY <1>2, LagTyped
    <3> QED BY <1>1, <1>2, <1>4, <2>2, <3>1, <3>2 DEF LoadSound
  <2> QED BY <1>4, <2>1, <2>2
<1>6. CacheCurrent'
  <2> SUFFICES ASSUME NEW i \in Loads(readCache)', load'[i].value # 0
               PROVE  written[KindOf(load'[i].key)] <= load'[i].value
    BY DEF CacheCurrent
  <2>1. <<i, i>> \in readCache' /\ i \in DOMAIN load'
    BY DEF Loads
  <2>2. i # new
    BY <1>1, <1>4
  <2>3. i \in Loads(readCache)
    BY <1>4, <2>1, <2>2 DEF Used, MadeRoom, Without, Loads
  <2> QED BY <1>4, <2>1, <2>2, <2>3 DEF CacheInv, CacheCurrent
<1>7. PICK x : x = Asks(key, fresh, new)
  OBVIOUS
<1>9. /\ x \in CallRecords /\ x.at = "reading" /\ x.op = key /\ x.load = new /\ x.fresh = fresh
      /\ x.since = clock /\ x.floor = written[KindOf(key)] /\ fresh \in BOOLEAN
  BY <1>4, <1>7, BeginsReading
<1>10. ReadingSound(x)' /\ ReturnedSound(x)'
  <2>1. x.since <= l.began + AllowedLag(x.fresh) /\ x.since <= clock
    BY <1>1, <1>2, <1>9, LagTyped DEF AllowedLag
  <2>2. l.value = 0 /\ l.key = key /\ x.floor <= written[KindOf(x.op)]
    BY <1>1, <1>2, <1>9
  <2> QED BY <1>4, <1>9, <2>1, <2>2 DEF ReadingSound, ReturnedSound
<1>11. c \in Calls
  BY DEF Calls
<1>12. /\ call' \in [Calls -> CallRecords] /\ call'[c] = x
       /\ \A d \in Calls : d # c => call'[d] = call[d]
  BY <1>7, <1>9, <1>11, CallMoves
<1>13. ASSUME NEW d \in Calls PROVE ReadingSound(call[d])' /\ ReturnedSound(call[d])'
  <2>1. CASE d = c
    BY <1>10, <1>12, <2>1 DEF ReadingSound, ReturnedSound
  <2>2. CASE d # c
    BY <1>4, <1>12, <2>2 DEF CacheInv, ReadingSound, ReturnedSound
  <2> QED BY <2>1, <2>2
<1>14. VersionsCounted'
  BY DEF CacheInv, VersionsCounted
<1> QED BY <1>4, <1>5, <1>6, <1>12, <1>13, <1>14 DEF CacheInv

LEMMA ReadKeeps ==
  ASSUME CacheInv, NEW c \in Readers, NEW key \in Reads, NEW fresh \in Operations[key].freshness,
         cachedHoldedRead(c, key, fresh)
  PROVE  CacheInv'
<1>1. CASE \E i \in Entry(key) :
             /\ Servable(i, fresh) /\ readCache' = Used(Without(readCache, {i}), i)
             /\ call' = [call EXCEPT ![c] = Asks(key, fresh, i)]
             /\ UNCHANGED load
  <2>1. PICK i \in Entry(key) :
          /\ Servable(i, fresh) /\ readCache' = Used(Without(readCache, {i}), i)
          /\ call' = [call EXCEPT ![c] = Asks(key, fresh, i)]
          /\ UNCHANGED load
    BY <1>1
  <2> QED BY <2>1, Joins DEF cachedHoldedRead
<1>2. CASE /\ load' = Append(load, [key |-> key, began |-> clock, expiresAt |-> clock + Ttl,
                                    pending |-> TRUE, value |-> 0])
           /\ readCache' = Used(MadeRoom(Without(readCache, Entry(key))), Len(load) + 1)
           /\ call' = [call EXCEPT ![c] = Asks(key, fresh, Len(load) + 1)]
  <2>1. PICK new : new = Len(load) + 1
    OBVIOUS
  <2> QED BY <1>2, <2>1, LoadsAnew DEF cachedHoldedRead
<1> QED BY <1>1, <1>2 DEF cachedHoldedRead, Asks

\* A load goes on: it reads its data, or is over.
LEMMA LoadMoves ==
  ASSUME CacheInv, NEW i \in DOMAIN load, NEW l \in LoadRecords, load' = [load EXCEPT ![i] = l],
         UNCHANGED <<content, replaced, written, clock>>,
         l.key = load[i].key, l.began = load[i].began, LoadSound(l),
         \/ l.value = load[i].value
         \/ l.value >= written[KindOf(l.key)],
         Loads(readCache)' \subseteq Loads(readCache),
         call' \in [Calls -> CallRecords],
         \A d \in Calls : call'[d] = call[d] \/ (ReadingSound(call'[d]) /\ ReturnedSound(call'[d]))
  PROVE  CacheInv'
<1>1. /\ load' \in Seq(LoadRecords) /\ DOMAIN load' = DOMAIN load /\ load'[i] = l
      /\ \A j \in DOMAIN load : j # i => load'[j] = load[j]
  BY DEF CacheInv
<1>2. \A j \in DOMAIN load' : LoadSound(load[j])'
  <2> TAKE j \in DOMAIN load'
  <2>1. LoadSound(load'[j])
    BY <1>1 DEF CacheInv
  <2> QED BY <2>1 DEF LoadSound
<1>3. CacheCurrent'
  <2> SUFFICES ASSUME NEW j \in Loads(readCache)', load'[j].value # 0
               PROVE  written[KindOf(load'[j].key)] <= load'[j].value
    BY DEF CacheCurrent
  <2>1. j \in Loads(readCache) /\ j \in DOMAIN load
    BY DEF Loads
  <2>2. load[j].value # 0 => written[KindOf(load[j].key)] <= load[j].value
    BY <2>1 DEF CacheInv, CacheCurrent
  <2>3. CASE j # i
    BY <1>1, <2>1, <2>2, <2>3
  <2>4. CASE j = i
    BY <1>1, <2>1, <2>2, <2>4
  <2> QED BY <2>3, <2>4
<1>4. ASSUME NEW d \in Calls PROVE ReadingSound(call[d])' /\ ReturnedSound(call[d])'
  <2>1. ReadingSound(call'[d]) /\ ReturnedSound(call'[d])
    BY DEF CacheInv, ReadingSound, ReturnedSound
  <2>2. ReturnedSound(call[d])'
    BY <2>1 DEF ReturnedSound
  <2>3. ReadingSound(call[d])'
    <3> SUFFICES ASSUME call'[d].at = "reading" PROVE ReadingSound(call[d])'
      BY DEF ReadingSound
    <3>1. CASE call'[d].load # i
      BY <1>1, <2>1, <3>1 DEF ReadingSound
    <3>2. CASE call'[d].load = i
      <4>1. /\ call'[d].op = l.key /\ call'[d].since <= clock
            /\ call'[d].since <= l.began + AllowedLag(call'[d].fresh)
            /\ call'[d].floor <= written[KindOf(l.key)]
            /\ load[i].value # 0 => call'[d].floor <= load[i].value
        BY <2>1, <3>2 DEF ReadingSound
      <4>2. call'[d].floor \in Nat /\ written[KindOf(l.key)] \in Nat /\ l.value \in Nat
        BY LoadTyped DEF CacheInv, VersionsCounted, CallRecords, LoadRecords
      <4>3. l.value # 0 => call'[d].floor <= l.value
        BY <4>1, <4>2
      <4> QED BY <1>1, <3>2, <4>1, <4>3 DEF ReadingSound
    <3> QED BY <3>1, <3>2
  <2> QED BY <2>2, <2>3
<1> QED BY <1>1, <1>2, <1>3, <1>4 DEF CacheInv, VersionsCounted

LEMMA LoadReadsKeeps ==
  ASSUME CacheInv, NEW i \in DOMAIN load, LoadReads(i) PROVE CacheInv'
<1>1. PICK kind : kind = KindOf(load[i].key)
  OBVIOUS
<1>2. PICK l : l = [key |-> load[i].key, began |-> load[i].began,
                    expiresAt |-> load[i].expiresAt, pending |-> load[i].pending,
                    value |-> content[kind]]
  OBVIOUS
<1>3. /\ load[i] \in LoadRecords /\ kind \in Kinds /\ LoadSound(load[i])
      /\ content[kind] \in Nat /\ written[kind] \in Nat /\ written[kind] <= content[kind]
      /\ content[kind] = Len(replaced[kind]) + 1 /\ replaced[kind] \in Seq(Nat)
  BY <1>1, LoadTyped DEF CacheInv, VersionsCounted
<1>4. [load[i] EXCEPT !.value = content[kind]] = l
  BY <1>2, <1>3 DEF LoadRecords
<1>5. load' = [load EXCEPT ![i] = l]
  BY <1>1, <1>4 DEF LoadReads
<1>6. l \in LoadRecords
  BY <1>2, <1>3 DEF LoadRecords
<1>7. content[kind] \notin 1 .. Len(replaced[kind])
  BY <1>3
<1>8. LoadSound(l)
  BY <1>1, <1>2, <1>3, <1>7 DEF LoadSound, InForce
<1>9. Loads(readCache)' \subseteq Loads(readCache)
  BY <1>5 DEF Loads, LoadReads, CacheInv
<1> QED BY <1>1, <1>2, <1>3, <1>5, <1>6, <1>8, <1>9, LoadMoves DEF LoadReads, CacheInv

\* A load that is over has its value.
LEMMA LoadEnds ==
  ASSUME CacheInv, NEW i \in DOMAIN load, load' = [load EXCEPT ![i].pending = FALSE],
         UNCHANGED <<content, replaced, written, clock>>,
         Loads(readCache') \subseteq Loads(readCache),
         call' \in [Calls -> CallRecords],
         \A d \in Calls : call'[d] = call[d] \/ (ReadingSound(call'[d]) /\ ReturnedSound(call'[d]))
  PROVE  CacheInv'
<1>1. load[i] \in LoadRecords /\ LoadSound(load[i])
  BY LoadTyped DEF CacheInv
<1> PICK over \in BOOLEAN : over = FALSE
  OBVIOUS
<1>2. PICK l : l = [key |-> load[i].key, began |-> load[i].began,
                    expiresAt |-> load[i].expiresAt, pending |-> over, value |-> load[i].value]
  OBVIOUS
<1>3. [load[i] EXCEPT !.pending = over] = l
  BY <1>1, <1>2 DEF LoadRecords
<1>4. load' = [load EXCEPT ![i] = l]
  BY <1>3
<1>5. l \in LoadRecords
  <2>1. /\ load[i].key \in Reads /\ load[i].began \in Nat /\ load[i].expiresAt \in Nat
        /\ load[i].value \in Nat
    BY LoadTyped
  <2> QED BY <1>2, <2>1 DEF LoadRecords
<1>6. LoadSound(l)
  BY <1>1, <1>2 DEF LoadSound
<1>7. Loads(readCache)' \subseteq Loads(readCache)
  BY <1>4 DEF Loads, CacheInv
<1> QED BY <1>2, <1>4, <1>5, <1>6, <1>7, LoadMoves

\* A call that has returned without a value has nothing to answer for.
LEMMA EmptyHanded ==
  ASSUME NEW x, x.at \notin {"reading", "returned"} \/ (x.at = "returned" /\ x.value = 0)
  PROVE  ReadingSound(x) /\ ReturnedSound(x)
BY DEF ReadingSound, ReturnedSound

LEMMA LoadAnswersKeeps ==
  ASSUME CacheInv, NEW i \in DOMAIN load, LoadAnswers(i) PROVE CacheInv'
<1>1. Loads(readCache') = Loads(readCache)
  BY DEF LoadAnswers
<1> QED BY <1>1, LoadEnds DEF LoadAnswers, CacheInv

LEMMA LoadFailsKeeps ==
  ASSUME CacheInv, NEW i \in DOMAIN load, LoadFails(i) PROVE CacheInv'
<1>1. call' = [c \in Calls |-> IF Waiting(c, i) THEN Returned ELSE call[c]]
  BY DEF LoadFails
<1>2. call' \in [Calls -> CallRecords]
  BY <1>1, CallRecordsMade DEF CacheInv
<1>3. \A d \in Calls : call'[d] = call[d] \/ (ReadingSound(call'[d]) /\ ReturnedSound(call'[d]))
  BY <1>1, CallRecordsMade, EmptyHanded
<1>4. Loads(readCache') \subseteq Loads(readCache)
  BY CacheHolds DEF LoadFails
<1> QED BY <1>2, <1>3, <1>4, LoadEnds DEF LoadFails

LEMMA ReadReturnsKeeps ==
  ASSUME CacheInv, NEW c \in Readers, ReadReturns(c) PROVE CacheInv'
<1>1. c \in Calls /\ call[c] \in CallRecords /\ call[c].at = "reading" /\ ReadingSound(call[c])
  BY DEF Calls, CacheInv, ReadReturns, At
<1>2. PICK i : i = call[c].load
  OBVIOUS
<1>3. /\ i \in DOMAIN load /\ call[c].op = load[i].key
      /\ call[c].since <= clock /\ call[c].since <= load[i].began + AllowedLag(call[c].fresh)
      /\ load[i].value # 0 => call[c].floor <= load[i].value
  BY <1>1, <1>2 DEF ReadingSound
<1>4. /\ load[i].key \in Reads /\ load[i].value \in Nat /\ load[i].began \in Nat
      /\ KindOf(load[i].key) \in Kinds /\ LoadSound(load[i])
  BY <1>3, LoadTyped DEF CacheInv
<1>5. PICK x : x = [call[c] EXCEPT !.at = "returned", !.value = load[i].value]
  OBVIOUS
<1>6. call' = [call EXCEPT ![c] = x]
  BY <1>2, <1>5 DEF ReadReturns
<1>7. PICK old : old = call[c]
  OBVIOUS
<1>8. /\ x \in CallRecords /\ x.at = "returned" /\ x.value = load[i].value
      /\ x.op = old.op /\ x.since = old.since /\ x.floor = old.floor /\ x.fresh = old.fresh
  <2>1. old \in CallRecords
    BY <1>1, <1>7
  <2> QED BY <1>4, <1>5, <1>7, <2>1 DEF CallRecords
<1>9. /\ old.since \in Nat /\ AllowedLag(old.fresh) \in Nat
      /\ replaced[KindOf(old.op)] \in Seq(Nat)
  BY <1>1, <1>3, <1>4, <1>7, LagTyped DEF CallRecords, CacheInv, VersionsCounted
<1>10. ReturnedSound(x)
  <2>1. InForce(replaced[KindOf(old.op)], x.value, old.since - AllowedLag(old.fresh))
    <3> SUFFICES ASSUME x.value \in 1 .. Len(replaced[KindOf(old.op)])
                 PROVE  replaced[KindOf(old.op)][x.value] >= old.since - AllowedLag(old.fresh)
      BY DEF InForce
    <3>1. replaced[KindOf(old.op)][x.value] >= load[i].began
      BY <1>3, <1>4, <1>7, <1>8 DEF LoadSound, InForce
    <3>2. replaced[KindOf(old.op)][x.value] \in Nat
      BY <1>9
    <3>3. old.since <= load[i].began + AllowedLag(old.fresh)
      BY <1>3, <1>7
    <3> HIDE DEF AllowedLag
    <3> QED BY <1>4, <1>9, <3>1, <3>2, <3>3
  <2>2. x.value <= content[KindOf(old.op)] /\ old.op \in Reads
    BY <1>3, <1>4, <1>7, <1>8 DEF LoadSound
  <2> QED BY <1>3, <1>7, <1>8, <2>1, <2>2 DEF ReturnedSound
<1>11. ReadingSound(x)
  BY <1>8 DEF ReadingSound
<1>12. /\ call' \in [Calls -> CallRecords] /\ call'[c] = x
       /\ \A d \in Calls : d # c => call'[d] = call[d]
  BY <1>1, <1>6, <1>8, CallMoves
<1>13. \A d \in Calls : call'[d] = call[d] \/ (ReadingSound(call'[d]) /\ ReturnedSound(call'[d]))
  <2> TAKE d \in Calls
  <2>1. CASE d = c
    BY <1>10, <1>11, <1>12, <2>1 DEF ReadingSound, ReturnedSound
  <2> QED BY <1>12, <2>1
<1> QED BY <1>12, <1>13, CallsMove DEF ReadReturns

\* A call that writes moves, and the cache and what is written stay.
LEMMA WriterMoves ==
  ASSUME CacheInv, NEW c \in Calls, NEW x \in CallRecords, call' = [call EXCEPT ![c] = x],
         x.at \in {"merging", "writing"} \/ (x.at = "returned" /\ x.value = 0),
         UNCHANGED <<content, replaced, load, readCache, written, clock>>
  PROVE  CacheInv'
<1>1. /\ call' \in [Calls -> CallRecords] /\ call'[c] = x
      /\ \A d \in Calls : d # c => call'[d] = call[d]
  BY CallMoves
<1>2. ReadingSound(x) /\ ReturnedSound(x)
  BY EmptyHanded
<1>3. \A d \in Calls : call'[d] = call[d] \/ (ReadingSound(call'[d]) /\ ReturnedSound(call'[d]))
  <2> TAKE d \in Calls
  <2>1. CASE d = c
    BY <1>1, <1>2, <2>1 DEF ReadingSound, ReturnedSound
  <2> QED BY <1>1, <2>1
<1> QED BY <1>1, <1>3, CallsMove

LEMMA BeginsKeeps ==
  ASSUME CacheInv, NEW c \in Writers, NEW op \in Writes, Begins(c, op) PROVE CacheInv'
<1>1. PICK at : at = IF op = "updateContact" THEN "merging" ELSE "writing"
  OBVIOUS
<1>2. PICK x : x = [NoCall EXCEPT !.op = op, !.at = at]
  OBVIOUS
<1>3. at \in {"merging", "writing"}
  BY <1>1
<1>4. x \in CallRecords /\ x.at = at
  BY <1>2, <1>3 DEF CallRecords, NoCall
<1>5. call' = [call EXCEPT ![c] = x]
  BY <1>1, <1>2 DEF Begins
<1> QED BY <1>3, <1>4, <1>5, WriterMoves DEF Begins, Calls

LEMMA MergeKeeps ==
  ASSUME CacheInv, NEW c \in Writers, readContactForWrite(c) PROVE CacheInv'
<1>1. c \in Calls /\ call[c] \in CallRecords
  BY DEF Calls, CacheInv
<1>2. CASE call' = [call EXCEPT ![c].at = "writing"]
  <2>1. PICK x : x = [call[c] EXCEPT !.at = "writing"]
    OBVIOUS
  <2>2. x \in CallRecords /\ x.at = "writing"
    BY <1>1, <2>1 DEF CallRecords
  <2> QED BY <1>1, <1>2, <2>1, <2>2, WriterMoves DEF readContactForWrite
<1>3. CASE call' = [call EXCEPT ![c] = Returned]
  BY <1>1, <1>3, CallRecordsMade, WriterMoves DEF readContactForWrite
<1> QED BY <1>2, <1>3 DEF readContactForWrite

LEMMA LandsKeepsCache ==
  ASSUME CacheInv, NEW c \in Writers, Lands(c) PROVE CacheInv'
<1>1. c \in Calls /\ call[c] \in CallRecords /\ call[c].at = "writing"
  BY DEF Calls, CacheInv, Lands, At
<1>2. PICK x : x = [call[c] EXCEPT !.landed = TRUE]
  OBVIOUS
<1>3. x \in CallRecords /\ x.at = "writing"
  BY <1>1, <1>2 DEF CallRecords
<1>4. call' = [call EXCEPT ![c] = x]
  BY <1>2 DEF Lands
<1>5. /\ call' \in [Calls -> CallRecords] /\ call'[c] = x
      /\ \A d \in Calls : d # c => call'[d] = call[d]
  BY <1>1, <1>3, <1>4, CallMoves
<1>6. \A d \in Calls : call'[d] = call[d] \/ call'[d].at = "writing"
  BY <1>3, <1>5
<1> QED BY <1>5, <1>6, HoldedChanges DEF Lands

\* A write that returns has taken out of the cache what it may have changed.
LEMMA WriteReturnsKeeps ==
  ASSUME CacheInv, NEW c \in Writers, WriteReturns(c) PROVE CacheInv'
<1>1. PICK op : op = call[c].op
  OBVIOUS
<1>2. PICK kind : kind = KindWritten(op)
  OBVIOUS
<1>3. PICK answer \in Answers(call[c].landed) :
        /\ call' = [call EXCEPT ![c] = [Returned EXCEPT !.landed = call[c].landed,
                                                        !.outcome = Outcome(op, answer)]]
        /\ readCache' = IF op = "createContact" /\ answer # "200"
                        THEN readCache ELSE Without(readCache, Invalidated(op))
        /\ written' = IF call[c].landed /\ kind \in Kinds /\ (op = "createContact" => answer = "200")
                      THEN [written EXCEPT ![kind] = content[kind]] ELSE written
  BY <1>1, <1>2 DEF WriteReturns
<1>4. c \in Calls /\ call[c].landed \in BOOLEAN
  BY DEF Calls, CacheInv, CallRecords
<1>5. PICK x : x = [Returned EXCEPT !.landed = call[c].landed, !.outcome = Outcome(op, answer)]
  OBVIOUS
<1>6. Outcome(op, answer) \in {"none", "done", "unknown", "definitive_failure"}
  BY DEF Outcome, creationOutcome, deliveryOutcome
<1>7. x \in CallRecords /\ x.at = "returned" /\ x.value = 0
  BY <1>4, <1>5, <1>6 DEF CallRecords, Returned, NoCall
<1>8. /\ call' \in [Calls -> CallRecords] /\ call'[c] = x
      /\ \A d \in Calls : d # c => call'[d] = call[d]
  BY <1>3, <1>4, <1>5, <1>7, CallMoves
<1>9. UNCHANGED <<content, replaced, load, clock>>
  BY DEF WriteReturns
<1>10. /\ written' \in [Kinds -> Nat]
       /\ \A k \in Kinds : written[k] <= written'[k] /\ written'[k] <= content[k]
  <2>1. /\ written \in [Kinds -> Nat] /\ content \in [Kinds -> Nat]
        /\ \A k \in Kinds : written[k] <= content[k]
    BY DEF CacheInv, VersionsCounted
  <2>2. CASE written' = written
    BY <2>1, <2>2
  <2>3. CASE kind \in Kinds /\ written' = [written EXCEPT ![kind] = content[kind]]
    BY <2>1, <2>3
  <2> QED BY <1>3, <2>2, <2>3
<1>11. VersionsCounted'
  BY <1>9, <1>10 DEF CacheInv, VersionsCounted
<1>12. Loads(readCache') \subseteq Loads(readCache)
  <2>1. Loads(Without(readCache, Invalidated(op))) = Loads(readCache) \ Invalidated(op)
    BY CacheHolds, Zenon
  <2> QED BY <1>3, <2>1
<1>13. CacheCurrent'
  <2> SUFFICES ASSUME NEW i \in Loads(readCache)', load'[i].value # 0
               PROVE  written'[KindOf(load'[i].key)] <= load'[i].value
    BY DEF CacheCurrent
  <2>1. i \in Loads(readCache') /\ i \in Loads(readCache) /\ i \in DOMAIN load
    BY <1>9, <1>12 DEF Loads
  <2>2. written[KindOf(load[i].key)] <= load[i].value
    BY <1>9, <2>1 DEF CacheInv, CacheCurrent
  <2>3. CASE written'[KindOf(load[i].key)] = written[KindOf(load[i].key)]
    BY <1>9, <2>2, <2>3
  <2>4. CASE written'[KindOf(load[i].key)] # written[KindOf(load[i].key)]
    <3>1. /\ kind \in Kinds /\ (op = "createContact" => answer = "200")
          /\ written' = [written EXCEPT ![kind] = content[kind]]
      BY <1>3, <2>4
    <3>2. KindOf(load[i].key) = kind
      BY <2>1, <2>4, <3>1, LoadTyped DEF CacheInv, VersionsCounted
    <3>3. i \in Invalidated(op)
      BY <1>2, <2>1, <3>2 DEF Invalidated
    <3>4. readCache' = Without(readCache, Invalidated(op))
      BY <1>3, <3>1
    <3>5. Loads(Without(readCache, Invalidated(op))) = Loads(readCache) \ Invalidated(op)
      BY CacheHolds, Zenon
    <3> QED BY <2>1, <3>3, <3>4, <3>5
  <2> QED BY <2>3, <2>4
<1>14. \A i \in DOMAIN load : LoadSound(load[i])'
  BY <1>9 DEF CacheInv, LoadSound
<1>15. ASSUME NEW d \in Calls PROVE ReadingSound(call[d])' /\ ReturnedSound(call[d])'
  <2>1. CASE d = c
    BY <1>7, <1>8, <2>1 DEF ReadingSound, ReturnedSound
  <2>2. CASE d # c
    <3>1. call'[d] = call[d] /\ ReadingSound(call[d]) /\ ReturnedSound(call[d])
      BY <1>8, <2>2 DEF CacheInv
    <3>2. ReturnedSound(call[d])'
      BY <1>9, <3>1 DEF ReturnedSound
    <3>3. ReadingSound(call[d])'
      <4> SUFFICES ASSUME call[d].at = "reading" PROVE ReadingSound(call[d])'
        BY <3>1 DEF ReadingSound
      <4>1. PICK k : k = KindOf(call[d].op)
        OBVIOUS
      <4>2. k \in Kinds /\ call[d].floor <= written[k]
        BY <3>1, <4>1, LoadTyped DEF ReadingSound
      <4>3. call[d].floor \in Nat /\ written[k] \in Nat /\ written'[k] \in Nat
        BY <1>10, <4>2 DEF CacheInv, VersionsCounted, CallRecords
      <4>4. call[d].floor <= written'[k]
        BY <1>10, <4>2, <4>3
      <4> QED BY <1>9, <3>1, <4>1, <4>4 DEF ReadingSound
    <3> QED BY <3>2, <3>3
  <2> QED BY <2>1, <2>2
<1> QED BY <1>8, <1>9, <1>11, <1>13, <1>14, <1>15 DEF CacheInv

LEMMA TicksKeep == ASSUME CacheInv, ClockTicks PROVE CacheInv'
<1>1. /\ clock' = clock + 1 /\ clock \in Nat
      /\ UNCHANGED <<content, replaced, load, readCache, call, written>>
  BY DEF ClockTicks, CacheInv, VersionsCounted
<1>2. ASSUME NEW i \in DOMAIN load PROVE LoadSound(load[i])'
  <2>1. LoadSound(load[i]) /\ load[i].began \in Nat
    BY LoadTyped DEF CacheInv
  <2>2. load[i].pending => clock < load[i].began + LoadTime
    BY DEF ClockTicks
  <2>3. load[i].pending => clock' <= load[i].began + LoadTime
    BY <1>1, <2>1, <2>2, LagTyped
  <2>4. load[i].began <= clock'
    BY <1>1, <2>1 DEF LoadSound
  <2> QED BY <1>1, <2>1, <2>3, <2>4 DEF LoadSound
<1>3. ASSUME NEW c \in Calls PROVE ReadingSound(call[c])' /\ ReturnedSound(call[c])'
  <2>1. ReadingSound(call[c]) /\ ReturnedSound(call[c]) /\ call[c].since \in Nat
    BY DEF CacheInv, CallRecords
  <2>2. call[c].since <= clock => call[c].since <= clock'
    BY <1>1, <2>1
  <2> QED BY <1>1, <2>1, <2>2 DEF ReadingSound, ReturnedSound
<1>4. CacheCurrent'
  BY <1>1 DEF CacheInv, CacheCurrent, Loads
<1> QED BY <1>1, <1>2, <1>3, <1>4 DEF CacheInv, VersionsCounted

LEMMA CacheKept == CacheInv /\ [HoldedNext]_hvars => CacheInv'
<1> SUFFICES ASSUME CacheInv, [HoldedNext]_hvars PROVE CacheInv'
  OBVIOUS
<1>1. ASSUME NEW c \in Readers, NEW key \in Reads, NEW fresh \in Operations[key].freshness,
             cachedHoldedRead(c, key, fresh)
      PROVE  CacheInv'
  BY <1>1, ReadKeeps
<1>2. ASSUME NEW c \in Readers, ReadReturns(c) PROVE CacheInv'
  BY <1>2, ReadReturnsKeeps
<1>3. ASSUME NEW c \in Writers, NEW op \in Writes, Begins(c, op) PROVE CacheInv'
  BY <1>3, BeginsKeeps
<1>4. ASSUME NEW c \in Writers, readContactForWrite(c) \/ Lands(c) \/ WriteReturns(c)
      PROVE  CacheInv'
  BY <1>4, MergeKeeps, LandsKeepsCache, WriteReturnsKeeps
<1>5. ASSUME NEW i \in DOMAIN load, LoadReads(i) \/ LoadAnswers(i) \/ LoadFails(i)
      PROVE  CacheInv'
  BY <1>5, LoadReadsKeeps, LoadAnswersKeeps, LoadFailsKeeps
<1>6. ASSUME NEW kind \in Kinds, LandsLate(kind) \/ OthersChange(kind) PROVE CacheInv'
  BY <1>6, HoldedChanges DEF LandsLate, OthersChange, CacheInv
<1>7. CASE ClockTicks
  BY <1>7, TicksKeep
<1>8. CASE UNCHANGED hvars
  <2>1. UNCHANGED <<content, replaced, load, readCache, call, written, clock>>
    BY <1>8 DEF hvars
  <2> QED BY <2>1, CallsMove DEF CacheInv
<1> QED BY <1>1, <1>2, <1>3, <1>4, <1>5, <1>6, <1>7, <1>8 DEF HoldedNext

\* Whoever reads after a write has returned sees it: written, cached and pending.
THEOREM WritesAreRead == ClientSpec => []ReadYourWrites
<1>1. CacheInv => ReadYourWrites
  <2> SUFFICES ASSUME CacheInv, NEW c \in Calls, HasRead(c)
               PROVE  call[c].value >= call[c].floor
    BY DEF ReadYourWrites
  <2>1. call[c].floor <= call[c].value
    BY DEF HasRead, At, CacheInv, ReturnedSound
  <2>2. call[c].floor \in Nat /\ call[c].value \in Nat
    BY DEF CacheInv, CallRecords
  <2> QED BY <2>1, <2>2
<1> QED BY <1>1, CacheInitially, CacheKept, PTL DEF ClientSpec

\* How old what a read returns may be, and what a fresh read returns.
THEOREM ReadsAreRecent == ClientSpec => []StalenessBounded
<1>1. CacheInv => StalenessBounded
  <2> SUFFICES ASSUME CacheInv, NEW c \in Calls, HasRead(c)
               PROVE  call[c].value <= Len(replaced[KindOf(call[c].op)])
                        => replaced[KindOf(call[c].op)][call[c].value] + AllowedLag(call[c].fresh)
                             >= call[c].since
    BY DEF StalenessBounded, AllowedLag
  <2>1. PICK times : times = replaced[KindOf(call[c].op)]
    OBVIOUS
  <2>2. /\ call[c].op \in Reads
        /\ InForce(times, call[c].value, call[c].since - AllowedLag(call[c].fresh))
    BY <2>1 DEF HasRead, At, CacheInv, ReturnedSound
  <2>3. /\ times \in Seq(Nat) /\ call[c].since \in Nat /\ call[c].value \in Nat \ {0}
        /\ AllowedLag(call[c].fresh) \in Nat
    BY <2>1, <2>2, KindOfRead, LagTyped DEF HasRead, CacheInv, VersionsCounted, CallRecords
  <2>4. ASSUME call[c].value <= Len(times)
        PROVE  times[call[c].value] + AllowedLag(call[c].fresh) >= call[c].since
    <3>1. call[c].value \in 1 .. Len(times) /\ times[call[c].value] \in Nat
      BY <2>3, <2>4
    <3>2. times[call[c].value] >= call[c].since - AllowedLag(call[c].fresh)
      BY <2>2, <3>1 DEF InForce
    <3> QED BY <2>3, <3>1, <3>2
  <2> QED BY <2>1, <2>4
<1> QED BY <1>1, CacheInitially, CacheKept, PTL DEF ClientSpec

-----------------------------------------------------------------------------
(* The settings *)

SettingsSpec == SettingsInit /\ [][SettingsNext]_settingsVars

\* The row of an integration.  Holded has had its template and its credential from
\* the start; good are the credentials some service has accepted, raced the providers
\* of which a test was overtaken.
RowAddsUp(p, x, good, raced) ==
  /\ {"credential", "template", "verified"} \subseteq DOMAIN x
  /\ x.verified => x.credential \in good \/ p \in raced
  /\ p = "HOLDED" => x.template /\ x.credential # 0

\* A request that is about to write has read the template; one that tests does so with
\* the credential of the row, or has been overtaken.
RequestKnows(x, rows, good, raced) ==
  /\ {"step", "provider", "credential", "valid", "template", "answer"} \subseteq DOMAIN x
  /\ x.step # "idle" => x.provider \in Providers
  /\ x.step = "carrying over" => x.provider = "HOLDED"
  /\ x.step \in {"saving", "storing"} /\ x.provider = "HOLDED" => x.template
  /\ x.step \in {"testing", "marking"} =>
       rows[x.provider].credential = x.credential \/ x.provider \in raced
  /\ x.step = "marking" => x.credential \in good

SettingsInv ==
  /\ DOMAIN row = Providers /\ DOMAIN acting = Administrators
  /\ \A p \in Providers : RowAddsUp(p, row[p], tested, overtaken)
  /\ \A a \in Administrators : RequestKnows(acting[a], row, tested, overtaken)

LEMMA SettingsInitially == SettingsInit => SettingsInv
<1> SUFFICES ASSUME SettingsInit PROVE SettingsInv
  OBVIOUS
<1>1. \A a \in Administrators : RequestKnows(acting[a], row, tested, overtaken)
  BY DEF SettingsInit, RequestKnows, Idle
<1>2. ASSUME NEW p \in Providers PROVE RowAddsUp(p, row[p], tested, overtaken)
  <2> DEFINE holded(valid) == [NoRow EXCEPT !.credential = 1, !.sealedWith = 1, !.valid = valid,
                                            !.template = TRUE, !.verified = TRUE]
  <2>1. PICK valid \in BOOLEAN : row[p] = IF p = "HOLDED" THEN holded(valid) ELSE NoRow
    BY DEF SettingsInit
  <2>2. RowAddsUp("HOLDED", holded(valid), tested, overtaken)
    BY DEF RowAddsUp, NoRow, SettingsInit
  <2>3. p # "HOLDED" => RowAddsUp(p, NoRow, tested, overtaken)
    BY DEF RowAddsUp, NoRow
  <2> HIDE DEF holded
  <2> QED BY <2>1, <2>2, <2>3
<1> QED BY <1>1, <1>2 DEF SettingsInv, SettingsInit

\* The request of one administrator goes on, the rows stay as they are.
LEMMA OneRequestMoves ==
  ASSUME SettingsInv, NEW a \in Administrators, NEW x,
         acting' = [acting EXCEPT ![a] = x], UNCHANGED <<row, overtaken>>,
         tested \subseteq tested', RequestKnows(x, row, tested', overtaken)
  PROVE  SettingsInv'
<1>1. \A b \in Administrators : RequestKnows(acting'[b], row', tested', overtaken')
  BY DEF SettingsInv, RequestKnows
<1>2. \A p \in Providers : RowAddsUp(p, row'[p], tested', overtaken')
  BY DEF SettingsInv, RowAddsUp
<1> QED BY <1>1, <1>2 DEF SettingsInv

\* What a request knows stays true unless the credential it tests is replaced unseen.
LEMMA KnowledgeKept ==
  ASSUME NEW x, NEW rows, NEW good, NEW raced, RequestKnows(x, rows, good, raced),
         NEW rowsNow, NEW goodNow, NEW racedNow, good \subseteq goodNow, raced \subseteq racedNow,
         x.step \in {"testing", "marking"} =>
           \/ rowsNow[x.provider].credential = rows[x.provider].credential
           \/ x.provider \in racedNow
  PROVE  RequestKnows(x, rowsNow, goodNow, racedNow)
BY DEF RequestKnows

\* A request that has been answered knows nothing.
LEMMA AnsweredKnowsNothing ==
  ASSUME NEW answer, NEW rows, NEW good, NEW raced
  PROVE  RequestKnows([Idle EXCEPT !.answer = answer], rows, good, raced)
BY DEF RequestKnows, Idle

LEMMA AnswerKept ==
  ASSUME SettingsInv, NEW a \in Administrators, NEW answer, Answers_(a, answer),
         UNCHANGED <<row, overtaken>>, tested \subseteq tested'
  PROVE  SettingsInv'
BY AnsweredKnowsNothing, OneRequestMoves DEF Answers_

\* On to the next step, with what is known for it.
LEMMA GoneOn ==
  ASSUME SettingsInv, NEW a \in Administrators, NEW step, Goes(a, step),
         acting[a].step # "idle", UNCHANGED <<row, overtaken>>, tested \subseteq tested',
         \/ acting[a].step = "saving" /\ step = "storing"
         \/ acting[a].step = "testing" /\ step = "marking" /\ acting[a].credential \in tested'
  PROVE  SettingsInv'
<1> DEFINE x == [acting[a] EXCEPT !.step = step]
<1>1. RequestKnows(x, row, tested', overtaken)
  <2>1. RequestKnows(acting[a], row, tested, overtaken)
    BY DEF SettingsInv
  <2> QED BY <2>1 DEF RequestKnows
<1>2. acting' = [acting EXCEPT ![a] = x]
  BY DEF Goes
<1> HIDE DEF x
<1> QED BY <1>1, <1>2, OneRequestMoves

LEMMA SettingsKept == SettingsInv /\ [SettingsNext]_settingsVars => SettingsInv'
<1> SUFFICES ASSUME SettingsInv, [SettingsNext]_settingsVars PROVE SettingsInv'
  OBVIOUS
<1>0. /\ \A b \in Administrators : RequestKnows(acting[b], row, tested, overtaken)
      /\ \A p \in Providers : RowAddsUp(p, row[p], tested, overtaken)
      /\ DOMAIN row = Providers /\ DOMAIN acting = Administrators
  BY DEF SettingsInv
<1>1. ASSUME NEW a \in Administrators, NEW p \in Providers, Submit(a, p) PROVE SettingsInv'
  <2>1. PICK valid, new \in BOOLEAN :
          acting' = [acting EXCEPT ![a] =
            [Idle EXCEPT !.step = IF p = "HOLDED" THEN "carrying over" ELSE "saving",
                         !.provider = p, !.valid = valid,
                         !.credential = IF new THEN submitted + 1 ELSE 0]]
    BY <1>1 DEF Submit
  <2> DEFINE x == [Idle EXCEPT !.step = IF p = "HOLDED" THEN "carrying over" ELSE "saving",
                               !.provider = p, !.valid = valid,
                               !.credential = IF new THEN submitted + 1 ELSE 0]
  <2>2. RequestKnows(x, row, tested, overtaken)
    BY DEF RequestKnows, Idle
  <2>3. UNCHANGED <<row, tested, overtaken>>
    BY <1>1 DEF Submit
  <2> HIDE DEF x
  <2> QED BY <2>1, <2>2, <2>3, OneRequestMoves DEF x
<1>2. ASSUME NEW a \in Administrators, readIntegrationConfig(a) PROVE SettingsInv'
  <2> DEFINE x == [acting[a] EXCEPT !.step = "saving", !.template = row["HOLDED"].template]
  <2>1. acting' = [acting EXCEPT ![a] = x] /\ UNCHANGED <<row, tested, overtaken>>
    BY <1>2 DEF readIntegrationConfig
  <2>2. RequestKnows(x, row, tested, overtaken)
    <3>1. acting[a].step = "carrying over" /\ acting[a].provider = "HOLDED"
          /\ "HOLDED" \in Providers
      BY <1>0, <1>2 DEF readIntegrationConfig, Doing, RequestKnows
    <3>2. row["HOLDED"].template
      BY <1>0, <3>1 DEF RowAddsUp
    <3> QED BY <1>0, <3>1, <3>2 DEF RequestKnows
  <2> HIDE DEF x
  <2> QED BY <2>1, <2>2, OneRequestMoves
<1>3. ASSUME NEW a \in Administrators, saveIntegrationSettings(a) PROVE SettingsInv'
  <2>1. /\ Goes(a, "storing") \/ Answers_(a, "storage_unavailable") \/ Answers_(a, "invalid")
        /\ acting[a].step = "saving" /\ UNCHANGED <<row, tested, overtaken>>
    BY <1>3 DEF saveIntegrationSettings, Doing
  <2> QED BY <2>1, GoneOn, AnswerKept
<1>4. ASSUME NEW a \in Administrators, UpsertSettings(a) PROVE SettingsInv'
  <2> DEFINE p == acting[a].provider
             request == acting[a]
  <2>1. /\ RequestKnows(request, row, tested, overtaken) /\ request.step = "storing"
        /\ p \in Providers /\ tested' = tested
        /\ row' = [row EXCEPT ![p] = Updated(row[p], request)]
        /\ acting' = [acting EXCEPT ![a] = [Idle EXCEPT !.answer = "saved"]]
    BY <1>0, <1>4 DEF UpsertSettings, Doing, RequestKnows, Answers_
  <2>2. /\ overtaken \subseteq overtaken'
        /\ \A b \in Administrators :
             acting[b].provider = p /\ acting[b].step \in {"testing", "marking"}
               => request.credential = 0 \/ p \in overtaken'
    BY <1>4 DEF UpsertSettings
  <2>3. /\ {"credential", "template", "verified"} \subseteq DOMAIN row'[p]
        /\ row'[p].template = request.template
        /\ request.credential = 0 => /\ row'[p].credential = row[p].credential
                                     /\ row'[p].verified = row[p].verified
        /\ request.credential # 0 => row'[p].credential # 0 /\ row'[p].verified = FALSE
    BY <1>0, <2>1 DEF Updated, RowAddsUp
  <2>4. \A q \in Providers : RowAddsUp(q, row'[q], tested', overtaken')
    <3>1. RowAddsUp(p, row'[p], tested', overtaken')
      BY <1>0, <2>1, <2>2, <2>3 DEF RowAddsUp, RequestKnows
    <3>2. ASSUME NEW q \in Providers, q # p PROVE RowAddsUp(q, row'[q], tested', overtaken')
      BY <1>0, <2>1, <2>2, <3>2 DEF RowAddsUp
    <3> QED BY <3>1, <3>2
  <2>5. \A b \in Administrators : RequestKnows(acting'[b], row', tested', overtaken')
    <3>1. RequestKnows(acting'[a], row', tested', overtaken')
      BY <1>0, <2>1, AnsweredKnowsNothing
    <3>2. ASSUME NEW b \in Administrators, b # a
          PROVE  RequestKnows(acting'[b], row', tested', overtaken')
      <4>1. acting'[b] = acting[b] /\ RequestKnows(acting[b], row, tested, overtaken)
        BY <1>0, <2>1, <3>2
      <4>2. \A q \in Providers : q # p => row'[q] = row[q]
        BY <1>0, <2>1
      <4>3. acting[b].step \in {"testing", "marking"} =>
              \/ row'[acting[b].provider].credential = row[acting[b].provider].credential
              \/ acting[b].provider \in overtaken'
        <5>1. acting[b].step \in {"testing", "marking"} => acting[b].provider \in Providers
          BY <4>1 DEF RequestKnows
        <5> HIDE DEF p, request
        <5> QED BY <2>2, <2>3, <4>2, <5>1
      <4>4. tested \subseteq tested' /\ overtaken \subseteq overtaken'
        BY <2>1, <2>2
      <4> HIDE DEF p, request
      <4>5. RequestKnows(acting[b], row', tested', overtaken')
        BY <4>1, <4>3, <4>4, KnowledgeKept
      <4> QED BY <4>1, <4>5
    <3> QED BY <3>1, <3>2
  <2> QED BY <1>0, <2>1, <2>4, <2>5 DEF SettingsInv
<1>5. ASSUME NEW a \in Administrators, NEW p \in Providers, testIntegration(a, p)
      PROVE  SettingsInv'
  <2> DEFINE x == [Idle EXCEPT !.step = "testing", !.provider = p,
                               !.credential = row[p].credential]
  <2>1. /\ acting' = [acting EXCEPT ![a] = x]
           \/ acting' = [acting EXCEPT ![a] = [Idle EXCEPT !.answer = Resolves(p)]]
        /\ UNCHANGED <<row, tested, overtaken>>
    BY <1>5 DEF testIntegration
  <2>2. RequestKnows(x, row, tested, overtaken)
    BY DEF RequestKnows, Idle
  <2> HIDE DEF x
  <2> QED BY <2>1, <2>2, AnsweredKnowsNothing, OneRequestMoves
<1>6. ASSUME NEW a \in Administrators, TestAnswered(a) PROVE SettingsInv'
  <2>1. /\ acting[a].step = "testing" /\ UNCHANGED <<row, overtaken>>
        /\ \/ Goes(a, "marking") /\ tested' = tested \cup {acting[a].credential}
           \/ \E error \in ServiceErrors : Answers_(a, error) /\ UNCHANGED tested
    BY <1>6 DEF TestAnswered, Doing
  <2> QED BY <2>1, GoneOn, AnswerKept
<1>7. ASSUME NEW a \in Administrators, markIntegrationVerified(a) PROVE SettingsInv'
  <2> DEFINE p == acting[a].provider
  <2>1. /\ RequestKnows(acting[a], row, tested, overtaken) /\ acting[a].step = "marking"
        /\ p \in Providers /\ UNCHANGED <<tested, overtaken>>
        /\ row' = [row EXCEPT ![p].verified = TRUE]
        /\ acting' = [acting EXCEPT ![a] = [Idle EXCEPT !.answer = "verified"]]
    BY <1>0, <1>7 DEF markIntegrationVerified, Doing, RequestKnows, Answers_
  <2>2. row[p].credential \in tested \/ p \in overtaken
    BY <2>1 DEF RequestKnows
  <2>3. \A q \in Providers : /\ RowAddsUp(q, row'[q], tested, overtaken)
                             /\ row'[q].credential = row[q].credential
    BY <1>0, <2>1, <2>2 DEF RowAddsUp
  <2>4. \A b \in Administrators : RequestKnows(acting'[b], row', tested, overtaken)
    <3> SUFFICES ASSUME NEW b \in Administrators
                 PROVE  RequestKnows(acting'[b], row', tested, overtaken)
      OBVIOUS
    <3>1. acting[b].step \in {"testing", "marking"} => acting[b].provider \in Providers
      BY <1>0 DEF RequestKnows
    <3>2. RequestKnows(acting[b], row', tested, overtaken)
      BY <1>0, <2>3, <3>1, KnowledgeKept
    <3> QED BY <1>0, <2>1, <3>2, AnsweredKnowsNothing
  <2> QED BY <1>0, <2>1, <2>3, <2>4 DEF SettingsInv
<1>8. ASSUME NEW a \in Administrators, readHoldedCatalogues(a) PROVE SettingsInv'
  BY <1>8, AnswerKept DEF readHoldedCatalogues
<1>9. ASSUME NEW key \in {0, 1}, Redeploy(key) PROVE SettingsInv'
  <2>1. RequestKnows(Idle, row, tested, overtaken)
    BY DEF RequestKnows, Idle
  <2> QED BY <1>0, <1>9, <2>1 DEF Redeploy, SettingsInv
<1>10. CASE UNCHANGED settingsVars
  BY <1>0, <1>10 DEF settingsVars, SettingsInv
<1> QED
  BY <1>1, <1>2, <1>3, <1>4, <1>5, <1>6, <1>7, <1>8, <1>9, <1>10 DEF SettingsNext

\* No save in settings.ts, of any number interleaved, loses a credential or the template,
\* and only a test that a save overtakes marks a credential nobody has tested.
THEOREM SettingsStayConsistent == SettingsSpec => []SettingsAddUp
<1>1. SettingsInv => SettingsAddUp
  BY DEF SettingsInv, RowAddsUp, SettingsAddUp
<1> QED BY <1>1, SettingsInitially, SettingsKept, PTL DEF SettingsSpec

-----------------------------------------------------------------------------
(* Retention *)

RetentionSpec == RetentionInit /\ [][RetentionNext]_retentionVars

\* Accounts are active only once they exist; runs are of accounts that do, whose start
\* they do not go back behind.
AccountSound(x) ==
  /\ {"exists", "active", "start", "floor"} \subseteq DOMAIN x
  /\ x.start \in Int /\ x.floor \in Int
  /\ x.active => x.exists

RunSound(r, accounts) ==
  /\ {"account", "window", "status", "exhausted", "finished"} \subseteq DOMAIN r
  /\ r.account \in Accounts /\ accounts[r.account].exists
  /\ r.window \in Int /\ r.window >= accounts[r.account].start

EvidenceThere ==
  \A m \in Movements : m \in paid \/ proposal[m] \in Live => m \in imported

RetentionInv ==
  /\ DOMAIN treasury = Accounts /\ \A a \in Accounts : AccountSound(treasury[a])
  /\ \A r \in syncRun : RunSound(r, treasury)
  /\ DOMAIN proposal = Movements /\ EvidenceThere
  /\ today \in Nat
  /\ {"at", "left", "account", "floor", "doomed"} \subseteq DOMAIN pass
  /\ pass.floor \in Int

LEMMA RetentionInitially == RetentionInit => RetentionInv
BY DEF RetentionInit, RetentionInv, AccountSound, EvidenceThere, Live, NoPass, Never

\* Both windows a run is given begin at the account's start or later.
LEMMA WindowsBeginLater ==
  ASSUME RetentionInv, NEW a \in Accounts,
         NEW window \in {scheduledBankSyncWindowStart(a), fullBankSyncWindowStart(a)}
  PROVE  window \in Int /\ window >= treasury[a].start
<1> DEFINE full == fullBankSyncWindowStart(a)
           recent == today - RecentDays
<1>1. full \in Int /\ full >= treasury[a].start
  BY DEF fullBankSyncWindowStart, RetentionInv, AccountSound
<1>2. recent \in Int
  BY RetentionAssumption DEF RetentionInv
<1>3. window = full \/ (window = recent /\ recent > full)
  BY DEF scheduledBankSyncWindowStart
<1> HIDE DEF full, recent
<1> QED BY <1>1, <1>2, <1>3 DEF RetentionInv, AccountSound

\* Steps that leave the evidence and the accounts alone.
LEMMA RunsReplaced ==
  ASSUME RetentionInv, UNCHANGED <<treasury, imported, proposal, paid, today>>,
         UNCHANGED pass \/ pass' = NoPass,
         \A r \in syncRun' : r \in syncRun \/ RunSound(r, treasury)
  PROVE  RetentionInv'
BY DEF RetentionInv, EvidenceThere, NoPass, Never

LEMMA RetentionKept == RetentionInv /\ [RetentionNext]_retentionVars => RetentionInv'
<1> SUFFICES ASSUME RetentionInv, [RetentionNext]_retentionVars PROVE RetentionInv'
  OBVIOUS
<1>0. /\ DOMAIN treasury = Accounts /\ \A a \in Accounts : AccountSound(treasury[a])
      /\ \A r \in syncRun : RunSound(r, treasury)
      /\ DOMAIN proposal = Movements /\ EvidenceThere /\ today \in Nat
      /\ {"at", "left", "account", "floor", "doomed"} \subseteq DOMAIN pass
      /\ pass.floor \in Int
  BY DEF RetentionInv
<1>1. ASSUME NEW a \in Accounts, NEW start \in 0 .. MaxDay, saveTreasuryAccount(a, start)
      PROVE  RetentionInv'
  <2>1. /\ treasury' = [b \in Accounts |->
             IF b = a
             THEN [treasury[a] EXCEPT !.exists = TRUE, !.active = TRUE, !.start = start]
             ELSE [treasury[b] EXCEPT !.active = FALSE]]
        /\ UNCHANGED <<imported, proposal, paid, pass, today>> /\ start \in Int
    BY <1>1 DEF saveTreasuryAccount
  <2>2. \A b \in Accounts :
          /\ AccountSound(treasury'[b])
          /\ treasury[b].exists => treasury'[b].exists
          /\ b # a => treasury'[b].start = treasury[b].start
    BY <1>0, <2>1 DEF AccountSound
  <2>3. treasury'[a].exists /\ treasury'[a].start = start
    BY <1>0, <2>1 DEF AccountSound
  <2>4. \A r \in syncRun : r.account = a => start = treasury[a].start
    BY <1>0, <1>1 DEF saveTreasuryAccount, RunSound
  <2>5. \A r \in syncRun : RunSound(r, treasury')
    BY <1>0, <2>2, <2>3, <2>4 DEF RunSound
  <2>6. RunSound(Queued(a, start), treasury')
    BY <2>1, <2>3 DEF RunSound, Queued
  <2>7. \A r \in syncRun' : RunSound(r, treasury')
    BY <1>1, <2>5, <2>6 DEF saveTreasuryAccount
  <2> QED BY <1>0, <2>1, <2>2, <2>7 DEF RetentionInv, EvidenceThere
<1>2. ASSUME NEW a \in Accounts, QueueRun(a) PROVE RetentionInv'
  <2>1. treasury[a].exists
    BY <1>0, <1>2 DEF QueueRun, AccountSound
  <2>2. PICK window \in {scheduledBankSyncWindowStart(a), fullBankSyncWindowStart(a)} \cup
                        {r.window : r \in {s \in syncRun : s.account = a
                                             /\ s.status \in {"PARTIAL", "FAILED"}}} :
          syncRun' = syncRun \cup {Queued(a, window)}
    BY <1>2 DEF QueueRun
  <2>3. window \in Int /\ window >= treasury[a].start
    <3>1. ASSUME NEW r \in syncRun, r.account = a, window = r.window
          PROVE  window \in Int /\ window >= treasury[a].start
      BY <1>0, <3>1 DEF RunSound
    <3> QED BY <2>2, <3>1, WindowsBeginLater
  <2>4. RunSound(Queued(a, window), treasury)
    BY <2>1, <2>3 DEF RunSound, Queued
  <2>5. UNCHANGED <<treasury, imported, proposal, paid, pass, today>>
    BY <1>2 DEF QueueRun
  <2> QED BY <2>2, <2>4, <2>5, RunsReplaced
<1>3. ASSUME NEW a \in Accounts, ReadDoomed(a) PROVE RetentionInv'
  <2> DEFINE floor == EffectiveFloor(a)
  <2>1. floor \in Int
    BY <1>0, RetentionAssumption DEF EffectiveFloor, CandidateFloor, AccountSound, Never
  <2>2. /\ pass' = [pass EXCEPT !.left = pass.left \ {a}]
           \/ \E doomed : pass' = [pass EXCEPT !.left = pass.left \ {a}, !.at = "erasing",
                                     !.account = a, !.floor = floor, !.doomed = doomed]
        /\ UNCHANGED <<treasury, syncRun, imported, proposal, paid, today>>
    BY <1>3 DEF ReadDoomed
  <2> HIDE DEF floor
  <2>3. {"at", "left", "account", "floor", "doomed"} \subseteq DOMAIN pass'
        /\ pass'.floor \in Int
    BY <1>0, <2>1, <2>2
  <2> QED BY <1>0, <2>2, <2>3 DEF RetentionInv, EvidenceThere
<1>4. ASSUME NEW m \in Movements,
             ImportMovement(m) \/ Propose(m) \/ Confirm(m) \/ Dismiss(m)
      PROVE  RetentionInv'
  <2>1. /\ UNCHANGED <<treasury, syncRun, pass, today>> /\ DOMAIN proposal' = Movements
        /\ imported \subseteq imported' /\ paid' \subseteq paid \cup {m}
        /\ \A n \in Movements : n # m => proposal'[n] = proposal[n]
        /\ m \in imported'
    BY <1>0, <1>4 DEF ImportMovement, Propose, Confirm, Dismiss, ProposalMoves
  <2>2. EvidenceThere'
    BY <1>0, <2>1 DEF EvidenceThere
  <2> QED BY <1>0, <2>1, <2>2 DEF RetentionInv
<1>5. ASSUME NEW r \in syncRun, RunEnds(r) PROVE RetentionInv'
  <2>1. PICK outcome, exhausted :
          syncRun' = (syncRun \ {r}) \cup
            {[r EXCEPT !.status = outcome, !.finished = today, !.exhausted = exhausted]}
    BY <1>5 DEF RunEnds
  <2>2. RunSound([r EXCEPT !.status = outcome, !.finished = today, !.exhausted = exhausted],
                 treasury)
    BY <1>0 DEF RunSound
  <2>3. UNCHANGED <<treasury, imported, proposal, paid, pass, today>>
    BY <1>5 DEF RunEnds
  <2> QED BY <2>1, <2>2, <2>3, RunsReplaced
<1>6. CASE StartPass
  <2>1. {"at", "left", "account", "floor", "doomed"} \subseteq DOMAIN pass'
        /\ pass'.floor \in Int
    BY <1>6 DEF StartPass, NoPass, Never
  <2> QED BY <1>0, <1>6, <2>1 DEF StartPass, RetentionInv, EvidenceThere
<1>7. CASE Erase
  <2>1. CASE Restricted = {}
    <3>1. /\ treasury' = [treasury EXCEPT ![pass.account].floor = pass.floor]
          /\ imported' = imported \ pass.doomed
          /\ proposal' = [m \in Movements |->
               IF m \in pass.doomed /\ proposal[m] \notin Live THEN "none" ELSE proposal[m]]
          /\ pass' = [pass EXCEPT !.at = "between", !.account = "none",
                                  !.floor = Never, !.doomed = {}]
          /\ UNCHANGED <<syncRun, paid, today>>
      BY <1>7, <2>1 DEF Erase
    <3>2. EvidenceThere'
      BY <1>0, <2>1, <3>1 DEF EvidenceThere, Restricted, Live
    <3>3. \A a \in Accounts : /\ AccountSound(treasury'[a])
                              /\ treasury'[a].exists = treasury[a].exists
                              /\ treasury'[a].start = treasury[a].start
      BY <1>0, <3>1 DEF AccountSound
    <3>4. \A r \in syncRun : RunSound(r, treasury')
      BY <1>0, <3>3 DEF RunSound
    <3>5. {"at", "left", "account", "floor", "doomed"} \subseteq DOMAIN pass'
          /\ pass'.floor \in Int
      BY <1>0, <3>1 DEF Never
    <3> QED BY <1>0, <3>1, <3>2, <3>3, <3>4, <3>5 DEF RetentionInv
  <2>2. CASE Restricted # {}
    BY <1>7, <2>2, RunsReplaced DEF Erase
  <2> QED BY <2>1, <2>2
<1>8. CASE PruneRuns \/ PassDies
  BY <1>8, RunsReplaced DEF PruneRuns, PassDies
<1>9. CASE DayPasses \/ UNCHANGED retentionVars
  BY <1>0, <1>9 DEF DayPasses, retentionVars, RetentionInv, EvidenceThere
<1> QED
  BY <1>1, <1>2, <1>3, <1>4, <1>5, <1>6, <1>7, <1>8, <1>9 DEF RetentionNext

\* The pass of retention.ts never erases what a payment or a live proposal rests on.
THEOREM RetentionKeepsEvidence == RetentionSpec => []EvidenceKept
<1>1. RetentionInv => EvidenceKept
  BY DEF RetentionInv, EvidenceThere, RunSound, EvidenceKept
<1> QED BY <1>1, RetentionInitially, RetentionKept, PTL DEF RetentionSpec

-----------------------------------------------------------------------------
(* The gate a mail passes *)

GateSpec == GateInit /\ [][GateNext]_gateVars

\* Where a request may be, and how it may have ended.
MailSteps == {"idle", "answered", "parsing", "allowed", "reading", "claiming", "probing",
              "recording", "releasing", "sending"}

MailResults == {"none", "rate_limited", "invalid", "error", "unavailable", "accepted",
                "authentication", "invalid_request", "provider_unavailable", "unknown"}

Mail == [step : MailSteps, observed : Nat, seen : [count : Int, resetAt : Int],
         healthy : BOOLEAN, taken : BOOLEAN, result : MailResults]

GateTypeOK ==
  /\ tick \in Nat /\ {sound, ill, locked} \subseteq Int
  /\ bucket \in [Keys -> [count : Int, resetAt : Int]]
  /\ mailing \in [Mailers -> Mail]
  /\ let \in [DOMAIN Allowance -> Seq(Nat)]

\* Rows of health and lock are as old as the probe, or the claim, they are of.
HealthTells(entry) ==
  \/ entry = None
  \/ entry.count = 0 /\ entry.resetAt <= sound + HealthCache
  \/ entry.count = 1 /\ entry.resetAt <= ill + HealthCache

RowsTell ==
  /\ sound <= tick /\ ill <= tick /\ locked <= tick
  /\ HealthTells(bucket["health"])
  /\ bucket["lock"] = None \/ bucket["lock"].resetAt <= locked + HealthLock

ProbedMeanwhile(observed) == locked > observed - HealthLock

\* What a request knows and concludes is what the rows told it, or its own probe.
Tells(mail) ==
  /\ mail.observed <= tick /\ (mail.step # "answered" => mail.result = "none")
  /\ mail.step = "claiming" => HealthTells(mail.seen)
  /\ mail.step \in {"recording", "releasing"} =>
       mail.observed <= IF mail.healthy THEN sound ELSE ill
  /\ mail.step = "sending" =>
       sound > mail.observed - HealthCache \/ ProbedMeanwhile(mail.observed)
  /\ mail.result = "unavailable" =>
       ill > mail.observed - HealthCache \/ ProbedMeanwhile(mail.observed)
  /\ mail.result = "accepted" => mail.taken

MailersTell == \A r \in Mailers : Tells(mailing[r])

\* In the window that began at start, the attempts after the first j were let through;
\* the window before it let through an allowance at most.
InWindow(entry, times, allowance, now, start, j) ==
  /\ Len(times) <= j + allowance
  /\ \A i \in 1 .. Len(times) :
       /\ i <= j => times[i] < start
       /\ i > j => start <= times[i] /\ times[i] < start + Window
       /\ i + allowance <= j => times[i] < start - Window
  /\ entry = None => start + Window <= now
  /\ entry # None => start + Window = entry.resetAt /\ Len(times) <= j + entry.count

SomeWindow(entry, times, allowance, now) ==
  \E start \in -Window .. now : \E j \in 0 .. Len(times) :
    InWindow(entry, times, allowance, now, start, j)

Spaced(times, allowance) ==
  \A i \in 1 .. Len(times) :
    i + 2 * allowance <= Len(times) => times[i + 2 * allowance] >= times[i] + Window

AllowancesKept ==
  \A k \in DOMAIN Allowance :
    Spaced(let[k], Allowance[k]) /\ SomeWindow(bucket[k], let[k], Allowance[k], tick)

GateInv == GateTypeOK /\ RowsTell /\ MailersTell /\ AllowancesKept

LEMMA GateNumbers ==
  /\ Window \in Nat /\ Window > 0 /\ HealthCache \in Nat /\ HealthCache > 0
  /\ HealthLock \in Nat /\ HealthLock > 0 /\ MaxAttempts \in Nat
  /\ \A k \in DOMAIN Allowance : Allowance[k] \in Nat /\ Allowance[k] > 0
  /\ DOMAIN Allowance = {"client", "address"}
  BY MailGateAssumption

LEMMA NoMailFacts ==
  /\ NoMail \in Mail /\ None \in [count : Int, resetAt : Int] /\ None.resetAt = -1 /\ None.count = -1
  /\ NoMail.step = "idle" /\ NoMail.observed = 0 /\ NoMail.result = "none"
  BY DEF NoMail, Mail, MailSteps, MailResults, None, Row

LEMMA GateInitially == GateInit => GateInv
  <1> SUFFICES ASSUME GateInit PROVE GateInv
    OBVIOUS
  <1>1. GateTypeOK
    BY NoMailFacts, GateNumbers DEF GateInit, GateTypeOK, LongAgo, Mail
  <1>2. RowsTell
    BY GateNumbers DEF GateInit, RowsTell, HealthTells, LongAgo, Keys
  <1>3. MailersTell
    <2>1. ASSUME NEW r \in Mailers PROVE mailing[r] = NoMail
      BY DEF GateInit
    <2>2. tick = 0 /\ 0 <= tick
      BY DEF GateInit
    <2>3. QED
      BY <2>1, <2>2, NoMailFacts, Zenon DEF MailersTell, Tells
  <1>4. ASSUME NEW k \in DOMAIN Allowance
        PROVE  Spaced(let[k], Allowance[k]) /\ SomeWindow(bucket[k], let[k], Allowance[k], tick)
    <2>1. let[k] = << >> /\ Len(let[k]) = 0 /\ bucket[k] = None /\ tick = 0
      BY <1>4 DEF GateInit, Keys
    <2>2. InWindow(None, << >>, Allowance[k], 0, -Window, 0)
      BY GateNumbers DEF InWindow
    <2>3. -Window \in -Window .. tick /\ 0 \in 0 .. Len(let[k])
      BY <2>1, GateNumbers
    <2>4. QED
      BY <2>1, <2>2, <2>3 DEF Spaced, SomeWindow
  <1>5. QED
    BY <1>1, <1>2, <1>3, <1>4 DEF GateInv, AllowancesKept

\* Time goes by, and an expired row may go; the window stays.
LEMMA WindowStays ==
  ASSUME NEW entry \in [count : Int, resetAt : Int], NEW times \in Seq(Nat), NEW allowance \in Nat,
         NEW now \in Nat, NEW then \in Nat, now <= then, SomeWindow(entry, times, allowance, now)
  PROVE  /\ SomeWindow(entry, times, allowance, then)
         /\ entry.resetAt <= now => SomeWindow(None, times, allowance, then)
  <1>1. PICK start \in -Window .. now, j \in 0 .. Len(times) :
          InWindow(entry, times, allowance, now, start, j)
    BY DEF SomeWindow
  <1>2. start \in -Window .. then /\ start \in Int
    BY GateNumbers
  <1>3. InWindow(entry, times, allowance, then, start, j)
    BY <1>1, <1>2, GateNumbers DEF InWindow
  <1>4. entry.resetAt <= now => InWindow(None, times, allowance, then, start, j)
    BY <1>1, <1>2, GateNumbers DEF InWindow
  <1>5. QED
    BY <1>2, <1>3, <1>4 DEF SomeWindow

LEMMA Untouched ==
  ASSUME GateInv, UNCHANGED <<let, tick>>, \A k \in DOMAIN Allowance : bucket'[k] = bucket[k]
  PROVE  AllowancesKept'
  BY DEF GateInv, AllowancesKept

LEMMA Counts ==
  ASSUME NEW entry \in [count : Int, resetAt : Int], NEW times \in Seq(Nat), NEW a \in Nat, a > 0,
         NEW now \in Nat, NEW counted,
         entry.resetAt <= now => counted.count = 1 /\ counted.resetAt = now + Window,
         ~(entry.resetAt <= now) => counted.count = entry.count + 1 /\ counted.resetAt = entry.resetAt,
         counted # None, NEW longer,
         IF counted.count <= a THEN longer = Append(times, now) ELSE longer = times,
         Spaced(times, a), SomeWindow(entry, times, a, now)
  PROVE  Spaced(longer, a) /\ SomeWindow(counted, longer, a, now)
  <1> DEFINE n == Len(times)
  <1>1. n \in Nat /\ \A i \in 1 .. n : times[i] \in Nat
    OBVIOUS
  <1>2. PICK start \in -Window .. now, j \in 0 .. n : InWindow(entry, times, a, now, start, j)
    BY DEF SomeWindow
  <1>3. Window \in Nat /\ Window > 0
    BY GateNumbers
  <1>4. start \in Int /\ j \in Nat /\ j <= n /\ start <= now
    BY <1>1, <1>3
  <1>5. /\ n <= j + a
        /\ \A i \in 1 .. n :
             /\ i <= j => times[i] < start
             /\ i > j => start <= times[i] /\ times[i] < start + Window
             /\ i + a <= j => times[i] < start - Window
        /\ entry = None => start + Window <= now
        /\ entry # None => start + Window = entry.resetAt /\ n <= j + entry.count
    BY <1>2 DEF InWindow
  <1>6. \A i \in 1 .. n : i + 2 * a <= n => times[i + 2 * a] >= times[i] + Window
    BY DEF Spaced
  <1>7. /\ entry = None => entry.resetAt <= now
        /\ entry.resetAt <= now => start + Window <= now
    BY <1>5, NoMailFacts
  <1> HIDE DEF n
  \* The window of the attempt is a new one, or the one that was.
  <1> DEFINE begin == IF entry.resetAt <= now THEN now ELSE start
             before == IF entry.resetAt <= now THEN n ELSE j
  <1>8. /\ begin \in -Window .. now /\ before \in 0 .. n /\ begin \in Int /\ before \in Nat
        /\ before <= n /\ now < begin + Window /\ begin <= now /\ n <= before + a
    BY <1>1, <1>3, <1>4, <1>5, <1>7
  <1>9. begin + Window = counted.resetAt /\ n + 1 <= before + counted.count
    BY <1>1, <1>3, <1>4, <1>5, <1>7
  <1>10. ASSUME NEW i \in 1 .. n
         PROVE  /\ i <= before => times[i] < begin
                /\ i > before => begin <= times[i] /\ times[i] < begin + Window
                /\ i + a <= before => times[i] < begin - Window
    <2>1. CASE entry.resetAt <= now
      <3>1. times[i] < now
        <4>1. times[i] \in Nat /\ (times[i] < start \/ times[i] < start + Window)
          BY <1>1, <1>4, <1>5
        <4>2. QED
          BY <4>1, <1>3, <1>4, <1>7, <2>1
      <3>2. i + a <= n => i <= j
        BY <1>1, <1>4, <1>5
      <3>3. i + a <= n => times[i] < now - Window
        <4>1. i + a <= n => times[i] < start /\ times[i] \in Nat
          BY <3>2, <1>1, <1>5
        <4>2. QED
          BY <4>1, <1>3, <1>4, <1>7, <2>1
      <3>4. QED
        BY <1>1, <2>1, <3>1, <3>3
    <2>2. CASE ~(entry.resetAt <= now)
      BY <2>2, <1>5
    <2>3. QED
      BY <2>1, <2>2
  <1>11. counted.count \in Int
    BY <1>4
  <1> HIDE DEF begin, before
  <1>12. CASE counted.count <= a
    <2>1. /\ Len(longer) = n + 1 /\ longer[n + 1] = now
          /\ \A i \in 1 .. n : longer[i] = times[i]
      BY <1>12 DEF n
    <2>2. n + 1 <= before + a
      BY <1>1, <1>8, <1>9, <1>11, <1>12
    <2>3. ASSUME NEW i \in 1 .. n + 1, i + 2 * a <= n + 1
          PROVE  longer[i + 2 * a] >= longer[i] + Window
      <3>1. i \in 1 .. n
        BY <2>3, <1>1
      <3>2. CASE i + 2 * a <= n
        <4>1. i + 2 * a \in 1 .. n
          BY <3>1, <3>2, <1>1
        <4>2. QED
          BY <3>1, <3>2, <4>1, <2>1, <1>6
      <3>3. CASE i + 2 * a = n + 1
        <4>1. i + a <= before
          BY <3>3, <2>2, <3>1, <1>1, <1>8
        <4>2. times[i] < begin - Window /\ times[i] \in Nat
          BY <4>1, <3>1, <1>1, <1>10
        <4>3. longer[i + 2 * a] = now /\ longer[i] = times[i]
          BY <3>1, <3>3, <2>1
        <4>4. QED
          BY <4>2, <4>3, <1>3, <1>8
      <3>4. QED
        BY <2>3, <3>1, <3>2, <3>3, <1>1
    <2>4. ASSUME NEW i \in 1 .. n + 1
          PROVE  /\ i <= before => longer[i] < begin
                 /\ i > before => begin <= longer[i] /\ longer[i] < begin + Window
                 /\ i + a <= before => longer[i] < begin - Window
      <3>1. CASE i = n + 1
        BY <3>1, <2>1, <1>8, <1>1
      <3>2. CASE i # n + 1
        <4>1. i \in 1 .. n
          BY <3>2, <1>1
        <4>2. QED
          BY <4>1, <2>1, <1>10
      <3>3. QED
        BY <3>1, <3>2
    <2>5. InWindow(counted, longer, a, now, begin, before)
      BY <1>9, <2>1, <2>2, <2>4 DEF InWindow
    <2>6. before \in 0 .. Len(longer)
      BY <1>1, <1>8, <2>1
    <2>7. QED
      BY <1>8, <2>1, <2>3, <2>5, <2>6 DEF Spaced, SomeWindow
  <1>13. CASE ~(counted.count <= a)
    <2>1. longer = times
      BY <1>13
    <2>2. n <= before + counted.count
      BY <1>1, <1>8, <1>9, <1>11
    <2>3. InWindow(counted, times, a, now, begin, before)
      BY <1>8, <1>9, <1>10, <2>2 DEF InWindow, n
    <2>4. QED
      BY <1>8, <2>1, <2>3 DEF SomeWindow, n
  <1>14. QED
    BY <1>12, <1>13

LEMMA ConsumesFacts ==
  ASSUME GateInv, NEW r \in Mailers, NEW k \in DOMAIN Allowance, NEW next \in MailSteps,
         consumeSharedRateLimit(r, k, next)
  PROVE  /\ AllowancesKept'
         /\ bucket' \in [Keys -> [count : Int, resetAt : Int]]
         /\ let' \in [DOMAIN Allowance -> Seq(Nat)]
         /\ \A c \in Keys \ {k} : bucket'[c] = bucket[c]
  <1> DEFINE entry == bucket[k]
             counted == Counted(entry)
  <1>1. /\ tick \in Nat /\ entry \in [count : Int, resetAt : Int] /\ k \in Keys
        /\ let[k] \in Seq(Nat) /\ tick' = tick /\ Allowance[k] \in Nat /\ Allowance[k] > 0
    BY GateNumbers DEF GateInv, GateTypeOK, Keys, consumeSharedRateLimit
  <1>2. /\ entry.resetAt <= tick => counted.count = 1 /\ counted.resetAt = tick + Window
        /\ ~(entry.resetAt <= tick) => counted.count = entry.count + 1 /\ counted.resetAt = entry.resetAt
        /\ counted \in [count : Int, resetAt : Int]
    BY <1>1, GateNumbers DEF Counted, Row
  <1>3. counted # None
    BY <1>1, <1>2, GateNumbers, NoMailFacts
  <1>4. /\ bucket' = [bucket EXCEPT ![k] = counted]
        /\ let' = IF counted.count <= Allowance[k]
                  THEN [let EXCEPT ![k] = Append(@, tick)] ELSE let
    BY DEF consumeSharedRateLimit, Allowed
  <1> HIDE DEF counted
  <1>5. /\ bucket'[k] = counted /\ \A c \in Keys \ {k} : bucket'[c] = bucket[c]
        /\ bucket' \in [Keys -> [count : Int, resetAt : Int]]
    BY <1>1, <1>2, <1>4 DEF GateInv, GateTypeOK
  <1>6. /\ IF counted.count <= Allowance[k] THEN let'[k] = Append(let[k], tick) ELSE let'[k] = let[k]
        /\ \A c \in DOMAIN Allowance \ {k} : let'[c] = let[c]
        /\ let' \in [DOMAIN Allowance -> Seq(Nat)]
    BY <1>1, <1>4 DEF GateInv, GateTypeOK
  <1>7. Spaced(let[k], Allowance[k]) /\ SomeWindow(entry, let[k], Allowance[k], tick)
    BY DEF GateInv, AllowancesKept
  <1> HIDE DEF entry
  <1>8. Spaced(let'[k], Allowance[k]) /\ SomeWindow(bucket'[k], let'[k], Allowance[k], tick)
    BY <1>1, <1>2, <1>3, <1>5, <1>6, <1>7, Counts
  <1>9. ASSUME NEW c \in DOMAIN Allowance
        PROVE  /\ Spaced(let'[c], Allowance[c])
               /\ SomeWindow(bucket'[c], let'[c], Allowance[c], tick')
    <2>1. CASE c = k
      BY <1>1, <1>8, <2>1
    <2>2. CASE c # k
      <3>1. c \in Keys \ {k} /\ bucket'[c] = bucket[c] /\ let'[c] = let[c] /\ tick' = tick
        BY <1>1, <1>5, <1>6, <2>2 DEF Keys
      <3>2. Spaced(let[c], Allowance[c]) /\ SomeWindow(bucket[c], let[c], Allowance[c], tick)
        BY DEF GateInv, AllowancesKept
      <3>3. QED
        BY <3>1, <3>2
    <2>3. QED
      BY <2>1, <2>2
  <1>10. QED
    BY <1>5, <1>6, <1>9 DEF AllowancesKept

\* The provider's health, the lock and the clock only get newer.
LEMMA StillTells ==
  ASSUME GateTypeOK, GateTypeOK', sound <= sound', ill <= ill', locked <= locked', tick <= tick',
         NEW mail \in Mail, Tells(mail)
  PROVE  Tells(mail)'
  <1>1. /\ sound \in Int /\ sound' \in Int /\ ill \in Int /\ ill' \in Int /\ locked \in Int
        /\ locked' \in Int /\ tick \in Int /\ tick' \in Int
    BY DEF GateTypeOK
  <1>2. mail.observed \in Int /\ mail.seen.resetAt \in Int /\ mail.healthy \in BOOLEAN
    BY DEF Mail
  <1>3. QED
    BY <1>1, <1>2, GateNumbers DEF Tells, HealthTells, ProbedMeanwhile

LEMMA MailersStay ==
  ASSUME GateInv, GateTypeOK', sound <= sound', ill <= ill', locked <= locked', tick <= tick',
         NEW r \in Mailers, NEW changed \in Mail, Moves(r, changed), Tells(changed)'
  PROVE  MailersTell'
  <1>1. ASSUME NEW q \in Mailers PROVE Tells(mailing[q])'
    <2>1. CASE q = r
      <3>1. mailing'[q] = changed
        BY <2>1 DEF Moves, GateInv, GateTypeOK
      <3>2. QED
        BY <3>1
    <2>2. CASE q # r
      <3>1. mailing'[q] = mailing[q] /\ mailing[q] \in Mail
        BY <2>2 DEF Moves, GateInv, GateTypeOK
      <3>2. Tells(mailing[q])
        BY DEF GateInv, MailersTell
      <3>3. GateTypeOK
        BY DEF GateInv
      <3>4. QED
        BY <3>1, <3>2, <3>3, StillTells
    <2>3. QED
      BY <2>1, <2>2
  <1>2. QED
    BY <1>1 DEF MailersTell

\* The records of a request that has done with everything, and of one on its way.
LEMMA MailFacts ==
  ASSUME GateInv, NEW r \in Mailers
  PROVE  /\ mailing[r] \in Mail /\ mailing[r].observed \in Nat
         /\ mailing[r].seen \in [count : Int, resetAt : Int] /\ mailing[r].healthy \in BOOLEAN
         /\ Tells(mailing[r])
         /\ tick \in Nat /\ sound \in Int /\ ill \in Int /\ locked \in Int
         /\ sound <= tick /\ ill <= tick /\ locked <= tick
  BY DEF GateInv, GateTypeOK, Mail, MailersTell, RowsTell

LEMMA AnswerFacts ==
  ASSUME GateInv, NEW r \in Mailers,
         NEW result \in {"rate_limited", "invalid", "error", "unavailable"}, Answer(r, result)
  PROVE  \E mail \in Mail :
           /\ Moves(r, mail) /\ mail.step = "answered" /\ mail.result = result
           /\ mail.observed = IF result = "unavailable" THEN mailing[r].observed ELSE 0
  <1> DEFINE mail == [NoMail EXCEPT !.step = "answered", !.result = result,
                        !.observed = IF result = "unavailable" THEN mailing[r].observed ELSE 0]
  <1>1. Moves(r, mail)
    BY DEF Answer
  <1>2. (IF result = "unavailable" THEN mailing[r].observed ELSE 0) \in Nat
    BY MailFacts
  <1>3. /\ mail \in Mail /\ mail.step = "answered" /\ mail.result = result
        /\ mail.observed = IF result = "unavailable" THEN mailing[r].observed ELSE 0
    <2> DEFINE observed == IF result = "unavailable" THEN mailing[r].observed ELSE 0
    <2>1. observed \in Nat /\ mail = [NoMail EXCEPT !.step = "answered", !.result = result, !.observed = observed]
      BY <1>2
    <2> HIDE DEF observed, mail
    <2>2. mail = [step |-> "answered", observed |-> observed, seen |-> None, healthy |-> FALSE,
                  taken |-> FALSE, result |-> result]
      BY <2>1 DEF NoMail
    <2>3. mail \in Mail /\ mail.step = "answered" /\ mail.result = result /\ mail.observed = observed
      BY <2>1, <2>2, NoMailFacts DEF Mail, MailSteps, MailResults
    <2>4. QED
      BY <2>3 DEF observed
  <1> HIDE DEF mail
  <1>4. QED
    BY <1>1, <1>3

LEMMA POSTKept ==
  ASSUME GateInv, NEW r \in Mailers, NEW k \in DOMAIN Allowance,
         NEW next \in {"parsing", "allowed"}, consumeSharedRateLimit(r, k, next)
  PROVE  GateInv'
  <1>1. next \in MailSteps /\ UNCHANGED <<sound, ill, locked, tick>>
    BY DEF MailSteps, consumeSharedRateLimit
  <1>2. /\ AllowancesKept' /\ bucket' \in [Keys -> [count : Int, resetAt : Int]]
        /\ let' \in [DOMAIN Allowance -> Seq(Nat)]
        /\ \A c \in Keys \ {k} : bucket'[c] = bucket[c]
    BY <1>1, ConsumesFacts
  <1>3. PICK mail \in Mail : Moves(r, mail) /\ mail.observed = 0 /\ mail.result \in {"none", "rate_limited"}
                             /\ \/ mail.step \in {"parsing", "allowed"} /\ mail.result = "none"
                                \/ mail.step = "answered"
    <2>1. CASE Moves(r, [NoMail EXCEPT !.step = next])
      <3>1. [NoMail EXCEPT !.step = next] \in Mail
        BY <1>1, NoMailFacts DEF Mail
      <3>2. /\ [NoMail EXCEPT !.step = next].observed = 0 /\ [NoMail EXCEPT !.step = next].result = "none"
            /\ [NoMail EXCEPT !.step = next].step = next
        BY DEF NoMail
      <3>3. QED
        BY <2>1, <3>1, <3>2
    <2>2. CASE Answer(r, "rate_limited")
      BY <2>2, AnswerFacts
    <2>3. QED
      BY <2>1, <2>2 DEF consumeSharedRateLimit
  <1>4. mailing' \in [Mailers -> Mail]
    BY <1>3 DEF Moves, GateInv, GateTypeOK
  <1>5. GateTypeOK'
    BY <1>1, <1>2, <1>4 DEF GateInv, GateTypeOK
  <1>6. RowsTell'
    <2>1. "health" \in Keys \ {k} /\ "lock" \in Keys \ {k}
      BY GateNumbers DEF Keys
    <2>2. QED
      BY <1>1, <1>2, <2>1 DEF GateInv, RowsTell, HealthTells
  <1>7. Tells(mail)'
    BY <1>1, <1>3, MailFacts DEF Tells
  <1>8. MailersTell'
    BY <1>1, <1>3, <1>5, <1>7, MailersStay, MailFacts
  <1>9. QED
    BY <1>2, <1>5, <1>6, <1>8 DEF GateInv

\* A step of one request that writes neither allowances nor the clock.
LEMMA GoesOn ==
  ASSUME GateInv, NEW r \in Mailers, NEW mail \in Mail, Moves(r, mail), UNCHANGED <<let, tick>>,
         {sound', ill', locked'} \subseteq Int, sound <= sound', ill <= ill', locked <= locked',
         bucket' \in [Keys -> [count : Int, resetAt : Int]],
         \A k \in DOMAIN Allowance : bucket'[k] = bucket[k], RowsTell', Tells(mail)'
  PROVE  GateInv'
  <1>1. mailing' \in [Mailers -> Mail]
    BY DEF Moves, GateInv, GateTypeOK
  <1>2. GateTypeOK'
    BY <1>1 DEF GateInv, GateTypeOK
  <1>3. MailersTell'
    BY <1>2, MailersStay, MailFacts
  <1>4. QED
    BY <1>2, <1>3, Untouched DEF GateInv

\* ... and no row, no health and no lock either.
LEMMA StepsQuietly ==
  ASSUME GateInv, NEW r \in Mailers, NEW mail \in Mail, Moves(r, mail),
         UNCHANGED <<bucket, sound, ill, locked, let, tick>>, Tells(mail)
  PROVE  GateInv'
  <1>1. RowsTell'
    BY DEF GateInv, RowsTell, HealthTells
  <1>2. Tells(mail)'
    BY DEF Tells, HealthTells, ProbedMeanwhile
  <1>3. /\ {sound', ill', locked'} \subseteq Int /\ sound <= sound' /\ ill <= ill' /\ locked <= locked'
        /\ bucket' \in [Keys -> [count : Int, resetAt : Int]]
    BY DEF GateInv, GateTypeOK
  <1>4. QED
    BY <1>1, <1>2, <1>3, GoesOn

LEMMA AnswersQuietly ==
  ASSUME GateInv, NEW r \in Mailers, NEW result \in {"invalid", "error", "unavailable"},
         Answer(r, result), UNCHANGED <<bucket, sound, ill, locked, let, tick>>,
         result = "unavailable" =>
           ill > mailing[r].observed - HealthCache \/ ProbedMeanwhile(mailing[r].observed)
  PROVE  GateInv'
  <1>1. PICK mail \in Mail :
          /\ Moves(r, mail) /\ mail.step = "answered" /\ mail.result = result
          /\ mail.observed = IF result = "unavailable" THEN mailing[r].observed ELSE 0
    BY AnswerFacts
  <1>2. Tells(mail)
    BY <1>1, MailFacts DEF Tells
  <1>3. QED
    BY <1>1, <1>2, StepsQuietly

LEMMA SnapshotFacts ==
  ASSUME GateInv, NEW r \in Mailers, NEW available \in BOOLEAN, snapshotResult(r, available)
  PROVE  \E mail \in Mail :
           /\ Moves(r, mail) /\ mail.observed = mailing[r].observed
           /\ IF available THEN mail.step = "sending" /\ mail.result = "none"
              ELSE mail.step = "answered" /\ mail.result = "unavailable"
  <1>1. CASE available
    <2> DEFINE mail == [NoMail EXCEPT !.step = "sending", !.observed = mailing[r].observed]
    <2>1. /\ mail \in Mail /\ mail.step = "sending" /\ mail.result = "none"
          /\ mail.observed = mailing[r].observed
      <3> DEFINE observed == mailing[r].observed
      <3>1. observed \in Nat /\ mail = [NoMail EXCEPT !.step = "sending", !.observed = observed]
        BY MailFacts
      <3> HIDE DEF observed, mail
      <3>2. mail = [step |-> "sending", observed |-> observed, seen |-> None, healthy |-> FALSE,
                    taken |-> FALSE, result |-> "none"]
        BY <3>1 DEF NoMail
      <3>3. mail \in Mail /\ mail.step = "sending" /\ mail.result = "none" /\ mail.observed = observed
        BY <3>1, <3>2, NoMailFacts DEF Mail, MailSteps, MailResults
      <3>4. QED
        BY <3>3 DEF observed
    <2>2. Moves(r, mail)
      BY <1>1 DEF snapshotResult
    <2> HIDE DEF mail
    <2>3. QED
      BY <1>1, <2>1, <2>2
  <1>2. CASE ~available
    <2>1. Answer(r, "unavailable")
      BY <1>2 DEF snapshotResult
    <2>2. QED
      BY <1>2, <2>1, AnswerFacts
  <1>3. QED
    BY <1>1, <1>2

LEMMA ObservesKept ==
  ASSUME GateInv, NEW r \in Mailers, Observes(r) PROVE GateInv'
  <1> DEFINE mail == [mailing[r] EXCEPT !.step = "reading", !.observed = tick]
  <1>1. /\ Moves(r, mail) /\ UNCHANGED <<bucket, sound, ill, locked, let, tick>>
        /\ mailing[r].step = "allowed"
    BY DEF Observes, On
  <1>2. /\ mail \in Mail /\ mail.step = "reading" /\ mail.observed = tick
        /\ mail.result = mailing[r].result /\ mail.taken = mailing[r].taken
    BY MailFacts DEF Mail, MailSteps
  <1> HIDE DEF mail
  <1>3. mail.result = "none"
    BY <1>1, <1>2, MailFacts DEF Tells
  <1>4. Tells(mail)
    BY <1>1, <1>2, <1>3, MailFacts DEF Tells
  <1>5. QED
    BY <1>1, <1>2, <1>4, StepsQuietly

LEMMA readsSnapshotKept ==
  ASSUME GateInv, NEW r \in Mailers, readsSnapshot(r) PROVE GateInv'
  <1> DEFINE health == bucket["health"]
             observed == mailing[r].observed
  <1>1. /\ UNCHANGED <<bucket, sound, ill, locked, let, tick>> /\ mailing[r].step = "reading"
        /\ IF health.resetAt > observed THEN snapshotResult(r, health.count = 0)
           ELSE Moves(r, [mailing[r] EXCEPT !.step = "claiming", !.seen = health])
    BY DEF readsSnapshot, On
  <1>2. /\ health \in [count : Int, resetAt : Int] /\ HealthTells(health) /\ observed \in Nat
    BY MailFacts DEF GateInv, GateTypeOK, RowsTell, Keys
  <1> HIDE DEF health, observed
  <1>3. CASE health.resetAt > observed
    <2>1. snapshotResult(r, health.count = 0)
      BY <1>1, <1>3
    <2>2. IF health.count = 0 THEN sound > observed - HealthCache ELSE ill > observed - HealthCache
      BY <1>2, <1>3, GateNumbers, NoMailFacts, MailFacts DEF HealthTells
    <2>3. PICK mail \in Mail :
            /\ Moves(r, mail) /\ mail.observed = observed
            /\ IF health.count = 0 THEN mail.step = "sending" /\ mail.result = "none"
               ELSE mail.step = "answered" /\ mail.result = "unavailable"
      BY <2>1, SnapshotFacts DEF observed
    <2>4. Tells(mail)
      BY <2>2, <2>3, MailFacts DEF Tells, observed
    <2>5. QED
      BY <1>1, <2>3, <2>4, StepsQuietly
  <1>4. CASE ~(health.resetAt > observed)
    <2> DEFINE mail == [mailing[r] EXCEPT !.step = "claiming", !.seen = health]
    <2>1. Moves(r, mail)
      BY <1>1, <1>4
    <2>2. /\ mail \in Mail /\ mail.step = "claiming" /\ mail.observed = mailing[r].observed
          /\ mail.seen = health /\ mail.result = mailing[r].result /\ mail.taken = mailing[r].taken
      BY <1>2, MailFacts DEF Mail, MailSteps
    <2> HIDE DEF mail
    <2>3. Tells(mail)
      BY <1>1, <1>2, <2>2, MailFacts DEF Tells
    <2>4. QED
      BY <1>1, <2>1, <2>2, <2>3, StepsQuietly
  <1>5. QED
    BY <1>3, <1>4

LEMMA claimProbeLockKept ==
  ASSUME GateInv, NEW r \in Mailers, claimProbeLock(r) PROVE GateInv'
  <1> DEFINE lock == bucket["lock"]
             observed == mailing[r].observed
  <1>1. /\ UNCHANGED <<sound, ill, let, tick>> /\ mailing[r].step = "claiming"
        /\ lock \in [count : Int, resetAt : Int] /\ observed \in Nat /\ observed <= tick
    BY MailFacts DEF claimProbeLock, On, GateInv, GateTypeOK, Keys, Tells
  <1>2. CASE lock.resetAt <= observed
    <2>1. /\ bucket' = [bucket EXCEPT !["lock"] = Row(1, observed + HealthLock)]
          /\ locked' = IF observed > locked THEN observed ELSE locked
          /\ Moves(r, [mailing[r] EXCEPT !.step = "probing"])
      BY <1>2 DEF claimProbeLock
    <2>2. PICK mail \in Mail : /\ Moves(r, mail) /\ mail.step = "probing"
                              /\ mail.observed = mailing[r].observed
                              /\ mail.result = mailing[r].result
      <3> DEFINE on == [mailing[r] EXCEPT !.step = "probing"]
      <3>1. on \in Mail /\ on.step = "probing" /\ on.observed = mailing[r].observed
            /\ on.result = mailing[r].result
        BY MailFacts DEF Mail, MailSteps
      <3> HIDE DEF on
      <3>2. Moves(r, on)
        BY <2>1 DEF on
      <3>3. QED
        BY <3>1, <3>2
    <2> HIDE DEF observed, lock
    <2>3. Row(1, observed + HealthLock) \in [count : Int, resetAt : Int]
          /\ Row(1, observed + HealthLock).resetAt = observed + HealthLock
      BY <1>1, GateNumbers DEF Row
    <2>4. /\ bucket' \in [Keys -> [count : Int, resetAt : Int]]
          /\ bucket'["lock"] = Row(1, observed + HealthLock)
          /\ \A k \in Keys \ {"lock"} : bucket'[k] = bucket[k]
      BY <2>1, <2>3 DEF GateInv, GateTypeOK, Keys
    <2>5. locked' \in Int /\ locked <= locked' /\ observed <= locked' /\ locked' <= tick
      BY <1>1, <2>1, MailFacts
    <2>6. RowsTell'
      <3>1. bucket'["health"] = bucket["health"]
        BY <2>4 DEF Keys
      <3>2. bucket'["lock"].resetAt <= locked' + HealthLock
        BY <1>1, <2>3, <2>4, <2>5, GateNumbers
      <3>3. QED
        BY <1>1, <2>5, <3>1, <3>2 DEF GateInv, RowsTell, HealthTells
    <2>7. Tells(mail)'
      <3>1. mail.observed <= tick
        BY <1>1, <2>2 DEF observed
      <3>2. mail.result = "none"
        BY <1>1, <2>2, MailFacts DEF Tells
      <3>3. QED
        BY <1>1, <2>2, <3>1, <3>2 DEF Tells
    <2>8. \A k \in DOMAIN Allowance : bucket'[k] = bucket[k]
      BY <2>4, GateNumbers DEF Keys
    <2>9. QED
      <3>1. {sound', ill', locked'} \subseteq Int /\ sound <= sound' /\ ill <= ill'
        BY <1>1, <2>5, MailFacts
      <3>2. QED
        BY <1>1, <2>1, <2>2, <2>4, <2>5, <2>6, <2>7, <2>8, <3>1, GoesOn
  <1>3. CASE ~(lock.resetAt <= observed)
    <2> DEFINE available == mailing[r].seen.count = 0
    <2>1. snapshotResult(r, available) /\ UNCHANGED <<bucket, locked>>
      BY <1>3 DEF claimProbeLock
    <2>2. ProbedMeanwhile(observed)
      BY <1>1, <1>3, NoMailFacts, GateNumbers, MailFacts DEF GateInv, RowsTell, ProbedMeanwhile
    <2>3. PICK mail \in Mail :
            /\ Moves(r, mail) /\ mail.observed = observed
            /\ IF available THEN mail.step = "sending" /\ mail.result = "none"
               ELSE mail.step = "answered" /\ mail.result = "unavailable"
      BY <2>1, SnapshotFacts
    <2>4. Tells(mail)
      BY <1>1, <2>2, <2>3 DEF Tells
    <2>5. QED
      BY <1>1, <2>1, <2>3, <2>4, StepsQuietly
  <1>4. QED
    BY <1>2, <1>3

LEMMA RowsStillTell ==
  ASSUME GateInv, UNCHANGED <<bucket, tick>>, {sound', ill', locked'} \subseteq Int,
         sound <= sound', ill <= ill', locked <= locked', sound' <= tick, ill' <= tick, locked' <= tick
  PROVE  RowsTell'
  <1> DEFINE health == bucket["health"]
             lock == bucket["lock"]
  <1>1. /\ health \in [count : Int, resetAt : Int] /\ lock \in [count : Int, resetAt : Int]
        /\ HealthTells(health) /\ (lock = None \/ lock.resetAt <= locked + HealthLock)
        /\ {sound, ill, locked} \subseteq Int
    BY DEF GateInv, GateTypeOK, RowsTell, Keys
  <1>2. health' = health /\ lock' = lock /\ tick' = tick
    OBVIOUS
  <1> HIDE DEF health, lock
  <1>3. \/ health = None
        \/ health.count = 0 /\ health.resetAt <= sound' + HealthCache
        \/ health.count = 1 /\ health.resetAt <= ill' + HealthCache
    BY <1>1, GateNumbers DEF HealthTells
  <1>4. lock = None \/ lock.resetAt <= locked' + HealthLock
    BY <1>1, GateNumbers
  <1>5. QED
    BY <1>2, <1>3, <1>4 DEF RowsTell, HealthTells, health, lock

LEMMA probeProviderKept ==
  ASSUME GateInv, NEW r \in Mailers, probeProvider(r) PROVE GateInv'
  <1>1. PICK found \in BOOLEAN :
          /\ Moves(r, [mailing[r] EXCEPT !.step = "recording", !.healthy = found])
          /\ IF found THEN sound' = tick /\ UNCHANGED ill ELSE ill' = tick /\ UNCHANGED sound
    BY DEF probeProvider
  <1>2. UNCHANGED <<bucket, locked, let, tick>> /\ mailing[r].step = "probing"
    BY DEF probeProvider, On
  <1>3. PICK mail \in Mail :
          /\ Moves(r, mail) /\ mail.step = "recording" /\ mail.healthy = found
          /\ mail.observed = mailing[r].observed /\ mail.result = mailing[r].result
    <2> DEFINE on == [mailing[r] EXCEPT !.step = "recording", !.healthy = found]
    <2>1. on \in Mail /\ on.step = "recording" /\ on.healthy = found
          /\ on.observed = mailing[r].observed /\ on.result = mailing[r].result
      BY MailFacts DEF Mail, MailSteps
    <2> HIDE DEF on
    <2>2. Moves(r, on)
      BY <1>1 DEF on
    <2>3. QED
      BY <2>1, <2>2
  <1>4. {sound', ill', locked'} \subseteq Int /\ sound <= sound' /\ ill <= ill' /\ locked <= locked'
        /\ sound' <= tick /\ ill' <= tick
    BY <1>1, <1>2, MailFacts
  <1>5. RowsTell'
    BY <1>2, <1>4, MailFacts, RowsStillTell
  <1>6. Tells(mail)'
    <2>1. mail.observed <= tick /\ mail.result = "none" /\ tick \in Nat
      BY <1>2, <1>3, MailFacts DEF Tells
    <2>2. mail.observed <= IF mail.healthy THEN sound' ELSE ill'
      BY <1>1, <1>3, <2>1
    <2>3. QED
      BY <1>2, <1>3, <2>1, <2>2 DEF Tells
  <1>7. bucket' \in [Keys -> [count : Int, resetAt : Int]]
        /\ \A k \in DOMAIN Allowance : bucket'[k] = bucket[k]
    BY <1>2 DEF GateInv, GateTypeOK
  <1>8. QED
    BY <1>2, <1>3, <1>4, <1>5, <1>6, <1>7, GoesOn

LEMMA RecordsHealthKept ==
  ASSUME GateInv, NEW r \in Mailers, RecordsHealth(r) PROVE GateInv'
  <1> DEFINE count == IF mailing[r].healthy THEN 0 ELSE 1
             resetAt == mailing[r].observed + HealthCache
             entry == Row(count, resetAt)
  <1>1. /\ bucket' = [bucket EXCEPT !["health"] = entry] /\ UNCHANGED <<sound, ill, locked, let, tick>>
        /\ mailing[r].step = "recording"
        /\ Moves(r, [mailing[r] EXCEPT !.step = "releasing", !.seen = None])
    BY DEF RecordsHealth, RefreshAfter, On
  <1>2. PICK mail \in Mail :
          /\ Moves(r, mail) /\ mail.step = "releasing" /\ mail.healthy = mailing[r].healthy
          /\ mail.observed = mailing[r].observed /\ mail.result = mailing[r].result
    <2> DEFINE on == [mailing[r] EXCEPT !.step = "releasing", !.seen = None]
    <2>1. on \in Mail /\ on.step = "releasing" /\ on.healthy = mailing[r].healthy
          /\ on.observed = mailing[r].observed /\ on.result = mailing[r].result
      BY MailFacts, NoMailFacts DEF Mail, MailSteps
    <2> HIDE DEF on
    <2>2. Moves(r, on)
      BY <1>1 DEF on
    <2>3. QED
      BY <2>1, <2>2
  <1>3. entry \in [count : Int, resetAt : Int] /\ entry.count = count /\ entry.resetAt = resetAt
    BY MailFacts, GateNumbers DEF Row
  <1>4. mailing[r].observed <= IF mailing[r].healthy THEN sound ELSE ill
    BY <1>1, MailFacts DEF Tells
  <1>5. HealthTells(entry)
    BY <1>3, <1>4, MailFacts, GateNumbers DEF HealthTells
  <1> HIDE DEF entry
  <1>6. /\ bucket' \in [Keys -> [count : Int, resetAt : Int]] /\ bucket'["health"] = entry
        /\ \A k \in Keys \ {"health"} : bucket'[k] = bucket[k]
    BY <1>1, <1>3 DEF GateInv, GateTypeOK, Keys
  <1>7. \A k \in DOMAIN Allowance : bucket'[k] = bucket[k]
    BY <1>6, GateNumbers DEF Keys
  <1>8. RowsTell'
    <2>1. bucket'["lock"] = bucket["lock"]
      BY <1>6 DEF Keys
    <2>2. QED
      BY <1>1, <1>5, <1>6, <2>1 DEF GateInv, RowsTell, HealthTells
  <1>9. Tells(mail)
    BY <1>1, <1>2, <1>4, MailFacts DEF Tells
  <1>10. Tells(mail)'
    BY <1>1, <1>9 DEF Tells, HealthTells, ProbedMeanwhile
  <1>11. {sound', ill', locked'} \subseteq Int /\ sound <= sound' /\ ill <= ill' /\ locked <= locked'
    BY <1>1, MailFacts
  <1>12. QED
    BY <1>1, <1>2, <1>6, <1>7, <1>8, <1>10, <1>11, GoesOn

LEMMA ReleasesLockKept ==
  ASSUME GateInv, NEW r \in Mailers, ReleasesLock(r) PROVE GateInv'
  <1>1. /\ bucket' = IF bucket["lock"] = None THEN bucket
                     ELSE [bucket EXCEPT !["lock"].resetAt = tick]
        /\ locked' = tick /\ snapshotResult(r, mailing[r].healthy)
        /\ UNCHANGED <<sound, ill, let, tick>> /\ mailing[r].step = "releasing"
    BY DEF ReleasesLock, On
  <1>2. PICK mail \in Mail :
          /\ Moves(r, mail) /\ mail.observed = mailing[r].observed
          /\ IF mailing[r].healthy THEN mail.step = "sending" /\ mail.result = "none"
             ELSE mail.step = "answered" /\ mail.result = "unavailable"
    BY <1>1, MailFacts, SnapshotFacts
  <1>3. /\ bucket' \in [Keys -> [count : Int, resetAt : Int]]
        /\ \A k \in Keys \ {"lock"} : bucket'[k] = bucket[k]
        /\ bucket'["lock"] = None \/ bucket'["lock"].resetAt = tick
    BY <1>1, MailFacts DEF GateInv, GateTypeOK, Keys
  <1>4. \A k \in DOMAIN Allowance : bucket'[k] = bucket[k]
    BY <1>3, GateNumbers DEF Keys
  <1>5. RowsTell'
    <2>1. bucket'["health"] = bucket["health"]
      BY <1>3 DEF Keys
    <2>2. tick <= tick + HealthLock
      BY MailFacts, GateNumbers
    <2>3. QED
      BY <1>1, <1>3, <2>1, <2>2, MailFacts DEF GateInv, RowsTell, HealthTells
  <1>6. Tells(mail)'
    <2>1. mail.observed <= IF mailing[r].healthy THEN sound ELSE ill
      BY <1>1, <1>2, MailFacts DEF Tells
    <2>2. mail.observed \in Nat /\ mail.observed <= tick
      BY <1>2, MailFacts DEF Tells
    <2>3. QED
      BY <1>1, <1>2, <2>1, <2>2, MailFacts, GateNumbers DEF Tells
  <1>7. {sound', ill', locked'} \subseteq Int /\ sound <= sound' /\ ill <= ill' /\ locked <= locked'
    BY <1>1, MailFacts
  <1>8. QED
    BY <1>1, <1>2, <1>3, <1>4, <1>5, <1>6, <1>7, GoesOn

LEMMA GateFailsKept ==
  ASSUME GateInv, NEW r \in Mailers, GateFails(r) PROVE GateInv'
  <1>1. UNCHANGED <<bucket, sound, locked, let, tick>>
    BY DEF GateFails
  <1>2. CASE /\ mailing[r].step = "recording" /\ ill' = tick
             /\ Moves(r, [mailing[r] EXCEPT !.step = "releasing", !.healthy = FALSE])
    <2>1. PICK mail \in Mail :
            /\ Moves(r, mail) /\ mail.step = "releasing" /\ mail.healthy = FALSE
            /\ mail.observed = mailing[r].observed /\ mail.result = mailing[r].result
      <3> DEFINE on == [mailing[r] EXCEPT !.step = "releasing", !.healthy = FALSE]
      <3>1. on \in Mail /\ on.step = "releasing" /\ on.healthy = FALSE
            /\ on.observed = mailing[r].observed /\ on.result = mailing[r].result
        BY MailFacts DEF Mail, MailSteps
      <3> HIDE DEF on
      <3>2. Moves(r, on)
        BY <1>2 DEF on
      <3>3. QED
        BY <3>1, <3>2
    <2>2. {sound', ill', locked'} \subseteq Int /\ sound <= sound' /\ ill <= ill' /\ locked <= locked'
      BY <1>1, <1>2, MailFacts
    <2>3. RowsTell'
      BY <1>1, <1>2, <2>2, MailFacts, RowsStillTell
    <2>4. Tells(mail)'
      <3>1. mail.observed <= tick /\ mail.result = "none"
        BY <1>2, <2>1, MailFacts DEF Tells
      <3>2. QED
        BY <1>1, <1>2, <2>1, <3>1 DEF Tells
    <2>5. bucket' \in [Keys -> [count : Int, resetAt : Int]]
          /\ \A k \in DOMAIN Allowance : bucket'[k] = bucket[k]
      BY <1>1 DEF GateInv, GateTypeOK
    <2>6. QED
      BY <1>1, <2>1, <2>2, <2>3, <2>4, <2>5, GoesOn
  <1>3. CASE Answer(r, "error") /\ UNCHANGED ill
    BY <1>1, <1>3, AnswersQuietly
  <1>4. QED
    BY <1>2, <1>3 DEF GateFails, On

LEMMA sendTransactionalEmailKept ==
  ASSUME GateInv, NEW r \in Mailers, sendTransactionalEmail(r) PROVE GateInv'
  <1>1. PICK taken \in BOOLEAN : \E response \in Responses(taken) :
          \E category \in Categories(response) :
            Moves(r, [NoMail EXCEPT !.step = "answered", !.result = category, !.taken = taken])
    BY DEF sendTransactionalEmail
  <1>2. PICK response \in Responses(taken) :
          \E category \in Categories(response) :
            Moves(r, [NoMail EXCEPT !.step = "answered", !.result = category, !.taken = taken])
    BY <1>1
  <1>3. PICK category \in Categories(response) :
          Moves(r, [NoMail EXCEPT !.step = "answered", !.result = category, !.taken = taken])
    BY <1>2
  <1>4. UNCHANGED <<bucket, sound, ill, locked, let, tick>>
    BY DEF sendTransactionalEmail
  <1> DEFINE Failures == {"authentication", "rate_limited", "invalid_request",
                          "provider_unavailable", "unknown"}
  <1>5. \A x : classifyHttpStatus(x) \in Failures
    BY DEF classifyHttpStatus
  <1>6. category \in Failures \/ (category = "accepted" /\ taken)
    <2>1. CASE response = "2xx success"
      <3>1. taken
        BY <2>1 DEF Responses
      <3>2. category = "accepted"
        BY <2>1 DEF Categories
      <3>3. QED
        BY <3>1, <3>2
    <2>2. CASE response = "2xx error"
      <3>1. category \in embeddedErrorCategory
        BY <2>2 DEF Categories
      <3>2. QED
        BY <1>5, <3>1 DEF embeddedErrorCategory
    <2>3. CASE response \in {"network_error", "2xx unreadable"}
      BY <2>3 DEF Categories
    <2>4. CASE response \notin {"network_error", "2xx success", "2xx error", "2xx unreadable"}
      BY <1>5, <2>4 DEF Categories
    <2>5. QED
      BY <2>1, <2>2, <2>3, <2>4
  <1> DEFINE on == [NoMail EXCEPT !.step = "answered", !.result = category, !.taken = taken]
  <1>7. on = [step |-> "answered", observed |-> 0, seen |-> None, healthy |-> FALSE,
              taken |-> taken, result |-> category]
    <2>1. on = [NoMail EXCEPT !.step = "answered", !.result = category, !.taken = taken]
      OBVIOUS
    <2> HIDE DEF on
    <2>2. QED
      BY <2>1 DEF NoMail
  <1> HIDE DEF on
  <1>8. on \in Mail /\ on.step = "answered" /\ on.observed = 0 /\ on.result = category /\ on.taken = taken
    BY <1>6, <1>7, NoMailFacts DEF Mail, MailSteps, MailResults
  <1>9. Tells(on)
    BY <1>6, <1>8, MailFacts DEF Tells
  <1>10. Moves(r, on)
    BY <1>3 DEF on
  <1>11. QED
    BY <1>4, <1>8, <1>9, <1>10, StepsQuietly

LEMMA CleanupKept == ASSUME GateInv, NEW k \in Keys, Cleanup(k) PROVE GateInv'
  <1>1. /\ bucket' = [bucket EXCEPT ![k] = None] /\ bucket[k].resetAt <= tick
        /\ UNCHANGED <<mailing, sound, ill, locked, let, tick>>
    BY DEF Cleanup
  <1>2. /\ bucket' \in [Keys -> [count : Int, resetAt : Int]] /\ bucket'[k] = None
        /\ \A c \in Keys \ {k} : bucket'[c] = bucket[c]
    BY <1>1, NoMailFacts DEF GateInv, GateTypeOK
  <1>3. GateTypeOK'
    BY <1>1, <1>2 DEF GateInv, GateTypeOK
  <1>4. RowsTell'
    <2>1. \A c \in {"health", "lock"} : bucket'[c] = bucket[c] \/ bucket'[c] = None
      BY <1>2 DEF Keys
    <2>2. QED
      BY <1>1, <2>1 DEF GateInv, RowsTell, HealthTells
  <1>5. MailersTell'
    BY <1>1 DEF GateInv, MailersTell, Tells, HealthTells, ProbedMeanwhile
  <1>6. ASSUME NEW c \in DOMAIN Allowance
        PROVE  Spaced(let[c], Allowance[c]) /\ SomeWindow(bucket'[c], let[c], Allowance[c], tick)
    <2>1. /\ bucket[c] \in [count : Int, resetAt : Int] /\ let[c] \in Seq(Nat)
          /\ Allowance[c] \in Nat /\ tick \in Nat /\ tick <= tick /\ c \in Keys
      BY GateNumbers DEF GateInv, GateTypeOK, Keys
    <2>2. Spaced(let[c], Allowance[c]) /\ SomeWindow(bucket[c], let[c], Allowance[c], tick)
      BY DEF GateInv, AllowancesKept
    <2>3. CASE c = k
      BY <1>1, <1>2, <2>1, <2>2, <2>3, WindowStays
    <2>4. CASE c # k
      BY <1>2, <2>1, <2>2, <2>4
    <2>5. QED
      BY <2>3, <2>4
  <1>7. AllowancesKept'
    BY <1>1, <1>6 DEF AllowancesKept
  <1>8. QED
    BY <1>3, <1>4, <1>5, <1>7 DEF GateInv

\* A deleted account leaves its address no row and no history; the client keeps both.
LEMMA WindowBegins ==
  ASSUME NEW allowance \in Nat, NEW now \in Nat
  PROVE  Spaced(<< >>, allowance) /\ SomeWindow(None, << >>, allowance, now)
  <1>1. InWindow(None, << >>, allowance, now, now - Window, 0)
    BY GateNumbers DEF InWindow
  <1>2. now - Window \in -Window .. now /\ 0 \in 0 .. Len(<< >>)
    BY GateNumbers
  <1>3. QED
    BY <1>1, <1>2 DEF Spaced, SomeWindow

LEMMA ForgetsAddressKept == ASSUME GateInv, ForgetsAddress PROVE GateInv'
  <1>1. /\ bucket' = [bucket EXCEPT !["address"] = None] /\ let' = [let EXCEPT !["address"] = << >>]
        /\ UNCHANGED <<mailing, sound, ill, locked, tick>>
    BY DEF ForgetsAddress
  <1>2. "address" \in DOMAIN Allowance /\ "address" \in Keys
    BY GateNumbers DEF Keys
  <1>3. /\ bucket' \in [Keys -> [count : Int, resetAt : Int]] /\ bucket'["address"] = None
        /\ \A c \in Keys \ {"address"} : bucket'[c] = bucket[c]
    BY <1>1, <1>2, NoMailFacts DEF GateInv, GateTypeOK
  <1>4. /\ let' \in [DOMAIN Allowance -> Seq(Nat)] /\ let'["address"] = << >>
        /\ \A c \in DOMAIN Allowance \ {"address"} : let'[c] = let[c]
    BY <1>1, <1>2 DEF GateInv, GateTypeOK
  <1>5. GateTypeOK'
    BY <1>1, <1>3, <1>4 DEF GateInv, GateTypeOK
  <1>6. RowsTell'
    <2>1. \A c \in {"health", "lock"} : bucket'[c] = bucket[c]
      BY <1>3 DEF Keys
    <2>2. QED
      BY <1>1, <2>1 DEF GateInv, RowsTell, HealthTells
  <1>7. MailersTell'
    BY <1>1 DEF GateInv, MailersTell, Tells, HealthTells, ProbedMeanwhile
  <1>8. ASSUME NEW c \in DOMAIN Allowance
        PROVE  Spaced(let'[c], Allowance[c]) /\ SomeWindow(bucket'[c], let'[c], Allowance[c], tick)
    <2>1. Allowance[c] \in Nat /\ tick \in Nat /\ c \in Keys
      BY GateNumbers DEF GateInv, GateTypeOK, Keys
    <2>2. CASE c = "address"
      BY <1>3, <1>4, <2>1, <2>2, WindowBegins
    <2>3. CASE c # "address"
      BY <1>3, <1>4, <2>1, <2>3 DEF GateInv, AllowancesKept
    <2>4. QED
      BY <2>2, <2>3
  <1>9. AllowancesKept'
    BY <1>1, <1>8 DEF AllowancesKept
  <1>10. QED
    BY <1>5, <1>6, <1>7, <1>9 DEF GateInv

LEMMA TicksKept == ASSUME GateInv, Ticks PROVE GateInv'
  <1>1. tick' = tick + 1 /\ UNCHANGED <<bucket, mailing, sound, ill, locked, let>> /\ tick \in Nat
    BY DEF Ticks, GateInv, GateTypeOK
  <1>2. GateTypeOK'
    BY <1>1 DEF GateInv, GateTypeOK
  <1>3. RowsTell'
    BY <1>1 DEF GateInv, GateTypeOK, RowsTell, HealthTells
  <1>4. ASSUME NEW r \in Mailers PROVE Tells(mailing[r])'
    <2>1. Tells(mailing[r]) /\ mailing[r] \in Mail /\ mailing'[r] = mailing[r]
      BY <1>1, MailFacts
    <2>2. sound <= sound' /\ ill <= ill' /\ locked <= locked' /\ tick <= tick' /\ GateTypeOK
      BY <1>1, MailFacts DEF GateInv
    <2>3. QED
      BY <1>2, <2>1, <2>2, StillTells
  <1>5. ASSUME NEW c \in DOMAIN Allowance
        PROVE  Spaced(let[c], Allowance[c]) /\ SomeWindow(bucket[c], let[c], Allowance[c], tick')
    <2>1. /\ bucket[c] \in [count : Int, resetAt : Int] /\ let[c] \in Seq(Nat)
          /\ Allowance[c] \in Nat /\ tick \in Nat /\ tick' \in Nat /\ tick <= tick'
      BY <1>1, GateNumbers DEF GateInv, GateTypeOK, Keys
    <2>2. Spaced(let[c], Allowance[c]) /\ SomeWindow(bucket[c], let[c], Allowance[c], tick)
      BY DEF GateInv, AllowancesKept
    <2>3. QED
      BY <2>1, <2>2, WindowStays
  <1>6. AllowancesKept'
    BY <1>1, <1>5 DEF AllowancesKept
  <1>7. QED
    BY <1>2, <1>3, <1>4, <1>6 DEF GateInv, MailersTell

LEMMA GateStepKept == GateInv /\ [GateNext]_gateVars => GateInv'
  <1> SUFFICES ASSUME GateInv, [GateNext]_gateVars PROVE GateInv'
    OBVIOUS
  <1>1. ASSUME NEW r \in Mailers, POST(r) PROVE GateInv'
    BY <1>1, POSTKept, GateNumbers DEF POST
  <1>2. ASSUME NEW r \in Mailers, Parses(r) PROVE GateInv'
    BY <1>2, POSTKept, AnswersQuietly, GateNumbers DEF Parses
  <1>3. ASSUME NEW r \in Mailers, GateDies(r) PROVE GateInv'
    <2>1. Tells(NoMail)
      BY <1>3, NoMailFacts, MailFacts DEF Tells
    <2>2. QED
      BY <1>3, <2>1, NoMailFacts, StepsQuietly DEF GateDies
  <1>4. CASE UNCHANGED gateVars
    BY <1>4 DEF gateVars, GateInv, GateTypeOK, RowsTell, HealthTells, MailersTell, Tells,
                ProbedMeanwhile, AllowancesKept
  <1>5. QED
    BY <1>1, <1>2, <1>3, <1>4, ObservesKept, readsSnapshotKept, claimProbeLockKept,
       probeProviderKept, RecordsHealthKept, ReleasesLockKept, GateFailsKept,
       sendTransactionalEmailKept, CleanupKept, ForgetsAddressKept, TicksKept DEF GateNext

LEMMA GateInvHolds == GateInv => GateHolds
  <1> SUFFICES ASSUME GateInv PROVE GateHolds
    OBVIOUS
  <1>1. ASSUME NEW r \in Mailers
        PROVE  LET since == mailing[r].observed - HealthCache
                   probedMeanwhile == locked > mailing[r].observed - HealthLock
               IN /\ On(r, "sending") => sound > since \/ probedMeanwhile
                  /\ mailing[r].result = "unavailable" => ill > since \/ probedMeanwhile
                  /\ mailing[r].result = "accepted" => mailing[r].taken
    BY MailFacts DEF Tells, ProbedMeanwhile, On
  <1>2. ASSUME NEW k \in DOMAIN Allowance, NEW i \in DOMAIN let[k]
        PROVE  /\ bucket[k] # None /\ i + Allowance[k] \in DOMAIN let[k] =>
                    \/ let[k][i] < bucket[k].resetAt - Window
                    \/ let[k][i + Allowance[k]] >= bucket[k].resetAt
               /\ i + 2 * Allowance[k] \in DOMAIN let[k] =>
                    let[k][i + 2 * Allowance[k]] >= let[k][i] + Window
    <2> DEFINE times == let[k]
               n == Len(times)
               a == Allowance[k]
    <2>1. times \in Seq(Nat) /\ DOMAIN times = 1 .. n /\ n \in Nat /\ a \in Nat /\ a > 0
          /\ \A l \in 1 .. n : times[l] \in Nat
      BY GateNumbers DEF GateInv, GateTypeOK
    <2>2. Spaced(times, a) /\ SomeWindow(bucket[k], times, a, tick)
      BY DEF GateInv, AllowancesKept
    <2>3. PICK start \in -Window .. tick, j \in 0 .. n : InWindow(bucket[k], times, a, tick, start, j)
      BY <2>2 DEF SomeWindow
    <2>4. start \in Int /\ j \in Nat /\ i \in 1 .. n /\ Window \in Nat /\ bucket[k].resetAt \in Int
      <3>1. tick \in Nat /\ bucket[k] \in [count : Int, resetAt : Int]
        BY DEF GateInv, GateTypeOK, Keys
      <3>2. QED
        BY <2>1, <3>1, GateNumbers
    <2> HIDE DEF times, n, a
    <2>5. bucket[k] # None /\ i + a \in 1 .. n => times[i] < bucket[k].resetAt - Window
      <3>1. /\ n <= j + a
            /\ i <= j => times[i] < start
            /\ bucket[k] # None => start + Window = bucket[k].resetAt
        BY <2>3, <2>4 DEF InWindow, n
      <3>2. i + a \in 1 .. n => i <= j
        BY <2>1, <2>3, <2>4 DEF InWindow, n
      <3>3. QED
        <4>1. ASSUME bucket[k] # None, i + a \in 1 .. n PROVE times[i] < bucket[k].resetAt - Window
          <5>1. times[i] < start /\ start + Window = bucket[k].resetAt
            BY <4>1, <3>1, <3>2
          <5>2. times[i] \in Nat
            BY <2>1, <2>4
          <5>3. QED
            BY <5>1, <5>2, <2>4
        <4>2. QED
          BY <4>1
    <2>6. i + 2 * a \in 1 .. n => times[i + 2 * a] >= times[i] + Window
      BY <2>1, <2>2, <2>4 DEF Spaced, n
    <2>7. QED
      BY <2>1, <2>5, <2>6 DEF times, n, a
  <1>3. QED
    BY <1>1, <1>2 DEF GateHolds

\* A mail is let on by what the provider's health was, and no window of time lets
\* through more attempts than two allowances (consumeSharedRateLimit,
\* getProviderAvailability).
THEOREM GateAlwaysHolds == GateSpec => []GateHolds
<1>1. GateSpec => []GateInv
  BY GateInitially, GateStepKept, PTL DEF GateSpec
<1>2. QED
  BY <1>1, GateInvHolds, PTL

-----------------------------------------------------------------------------
(* The delivery of a document *)

\* At most one worker is past its claim.
OneHolder ==
  \A v, w \in Workers : pc[v] \in Holding /\ pc[w] \in Holding => v = w

\* While somebody is, the row is IN_FLIGHT or parked, and what the holder
\* knows about its request agrees with what Holded did.
HolderKnows ==
  \A w \in Workers :
    /\ pc[w] \in Holding => status \in {"IN_FLIGHT", "UNKNOWN"}
    /\ pc[w] \in {"claimed", "sending", "refused"} => landed = 0 /\ inTransit = 0
    /\ pc[w] = "accepted" => landed = 1 /\ inTransit = 0

\* Counting the requests that may still be carried out, there is one e-mail.
OneEffect == landed + inTransit <= 1

\* A worker about to claim, or past it, works on the frozen recipients.
CopiesFrozen ==
  /\ frozen = NoRecipients <=> status = "NONE"
  /\ \A w \in Workers :
       /\ pc[w] \in {"claim", "claimed", "sending"} =>
            status # "NONE" /\ seen[w].to = frozen
       /\ pc[w] = "claim" => seen[w].status \in {"PREPARED", "FAILED"}
       /\ pc[w] = "upsert" => seen[w].to \in Recipients
       /\ pc[w] = "deliver" => status # "NONE"

DeliveryInv == TypeOK /\ OneHolder /\ HolderKnows /\ OneEffect
          /\ RetryIsSafe /\ SentIsTrue /\ CopiesFrozen

-----------------------------------------------------------------------------
\* The first state satisfies the invariant.
LEMMA InitInvariant == Init => DeliveryInv
  <1> SUFFICES ASSUME Init PROVE DeliveryInv
    OBVIOUS
  <1> USE DEF Init, DeliveryStatuses, Steps, Holding, NothingSeen
  <1>1. TypeOK
    BY DEF TypeOK
  <1>2. OneHolder /\ HolderKnows /\ OneEffect /\ RetryIsSafe
    BY DEF OneHolder, HolderKnows, OneEffect, RetryIsSafe
  <1>3. SentIsTrue /\ CopiesFrozen
    BY DEF SentIsTrue, CopiesFrozen
  <1>4. QED
    BY <1>1, <1>2, <1>3 DEF DeliveryInv

\* Preparing and reading leave the row's meaning alone.
LEMMA PrepareInvariant ==
  ASSUME NEW w \in Workers, DeliveryInv,
         PrepareRead(w) \/ ListDelegates(w) \/ Upsert(w) \/ DeliverRead(w)
  PROVE  DeliveryInv'
  <1> USE NoRecipientsAssumption
      DEF DeliveryInv, TypeOK, OneHolder, HolderKnows, OneEffect, RetryIsSafe,
          SentIsTrue, CopiesFrozen, DeliveryStatuses, Steps, Holding, Goto, delivery, provider
  <1>1. CASE PrepareRead(w)
    BY <1>1, SMT DEF PrepareRead
  <1>2. CASE ListDelegates(w)
    BY <1>2, SMT DEF ListDelegates, listDelegateEmails, resolveDocumentRecipients
  <1>3. CASE Upsert(w)
    BY <1>3, SMT DEF Upsert, UpsertedRecipients
  <1>4. CASE DeliverRead(w)
    BY <1>4, SMT DEF DeliverRead, AfterRead
  <1>5. QED
    BY <1>1, <1>2, <1>3, <1>4

\* Claiming, parking and recording keep it: only the holder writes a verdict.
LEMMA RowInvariant ==
  ASSUME NEW w \in Workers, DeliveryInv,
         Park(w) \/ Claim(w) \/ RecordFailure(w) \/ RecordAccepted(w)
  PROVE  DeliveryInv'
  <1> USE NoRecipientsAssumption
      DEF DeliveryInv, TypeOK, OneHolder, HolderKnows, OneEffect, RetryIsSafe,
          SentIsTrue, CopiesFrozen, DeliveryStatuses, Steps, Holding, Goto, delivery, provider
  <1>1. CASE Park(w)
    BY <1>1, SMT DEF Park, FromInFlight
  <1>2. CASE Claim(w)
    BY <1>2, SMT DEF Claim, Claimable
  <1>3. CASE RecordFailure(w)
    BY <1>3, SMT DEF RecordFailure, FromInFlight, FailureStatus
  <1>4. CASE RecordAccepted(w)
    BY <1>4, SMT DEF RecordAccepted
  <1>5. QED
    BY <1>1, <1>2, <1>3, <1>4

\* So do the request itself, a crash around it and the restart after it.
LEMMA RequestInvariant ==
  ASSUME NEW w \in Workers, DeliveryInv,
         \/ Send(w) \/ ProviderSends(w) \/ ProviderRefuses(w) \/ TimesOut(w)
         \/ Crash(w) \/ Restart(w)
  PROVE  DeliveryInv'
  <1> USE NoRecipientsAssumption
      DEF DeliveryInv, TypeOK, OneHolder, HolderKnows, OneEffect, RetryIsSafe,
          SentIsTrue, CopiesFrozen, DeliveryStatuses, Steps, Holding, Goto, delivery, provider
  <1>1. CASE Send(w)
    BY <1>1, SMT DEF Send
  <1>2. CASE ProviderSends(w)
    BY <1>2, SMT DEF ProviderSends
  <1>3. CASE ProviderRefuses(w)
    BY <1>3, SMT DEF ProviderRefuses
  <1>4. CASE TimesOut(w)
    BY <1>4, SMT DEF TimesOut
  <1>5. CASE Crash(w)
    <2>1. CASE pc[w] = "sending"
      BY <1>5, <2>1, SMT DEF Crash, NothingSeen
    <2>2. CASE pc[w] # "sending"
      BY <1>5, <2>2, SMT DEF Crash, NothingSeen
    <2>3. QED
      BY <2>1, <2>2
  <1>6. CASE Restart(w)
    BY <1>6, SMT DEF Restart
  <1>7. QED
    BY <1>1, <1>2, <1>3, <1>4, <1>5, <1>6

\* And so do a request carried out late and the operator's repair.
LEMMA OutsideInvariant ==
  ASSUME DeliveryInv, LateRequest \/ OperatorResolves
  PROVE  DeliveryInv'
  <1> USE NoRecipientsAssumption
      DEF DeliveryInv, TypeOK, OneHolder, HolderKnows, OneEffect, RetryIsSafe,
          SentIsTrue, CopiesFrozen, DeliveryStatuses, Steps, Holding, delivery, provider
  <1>1. CASE LateRequest
    <2>1. CASE landed' = landed
      BY <1>1, <2>1, SMT DEF LateRequest
    <2>2. CASE landed' = landed + 1
      BY <1>1, <2>2, SMT DEF LateRequest
    <2>3. QED
      BY <1>1, <2>1, <2>2 DEF LateRequest
  <1>2. CASE OperatorResolves
    <2>1. CASE landed > 0
      BY <1>2, <2>1, SMT DEF OperatorResolves
    <2>2. CASE ~(landed > 0)
      BY <1>2, <2>2, SMT DEF OperatorResolves
    <2>3. QED
      BY <2>1, <2>2
  <1>3. QED
    BY <1>1, <1>2

\* The invariant is inductive.
LEMMA NextInvariant == DeliveryInv /\ [Next]_vars => DeliveryInv'
  <1> SUFFICES ASSUME DeliveryInv, [Next]_vars PROVE DeliveryInv'
    OBVIOUS
  <1>1. CASE UNCHANGED vars
    BY <1>1, SMT
       DEF vars, DeliveryInv, TypeOK, OneHolder, HolderKnows, OneEffect, RetryIsSafe,
           SentIsTrue, CopiesFrozen
  <1>2. ASSUME NEW w \in Workers, PrepareRead(w) \/ WorkerStep(w) \/ Crash(w) \/ Restart(w)
        PROVE  DeliveryInv'
    BY <1>2, PrepareInvariant, RowInvariant, RequestInvariant DEF WorkerStep
  <1>3. QED
    BY <1>1, <1>2, OutsideInvariant DEF Next

LEMMA Invariance == Spec => []DeliveryInv
  BY InitInvariant, NextInvariant, PTL DEF Spec

-----------------------------------------------------------------------------
\* Every variable keeps its type.
THEOREM TypeCorrect == Spec => []TypeOK
  BY Invariance, PTL DEF DeliveryInv

\* deliverPreparedDocument never has one document e-mailed twice, whatever
\* the number of workers and however they crash.
THEOREM DeliveredAtMostOnce == Spec => []AtMostOneEmail
  <1>1. DeliveryInv => AtMostOneEmail
    BY SMT DEF DeliveryInv, TypeOK, OneEffect, AtMostOneEmail
  <1>2. QED
    BY <1>1, Invariance, PTL

\* A row a worker may claim again belongs to a document that was not sent and
\* cannot be sent by a request still on its way.
THEOREM RetriesAreSafe == Spec => []RetryIsSafe
  BY Invariance, PTL DEF DeliveryInv

\* sentAt and ACCEPTED are written together, and only for a sent document.
THEOREM SentTogetherAndTruly == Spec => []SentIsTrue
  BY Invariance, PTL DEF DeliveryInv

\* Every request carries the recipients the first attempt froze.
THEOREM SendsAreFrozen == Spec => []SendsToFrozen
  <1>1. DeliveryInv => SendsToFrozen
    BY DEF DeliveryInv, CopiesFrozen, SendsToFrozen
  <1>2. QED
    BY <1>1, Invariance, PTL

-----------------------------------------------------------------------------
(* The delivery row implements ProviderWrite. *)

LEMMA InitMaps == Init => Write!Init
  BY DEF Init, Write!Init, phase

\* Steps that touch neither the row's status nor what Holded did stutter.
LEMMA QuietStepMaps ==
  ASSUME status' = status, landed' = landed
  PROVE  UNCHANGED Write!wvars
  BY DEF Write!wvars, phase

LEMMA WorkerStepMaps ==
  ASSUME NEW w \in Workers, DeliveryInv, DeliveryInv', WorkerStep(w)
  PROVE  [Write!Next]_(Write!wvars)
  <1> DEFINE Maps == [Write!Next]_(Write!wvars)
  <1> USE DEF DeliveryInv, TypeOK, HolderKnows, OneEffect, RetryIsSafe, SentIsTrue,
              CopiesFrozen, DeliveryStatuses, Steps, Holding, delivery, provider, phase
  <1>1. CASE ListDelegates(w) \/ DeliverRead(w) \/ Send(w)
             \/ ProviderRefuses(w) \/ TimesOut(w)
    <2>1. status' = status /\ landed' = landed
      BY <1>1 DEF ListDelegates, DeliverRead, Send, ProviderRefuses, TimesOut
    <2>2. QED
      BY <2>1, QuietStepMaps
  <1>2. CASE Upsert(w)
    <2>1. phase' = phase /\ landed' = landed
      BY <1>2, SMT DEF Upsert
    <2>2. QED
      BY <2>1 DEF Write!wvars
  <1>3. CASE Park(w)
    <2>1. CASE status = "IN_FLIGHT"
      <3>1. Write!Park
        BY <1>3, <2>1, SMT DEF Park, FromInFlight, Write!Park
      <3>2. QED
        BY <3>1 DEF Write!Next
    <2>2. CASE status # "IN_FLIGHT"
      BY <1>3, <2>2, QuietStepMaps DEF Park, FromInFlight
    <2>3. QED
      BY <2>1, <2>2
  <1>4. CASE Claim(w)
    <2>1. CASE Claimable(w)
      <3>1. Write!Begin
        BY <1>4, <2>1, SMT DEF Claim, Claimable, Write!Begin
      <3>2. QED
        BY <3>1 DEF Write!Next
    <2>2. CASE ~Claimable(w)
      BY <1>4, <2>2, QuietStepMaps DEF Claim
    <2>3. QED
      BY <2>1, <2>2
  <1>5. CASE RecordFailure(w)
    <2>1. CASE status # "IN_FLIGHT"
      BY <1>5, <2>1, QuietStepMaps DEF RecordFailure, FromInFlight
    <2>2. CASE status = "IN_FLIGHT" /\ pc[w] = "refused"
      <3>1. Write!Reopen
        BY <1>5, <2>2, SMT DEF RecordFailure, FromInFlight, FailureStatus, Write!Reopen
      <3>2. QED
        BY <3>1 DEF Write!Next
    <2>3. CASE status = "IN_FLIGHT" /\ pc[w] # "refused"
      <3>1. Write!Park
        BY <1>5, <2>3, SMT DEF RecordFailure, FromInFlight, FailureStatus, Write!Park
      <3>2. QED
        BY <3>1 DEF Write!Next
    <2>4. QED
      BY <2>1, <2>2, <2>3
  <1>6. CASE RecordAccepted(w)
    <2>1. Write!Finish
      BY <1>6, SMT DEF RecordAccepted, Write!Finish
    <2>2. QED
      BY <2>1 DEF Write!Next
  <1>7. CASE ProviderSends(w)
    <2>1. Write!Land
      BY <1>7, SMT DEF ProviderSends, Write!Land
    <2>2. QED
      BY <2>1 DEF Write!Next
  <1>8. QED
    BY <1>1, <1>2, <1>3, <1>4, <1>5, <1>6, <1>7 DEF WorkerStep

LEMMA OutsideStepMaps ==
  ASSUME DeliveryInv, DeliveryInv', LateRequest \/ OperatorResolves
  PROVE  [Write!Next]_(Write!wvars)
  <1> USE DEF DeliveryInv, TypeOK, OneEffect, RetryIsSafe, SentIsTrue, DeliveryStatuses,
              delivery, provider, phase
  <1>1. CASE LateRequest
    <2>1. CASE landed' = landed
      BY <1>1, <2>1, QuietStepMaps DEF LateRequest
    <2>2. CASE landed' = landed + 1
      <3>1. Write!Land
        BY <1>1, <2>2, SMT DEF LateRequest, Write!Land
      <3>2. QED
        BY <3>1 DEF Write!Next
    <2>3. QED
      BY <1>1, <2>1, <2>2 DEF LateRequest
  <1>2. CASE OperatorResolves
    <2>1. CASE landed > 0
      <3>1. Write!Finish
        BY <1>2, <2>1, SMT DEF OperatorResolves, Write!Finish
      <3>2. QED
        BY <3>1 DEF Write!Next
    <2>2. CASE ~(landed > 0)
      <3>1. Write!Reopen
        BY <1>2, <2>2, SMT DEF OperatorResolves, Write!Reopen
      <3>2. QED
        BY <3>1 DEF Write!Next
    <2>3. QED
      BY <2>1, <2>2
  <1>3. QED
    BY <1>1, <1>2

LEMMA StepMaps == DeliveryInv /\ DeliveryInv' /\ [Next]_vars => [Write!Next]_(Write!wvars)
  <1> SUFFICES ASSUME DeliveryInv, DeliveryInv', [Next]_vars PROVE [Write!Next]_(Write!wvars)
    OBVIOUS
  <1>1. CASE UNCHANGED vars
    BY <1>1, QuietStepMaps DEF vars
  <1>2. ASSUME NEW w \in Workers, PrepareRead(w) \/ Crash(w) \/ Restart(w)
        PROVE  [Write!Next]_(Write!wvars)
    <2>1. status' = status /\ landed' = landed
      BY <1>2 DEF PrepareRead, Crash, Restart, delivery, provider
    <2>2. QED
      BY <2>1, QuietStepMaps
  <1>3. QED
    BY <1>1, <1>2, WorkerStepMaps, OutsideStepMaps DEF Next

\* Sending a document is an at-most-once write to the provider, to every
\* observer of the row and of the customer's mailbox.
THEOREM DeliveryImplementsProviderWrite == Spec => ImplementsProviderWrite
  BY Invariance, InitMaps, StepMaps, PTL DEF Spec, ImplementsProviderWrite, Write!Spec
=============================================================================
