---------------------------- MODULE AccountProofs ----------------------------
(***************************************************************************)
(* Theorems about accounts, their links and sessions, for any number of    *)
(* addresses, requests, links, sessions and deaths, and about the account  *)
(* page's dialogs and its download, each by itself, for any number of      *)
(* checks, waits, names and changes.                                       *)
(*                                                                         *)
(* Each conjunct of LinksInv says what a step may rely on: what a request  *)
(* still knows of rows other requests may remove, whose links and sessions *)
(* the rows are, which links stand beside each other, that a link is gone  *)
(* before it is of use, and who still has to charge a guess.               *)
(***************************************************************************)
EXTENDS AccountLinks, DeletionDialog, SessionDialog, ExportPanel, DataExport,
        FiniteSetTheorems, SequenceTheorems, WellFoundedInduction, TLAPS

Redeeming == {"find", "open"}
Redeems(r) == request[r].at \in Redeeming

\* What a request knows of its account and its link.
OneOwner(known, users, newest) ==
  /\ known.user <= newest.user /\ known.token <= newest.token
  /\ known.user \in DOMAIN users =>
       /\ users[known.user].address = known.address
       /\ known.at = "open" => users[known.user].status = "ACTIVE"

OwnLink(known, links) ==
  known.at \in {"consume", "charge"} /\ known.token \in DOMAIN links =>
    /\ links[known.token].address = known.address
    /\ links[known.token].purpose = known.purpose

Knows ==
  \A r \in Requests :
    OneOwner(request[r], User, last) /\ OwnLink(request[r], VerificationToken)

LinksOwned ==
  \A t \in DOMAIN VerificationToken :
    VerificationToken[t].sentTo \in AccountOf(VerificationToken[t].address)

SessionsOwned ==
  /\ Active \subseteq PolicyAcceptance
  /\ \A s \in DOMAIN Session : Session[s].user \in Active

\* An address has one link of each kind, except for exports on their way.
LinksAlone ==
  \A t, o \in DOMAIN VerificationToken :
    /\ t # o
    /\ VerificationToken[t].purpose = VerificationToken[o].purpose
    /\ VerificationToken[t].address = VerificationToken[o].address
    => /\ VerificationToken[t].purpose = "ACCOUNT_DATA_EXPORT"
       /\ ~(VerificationToken[t].delivered /\ VerificationToken[o].delivered)

\* A link is gone before it is of use, and one request at most has taken it.
OnlyUse ==
  /\ \A t \in 1 .. MaxTokens :
       /\ history[t].uses <= 1
       /\ t > last.token => history[t].uses = 0
  /\ \A t \in DOMAIN VerificationToken : history[t].uses = 0
  /\ \A r \in Requests : Redeems(r) =>
       /\ request[r].token \in 1 .. last.token \ DOMAIN VerificationToken
       /\ history[request[r].token].uses = 0
  /\ \A r, q \in Requests :
       r # q /\ Redeems(r) /\ Redeems(q) => request[r].token # request[q].token

\* Guesses that are not charged yet are of requests about to do so, or that died.
Charging(t) == {r \in Requests : request[r].at = "charge" /\ request[r].token = t}

Charged ==
  /\ \A t \in 1 .. MaxTokens :
       /\ history[t].guesses < AttemptBudget + Cardinality(Requests) + last.deaths
       /\ t > last.token => history[t].guesses = 0
  /\ \A r \in Requests : request[r].at = "charge" =>
       request[r].token \in 1 .. last.token /\ request[r].purpose = "LOGIN"
  /\ \A t \in DOMAIN VerificationToken :
       /\ VerificationToken[t].attempts < AttemptBudget
       /\ history[t].guesses
            <= VerificationToken[t].attempts + Cardinality(Charging(t)) + last.deaths

\* Of a request that is about to store a link: its account is there, and so is its
\* session, unless it signed out or the request has too few locks.
Awaits(known, users, sessions, newest) ==
  known.at = "store" =>
    /\ known.user \in DOMAIN users
    /\ known.session <= newest.session
    /\ known.session \in DOMAIN sessions => sessions[known.session].user = known.user
    /\ known.purpose # "ACCOUNT_DELETION" => known.session \in DOMAIN sessions \cup newest.out

Held == \A r \in Requests : Awaits(request[r], User, Session, last)

LinksInv ==
  TypeOK /\ Knows /\ LinksOwned /\ SessionsOwned /\ LinksAlone /\ OnlyUse /\ Charged

-----------------------------------------------------------------------------
(* Rows *)

LEMMA WithTyped ==
  ASSUME NEW T, NEW table, table \in [DOMAIN table -> T], NEW id, NEW row \in T
  PROVE  With(table, id, row) \in [DOMAIN With(table, id, row) -> T]
  BY DEF With

LEMMA WithoutTyped ==
  ASSUME NEW T, NEW table, table \in [DOMAIN table -> T], NEW ids
  PROVE  Without(table, ids) \in [DOMAIN Without(table, ids) -> T]
  BY DEF Without, Restrict

LEMMA Greatest ==
  ASSUME NEW S, S \subseteq Nat, NEW m \in S, \A n \in S : m >= n
  PROVE  Max(S) = m
  <1> DEFINE greatest == CHOOSE n \in S : \A k \in S : n >= k
  <1>1. \E n \in S : \A k \in S : n >= k
    OBVIOUS
  <1>2. greatest \in S /\ \A k \in S : greatest >= k
    BY <1>1, Zenon
  <1>3. Max(S) = greatest
    BY DEF Max
  <1> HIDE DEF greatest
  <1>4. QED
    BY <1>2, <1>3

LEMMA IdleFacts ==
  /\ Idle \in Asked
  /\ Idle.at = "idle" /\ Idle.purpose = "LOGIN" /\ Idle.token = 0 /\ Idle.user = 0
  /\ Idle.session = 0
  <1> DEFINE a == CHOOSE a \in Addresses : TRUE
  <1>1. a \in Addresses
    BY AccountsAssumption
  <1> HIDE DEF a
  <1>2. Idle = [at |-> "idle", purpose |-> "LOGIN", token |-> 0, user |-> 0, session |-> 0,
                address |-> a]
    BY DEF Idle, a
  <1>3. QED
    BY <1>1, <1>2 DEF Asked, Steps, Purposes

-----------------------------------------------------------------------------
(* Requests *)

Moves(r) ==
  /\ request' \in [Requests -> Asked]
  /\ \A q \in Requests \ {r} : request'[q] = request[q]

LEMMA GotoFacts ==
  ASSUME TypeOK, NEW r \in Requests, NEW step \in Steps, Goto(r, step)
  PROVE  /\ Moves(r) /\ request'[r].at = step
         /\ request'[r].purpose = request[r].purpose /\ request'[r].token = request[r].token
         /\ request'[r].user = request[r].user /\ request'[r].session = request[r].session
         /\ request'[r].address = request[r].address
  BY DEF TypeOK, Goto, Moves, Asked

LEMMA DoneFacts ==
  ASSUME TypeOK, NEW r \in Requests, Done(r)
  PROVE  Moves(r) /\ request'[r] = Idle
  BY IdleFacts DEF TypeOK, Done, Moves

LEMMA StartsFacts ==
  ASSUME TypeOK, NEW r \in Requests, NEW fields \in Asked, Starts(r, fields)
  PROVE  Moves(r) /\ request'[r] = fields /\ request[r] = Idle
  BY DEF TypeOK, Starts, Moves

LEMMA Fields ==
  ASSUME NEW step \in Steps, NEW purpose \in Purposes, NEW t \in Nat, NEW u \in Nat,
         NEW s \in Nat, NEW a \in Addresses
  PROVE  /\ [Idle EXCEPT !.at = step, !.address = a] \in Asked
         /\ [Idle EXCEPT !.at = step, !.token = t, !.address = a] \in Asked
         /\ [Idle EXCEPT !.at = step, !.purpose = purpose, !.token = t, !.address = a] \in Asked
         /\ [Idle EXCEPT !.at = step, !.purpose = purpose, !.address = a, !.token = t] \in Asked
         /\ [Idle EXCEPT !.at = step, !.purpose = purpose, !.token = t, !.session = s,
                         !.address = a] \in Asked
         /\ [Idle EXCEPT !.session = s, !.user = u, !.address = a] \in Asked
  BY AccountsAssumption DEF Idle, Asked, Steps, Purposes

-----------------------------------------------------------------------------
(* What a step does to accounts, links and sessions *)

\* Accounts keep their address, and an active one stays active; a new one is pending.
UserStep ==
  /\ last.user <= last'.user
  /\ \A u \in DOMAIN User' :
       \/ /\ u \in DOMAIN User /\ User'[u].address = User[u].address
          /\ User[u].status = "ACTIVE" => User'[u].status = "ACTIVE"
       \/ u = last.user + 1

Stays == \A u \in DOMAIN User : u \in DOMAIN User'

\* Links keep their address, purpose and owner; numbers are not used again.
LinkStep ==
  /\ last.token <= last'.token
  /\ \A t \in DOMAIN VerificationToken' :
       \/ /\ t \in DOMAIN VerificationToken
          /\ VerificationToken'[t].address = VerificationToken[t].address
          /\ VerificationToken'[t].purpose = VerificationToken[t].purpose
          /\ VerificationToken'[t].sentTo = VerificationToken[t].sentTo
       \/ t = last.token + 1

\* Of the links some go, some are delivered, arrive or expire.
Thins ==
  \A t \in DOMAIN VerificationToken' :
    /\ t \in DOMAIN VerificationToken
    /\ VerificationToken'[t].address = VerificationToken[t].address
    /\ VerificationToken'[t].purpose = VerificationToken[t].purpose
    /\ VerificationToken'[t].sentTo = VerificationToken[t].sentTo
    /\ VerificationToken'[t].attempts = VerificationToken[t].attempts

Counts ==
  \A t \in DOMAIN VerificationToken' :
    \/ /\ t \in DOMAIN VerificationToken
       /\ VerificationToken'[t].attempts = VerificationToken[t].attempts
    \/ t = last.token + 1 /\ VerificationToken'[t].attempts = 0

Trims ==
  /\ Thins
  /\ \A t \in DOMAIN VerificationToken' :
       VerificationToken'[t].delivered = VerificationToken[t].delivered

\* What a request may turn to: it knows what it is about, has taken no link, and
\* has neither guessed nor been charged.
Informed(r) ==
  \/ request'[r] = request[r]
  \/ OneOwner(request'[r], User', last') /\ OwnLink(request'[r], VerificationToken')

TakesNone(r) ==
  \/ request'[r] = request[r]
  \/ request'[r].at \in Redeeming => Redeems(r) /\ request'[r].token = request[r].token

GuessesNone(r) ==
  request'[r] = request[r] \/ (request[r].at # "charge" /\ request'[r].at # "charge")

Settles(r) == Informed(r) /\ TakesNone(r) /\ GuessesNone(r)

SessionStep ==
  \A s \in DOMAIN Session' :
    \/ s \in DOMAIN Session /\ Session'[s].user = Session[s].user
    \/ Session'[s].user \in Active

Numeric ==
  /\ last.user \in Nat /\ last.token \in Nat /\ last.session \in Nat /\ last.deaths \in Nat
  /\ MaxTokens \in Nat /\ last.token <= MaxTokens
  /\ \A u \in DOMAIN User : u \in Nat /\ u <= last.user
  /\ \A t \in DOMAIN VerificationToken : t \in 1 .. last.token /\ t \in 1 .. MaxTokens
  /\ \A s \in DOMAIN Session : s \in Nat /\ s <= last.session
  /\ \A t \in 1 .. MaxTokens : history[t].uses \in Nat /\ history[t].guesses \in Nat
  /\ \A r \in Requests : request[r] \in Asked

LEMMA Numbers ==
  ASSUME TypeOK PROVE Numeric
  BY AccountsAssumption DEF TypeOK, Numeric

LEMMA NextNumbers ==
  ASSUME TypeOK' PROVE Numeric'
  BY AccountsAssumption DEF TypeOK, Numeric

LEMMA StillKnown ==
  ASSUME TypeOK, TypeOK', UserStep, LinkStep, NEW known \in Asked,
         OneOwner(known, User, last), OwnLink(known, VerificationToken)
  PROVE  OneOwner(known, User', last') /\ OwnLink(known, VerificationToken')
  <1>1. /\ last.user \in Nat /\ last'.user \in Nat /\ last.token \in Nat /\ last'.token \in Nat
        /\ known.user \in Nat /\ known.token \in Nat
    BY Numbers, NextNumbers DEF Numeric, Asked
  <1>2. known.user <= last'.user /\ known.token <= last'.token
    BY <1>1 DEF UserStep, LinkStep, OneOwner
  <1>3. known.user # last.user + 1 /\ known.token # last.token + 1
    BY <1>1 DEF OneOwner
  <1>4. OneOwner(known, User', last')
    BY <1>2, <1>3 DEF OneOwner, UserStep
  <1>5. OwnLink(known, VerificationToken')
    BY <1>3 DEF OwnLink, LinkStep
  <1>6. QED
    BY <1>4, <1>5

LEMMA KnowsKept ==
  ASSUME TypeOK, TypeOK', Knows, UserStep, LinkStep,
         \A r \in Requests : Informed(r)
  PROVE  Knows'
  <1> SUFFICES ASSUME NEW r \in Requests
               PROVE  /\ OneOwner(request'[r], User', last')
                      /\ OwnLink(request'[r], VerificationToken')
    BY DEF Knows
  <1>1. CASE request'[r] = request[r]
    <2>1. /\ request[r] \in Asked
          /\ OneOwner(request[r], User, last) /\ OwnLink(request[r], VerificationToken)
      BY DEF TypeOK, Knows
    <2>2. QED
      BY <1>1, <2>1, StillKnown
  <1>2. QED
    BY <1>1 DEF Informed

LEMMA LinksOwnedKept ==
  ASSUME TypeOK, TypeOK', LinksOwned, UserStep, Stays, LinkStep,
         DOMAIN VerificationToken' \subseteq DOMAIN VerificationToken
  PROVE  LinksOwned'
  <1> SUFFICES ASSUME NEW t \in DOMAIN VerificationToken'
               PROVE  /\ VerificationToken'[t].sentTo \in DOMAIN User'
                      /\ User'[VerificationToken'[t].sentTo].address = VerificationToken'[t].address
    BY DEF LinksOwned, AccountOf
  <1>1. t # last.token + 1
    BY Numbers DEF Numeric
  <1>2. /\ t \in DOMAIN VerificationToken
        /\ VerificationToken'[t].address = VerificationToken[t].address
        /\ VerificationToken'[t].sentTo = VerificationToken[t].sentTo
    BY <1>1 DEF LinkStep
  <1> DEFINE u == VerificationToken[t].sentTo
  <1>3. u \in DOMAIN User /\ User[u].address = VerificationToken[t].address
    BY <1>2 DEF LinksOwned, AccountOf
  <1>4. u \in DOMAIN User' /\ u # last.user + 1
    BY <1>3, Numbers DEF Numeric, Stays
  <1>5. User'[u].address = User[u].address
    BY <1>4 DEF UserStep
  <1>6. QED
    BY <1>2, <1>3, <1>4, <1>5

LEMMA SessionsOwnedKept ==
  ASSUME TypeOK, TypeOK', SessionsOwned, UserStep, Stays, SessionStep,
         (Active \subseteq PolicyAcceptance)'
  PROVE  SessionsOwned'
  <1>1. \A u \in Active : u \in Active'
    <2> SUFFICES ASSUME NEW u \in Active PROVE u \in Active'
      OBVIOUS
    <2>1. u \in DOMAIN User /\ u \in DOMAIN User' /\ u # last.user + 1
      BY Numbers DEF Numeric, Active, Stays
    <2>2. User'[u].status = "ACTIVE"
      BY <2>1 DEF Active, UserStep
    <2>3. QED
      BY <2>1, <2>2 DEF Active
  <1>2. QED
    BY <1>1 DEF SessionsOwned, SessionStep

LEMMA LinksAloneKept ==
  ASSUME LinksAlone, Trims PROVE LinksAlone'
  BY DEF LinksAlone, Thins, Trims

\* A request that neither takes a link nor has taken one.
LEMMA OnlyUseKept ==
  ASSUME TypeOK, TypeOK', OnlyUse, LinkStep, last'.token <= MaxTokens,
         \A t \in 1 .. MaxTokens : history'[t].uses = history[t].uses,
         \A r \in Requests : TakesNone(r)
  PROVE  OnlyUse'
  <1>1. /\ last.token \in Nat /\ last'.token \in Nat /\ MaxTokens \in Nat
        /\ last.token <= last'.token
    BY Numbers, NextNumbers DEF Numeric, LinkStep
  <1>2. \A t \in 1 .. MaxTokens :
          /\ history'[t].uses <= 1
          /\ t > last'.token => history'[t].uses = 0
    BY <1>1 DEF OnlyUse
  <1>3. \A t \in DOMAIN VerificationToken' : history'[t].uses = 0
    <2> SUFFICES ASSUME NEW t \in DOMAIN VerificationToken' PROVE history'[t].uses = 0
      OBVIOUS
    <2>1. t \in 1 .. MaxTokens
      BY <1>1 DEF TypeOK
    <2>2. t \in DOMAIN VerificationToken \/ t > last.token
      BY <1>1 DEF LinkStep
    <2>3. QED
      BY <2>1, <2>2 DEF OnlyUse
  <1>4. \A r \in Requests : Redeems(r)' => Redeems(r) /\ request'[r].token = request[r].token
    BY DEF Redeems, TakesNone
  <1>5. ASSUME NEW r \in Requests, Redeems(r)'
        PROVE  /\ request'[r].token \in 1 .. last'.token \ DOMAIN VerificationToken'
               /\ history'[request'[r].token].uses = 0
    <2> DEFINE t == request[r].token
    <2>1. /\ t \in 1 .. last.token /\ t \notin DOMAIN VerificationToken /\ history[t].uses = 0
          /\ request'[r].token = request[r].token
      BY <1>4, <1>5 DEF OnlyUse
    <2> HIDE DEF t
    <2>2. t \in 1 .. MaxTokens /\ t \in 1 .. last'.token /\ t # last.token + 1
      BY <1>1, <2>1
    <2>3. t \notin DOMAIN VerificationToken'
      BY <2>1, <2>2 DEF LinkStep
    <2>4. QED
      BY <2>1, <2>2, <2>3 DEF t
  <1>6. \A r, q \in Requests :
          r # q /\ Redeems(r)' /\ Redeems(q)' => request'[r].token # request'[q].token
    BY <1>4 DEF OnlyUse
  <1>7. QED
    BY <1>2, <1>3, <1>5, <1>6 DEF OnlyUse

\* A request that neither guesses nor has done so.
LEMMA ChargedKept ==
  ASSUME TypeOK, TypeOK', Charged, Counts,
         last'.token >= last.token, last'.deaths >= last.deaths,
         \A t \in 1 .. MaxTokens : history'[t].guesses = history[t].guesses,
         \A r \in Requests : GuessesNone(r)
  PROVE  Charged'
  <1>1. /\ last.token \in Nat /\ last'.token \in Nat /\ last.deaths \in Nat /\ last'.deaths \in Nat
        /\ MaxTokens \in Nat /\ AttemptBudget \in Nat \ {0} /\ Cardinality(Requests) \in Nat
    BY Numbers, NextNumbers, AccountsAssumption, FS_CardinalityType DEF Numeric
  <1>2. \A t \in 1 .. MaxTokens : history[t].guesses \in Nat
    BY Numbers DEF Numeric
  <1>3. \A t \in 1 .. MaxTokens :
          /\ history'[t].guesses < AttemptBudget + Cardinality(Requests) + last'.deaths
          /\ t > last'.token => history'[t].guesses = 0
    BY <1>1, <1>2 DEF Charged
  <1>4. \A r \in Requests : request'[r].at = "charge" => request'[r] = request[r]
    BY DEF GuessesNone
  <1>5. \A r \in Requests : request'[r].at = "charge" =>
          request'[r].token \in 1 .. last'.token /\ request'[r].purpose = "LOGIN"
    <2> SUFFICES ASSUME NEW r \in Requests, request'[r].at = "charge"
                 PROVE  request[r].token \in 1 .. last'.token /\ request[r].purpose = "LOGIN"
      BY <1>4
    <2>1. request[r].token \in 1 .. last.token /\ request[r].purpose = "LOGIN"
      BY <1>4 DEF Charged
    <2>2. QED
      BY <1>1, <2>1
  <1>6. ASSUME NEW t \in DOMAIN VerificationToken'
        PROVE  /\ VerificationToken'[t].attempts < AttemptBudget
               /\ history'[t].guesses <= VerificationToken'[t].attempts
                                           + Cardinality(Charging(t)') + last'.deaths
    <2>1. Charging(t)' = Charging(t)
      BY DEF Charging, GuessesNone
    <2> DEFINE busy == Cardinality(Charging(t))
    <2>2. busy \in Nat
      BY AccountsAssumption, FS_Subset, FS_CardinalityType DEF Charging
    <2> HIDE DEF busy
    <2>3. t \in 1 .. MaxTokens
      BY NextNumbers DEF Numeric
    <2>4. CASE /\ t \in DOMAIN VerificationToken
               /\ VerificationToken'[t].attempts = VerificationToken[t].attempts
      <3>1. VerificationToken[t].attempts \in Nat
        BY <1>1, <2>4 DEF TypeOK, Link
      <3>2. /\ VerificationToken[t].attempts < AttemptBudget
            /\ history[t].guesses <= VerificationToken[t].attempts + busy + last.deaths
        BY <2>4 DEF Charged, busy
      <3>3. history'[t].guesses <= VerificationToken[t].attempts + busy + last'.deaths
        BY <1>1, <1>2, <2>2, <2>3, <3>1, <3>2
      <3>4. QED
        BY <2>1, <2>4, <3>2, <3>3 DEF busy
    <2>5. CASE t = last.token + 1 /\ VerificationToken'[t].attempts = 0
      <3>1. history'[t].guesses = 0
        BY <1>1, <2>3, <2>5 DEF Charged
      <3>2. history'[t].guesses <= VerificationToken'[t].attempts + busy + last'.deaths
        BY <1>1, <2>2, <2>5, <3>1
      <3>3. QED
        BY <1>1, <2>1, <2>5, <3>2 DEF busy
    <2>6. QED
      BY <2>4, <2>5 DEF Counts
  <1>7. QED
    BY <1>3, <1>5, <1>6 DEF Charged

\* What storing a link leaves behind.
Stored(r, wanted, users, superseded, top) ==
  /\ last' \in [user : Nat, token : 0 .. MaxTokens, session : Nat, deaths : Nat, out : SUBSET Nat]
  /\ last'.token = last.token + 1 /\ last'.user = top
  /\ last'.session = last.session /\ last'.deaths = last.deaths
  /\ User' = users /\ history' = history
  /\ DOMAIN VerificationToken' =
       (DOMAIN VerificationToken \ superseded) \cup {last.token + 1}
  /\ \A t \in DOMAIN VerificationToken \ superseded :
       VerificationToken'[t] = VerificationToken[t]
  /\ VerificationToken' \in [DOMAIN VerificationToken' -> Link]
  /\ VerificationToken'[last.token + 1].address = wanted.address
  /\ VerificationToken'[last.token + 1].purpose = wanted.purpose
  /\ ~VerificationToken'[last.token + 1].delivered
  /\ VerificationToken'[last.token + 1].attempts = 0
  /\ VerificationToken'[last.token + 1].sentTo \in DOMAIN users
  /\ users[VerificationToken'[last.token + 1].sentTo].address = wanted.address
  /\ Moves(r)
  /\ request'[r].at = "send" /\ request'[r].purpose = wanted.purpose
  /\ request'[r].address = wanted.address /\ request'[r].token = last.token + 1
  /\ request'[r].user = 0

LEMMA StoreFacts ==
  ASSUME TypeOK, NEW r \in Requests, NEW wanted \in Asked, NEW users, NEW superseded,
         NEW top \in Nat, users \in [DOMAIN users -> Account], DOMAIN users \subseteq 1 .. top,
         top = last.user \/ (top = last.user + 1 /\ top \in DOMAIN users),
         \E u \in DOMAIN users : users[u].address = wanted.address,
         Store(r, wanted, users, superseded)
  PROVE  Stored(r, wanted, users, superseded, top)
  <1> DEFINE t == last.token + 1
             itsUser == CHOOSE u \in DOMAIN users : users[u].address = wanted.address
             row == [address |-> wanted.address, purpose |-> wanted.purpose, delivered |-> FALSE,
                     attempts |-> 0, expired |-> FALSE, arrived |-> FALSE, sentTo |-> itsUser]
             kept == Without(VerificationToken, superseded)
             sends == [Idle EXCEPT !.at = "send", !.purpose = wanted.purpose,
                                   !.address = wanted.address, !.token = t]
  <1>1. itsUser \in DOMAIN users /\ users[itsUser].address = wanted.address
    OBVIOUS
  <1>2. /\ last \in [user : Nat, token : 0 .. MaxTokens, session : Nat, deaths : Nat, out : SUBSET Nat]
        /\ last.token < MaxTokens /\ MaxTokens \in Nat
        /\ last.token \in 0 .. MaxTokens /\ last.user \in Nat
    BY AccountsAssumption DEF TypeOK, Store
  <1>3. t \in Nat /\ t \in 0 .. MaxTokens
    BY <1>2
  <1>4. Max(DOMAIN users \cup {last.user}) = top
    <2>1. \A n \in DOMAIN users \cup {last.user} : n \in Nat /\ top >= n
      BY <1>2
    <2>2. top \in DOMAIN users \cup {last.user}
      OBVIOUS
    <2>3. QED
      BY <2>1, <2>2, Greatest
  <1>5. last' = [last EXCEPT !.token = t, !.user = top]
    BY <1>4 DEF Store
  <1>6. VerificationToken' = With(kept, t, row) /\ User' = users /\ history' = history
    BY DEF Store
  <1>7. request' = [request EXCEPT ![r] = sends]
    BY DEF Store
  <1>8. wanted.purpose \in Purposes /\ wanted.address \in Addresses
    BY DEF Asked
  <1> HIDE DEF itsUser, t
  <1>9. row \in Link
    BY <1>1, <1>8, AccountsAssumption DEF Link
  <1>10. /\ row.address = wanted.address /\ row.purpose = wanted.purpose /\ row.delivered = FALSE
         /\ row.attempts = 0 /\ row.sentTo = itsUser
    OBVIOUS
  <1>11. /\ DOMAIN kept = DOMAIN VerificationToken \ superseded
         /\ \A i \in DOMAIN kept : kept[i] = VerificationToken[i]
         /\ kept \in [DOMAIN kept -> Link]
    <2>1. VerificationToken \in [DOMAIN VerificationToken -> Link]
      BY DEF TypeOK
    <2>2. kept \in [DOMAIN kept -> Link]
      BY <2>1, WithoutTyped
    <2>3. QED
      BY <2>2 DEF Without, Restrict
  <1>12. t \notin DOMAIN VerificationToken
    BY <1>2 DEF TypeOK, t
  <1>13. /\ sends \in Asked /\ sends.at = "send" /\ sends.purpose = wanted.purpose
         /\ sends.address = wanted.address /\ sends.token = t /\ sends.user = 0
    <2>1. sends \in Asked
      BY <1>3, <1>8, Fields DEF Steps
    <2>2. Idle \in Asked /\ Idle.user = 0
      BY IdleFacts
    <2>3. QED
      BY <2>1, <2>2 DEF Asked
  <1> HIDE DEF row, kept, sends
  <1>14. /\ DOMAIN VerificationToken' = DOMAIN kept \cup {t}
         /\ VerificationToken'[t] = row
         /\ \A i \in DOMAIN kept \ {t} : VerificationToken'[i] = kept[i]
         /\ VerificationToken' \in [DOMAIN VerificationToken' -> Link]
    <2> DEFINE stored == With(kept, t, row)
    <2>1. /\ DOMAIN stored = DOMAIN kept \cup {t} /\ stored[t] = row
          /\ \A i \in DOMAIN kept \ {t} : stored[i] = kept[i]
      BY DEF With
    <2>2. stored \in [DOMAIN stored -> Link]
      <3>1. kept \in [DOMAIN kept -> Link] /\ row \in Link
        BY <1>9, <1>11
      <3>2. QED
        BY <3>1, WithTyped, Zenon
    <2>3. VerificationToken' = stored
      BY <1>6
    <2> HIDE DEF stored
    <2>4. QED
      BY <2>1, <2>2, <2>3
  <1>15. /\ last' \in [user : Nat, token : 0 .. MaxTokens, session : Nat, deaths : Nat, out : SUBSET Nat]
         /\ last'.token = t /\ last'.user = top
         /\ last'.session = last.session /\ last'.deaths = last.deaths
    <2> DEFINE issued == [last EXCEPT !.token = t]
    <2>1. /\ issued \in [user : Nat, token : 0 .. MaxTokens, session : Nat, deaths : Nat, out : SUBSET Nat]
          /\ issued.token = t /\ issued.session = last.session /\ issued.deaths = last.deaths
      BY <1>2, <1>3
    <2>2. last' = [issued EXCEPT !.user = top]
      BY <1>5
    <2> HIDE DEF issued
    <2>3. QED
      BY <2>1, <2>2
  <1>16. Moves(r) /\ request'[r] = sends
    <2>1. request \in [Requests -> Asked]
      BY DEF TypeOK
    <2>2. QED
      BY <1>7, <1>13, <2>1 DEF Moves
  <1>17. \A i \in DOMAIN VerificationToken \ superseded : VerificationToken'[i] = VerificationToken[i]
    BY <1>11, <1>12, <1>14
  <1>18. DOMAIN VerificationToken' = (DOMAIN VerificationToken \ superseded) \cup {t}
    BY <1>11, <1>14
  <1>19. /\ VerificationToken'[t].address = wanted.address
         /\ VerificationToken'[t].purpose = wanted.purpose
         /\ ~VerificationToken'[t].delivered
         /\ VerificationToken'[t].attempts = 0
         /\ VerificationToken'[t].sentTo \in DOMAIN users
         /\ users[VerificationToken'[t].sentTo].address = wanted.address
    BY <1>1, <1>10, <1>14
  <1>20. QED
    BY <1>6, <1>13, <1>14, <1>15, <1>16, <1>17, <1>18, <1>19 DEF t, Stored

-----------------------------------------------------------------------------
(* Steps that give nothing and take nothing *)

LEMMA Assembled ==
  ASSUME LinksInv, TypeOK', UserStep, Stays, (Active \subseteq PolicyAcceptance)',
         LinkStep, DOMAIN VerificationToken' \subseteq DOMAIN VerificationToken, SessionStep,
         \A r \in Requests : Informed(r), LinksAlone', OnlyUse', Charged'
  PROVE  LinksInv'
  BY KnowsKept, LinksOwnedKept, SessionsOwnedKept DEF LinksInv

LEMMA SameAccounts ==
  ASSUME LinksInv, UNCHANGED <<User, PolicyAcceptance>>, last'.user = last.user
  PROVE  UserStep /\ Stays /\ (Active \subseteq PolicyAcceptance)'
  BY Numbers DEF LinksInv, Numeric, UserStep, Stays, SessionsOwned, Active

LEMMA SameNumbers ==
  ASSUME LinksInv, last'.token = last.token, Thins
  PROVE  LinkStep /\ last'.token <= MaxTokens
         /\ DOMAIN VerificationToken' \subseteq DOMAIN VerificationToken
  BY Numbers DEF LinksInv, Numeric, LinkStep, Thins

LEMMA SettledAlone ==
  ASSUME LinksInv, TypeOK', UNCHANGED <<User, PolicyAcceptance, history>>,
         last'.user = last.user, last'.token = last.token, last'.deaths >= last.deaths,
         Thins, LinksAlone', SessionStep, \A r \in Requests : Settles(r)
  PROVE  LinksInv'
  <1>1. UserStep /\ Stays /\ (Active \subseteq PolicyAcceptance)'
    BY SameAccounts
  <1>2. /\ LinkStep /\ last'.token <= MaxTokens
        /\ DOMAIN VerificationToken' \subseteq DOMAIN VerificationToken
    BY SameNumbers
  <1>3. OnlyUse'
    BY <1>2, OnlyUseKept DEF LinksInv, Settles
  <1>4. Charged'
    <2>1. Counts /\ last'.token >= last.token
      BY Numbers DEF LinksInv, Numeric, Thins, Counts
    <2>2. QED
      BY <2>1, ChargedKept DEF LinksInv, Settles
  <1>5. QED
    BY <1>1, <1>2, <1>3, <1>4, Assembled DEF Settles

LEMMA Settled ==
  ASSUME LinksInv, TypeOK', UNCHANGED <<User, PolicyAcceptance, history>>,
         last'.user = last.user, last'.token = last.token, last'.deaths >= last.deaths,
         Trims, SessionStep, \A r \in Requests : Settles(r)
  PROVE  LinksInv'
  <1>1. Thins /\ LinksAlone'
    BY LinksAloneKept DEF LinksInv, Trims
  <1>2. QED
    BY <1>1, SettledAlone

LEMMA IdleKnows ==
  ASSUME NEW users, NEW newest, NEW links, DOMAIN users \subseteq Nat \ {0},
         newest.user \in Nat, newest.token \in Nat
  PROVE  OneOwner(Idle, users, newest) /\ OwnLink(Idle, links)
  BY IdleFacts DEF OneOwner, OwnLink

LEMMA NextIdleKnows ==
  ASSUME TypeOK'
  PROVE  OneOwner(Idle, User', last') /\ OwnLink(Idle, VerificationToken')
  <1>1. DOMAIN User' \subseteq Nat \ {0} /\ last'.user \in Nat /\ last'.token \in Nat
    BY AccountsAssumption DEF TypeOK
  <1>2. QED
    BY <1>1, IdleKnows

\* Only a request moves.
LEMMA OnlyMoves ==
  ASSUME LinksInv, UNCHANGED <<tables, last, history>>, NEW r \in Requests, Moves(r),
         request[r].at # "charge", request'[r].at \notin Redeeming \cup {"charge"},
         OneOwner(request'[r], User, last), OwnLink(request'[r], VerificationToken)
  PROVE  LinksInv'
  <1>1. TypeOK'
    BY DEF LinksInv, TypeOK, Moves, tables
  <1>2. UNCHANGED <<User, PolicyAcceptance, history>> /\ Trims /\ SessionStep
    BY DEF tables, Thins, Trims, SessionStep
  <1>3. last' = last /\ last.deaths \in Nat
    BY Numbers DEF Numeric, LinksInv
  <1>4. \A q \in Requests : Settles(q)
    BY <1>3 DEF Moves, Settles, Informed, TakesNone, GuessesNone, tables
  <1>5. QED
    BY <1>1, <1>2, <1>3, <1>4, Settled

LEMMA OnlyDone ==
  ASSUME LinksInv, UNCHANGED <<tables, last, history>>, NEW r \in Requests, Done(r),
         request[r].at # "charge"
  PROVE  LinksInv'
  <1>1. Moves(r) /\ request'[r] = Idle
    BY DoneFacts DEF LinksInv
  <1>2. DOMAIN User \subseteq Nat \ {0} /\ last.user \in Nat /\ last.token \in Nat
    BY AccountsAssumption DEF LinksInv, TypeOK
  <1>3. OneOwner(request'[r], User, last) /\ OwnLink(request'[r], VerificationToken)
    BY <1>1, <1>2, IdleKnows
  <1>4. request'[r].at \notin Redeeming \cup {"charge"}
    BY <1>1, IdleFacts DEF Redeeming
  <1>5. QED
    BY <1>1, <1>3, <1>4, OnlyMoves

-----------------------------------------------------------------------------
(* Requests that begin *)

LEMMA Begins ==
  ASSUME LinksInv, UNCHANGED <<tables, last, history>>, NEW r \in Requests,
         NEW fields \in Asked, Starts(r, fields), fields.at \notin Redeeming \cup {"charge"},
         OneOwner(fields, User, last), OwnLink(fields, VerificationToken)
  PROVE  LinksInv'
  <1>1. Moves(r) /\ request'[r] = fields /\ request[r].at # "charge"
    BY StartsFacts, IdleFacts DEF LinksInv
  <1>2. QED
    BY <1>1, OnlyMoves

\* A request of no account yet, which may name a link.
LEMMA Anonymous ==
  ASSUME LinksInv, NEW fields \in Asked, fields.user = 0, fields.token <= last.token
  PROVE  OneOwner(fields, User, last)
  BY AccountsAssumption DEF LinksInv, TypeOK, OneOwner, Asked

LEMMA AsksLoginKept ==
  ASSUME LinksInv, NEW r \in Requests, NEW a \in Addresses, findExistingLoginEmail(r, a)
  PROVE  LinksInv'
  <1> DEFINE fields == [Idle EXCEPT !.at = "issue", !.address = a]
  <1>1. Idle \in Asked /\ Idle.user = 0 /\ Idle.token = 0
    BY IdleFacts
  <1>2. /\ fields \in Asked /\ fields.at = "issue" /\ fields.user = 0 /\ fields.token = 0
    BY <1>1 DEF Asked, Steps
  <1>3. Starts(r, fields) /\ UNCHANGED <<tables, last, history>>
    BY DEF findExistingLoginEmail
  <1> HIDE DEF fields
  <1>4. OneOwner(fields, User, last)
    BY <1>2, Anonymous, Numbers DEF LinksInv, Numeric
  <1>5. QED
    BY <1>2, <1>3, <1>4, Begins DEF OwnLink, Redeeming

\* What a request knows of the account of its session.
LEMMA OfSession ==
  ASSUME LinksInv, NEW s \in DOMAIN Session, NEW fields \in Asked,
         fields.user = Session[s].user, fields.address = AddressOf(s), fields.token = 0
  PROVE  OneOwner(fields, User, last)
  BY Numbers DEF LinksInv, SessionsOwned, Active, AddressOf, OneOwner, Numeric

LEMMA ForSessionFacts ==
  ASSUME LinksInv, NEW s \in DOMAIN Session
  PROVE  /\ ForSession(s) \in Asked /\ ForSession(s).token = 0
         /\ ForSession(s).user = Session[s].user /\ ForSession(s).address = AddressOf(s)
  <1>1. Idle \in Asked /\ Idle.token = 0
    BY IdleFacts
  <1>2. s \in Nat /\ Session[s].user \in Nat
    BY Numbers DEF LinksInv, TypeOK, Numeric
  <1>3. AddressOf(s) \in Addresses
    BY DEF LinksInv, TypeOK, SessionsOwned, Active, AddressOf, Account
  <1>4. QED
    BY <1>1, <1>2, <1>3 DEF ForSession, Asked

LEMMA ForSessionKept ==
  ASSUME LinksInv, NEW r \in Requests, NEW s, NEW fields \in Asked, Admit(r, s, fields),
         fields.at \notin Redeeming \cup {"charge", "consume"}, fields.token = 0,
         fields.user = ForSession(s).user, fields.address = ForSession(s).address
  PROVE  LinksInv'
  <1>1. s \in DOMAIN Session /\ Starts(r, fields) /\ UNCHANGED <<tables, last, history>>
    BY DEF Admit
  <1>2. OneOwner(fields, User, last)
    BY <1>1, OfSession, ForSessionFacts
  <1>3. QED
    BY <1>1, <1>2, Begins DEF OwnLink

LEMMA AskForKept ==
  ASSUME LinksInv, NEW r \in Requests, NEW s, NEW purpose \in Purposes, AskFor(r, s, purpose)
  PROVE  LinksInv'
  <1> DEFINE fields == [ForSession(s) EXCEPT !.at = "issue", !.purpose = purpose]
  <1>1. s \in DOMAIN Session /\ Admit(r, s, fields)
    BY DEF AskFor, Admit
  <1>2. /\ fields \in Asked /\ fields.at = "issue" /\ fields.token = 0
        /\ fields.user = ForSession(s).user /\ fields.address = ForSession(s).address
    BY <1>1, ForSessionFacts DEF Asked, Steps
  <1> HIDE DEF fields
  <1>3. QED
    BY <1>1, <1>2, ForSessionKept DEF Redeeming

LEMMA RevokeAskedKept ==
  ASSUME LinksInv, NEW r \in Requests, NEW s,
         revokeSessions(r, s) \/ resolveAccountDeletionSession(r, s)
  PROVE  LinksInv'
  <1> PICK step \in {"revoke", "delete"} : Admit(r, s, [ForSession(s) EXCEPT !.at = step])
    BY DEF revokeSessions, resolveAccountDeletionSession
  <1> DEFINE fields == [ForSession(s) EXCEPT !.at = step]
  <1>1. s \in DOMAIN Session /\ Admit(r, s, fields)
    BY DEF Admit
  <1>2. /\ fields \in Asked /\ fields.at = step /\ fields.token = 0
        /\ fields.user = ForSession(s).user /\ fields.address = ForSession(s).address
    BY <1>1, ForSessionFacts DEF Asked, Steps
  <1> HIDE DEF fields
  <1>3. QED
    BY <1>1, <1>2, ForSessionKept DEF Redeeming

LEMMA FollowKept ==
  ASSUME LinksInv, NEW r \in Requests, NEW s, NEW t, NEW purpose \in Purposes,
         Follow(r, s, t, purpose)
  PROVE  LinksInv'
  <1> DEFINE fields == [Idle EXCEPT !.at = "verify", !.purpose = purpose, !.token = t,
                                    !.session = s, !.address = VerificationToken[t].address]
  <1>1. /\ s \in DOMAIN Session /\ t \in DOMAIN VerificationToken /\ Starts(r, fields)
        /\ UNCHANGED <<tables, last, history>>
    BY DEF Follow, Admit, Arrived
  <1>2. Idle \in Asked /\ Idle.user = 0
    BY IdleFacts
  <1>3. /\ s \in Nat /\ t \in Nat /\ t <= last.token /\ VerificationToken[t].address \in Addresses
    BY <1>1, Numbers DEF LinksInv, TypeOK, Numeric, Link
  <1>4. /\ fields \in Asked /\ fields.at = "verify" /\ fields.user = 0 /\ fields.token = t
    BY <1>2, <1>3 DEF Asked, Steps
  <1> HIDE DEF fields
  <1>5. OneOwner(fields, User, last)
    BY <1>3, <1>4, Anonymous
  <1>6. QED
    BY <1>1, <1>4, <1>5, Begins DEF OwnLink, Redeeming

LEMMA ConsumesKept ==
  ASSUME LinksInv, NEW r \in Requests, NEW t \in DOMAIN VerificationToken,
         Starts(r, [Idle EXCEPT !.at = "consume", !.purpose = VerificationToken[t].purpose,
                                !.token = t, !.address = VerificationToken[t].address]),
         UNCHANGED <<tables, last, history>>
  PROVE  LinksInv'
  <1> DEFINE row == VerificationToken[t]
             fields == [Idle EXCEPT !.at = "consume", !.purpose = row.purpose,
                                    !.token = t, !.address = row.address]
  <1>1. Starts(r, fields)
    OBVIOUS
  <1>2. Idle \in Asked /\ Idle.user = 0
    BY IdleFacts
  <1>3. t \in Nat /\ t <= last.token /\ row.address \in Addresses /\ row.purpose \in Purposes
    BY Numbers DEF LinksInv, TypeOK, Numeric, Link
  <1>4. /\ fields \in Asked /\ fields.at = "consume" /\ fields.user = 0 /\ fields.token = t
        /\ fields.address = row.address /\ fields.purpose = row.purpose
    BY <1>2, <1>3 DEF Asked, Steps
  <1> HIDE DEF fields
  <1>5. OneOwner(fields, User, last)
    BY <1>3, <1>4, Anonymous
  <1>6. QED
    BY <1>1, <1>4, <1>5, Begins DEF OwnLink, Redeeming

-----------------------------------------------------------------------------
(* Links that arrive, expire or are taken back *)

LEMMA GoesOn ==
  ASSUME LinksInv, NEW r \in Requests, NEW step \in Steps \ (Redeeming \cup {"charge", "consume", "open"}),
         Goto(r, step), UNCHANGED <<User, last>>, request[r].at # "charge"
  PROVE  request' \in [Requests -> Asked] /\ \A q \in Requests : Settles(q)
  <1>1. /\ Moves(r) /\ request'[r].at = step
        /\ request'[r].user = request[r].user /\ request'[r].token = request[r].token
        /\ request'[r].address = request[r].address
    BY GotoFacts DEF LinksInv
  <1>2. OneOwner(request'[r], User', last')
    BY <1>1 DEF LinksInv, Knows, OneOwner
  <1>3. OwnLink(request'[r], VerificationToken')
    BY <1>1 DEF OwnLink
  <1>4. QED
    BY <1>1, <1>2, <1>3 DEF Moves, Settles, Informed, TakesNone, GuessesNone

LEMMA Finishes ==
  ASSUME LinksInv, NEW r \in Requests, Done(r), UNCHANGED <<User, last>>,
         request[r].at # "charge"
  PROVE  request' \in [Requests -> Asked] /\ \A q \in Requests : Settles(q)
  <1>1. Moves(r) /\ request'[r] = Idle
    BY DoneFacts DEF LinksInv
  <1>2. DOMAIN User' \subseteq Nat \ {0} /\ last'.user \in Nat /\ last'.token \in Nat
    BY AccountsAssumption DEF LinksInv, TypeOK
  <1>3. OneOwner(request'[r], User', last') /\ OwnLink(request'[r], VerificationToken')
    BY <1>1, <1>2, IdleKnows
  <1>4. QED
    BY <1>1, <1>3, IdleFacts DEF Moves, Settles, Informed, TakesNone, GuessesNone, Redeeming

LEMMA LinksTrimmed ==
  ASSUME LinksInv, UNCHANGED <<User, PolicyAcceptance, Session, DataExportAuthorization,
                               last, history>>,
         VerificationToken' \in [DOMAIN VerificationToken' -> Link], Trims,
         request' \in [Requests -> Asked], \A q \in Requests : Settles(q)
  PROVE  LinksInv'
  <1>1. TypeOK'
    BY DEF LinksInv, TypeOK, Thins, Trims
  <1>2. SessionStep /\ last.deaths \in Nat
    BY Numbers DEF LinksInv, Numeric, SessionStep
  <1>3. QED
    BY <1>1, <1>2, Settled

LEMMA LinksGone ==
  ASSUME LinksInv, NEW ids, VerificationToken' = Without(VerificationToken, ids)
  PROVE  /\ Trims /\ VerificationToken' \in [DOMAIN VerificationToken' -> Link]
         /\ DOMAIN VerificationToken' = DOMAIN VerificationToken \ ids
  BY DEF LinksInv, TypeOK, Thins, Trims, Without, Restrict

LEMMA SendKept ==
  ASSUME LinksInv, NEW r \in Requests, Send(r) PROVE LinksInv'
  <1>1. UNCHANGED <<User, PolicyAcceptance, Session, DataExportAuthorization, last, history>>
    BY DEF Send
  <1>2. Trims /\ VerificationToken' \in [DOMAIN VerificationToken' -> Link]
    <2> PICK accepted \in BOOLEAN, arrives \in BOOLEAN :
          VerificationToken' =
            [t \in DOMAIN VerificationToken |->
               [VerificationToken[t] EXCEPT !.arrived = @ \/ (arrives /\ t = request[r].token)]]
      BY DEF Send
    <2>1. \A t \in DOMAIN VerificationToken : VerificationToken[t] \in Link
      BY DEF LinksInv, TypeOK
    <2>2. QED
      BY <2>1 DEF Thins, Trims, Link
  <1>3. request' \in [Requests -> Asked] /\ \A q \in Requests : Settles(q)
    <2>1. request[r].at = "send" /\ (Goto(r, "compensate") \/ Goto(r, "confirm") \/ Done(r))
      BY DEF Send
    <2>2. QED
      BY <1>1, <2>1, GoesOn, Finishes DEF Steps, Redeeming
  <1>4. QED
    BY <1>1, <1>2, <1>3, LinksTrimmed

LEMMA CompensateKept ==
  ASSUME LinksInv, NEW r \in Requests, Compensate(r) PROVE LinksInv'
  <1>1. UNCHANGED <<User, PolicyAcceptance, Session, DataExportAuthorization, last, history>>
    BY DEF Compensate
  <1>2. Trims /\ VerificationToken' \in [DOMAIN VerificationToken' -> Link]
    BY LinksGone DEF Compensate
  <1>3. request' \in [Requests -> Asked] /\ \A q \in Requests : Settles(q)
    BY <1>1, Finishes DEF Compensate
  <1>4. QED
    BY <1>1, <1>2, <1>3, LinksTrimmed

LEMMA ExpiresKept ==
  ASSUME LinksInv, NEW t, Expires(t) PROVE LinksInv'
  <1>1. UNCHANGED <<User, PolicyAcceptance, Session, DataExportAuthorization, request, last, history>>
    BY DEF Expires
  <1>2. Trims /\ VerificationToken' \in [DOMAIN VerificationToken' -> Link]
    <2>1. \A i \in DOMAIN VerificationToken : VerificationToken[i] \in Link
      BY DEF LinksInv, TypeOK
    <2>2. VerificationToken' = [VerificationToken EXCEPT ![t].expired = TRUE]
      BY DEF Expires
    <2>3. VerificationToken \in [DOMAIN VerificationToken -> Link]
      BY DEF LinksInv, TypeOK
    <2>4. QED
      BY <2>1, <2>2, <2>3 DEF Thins, Trims, Link
  <1>3. request' \in [Requests -> Asked] /\ \A q \in Requests : Settles(q)
    BY <1>1 DEF LinksInv, TypeOK, Settles, Informed, TakesNone, GuessesNone
  <1>4. QED
    BY <1>1, <1>2, <1>3, LinksTrimmed

-----------------------------------------------------------------------------
(* Sessions that age or end *)

LEMMA SameLast ==
  ASSUME LinksInv
  PROVE  last \in [user : Nat, token : 0 .. MaxTokens, session : Nat, deaths : Nat, out : SUBSET Nat]
  BY DEF LinksInv, TypeOK

LEMMA SessionsTrimmed ==
  ASSUME LinksInv, UNCHANGED <<User, PolicyAcceptance, VerificationToken, history>>,
         last' \in [user : Nat, token : 0 .. MaxTokens, session : Nat, deaths : Nat, out : SUBSET Nat],
         last'.user = last.user, last'.token = last.token, last'.session = last.session,
         last'.deaths = last.deaths,
         Session' \in [DOMAIN Session' -> [user : Nat, recent : BOOLEAN]], SessionStep,
         DOMAIN Session' \subseteq DOMAIN Session,
         DataExportAuthorization' \subseteq DOMAIN Session',
         request' \in [Requests -> Asked], \A q \in Requests : Settles(q)
  PROVE  LinksInv'
  <1>1. TypeOK'
    BY DEF LinksInv, TypeOK
  <1>2. Trims /\ last.deaths \in Nat
    BY Numbers DEF LinksInv, Numeric, Thins, Trims
  <1>3. QED
    BY <1>1, <1>2, Settled

LEMMA SessionsGone ==
  ASSUME LinksInv, NEW removed, RemoveSessions(removed, Session)
  PROVE  /\ Session' \in [DOMAIN Session' -> [user : Nat, recent : BOOLEAN]] /\ SessionStep
         /\ DataExportAuthorization' \subseteq DOMAIN Session'
         /\ DOMAIN Session' = DOMAIN Session \ removed
  BY DEF LinksInv, TypeOK, RemoveSessions, SessionStep, Without, Restrict

LEMMA AgesKept ==
  ASSUME LinksInv, NEW s, Ages(s) PROVE LinksInv'
  <1>1. /\ UNCHANGED <<User, PolicyAcceptance, VerificationToken, last, history>>
        /\ UNCHANGED <<DataExportAuthorization, request>>
    BY DEF Ages
  <1>2. /\ Session' \in [DOMAIN Session' -> [user : Nat, recent : BOOLEAN]] /\ SessionStep
        /\ DOMAIN Session' = DOMAIN Session
    <2>1. Session \in [DOMAIN Session -> [user : Nat, recent : BOOLEAN]]
      BY DEF LinksInv, TypeOK
    <2>2. Session' = [Session EXCEPT ![s].recent = FALSE]
      BY DEF Ages
    <2>3. QED
      BY <2>1, <2>2 DEF SessionStep
  <1>3. request' \in [Requests -> Asked] /\ \A q \in Requests : Settles(q)
    BY <1>1 DEF LinksInv, TypeOK, Settles, Informed, TakesNone, GuessesNone
  <1>4. DataExportAuthorization' \subseteq DOMAIN Session'
    BY <1>1, <1>2 DEF LinksInv, TypeOK
  <1>5. QED
    BY <1>1, <1>2, <1>3, <1>4, SameLast, SessionsTrimmed

\* Signing out only adds to the sessions that did.
SignedOut(s) ==
  /\ last' \in [user : Nat, token : 0 .. MaxTokens, session : Nat, deaths : Nat, out : SUBSET Nat]
  /\ last'.user = last.user /\ last'.token = last.token /\ last'.session = last.session
  /\ last'.deaths = last.deaths /\ last'.out = last.out \cup ({s} \cap AwaitingLink)

LEMMA SigningOut ==
  ASSUME LinksInv, NEW s, deleteSession(s) PROVE SignedOut(s)
  <1> DEFINE out == last.out \cup ({s} \cap AwaitingLink)
  <1>1. last \in [user : Nat, token : 0 .. MaxTokens, session : Nat, deaths : Nat, out : SUBSET Nat]
    BY DEF LinksInv, TypeOK
  <1>2. out \in SUBSET Nat
    BY <1>1, Numbers DEF deleteSession, LinksInv, Numeric
  <1>3. last' = [last EXCEPT !.out = out]
    BY DEF deleteSession
  <1> HIDE DEF out
  <1>4. /\ last' \in [user : Nat, token : 0 .. MaxTokens, session : Nat, deaths : Nat, out : SUBSET Nat]
        /\ last'.user = last.user /\ last'.token = last.token /\ last'.session = last.session
        /\ last'.deaths = last.deaths /\ last'.out = out
    BY <1>1, <1>2, <1>3
  <1>5. QED
    BY <1>4 DEF out, SignedOut

LEMMA SessionDeletedKept ==
  ASSUME LinksInv, NEW s, deleteSession(s) PROVE LinksInv'
  <1>1. UNCHANGED <<User, PolicyAcceptance, VerificationToken, history, request>>
    BY DEF deleteSession
  <1>2. request' \in [Requests -> Asked] /\ \A q \in Requests : Settles(q)
    BY <1>1 DEF LinksInv, TypeOK, Settles, Informed, TakesNone, GuessesNone
  <1>3. SignedOut(s)
    BY SigningOut
  <1>4. QED
    BY <1>1, <1>2, <1>3, SessionsGone, SessionsTrimmed DEF deleteSession, SignedOut

LEMMA RevokeKept ==
  ASSUME LinksInv, NEW r \in Requests, Revoke(r) PROVE LinksInv'
  <1>1. /\ UNCHANGED <<User, PolicyAcceptance, VerificationToken, last, history>>
        /\ request[r].at = "revoke" /\ Done(r)
    BY DEF Revoke
  <1>2. request' \in [Requests -> Asked] /\ \A q \in Requests : Settles(q)
    BY <1>1, Finishes
  <1>3. /\ Session' \in [DOMAIN Session' -> [user : Nat, recent : BOOLEAN]] /\ SessionStep
        /\ DataExportAuthorization' \subseteq DOMAIN Session'
        /\ DOMAIN Session' \subseteq DOMAIN Session
    <2>1. CASE UNCHANGED <<Session, DataExportAuthorization>>
      BY <2>1 DEF LinksInv, TypeOK, SessionStep
    <2>2. CASE \E revoked \in Revocable(r) : RemoveSessions(revoked, Session)
      BY <2>2, SessionsGone
    <2>3. QED
      BY <2>1, <2>2 DEF Revoke
  <1>4. QED
    BY <1>1, <1>2, <1>3, SameLast, SessionsTrimmed

-----------------------------------------------------------------------------
(* Links that are delivered *)

LEMMA ConfirmsFacts ==
  ASSUME LinksInv, NEW t, Confirmable(t),
         VerificationToken' = [Without(VerificationToken, Superseded(t)) EXCEPT ![t].delivered = TRUE]
  PROVE  /\ Thins /\ VerificationToken' \in [DOMAIN VerificationToken' -> Link]
         /\ DOMAIN VerificationToken' = DOMAIN VerificationToken \ Superseded(t)
         /\ \A o \in DOMAIN VerificationToken' \ {t} :
              VerificationToken'[o].delivered = VerificationToken[o].delivered
  <1> DEFINE kept == Without(VerificationToken, Superseded(t))
  <1>1. /\ DOMAIN kept = DOMAIN VerificationToken \ Superseded(t)
        /\ \A o \in DOMAIN kept : o \in DOMAIN VerificationToken /\ kept[o] = VerificationToken[o]
        /\ kept \in [DOMAIN kept -> Link]
    BY DEF LinksInv, TypeOK, Without, Restrict
  <1>2. VerificationToken' = [kept EXCEPT ![t].delivered = TRUE]
    OBVIOUS
  <1> HIDE DEF kept
  <1>3. t \in DOMAIN kept
    BY <1>1 DEF Confirmable, Superseded
  <1>4. \A o \in DOMAIN kept : kept[o] \in Link
    BY <1>1
  <1>5. /\ DOMAIN VerificationToken' = DOMAIN kept
        /\ \A o \in DOMAIN kept : o # t => VerificationToken'[o] = kept[o]
        /\ VerificationToken'[t] = [kept[t] EXCEPT !.delivered = TRUE]
        /\ VerificationToken' = [o \in DOMAIN kept |-> VerificationToken'[o]]
    BY <1>1, <1>2, <1>3
  <1>6. /\ VerificationToken'[t].address = kept[t].address
        /\ VerificationToken'[t].purpose = kept[t].purpose
        /\ VerificationToken'[t].sentTo = kept[t].sentTo
        /\ VerificationToken'[t].attempts = kept[t].attempts
        /\ VerificationToken'[t] \in Link
    BY <1>3, <1>4, <1>5 DEF Link
  <1>7. \A o \in DOMAIN kept : VerificationToken'[o] \in Link
    BY <1>4, <1>5, <1>6
  <1>8. VerificationToken' \in [DOMAIN VerificationToken' -> Link]
    BY <1>5, <1>7, Zenon
  <1>9. \A o \in DOMAIN kept :
          /\ VerificationToken'[o].address = VerificationToken[o].address
          /\ VerificationToken'[o].purpose = VerificationToken[o].purpose
          /\ VerificationToken'[o].sentTo = VerificationToken[o].sentTo
          /\ VerificationToken'[o].attempts = VerificationToken[o].attempts
    BY <1>1, <1>5, <1>6
  <1>10. QED
    BY <1>1, <1>5, <1>8, <1>9 DEF Thins

LEMMA ConfirmKept ==
  ASSUME LinksInv, NEW r \in Requests, Confirm(r) PROVE LinksInv'
  <1> DEFINE t == request[r].token
  <1>1. /\ UNCHANGED <<User, PolicyAcceptance, Session, DataExportAuthorization, last, history>>
        /\ request[r].at = "confirm"
    BY DEF Confirm
  <1>2. request' \in [Requests -> Asked] /\ \A q \in Requests : Settles(q)
    <2>1. Done(r) \/ Goto(r, "compensate")
      BY DEF Confirm
    <2>2. QED
      BY <1>1, <2>1, GoesOn, Finishes DEF Steps, Redeeming
  <1>3. CASE ~Confirmable(t)
    <2>1. VerificationToken' = VerificationToken
      BY <1>3 DEF Confirm
    <2>2. Trims /\ VerificationToken' \in [DOMAIN VerificationToken' -> Link]
      BY <2>1 DEF LinksInv, TypeOK, Thins, Trims
    <2>3. QED
      BY <1>1, <1>2, <2>2, LinksTrimmed
  <1>4. CASE Confirmable(t)
    <2>1. VerificationToken' = [Without(VerificationToken, Superseded(t)) EXCEPT ![t].delivered = TRUE]
      BY <1>4 DEF Confirm
    <2> HIDE DEF t
    <2>2. /\ Thins /\ VerificationToken' \in [DOMAIN VerificationToken' -> Link]
          /\ DOMAIN VerificationToken' = DOMAIN VerificationToken \ Superseded(t)
          /\ \A o \in DOMAIN VerificationToken' \ {t} :
               VerificationToken'[o].delivered = VerificationToken[o].delivered
      BY <1>4, <2>1, ConfirmsFacts
    <2>3. TypeOK'
      BY <1>1, <1>2, <2>2 DEF LinksInv, TypeOK, Thins
    <2>4. ASSUME NEW o \in DOMAIN VerificationToken' \ {t},
                 VerificationToken[t].purpose = "ACCOUNT_DATA_EXPORT",
                 VerificationToken[o].purpose = VerificationToken[t].purpose,
                 VerificationToken[o].address = VerificationToken[t].address
          PROVE  ~VerificationToken'[o].delivered
      BY <2>2, <2>4 DEF Superseded, Links, Thins
    <2>5. LinksAlone'
      <3> SUFFICES ASSUME NEW i \in DOMAIN VerificationToken', NEW o \in DOMAIN VerificationToken',
                          i # o,
                          VerificationToken'[i].purpose = VerificationToken'[o].purpose,
                          VerificationToken'[i].address = VerificationToken'[o].address
                   PROVE  /\ VerificationToken'[i].purpose = "ACCOUNT_DATA_EXPORT"
                          /\ ~(VerificationToken'[i].delivered /\ VerificationToken'[o].delivered)
        BY DEF LinksAlone
      <3>1. /\ i \in DOMAIN VerificationToken /\ o \in DOMAIN VerificationToken
            /\ VerificationToken[i].purpose = VerificationToken[o].purpose
            /\ VerificationToken[i].address = VerificationToken[o].address
            /\ VerificationToken'[i].purpose = VerificationToken[i].purpose
        BY <2>2 DEF Thins
      <3>2. /\ VerificationToken[i].purpose = "ACCOUNT_DATA_EXPORT"
            /\ ~(VerificationToken[i].delivered /\ VerificationToken[o].delivered)
        BY <3>1 DEF LinksInv, LinksAlone
      <3>3. CASE i = t
        BY <3>1, <3>2, <3>3, <2>4
      <3>4. CASE o = t
        BY <3>1, <3>2, <3>4, <2>4
      <3>5. CASE i # t /\ o # t
        BY <3>1, <3>2, <3>5, <2>2
      <3>6. QED
        BY <3>3, <3>4, <3>5
    <2>6. SessionStep /\ last.deaths \in Nat
      BY <1>1, Numbers DEF LinksInv, Numeric, SessionStep
    <2>7. QED
      BY <1>1, <1>2, <2>2, <2>3, <2>5, <2>6, SettledAlone
  <1>5. QED
    BY <1>3, <1>4

-----------------------------------------------------------------------------
(* Requests that charge a guess *)

LEMMA ChargingFinite ==
  ASSUME NEW t
  PROVE  /\ IsFiniteSet(Charging(t)) /\ Cardinality(Charging(t)) \in Nat
         /\ IsFiniteSet(Charging(t)') /\ Cardinality(Charging(t)') \in Nat
         /\ Cardinality(Requests) \in Nat
         /\ Cardinality(Charging(t)') <= Cardinality(Requests)
  <1>1. Charging(t) \subseteq Requests /\ Charging(t)' \subseteq Requests
    BY DEF Charging
  <1>2. QED
    BY <1>1, AccountsAssumption, FS_Subset, FS_CardinalityType

LEMMA OneLess ==
  ASSUME NEW r \in Requests, Moves(r), NEW t
  PROVE  /\ Cardinality(Charging(t)) <= Cardinality(Charging(t)') + 1
         /\ r \notin Charging(t) => Cardinality(Charging(t)) <= Cardinality(Charging(t)')
  <1> DEFINE before == Charging(t)
             after == Charging(t)'
  <1>1. before \ {r} \subseteq after
    BY DEF Charging, Moves
  <1>2. IsFiniteSet(before) /\ IsFiniteSet(after)
    BY ChargingFinite
  <1> HIDE DEF before, after
  <1>3. /\ IsFiniteSet(before \ {r}) /\ Cardinality(before \ {r}) <= Cardinality(after)
        /\ Cardinality(before \ {r}) \in Nat /\ Cardinality(after) \in Nat
    BY <1>1, <1>2, FS_Subset, FS_RemoveElement, FS_CardinalityType
  <1>4. CASE r \in before
    <2>1. Cardinality(before \ {r}) = Cardinality(before) - 1 /\ Cardinality(before) \in Nat
      BY <1>2, <1>4, FS_RemoveElement, FS_CardinalityType
    <2>2. QED
      BY <1>3, <1>4, <2>1 DEF before, after
  <1>5. CASE r \notin before
    <2>1. before \ {r} = before
      BY <1>5
    <2>2. QED
      BY <1>3, <2>1 DEF before, after
  <1>6. QED
    BY <1>4, <1>5

LEMMA OneMore ==
  ASSUME NEW r \in Requests, Moves(r), NEW t, request[r].at # "charge",
         request'[r].at = "charge", request'[r].token = t
  PROVE  Cardinality(Charging(t)') = Cardinality(Charging(t)) + 1
  <1>1. Charging(t)' = Charging(t) \cup {r} /\ r \notin Charging(t)
    BY DEF Charging, Moves
  <1>2. QED
    BY <1>1, ChargingFinite, FS_AddElement

\* A request that dies may take a guess with it, which is counted as its death.
LEMMA DiesKept ==
  ASSUME LinksInv, NEW r \in Requests, Dies(r) PROVE LinksInv'
  <1>1. UNCHANGED <<User, PolicyAcceptance, VerificationToken, Session, DataExportAuthorization, history>>
    BY DEF Dies, tables
  <1>2. /\ Moves(r) /\ request'[r] = Idle
    BY DoneFacts DEF LinksInv, Dies
  <1>3. /\ last \in [user : Nat, token : 0 .. MaxTokens, session : Nat, deaths : Nat, out : SUBSET Nat]
        /\ last' = [last EXCEPT !.deaths = @ + 1]
    BY DEF LinksInv, TypeOK, Dies
  <1>4. /\ last' \in [user : Nat, token : 0 .. MaxTokens, session : Nat, deaths : Nat, out : SUBSET Nat]
        /\ last'.user = last.user /\ last'.token = last.token /\ last'.session = last.session
        /\ last'.deaths = last.deaths + 1
    BY <1>3
  <1>5. TypeOK'
    BY <1>1, <1>2, <1>4 DEF LinksInv, TypeOK, Moves
  <1>6. \A q \in Requests : Informed(q) /\ TakesNone(q)
    BY <1>2, <1>5, NextIdleKnows, IdleFacts DEF Moves, Informed, TakesNone, Redeeming
  <1>7. Trims /\ SessionStep
    BY <1>1 DEF Thins, Trims, SessionStep
  <1>8. /\ LinkStep /\ last'.token <= MaxTokens
        /\ DOMAIN VerificationToken' \subseteq DOMAIN VerificationToken
    BY <1>4, <1>7, SameNumbers DEF Trims
  <1>9. UserStep /\ Stays /\ (Active \subseteq PolicyAcceptance)'
    BY <1>1, <1>4, SameAccounts
  <1>10. OnlyUse'
    BY <1>1, <1>5, <1>6, <1>8, OnlyUseKept DEF LinksInv
  <1>11. LinksAlone'
    BY <1>7, LinksAloneKept DEF LinksInv
  <1>12. Charged'
    <2>1. /\ last.token \in Nat /\ last.deaths \in Nat /\ AttemptBudget \in Nat
          /\ Cardinality(Requests) \in Nat
          /\ \A t \in 1 .. MaxTokens : history[t].guesses \in Nat
      BY Numbers, AccountsAssumption, FS_CardinalityType DEF LinksInv, Numeric
    <2>2. \A t \in 1 .. MaxTokens :
            /\ history'[t].guesses < AttemptBudget + Cardinality(Requests) + last'.deaths
            /\ t > last'.token => history'[t].guesses = 0
      BY <1>1, <1>4, <2>1 DEF LinksInv, Charged
    <2>3. \A q \in Requests : request'[q].at = "charge" =>
            request'[q].token \in 1 .. last'.token /\ request'[q].purpose = "LOGIN"
      BY <1>2, <1>4, IdleFacts DEF LinksInv, Charged, Moves
    <2>4. ASSUME NEW t \in DOMAIN VerificationToken'
          PROVE  /\ VerificationToken'[t].attempts < AttemptBudget
                 /\ history'[t].guesses <= VerificationToken'[t].attempts
                                             + Cardinality(Charging(t)') + last'.deaths
      <3> DEFINE busy == Cardinality(Charging(t))
                 next == Cardinality(Charging(t)')
                 tried == VerificationToken[t].attempts
      <3>1. busy \in Nat /\ next \in Nat /\ busy <= next + 1
        BY <1>2, ChargingFinite, OneLess
      <3>2. /\ t \in DOMAIN VerificationToken /\ t \in 1 .. MaxTokens /\ tried \in Nat
        BY <1>1, Numbers, AccountsAssumption DEF LinksInv, TypeOK, Numeric, Link
      <3>3. tried < AttemptBudget /\ history[t].guesses <= tried + busy + last.deaths
        BY <3>2 DEF LinksInv, Charged
      <3>4. VerificationToken'[t].attempts = tried /\ history'[t].guesses = history[t].guesses
        BY <1>1
      <3> HIDE DEF busy, next, tried
      <3>5. history[t].guesses <= tried + next + last'.deaths
        BY <1>4, <2>1, <3>1, <3>2, <3>3
      <3>6. QED
        BY <3>3, <3>4, <3>5 DEF next
    <2>5. QED
      BY <2>2, <2>3, <2>4 DEF Charged
  <1>13. QED
    BY <1>5, <1>6, <1>7, <1>8, <1>9, <1>10, <1>11, <1>12, Assembled

LEMMA GuessCompared ==
  ASSUME LinksInv, NEW r \in Requests, NEW a \in Addresses, NEW t \in Links("LOGIN", a),
         Starts(r, [Idle EXCEPT !.at = "charge", !.token = t, !.address = a]),
         history' = [history EXCEPT ![t].guesses = @ + 1], UNCHANGED <<tables, last>>
  PROVE  LinksInv'
  <1> DEFINE fields == [Idle EXCEPT !.at = "charge", !.token = t, !.address = a]
  <1>1. /\ t \in DOMAIN VerificationToken /\ VerificationToken[t].purpose = "LOGIN"
        /\ VerificationToken[t].address = a
    BY DEF Links
  <1>2. /\ t \in Nat /\ t <= last.token /\ t \in 1 .. last.token /\ t \in 1 .. MaxTokens
    BY <1>1, Numbers DEF LinksInv, Numeric
  <1>3. Idle \in Asked /\ Idle.user = 0 /\ Idle.purpose = "LOGIN" /\ Idle.at = "idle"
    BY IdleFacts
  <1>4. /\ fields \in Asked /\ fields.at = "charge" /\ fields.user = 0 /\ fields.token = t
        /\ fields.address = a /\ fields.purpose = "LOGIN"
    BY <1>2, <1>3 DEF Asked, Steps
  <1>5. Starts(r, fields)
    OBVIOUS
  <1> HIDE DEF fields
  <1>6. Moves(r) /\ request'[r] = fields /\ request[r].at = "idle"
    BY <1>3, <1>4, <1>5, StartsFacts DEF LinksInv
  <1>7. OneOwner(fields, User, last) /\ OwnLink(fields, VerificationToken)
    BY <1>1, <1>2, <1>4, Anonymous DEF OwnLink
  <1>8. /\ \A i \in 1 .. MaxTokens : history'[i].uses = history[i].uses
        /\ \A i \in 1 .. MaxTokens \ {t} : history'[i].guesses = history[i].guesses
        /\ history'[t].guesses = history[t].guesses + 1
        /\ history' \in [1 .. MaxTokens -> [guesses : Nat, uses : Nat]]
    <2>1. history \in [1 .. MaxTokens -> [guesses : Nat, uses : Nat]]
      BY DEF LinksInv, TypeOK
    <2>2. QED
      BY <1>2, <2>1
  <1>9. TypeOK'
    BY <1>6, <1>8 DEF LinksInv, TypeOK, tables, Moves
  <1>10. \A q \in Requests : Informed(q) /\ TakesNone(q)
    BY <1>4, <1>6, <1>7 DEF Moves, Informed, TakesNone, Redeeming, tables
  <1>11. Trims /\ SessionStep
    BY DEF tables, Thins, Trims, SessionStep
  <1>12. /\ LinkStep /\ last'.token <= MaxTokens
         /\ DOMAIN VerificationToken' \subseteq DOMAIN VerificationToken
    BY <1>11, SameNumbers DEF Trims
  <1>13. UserStep /\ Stays /\ (Active \subseteq PolicyAcceptance)'
    BY SameAccounts DEF tables
  <1>14. OnlyUse'
    BY <1>8, <1>9, <1>10, <1>12, OnlyUseKept DEF LinksInv
  <1>15. LinksAlone'
    BY <1>11, LinksAloneKept DEF LinksInv
  <1>16. Charged'
    <2> DEFINE deaths == last.deaths
               all == Cardinality(Requests)
    <2>1. /\ last.token \in Nat /\ deaths \in Nat /\ AttemptBudget \in Nat /\ all \in Nat
          /\ \A i \in 1 .. MaxTokens : history[i].guesses \in Nat
          /\ last' = last /\ VerificationToken' = VerificationToken
      BY Numbers, AccountsAssumption, FS_CardinalityType DEF LinksInv, Numeric, tables
    <2>2. ASSUME NEW i \in DOMAIN VerificationToken
          PROVE  /\ VerificationToken[i].attempts < AttemptBudget
                 /\ history'[i].guesses <= VerificationToken[i].attempts
                                             + Cardinality(Charging(i)') + deaths
                 /\ history'[i].guesses < AttemptBudget + all + deaths
      <3> DEFINE busy == Cardinality(Charging(i))
                 next == Cardinality(Charging(i)')
                 tried == VerificationToken[i].attempts
      <3>1. busy \in Nat /\ next \in Nat /\ next <= all
        BY ChargingFinite
      <3>2. i \in 1 .. MaxTokens /\ tried \in Nat
        BY Numbers, AccountsAssumption DEF LinksInv, TypeOK, Numeric, Link
      <3>3. tried < AttemptBudget /\ history[i].guesses <= tried + busy + deaths
        BY DEF LinksInv, Charged
      <3>4. history'[i].guesses <= tried + next + deaths
        <4>1. CASE i = t
          <5>1. next = busy + 1
            BY <1>4, <1>6, <4>1, OneMore
          <5> HIDE DEF busy, next, tried
          <5>2. QED
            BY <1>8, <2>1, <3>1, <3>2, <3>3, <4>1, <5>1
        <4>2. CASE i # t
          <5>1. busy <= next
            BY <1>6, OneLess DEF Charging
          <5> HIDE DEF busy, next, tried
          <5>2. QED
            BY <1>8, <2>1, <3>1, <3>2, <3>3, <4>2, <5>1
        <4>3. QED
          BY <4>1, <4>2
      <3>5. history'[i].guesses \in Nat
        BY <1>8, <2>1, <3>2
      <3> HIDE DEF busy, next, tried, all, deaths
      <3>6. history'[i].guesses < AttemptBudget + all + deaths
        BY <2>1, <3>1, <3>2, <3>3, <3>4, <3>5
      <3>7. QED
        BY <3>3, <3>4, <3>6 DEF next, tried
    <2>3. \A i \in 1 .. MaxTokens :
            /\ history'[i].guesses < AttemptBudget + all + deaths
            /\ i > last.token => history'[i].guesses = 0
      BY <1>1, <1>2, <1>8, <2>1, <2>2 DEF LinksInv, Charged
    <2>4. \A q \in Requests : request'[q].at = "charge" =>
            request'[q].token \in 1 .. last.token /\ request'[q].purpose = "LOGIN"
      BY <1>2, <1>4, <1>6 DEF LinksInv, Charged, Moves
    <2>5. QED
      BY <2>1, <2>2, <2>3, <2>4 DEF Charged
  <1>17. QED
    BY <1>9, <1>10, <1>11, <1>12, <1>13, <1>14, <1>15, <1>16, Assembled

LEMMA GuessKept ==
  ASSUME LinksInv, NEW r \in Requests, NEW a \in Addresses, findLoginChallengeCodeHash(r, a)
  PROVE  LinksInv'
  <1> PICK t \in Links("LOGIN", a) \cap Fresh :
        /\ \/ /\ t \in Arrived
              /\ Starts(r, [Idle EXCEPT !.at = "consume", !.token = t, !.address = a])
              /\ UNCHANGED history
           \/ /\ Starts(r, [Idle EXCEPT !.at = "charge", !.token = t, !.address = a])
              /\ history' = [history EXCEPT ![t].guesses = @ + 1]
        /\ UNCHANGED <<tables, last>>
    BY DEF findLoginChallengeCodeHash
  <1>1. CASE Starts(r, [Idle EXCEPT !.at = "consume", !.token = t, !.address = a]) /\ UNCHANGED history
    <2> DEFINE fields == [Idle EXCEPT !.at = "consume", !.token = t, !.address = a]
    <2>1. /\ t \in DOMAIN VerificationToken /\ VerificationToken[t].purpose = "LOGIN"
          /\ VerificationToken[t].address = a
      BY DEF Links
    <2>2. t \in Nat /\ t <= last.token
      BY <2>1, Numbers DEF LinksInv, Numeric
    <2>3. Idle \in Asked /\ Idle.user = 0 /\ Idle.purpose = "LOGIN"
      BY IdleFacts
    <2>4. /\ fields \in Asked /\ fields.at = "consume" /\ fields.user = 0 /\ fields.token = t
          /\ fields.address = a /\ fields.purpose = "LOGIN"
      BY <2>2, <2>3 DEF Asked, Steps
    <2>5. Starts(r, fields) /\ UNCHANGED <<tables, last, history>>
      BY <1>1
    <2> HIDE DEF fields
    <2>6. OneOwner(fields, User, last) /\ OwnLink(fields, VerificationToken)
      BY <2>1, <2>2, <2>4, Anonymous DEF OwnLink
    <2>7. QED
      BY <2>4, <2>5, <2>6, Begins DEF Redeeming
  <1>2. CASE /\ Starts(r, [Idle EXCEPT !.at = "charge", !.token = t, !.address = a])
             /\ history' = [history EXCEPT ![t].guesses = @ + 1]
    BY <1>2, GuessCompared
  <1>3. QED
    BY <1>1, <1>2

\* What the charge does to the links: it discards those of the address, or counts.
ChargeStep(charged) ==
  \A t \in DOMAIN VerificationToken' :
    /\ t \in DOMAIN VerificationToken
    /\ VerificationToken'[t].address = VerificationToken[t].address
    /\ VerificationToken'[t].purpose = VerificationToken[t].purpose
    /\ VerificationToken'[t].sentTo = VerificationToken[t].sentTo
    /\ VerificationToken'[t].delivered = VerificationToken[t].delivered
    /\ \/ t \notin charged /\ VerificationToken'[t].attempts = VerificationToken[t].attempts
       \/ /\ t \in charged /\ VerificationToken'[t].attempts = VerificationToken[t].attempts + 1
          /\ VerificationToken'[t].attempts < AttemptBudget

LEMMA ChargeFacts ==
  ASSUME LinksInv, NEW r \in Requests, registerFailedLoginCodeAttempt(r)
  PROVE  /\ ChargeStep(Links("LOGIN", request[r].address))
         /\ VerificationToken' \in [DOMAIN VerificationToken' -> Link]
  <1> DEFINE charged == Links("LOGIN", request[r].address)
  <1>1. CASE \E t \in charged : Spent(VerificationToken[t].attempts + 1)
    <2>1. VerificationToken' = Without(VerificationToken, charged)
      BY <1>1 DEF registerFailedLoginCodeAttempt
    <2> HIDE DEF charged
    <2>2. Trims /\ VerificationToken' \in [DOMAIN VerificationToken' -> Link]
          /\ DOMAIN VerificationToken' = DOMAIN VerificationToken \ charged
      BY <2>1, LinksGone
    <2>3. QED
      BY <2>2 DEF Trims, Thins, ChargeStep, charged
  <1>2. CASE ~ \E t \in charged : Spent(VerificationToken[t].attempts + 1)
    <2>1. VerificationToken' =
            [t \in DOMAIN VerificationToken |->
               IF t \in charged
               THEN [VerificationToken[t] EXCEPT !.attempts = @ + 1]
               ELSE VerificationToken[t]]
      BY <1>2 DEF registerFailedLoginCodeAttempt
    <2>2. \A t \in DOMAIN VerificationToken :
            VerificationToken[t] \in Link /\ VerificationToken[t].attempts \in Nat
      BY AccountsAssumption DEF LinksInv, TypeOK, Link
    <2>3. \A t \in charged : t \in DOMAIN VerificationToken /\ VerificationToken[t].attempts + 1 < AttemptBudget
      BY <1>2, <2>2, AccountsAssumption DEF Spent, Links
    <2> HIDE DEF charged
    <2>4. /\ DOMAIN VerificationToken' = DOMAIN VerificationToken
          /\ \A t \in DOMAIN VerificationToken \ charged : VerificationToken'[t] = VerificationToken[t]
          /\ \A t \in charged :
               VerificationToken'[t] = [VerificationToken[t] EXCEPT !.attempts = VerificationToken[t].attempts + 1]
      BY <2>1, <2>3
    <2>5. \A t \in charged :
            /\ VerificationToken'[t] \in Link
            /\ VerificationToken'[t].address = VerificationToken[t].address
            /\ VerificationToken'[t].purpose = VerificationToken[t].purpose
            /\ VerificationToken'[t].sentTo = VerificationToken[t].sentTo
            /\ VerificationToken'[t].delivered = VerificationToken[t].delivered
            /\ VerificationToken'[t].attempts = VerificationToken[t].attempts + 1
      <3> TAKE t \in charged
      <3> DEFINE row == VerificationToken[t]
                 next == VerificationToken'[t]
                 tried == row.attempts + 1
      <3>1. row \in Link /\ tried \in 0 .. AttemptBudget
        BY <2>2, <2>3, AccountsAssumption
      <3>2. next = [row EXCEPT !.attempts = tried]
        BY <2>4
      <3> HIDE DEF row, next, tried
      <3>3. /\ next \in Link /\ next.address = row.address /\ next.purpose = row.purpose
            /\ next.sentTo = row.sentTo /\ next.delivered = row.delivered /\ next.attempts = tried
        BY <3>1, <3>2 DEF Link
      <3>4. QED
        BY <3>3 DEF row, next, tried
    <2>6. ChargeStep(charged)
      BY <2>3, <2>4, <2>5 DEF ChargeStep
    <2>7. \A t \in DOMAIN VerificationToken' : VerificationToken'[t] \in Link
      BY <2>2, <2>4, <2>5
    <2>8. VerificationToken' = [t \in DOMAIN VerificationToken' |-> VerificationToken'[t]]
      BY <2>1
    <2>9. VerificationToken' \in [DOMAIN VerificationToken' -> Link]
      BY <2>7, <2>8, Zenon
    <2>10. QED
      BY <2>6, <2>9 DEF charged
  <1>3. QED
    BY <1>1, <1>2

LEMMA ChargeKept ==
  ASSUME LinksInv, NEW r \in Requests, registerFailedLoginCodeAttempt(r)
  PROVE  LinksInv'
  <1> DEFINE charged == Links("LOGIN", request[r].address)
  <1>1. /\ UNCHANGED <<User, PolicyAcceptance, Session, DataExportAuthorization, last, history>>
        /\ request[r].at = "charge" /\ Done(r)
    BY DEF registerFailedLoginCodeAttempt
  <1>2. ChargeStep(charged) /\ VerificationToken' \in [DOMAIN VerificationToken' -> Link]
    BY ChargeFacts
  <1>3. Moves(r) /\ request'[r] = Idle
    BY <1>1, DoneFacts DEF LinksInv
  <1>4. \A t \in DOMAIN VerificationToken' : t \notin charged => request[r].token # t
    <2> SUFFICES ASSUME NEW t \in DOMAIN VerificationToken', request[r].token = t
                 PROVE  t \in charged
      OBVIOUS
    <2>1. t \in DOMAIN VerificationToken /\ OwnLink(request[r], VerificationToken)
      BY <1>2 DEF LinksInv, Knows, ChargeStep
    <2>2. /\ VerificationToken[t].address = request[r].address
          /\ VerificationToken[t].purpose = request[r].purpose
      BY <1>1, <2>1 DEF OwnLink
    <2>3. request[r].purpose = "LOGIN"
      BY <1>1 DEF LinksInv, Charged
    <2>4. QED
      BY <2>1, <2>2, <2>3 DEF Links
  <1> HIDE DEF charged
  <1>5. TypeOK'
    BY <1>1, <1>2, <1>3 DEF LinksInv, TypeOK, Moves, ChargeStep
  <1>6. \A q \in Requests : Informed(q) /\ TakesNone(q)
    BY <1>3, <1>5, NextIdleKnows, IdleFacts DEF Moves, Informed, TakesNone, Redeeming
  <1>7. SessionStep
    BY <1>1 DEF SessionStep
  <1>8. /\ LinkStep /\ last'.token <= MaxTokens
        /\ DOMAIN VerificationToken' \subseteq DOMAIN VerificationToken
    BY <1>1, <1>2, Numbers DEF LinksInv, Numeric, LinkStep, ChargeStep
  <1>9. UserStep /\ Stays /\ (Active \subseteq PolicyAcceptance)'
    BY <1>1, SameAccounts
  <1>10. OnlyUse'
    BY <1>1, <1>5, <1>6, <1>8, OnlyUseKept DEF LinksInv
  <1>11. LinksAlone'
    BY <1>2 DEF LinksInv, LinksAlone, ChargeStep
  <1>12. Charged'
    <2>1. \A t \in 1 .. MaxTokens :
            /\ history'[t].guesses < AttemptBudget + Cardinality(Requests) + last'.deaths
            /\ t > last'.token => history'[t].guesses = 0
      BY <1>1 DEF LinksInv, Charged
    <2>2. \A q \in Requests : request'[q].at = "charge" =>
            request'[q].token \in 1 .. last'.token /\ request'[q].purpose = "LOGIN"
      BY <1>1, <1>3, IdleFacts DEF LinksInv, Charged, Moves
    <2>3. ASSUME NEW t \in DOMAIN VerificationToken'
          PROVE  /\ VerificationToken'[t].attempts < AttemptBudget
                 /\ history'[t].guesses <= VerificationToken'[t].attempts
                                             + Cardinality(Charging(t)') + last'.deaths
      <3> DEFINE busy == Cardinality(Charging(t))
                 next == Cardinality(Charging(t)')
                 tried == VerificationToken[t].attempts
                 guesses == history[t].guesses
                 deaths == last.deaths
      <3>1. busy \in Nat /\ next \in Nat /\ busy <= next + 1
        BY <1>3, ChargingFinite, OneLess
      <3>2. t \in DOMAIN VerificationToken /\ t \in 1 .. MaxTokens
        BY <1>2, Numbers DEF LinksInv, Numeric, ChargeStep
      <3>3. tried \in Nat /\ guesses \in Nat /\ deaths \in Nat /\ AttemptBudget \in Nat
        BY <3>2, Numbers, AccountsAssumption DEF LinksInv, TypeOK, Numeric, Link
      <3>4. tried < AttemptBudget /\ guesses <= tried + busy + deaths
        BY <3>2 DEF LinksInv, Charged
      <3>5. t \notin charged => busy <= next
        BY <1>3, <1>4, OneLess DEF Charging
      <3>6. \/ t \notin charged /\ VerificationToken'[t].attempts = tried
            \/ VerificationToken'[t].attempts = tried + 1 /\ VerificationToken'[t].attempts < AttemptBudget
        BY <1>2 DEF ChargeStep
      <3>7. history'[t].guesses = guesses /\ last'.deaths = deaths
        BY <1>1
      <3> HIDE DEF busy, next, tried, guesses, deaths
      <3>8. /\ VerificationToken'[t].attempts < AttemptBudget
            /\ guesses <= VerificationToken'[t].attempts + next + deaths
        BY <3>1, <3>3, <3>4, <3>5, <3>6
      <3>9. QED
        BY <3>7, <3>8 DEF next
    <2>4. QED
      BY <2>1, <2>2, <2>3 DEF Charged
  <1>13. QED
    BY <1>5, <1>6, <1>7, <1>8, <1>9, <1>10, <1>11, <1>12, Assembled

-----------------------------------------------------------------------------
(* Links that are used up *)

LEMMA FindsKept ==
  ASSUME LinksInv, NEW r \in Requests, FindUser(r) PROVE LinksInv'
  <1>1. request[r].at = "find" /\ UNCHANGED <<tables, last, history>>
    BY DEF FindUser
  <1>2. CASE Done(r)
    BY <1>1, <1>2, OnlyDone
  <1>3. ASSUME NEW u \in AccountOf(request[r].address) \cap Active,
               request' = [request EXCEPT ![r].at = "open", ![r].user = u]
        PROVE  LinksInv'
    <2> DEFINE opens == [request EXCEPT ![r].at = "open"]
    <2>1. request \in [Requests -> Asked]
      BY DEF LinksInv, TypeOK
    <2>2. u \in Nat /\ u <= last.user /\ u \in DOMAIN User /\ User[u].status = "ACTIVE"
          /\ User[u].address = request[r].address
      BY Numbers DEF LinksInv, Numeric, Active, AccountOf
    <2>3. /\ opens \in [Requests -> Asked] /\ opens[r].at = "open"
          /\ opens[r].token = request[r].token /\ opens[r].address = request[r].address
          /\ \A q \in Requests \ {r} : opens[q] = request[q]
      BY <2>1 DEF Asked, Steps
    <2>4. request' = [opens EXCEPT ![r].user = u]
      BY <1>3
    <2> HIDE DEF opens
    <2>5. /\ Moves(r) /\ request'[r].at = "open" /\ request'[r].user = u
          /\ request'[r].token = request[r].token /\ request'[r].address = request[r].address
      BY <2>2, <2>3, <2>4 DEF Moves, Asked
    <2>6. OneOwner(request'[r], User, last) /\ OwnLink(request'[r], VerificationToken)
      BY <2>2, <2>5 DEF LinksInv, Knows, OneOwner, OwnLink
    <2>7. \A q \in Requests : Settles(q)
      BY <1>1, <2>5, <2>6 DEF Settles, Informed, TakesNone, GuessesNone, Moves, Redeems, Redeeming, tables
    <2>8. TypeOK'
      BY <1>1, <2>5 DEF LinksInv, TypeOK, tables, Moves
    <2>9. Trims /\ SessionStep /\ last.deaths \in Nat
      BY <1>1, Numbers DEF LinksInv, Numeric, tables, Thins, Trims, SessionStep
    <2>10. QED
      BY <1>1, <2>7, <2>8, <2>9, Settled DEF tables
  <1>4. QED
    BY <1>2, <1>3 DEF FindUser

\* A link is taken away, and its request goes on to sign in with it.
LEMMA Taken ==
  ASSUME LinksInv, TypeOK', NEW r \in Requests, NEW t \in DOMAIN VerificationToken,
         UNCHANGED <<last, history>>, DOMAIN VerificationToken' \subseteq DOMAIN VerificationToken \ {t},
         Moves(r), request'[r].at \in Redeeming, request'[r].token = t
  PROVE  OnlyUse'
  <1>1. t \in 1 .. last.token /\ t \in 1 .. MaxTokens /\ history[t].uses = 0
    BY Numbers DEF LinksInv, Numeric, OnlyUse
  <1>2. \A q \in Requests \ {r} : request'[q] = request[q]
    BY DEF Moves
  <1>3. \A q \in Requests \ {r} : Redeems(q)' =>
          /\ request'[q].token \in 1 .. last.token \ DOMAIN VerificationToken
          /\ history[request'[q].token].uses = 0 /\ request'[q].token # t
    BY <1>2 DEF LinksInv, OnlyUse, Redeems
  <1>4. \A q \in Requests : Redeems(q)' =>
          /\ request'[q].token \in 1 .. last'.token \ DOMAIN VerificationToken'
          /\ history'[request'[q].token].uses = 0
    BY <1>1, <1>3
  <1>5. \A p, q \in Requests :
          p # q /\ Redeems(p)' /\ Redeems(q)' => request'[p].token # request'[q].token
    BY <1>2, <1>3 DEF LinksInv, OnlyUse, Redeems
  <1>6. \A i \in 1 .. MaxTokens :
          /\ history'[i].uses <= 1
          /\ i > last'.token => history'[i].uses = 0
    BY DEF LinksInv, OnlyUse
  <1>7. \A i \in DOMAIN VerificationToken' : history'[i].uses = 0
    BY DEF LinksInv, OnlyUse
  <1>8. QED
    BY <1>4, <1>5, <1>6, <1>7 DEF OnlyUse

\* Only that: the rest of what a link is good for is the caller's.
LEMMA TakenKept ==
  ASSUME LinksInv, NEW r \in Requests, NEW t \in DOMAIN VerificationToken, NEW ids, t \in ids,
         VerificationToken' = Without(VerificationToken, ids),
         UNCHANGED <<Session, DataExportAuthorization, last, history>>,
         DOMAIN User' = DOMAIN User, User' \in [DOMAIN User' -> Account],
         PolicyAcceptance' \subseteq DOMAIN User',
         UserStep, Stays, (Active \subseteq PolicyAcceptance)',
         Moves(r), request[r].at # "charge", request'[r].at = "find", request'[r].token = t,
         OneOwner(request'[r], User', last')
  PROVE  LinksInv'
  <1>1. /\ Trims /\ VerificationToken' \in [DOMAIN VerificationToken' -> Link]
        /\ DOMAIN VerificationToken' = DOMAIN VerificationToken \ ids
    BY LinksGone
  <1>2. TypeOK'
    BY <1>1 DEF LinksInv, TypeOK, Moves
  <1>3. \A q \in Requests : Informed(q) /\ GuessesNone(q)
    BY DEF Moves, Informed, GuessesNone, OwnLink
  <1>4. LinksAlone'
    BY <1>1, LinksAloneKept DEF LinksInv
  <1>5. OnlyUse'
    BY <1>1, <1>2, Taken DEF Redeeming
  <1>6. Charged'
    <2>1. Counts /\ last'.token >= last.token /\ last'.deaths >= last.deaths
      BY <1>1, Numbers DEF LinksInv, Numeric, Trims, Thins, Counts
    <2>2. QED
      BY <1>2, <1>3, <2>1, ChargedKept DEF LinksInv
  <1>7. LinkStep /\ DOMAIN VerificationToken' \subseteq DOMAIN VerificationToken /\ SessionStep
    BY <1>1, SameNumbers DEF Trims, SessionStep
  <1>8. QED
    BY <1>2, <1>3, <1>4, <1>5, <1>6, <1>7, Assembled

LEMMA TakesLink ==
  ASSUME LinksInv, NEW r \in Requests, request[r].token \in DOMAIN VerificationToken,
         NEW ids, request[r].token \in ids,
         VerificationToken' = Without(VerificationToken, ids), Goto(r, "find"),
         request[r].at # "charge",
         UNCHANGED <<User, PolicyAcceptance, Session, DataExportAuthorization, last, history>>
  PROVE  LinksInv'
  <1>1. /\ Moves(r) /\ request'[r].at = "find" /\ request'[r].token = request[r].token
        /\ request'[r].user = request[r].user /\ request'[r].address = request[r].address
    BY GotoFacts DEF LinksInv, Steps
  <1>2. OneOwner(request'[r], User', last')
    BY <1>1 DEF LinksInv, Knows, OneOwner
  <1>3. UserStep /\ Stays /\ (Active \subseteq PolicyAcceptance)'
    BY SameAccounts
  <1>4. User' \in [DOMAIN User' -> Account] /\ PolicyAcceptance' \subseteq DOMAIN User'
    BY DEF LinksInv, TypeOK
  <1>5. QED
    BY <1>1, <1>2, <1>3, <1>4, TakenKept

LEMMA RedeemCodeKept ==
  ASSUME LinksInv, NEW r \in Requests, RedeemCode(r) PROVE LinksInv'
  <1> DEFINE t == request[r].token
  <1>1. /\ request[r].at = "consume"
        /\ UNCHANGED <<User, PolicyAcceptance, Session, DataExportAuthorization, last, history>>
    BY DEF RedeemCode
  <1>2. CASE t \in Fresh
    <2>1. /\ VerificationToken' = Without(VerificationToken, {t}) /\ Goto(r, "find")
          /\ t \in DOMAIN VerificationToken
      BY <1>2 DEF RedeemCode, Fresh
    <2>2. QED
      BY <1>1, <2>1, TakesLink
  <1>3. CASE t \notin Fresh
    BY <1>1, <1>3, OnlyDone DEF RedeemCode, tables
  <1>4. QED
    BY <1>2, <1>3

LEMMA ConsumeDeletionKept ==
  ASSUME LinksInv, NEW r \in Requests, ConsumeDeletionLink(r) PROVE LinksInv'
  <1> DEFINE t == request[r].token
  <1>1. /\ request[r].at = "consume"
        /\ UNCHANGED <<User, PolicyAcceptance, Session, DataExportAuthorization, last, history>>
    BY DEF ConsumeDeletionLink
  <1>2. CASE Confirmed(t)
    <2>1. /\ VerificationToken' = Without(VerificationToken, {t}) /\ Goto(r, "find")
          /\ t \in DOMAIN VerificationToken
      BY <1>2 DEF ConsumeDeletionLink, Confirmed, Fresh
    <2>2. QED
      BY <1>1, <2>1, TakesLink
  <1>3. CASE ~Confirmed(t)
    BY <1>1, <1>3, OnlyDone DEF ConsumeDeletionLink, tables
  <1>4. QED
    BY <1>2, <1>3

LEMMA RedeemLinkKept ==
  ASSUME LinksInv, NEW r \in Requests, RedeemLink(r) PROVE LinksInv'
  <1> PICK t \in Arrived :
        /\ VerificationToken' = Without(VerificationToken, {t})
        /\ IF t \notin Fresh
           THEN request[r] = Idle /\ UNCHANGED request
           ELSE Starts(r, [Idle EXCEPT !.at = "find", !.token = t,
                                       !.address = VerificationToken[t].address])
        /\ UNCHANGED <<User, PolicyAcceptance, Session, DataExportAuthorization, last, history>>
    BY DEF RedeemLink, Redeemed
  <1>1. t \in DOMAIN VerificationToken
    BY DEF Arrived
  <1>2. CASE t \notin Fresh
    <2>1. request' \in [Requests -> Asked] /\ \A q \in Requests : Settles(q)
      BY <1>2 DEF LinksInv, TypeOK, Settles, Informed, TakesNone, GuessesNone
    <2>2. Trims /\ VerificationToken' \in [DOMAIN VerificationToken' -> Link]
      BY LinksGone
    <2>3. QED
      BY <2>1, <2>2, LinksTrimmed
  <1>3. CASE t \in Fresh
    <2> DEFINE fields == [Idle EXCEPT !.at = "find", !.token = t,
                                      !.address = VerificationToken[t].address]
    <2>1. Idle \in Asked /\ Idle.user = 0 /\ Idle.at = "idle"
      BY IdleFacts
    <2>2. t \in Nat /\ t <= last.token /\ VerificationToken[t].address \in Addresses
      BY <1>1, Numbers DEF LinksInv, TypeOK, Numeric, Link
    <2>3. fields \in Asked /\ fields.at = "find" /\ fields.user = 0 /\ fields.token = t
      BY <2>1, <2>2 DEF Asked, Steps
    <2>4. Starts(r, fields)
      BY <1>3
    <2> HIDE DEF fields
    <2>5. Moves(r) /\ request'[r] = fields /\ request[r].at = "idle"
      BY <2>1, <2>3, <2>4, StartsFacts DEF LinksInv
    <2>6. OneOwner(fields, User, last)
      BY <2>2, <2>3, Anonymous
    <2>7. UserStep /\ Stays /\ (Active \subseteq PolicyAcceptance)'
      BY SameAccounts
    <2>8. User' \in [DOMAIN User' -> Account] /\ PolicyAcceptance' \subseteq DOMAIN User'
      BY DEF LinksInv, TypeOK
    <2>9. QED
      BY <1>1, <2>3, <2>5, <2>6, <2>7, <2>8, TakenKept
  <1>4. QED
    BY <1>2, <1>3

LEMMA ActivateKept ==
  ASSUME LinksInv, NEW r \in Requests, Activate(r) PROVE LinksInv'
  <1> DEFINE t == request[r].token
             a == request[r].address
  <1>1. /\ request[r].at = "consume" /\ request[r].purpose = "SIGNUP"
        /\ UNCHANGED <<Session, DataExportAuthorization, last, history>>
    BY DEF Activate
  <1>2. CASE ~Activatable(t)
    BY <1>1, <1>2, OnlyDone DEF Activate, tables
  <1>3. CASE Activatable(t)
    <2>1. PICK u \in AccountOf(a) :
            /\ User' = [User EXCEPT ![u].status = "ACTIVE"]
            /\ PolicyAcceptance' = PolicyAcceptance \cup {u}
            /\ VerificationToken' = Without(VerificationToken, Links("SIGNUP", a))
            /\ Goto(r, "find")
      BY <1>3 DEF Activate
    <2>2. /\ t \in DOMAIN VerificationToken /\ VerificationToken[t].purpose = "SIGNUP"
          /\ OwnLink(request[r], VerificationToken)
      BY <1>3 DEF Activatable, Fresh, LinksInv, Knows
    <2>3. t \in Links("SIGNUP", a)
      BY <1>1, <2>2 DEF OwnLink, Links
    <2>4. u \in DOMAIN User /\ User[u].address = a
      BY DEF AccountOf
    <2>5. User \in [DOMAIN User -> Account]
      BY DEF LinksInv, TypeOK
    <2>6. /\ DOMAIN User' = DOMAIN User /\ User' \in [DOMAIN User -> Account]
          /\ \A i \in DOMAIN User \ {u} : User'[i] = User[i]
          /\ User'[u].status = "ACTIVE" /\ User'[u].address = User[u].address
      BY <2>1, <2>4, <2>5 DEF Account
    <2>7. UserStep /\ Stays
      BY <1>1, <2>6, Numbers DEF LinksInv, Numeric, UserStep, Stays
    <2>8. (Active \subseteq PolicyAcceptance)' /\ PolicyAcceptance' \subseteq DOMAIN User'
      BY <2>1, <2>4, <2>6 DEF LinksInv, TypeOK, SessionsOwned, Active
    <2>9. /\ Moves(r) /\ request'[r].at = "find" /\ request'[r].token = request[r].token
          /\ request'[r].user = request[r].user /\ request'[r].address = request[r].address
      BY <2>1, GotoFacts DEF LinksInv, Steps
    <2>10. OneOwner(request'[r], User', last')
      BY <1>1, <2>6, <2>9 DEF LinksInv, Knows, OneOwner
    <2>11. QED
      BY <1>1, <2>1, <2>2, <2>3, <2>6, <2>7, <2>8, <2>9, <2>10, TakenKept
  <1>4. QED
    BY <1>2, <1>3

-----------------------------------------------------------------------------
(* Links that are stored *)

LEMMA StoreKept ==
  ASSUME LinksInv, NEW r \in Requests, request[r].at # "charge", NEW wanted \in Asked,
         NEW users, NEW superseded, NEW top \in Nat,
         users \in [DOMAIN users -> Account], DOMAIN users \subseteq 1 .. top,
         top = last.user \/ (top = last.user + 1 /\ top \in DOMAIN users),
         \A u \in DOMAIN User : u \in DOMAIN users /\ users[u] = User[u],
         \A u \in DOMAIN users \ DOMAIN User : u = last.user + 1 /\ users[u].status = "PENDING",
         \E u \in DOMAIN users : users[u].address = wanted.address,
         wanted.purpose # "ACCOUNT_DATA_EXPORT" => superseded = Links(wanted.purpose, wanted.address),
         Store(r, wanted, users, superseded),
         UNCHANGED <<PolicyAcceptance, Session, DataExportAuthorization>>
  PROVE  LinksInv'
  <1> DEFINE t == last.token + 1
  <1>1. TypeOK /\ Knows /\ LinksOwned /\ SessionsOwned /\ LinksAlone /\ OnlyUse /\ Charged
    BY DEF LinksInv
  <1> Stored(r, wanted, users, superseded, top)
    BY <1>1, StoreFacts, Zenon
  <1>2. /\ last' \in [user : Nat, token : 0 .. MaxTokens, session : Nat, deaths : Nat, out : SUBSET Nat]
        /\ last'.token = t /\ last'.user = top
        /\ last'.session = last.session /\ last'.deaths = last.deaths
        /\ User' = users /\ history' = history
        /\ DOMAIN VerificationToken' = (DOMAIN VerificationToken \ superseded) \cup {t}
        /\ \A i \in DOMAIN VerificationToken \ superseded :
             VerificationToken'[i] = VerificationToken[i]
        /\ VerificationToken' \in [DOMAIN VerificationToken' -> Link]
        /\ VerificationToken'[t].address = wanted.address
        /\ VerificationToken'[t].purpose = wanted.purpose
        /\ ~VerificationToken'[t].delivered
        /\ VerificationToken'[t].attempts = 0
        /\ VerificationToken'[t].sentTo \in DOMAIN users
        /\ users[VerificationToken'[t].sentTo].address = wanted.address
    BY DEF Stored
  <1>3. /\ Moves(r)
        /\ request'[r].at = "send" /\ request'[r].purpose = wanted.purpose
        /\ request'[r].address = wanted.address /\ request'[r].token = t
        /\ request'[r].user = 0
    BY DEF Stored
  <1>4. /\ last.token \in Nat /\ last.user \in Nat /\ last.deaths \in Nat /\ MaxTokens \in Nat
        /\ \A i \in DOMAIN VerificationToken : i \in 1 .. last.token
    BY <1>1, Numbers DEF Numeric
  <1>5. t \in Nat /\ t \notin DOMAIN VerificationToken /\ last'.token <= MaxTokens
    BY <1>2, <1>4
  <1>6. TypeOK'
    <2>1. DOMAIN User' \subseteq 1 .. last'.user /\ User' \in [DOMAIN User' -> Account]
      BY <1>2
    <2>2. PolicyAcceptance' \subseteq DOMAIN User'
      BY <1>1, <1>2 DEF TypeOK
    <2>3. DOMAIN VerificationToken' \subseteq 1 .. last'.token
      BY <1>2, <1>4
    <2>4. request' \in [Requests -> Asked]
      BY <1>3 DEF Moves
    <2>5. QED
      BY <1>1, <1>2, <2>1, <2>2, <2>3, <2>4 DEF TypeOK
  <1>7. LinkStep
    BY <1>2, <1>4 DEF LinkStep
  <1>8. UserStep /\ Stays
    BY <1>2, <1>4 DEF UserStep, Stays
  <1>9. (Active \subseteq PolicyAcceptance)'
    BY <1>1, <1>2 DEF SessionsOwned, Active
  <1>10. SessionStep
    BY DEF SessionStep
  <1>11. \A q \in Requests : Settles(q)
    <2>1. OneOwner(request'[r], User', last')
      BY <1>2, <1>3, <1>4, <1>5, <1>6, AccountsAssumption DEF TypeOK, OneOwner
    <2>2. OwnLink(request'[r], VerificationToken')
      BY <1>3 DEF OwnLink
    <2>3. QED
      BY <1>3, <2>1, <2>2 DEF Moves, Settles, Informed, TakesNone, GuessesNone, Redeeming
  <1>12. Knows' /\ SessionsOwned'
    BY <1>1, <1>6, <1>7, <1>8, <1>9, <1>10, <1>11, KnowsKept, SessionsOwnedKept DEF Settles
  <1>13. OnlyUse'
    BY <1>1, <1>2, <1>5, <1>6, <1>7, <1>11, OnlyUseKept DEF Settles
  <1>14. Charged'
    <2>1. Counts /\ last'.token >= last.token /\ last'.deaths >= last.deaths
      BY <1>2, <1>4, <1>5 DEF Counts
    <2>2. QED
      BY <1>1, <1>2, <1>6, <1>11, <2>1, ChargedKept DEF Settles
  <1> HIDE DEF t
  <1>15. LinksOwned'
    <2> SUFFICES ASSUME NEW i \in DOMAIN VerificationToken'
                 PROVE  /\ VerificationToken'[i].sentTo \in DOMAIN users
                        /\ users[VerificationToken'[i].sentTo].address = VerificationToken'[i].address
      BY <1>2 DEF LinksOwned, AccountOf
    <2>1. CASE i = t
      BY <1>2, <2>1
    <2>2. CASE i # t
      <3>1. i \in DOMAIN VerificationToken /\ VerificationToken'[i] = VerificationToken[i]
        BY <1>2, <2>2
      <3>2. /\ VerificationToken[i].sentTo \in DOMAIN User
            /\ User[VerificationToken[i].sentTo].address = VerificationToken[i].address
        BY <1>1, <3>1 DEF LinksOwned, AccountOf
      <3>3. QED
        BY <3>1, <3>2
    <2>3. QED
      BY <2>1, <2>2
  <1>16. \A i \in DOMAIN VerificationToken' \ {t} :
           /\ VerificationToken'[i].purpose = wanted.purpose
           /\ VerificationToken'[i].address = wanted.address
           => wanted.purpose = "ACCOUNT_DATA_EXPORT"
    BY <1>2 DEF Links
  <1>17. LinksAlone'
    <2> SUFFICES ASSUME NEW i \in DOMAIN VerificationToken', NEW o \in DOMAIN VerificationToken',
                        i # o,
                        VerificationToken'[i].purpose = VerificationToken'[o].purpose,
                        VerificationToken'[i].address = VerificationToken'[o].address
                 PROVE  /\ VerificationToken'[i].purpose = "ACCOUNT_DATA_EXPORT"
                        /\ ~(VerificationToken'[i].delivered /\ VerificationToken'[o].delivered)
      BY DEF LinksAlone
    <2>1. CASE i = t \/ o = t
      BY <1>2, <1>16, <2>1
    <2>2. CASE i # t /\ o # t
      <3>1. /\ i \in DOMAIN VerificationToken /\ VerificationToken'[i] = VerificationToken[i]
            /\ o \in DOMAIN VerificationToken /\ VerificationToken'[o] = VerificationToken[o]
        BY <1>2, <2>2
      <3>2. QED
        BY <1>1, <3>1 DEF LinksAlone
    <2>3. QED
      BY <2>1, <2>2
  <1>18. QED
    BY <1>6, <1>12, <1>13, <1>14, <1>15, <1>17 DEF LinksInv

LEMMA SameUsers ==
  ASSUME LinksInv
  PROVE  /\ User \in [DOMAIN User -> Account] /\ DOMAIN User \subseteq 1 .. last.user
         /\ last.user \in Nat
  BY DEF LinksInv, TypeOK

LEMMA LoginStoredKept ==
  ASSUME LinksInv, NEW r \in Requests, createVerificationToken(r) PROVE LinksInv'
  <1> DEFINE a == request[r].address
  <1>1. /\ request[r].at = "issue" /\ request[r].purpose = "LOGIN" /\ request[r] \in Asked
        /\ UNCHANGED <<PolicyAcceptance, Session, DataExportAuthorization>>
    BY DEF createVerificationToken, LinksInv, TypeOK
  <1>2. CASE AccountOf(a) \cap Active = {}
    BY <1>1, <1>2, OnlyDone DEF createVerificationToken, tables
  <1>3. CASE AccountOf(a) \cap Active # {}
    <2>1. Store(r, request[r], User, Links("LOGIN", a))
      BY <1>3 DEF createVerificationToken
    <2>2. \E u \in DOMAIN User : User[u].address = a
      BY <1>3 DEF AccountOf
    <2>3. QED
      BY <1>1, <2>1, <2>2, SameUsers, StoreKept
  <1>4. QED
    BY <1>2, <1>3

LEMMA SessionSeenKept ==
  ASSUME LinksInv, NEW r \in Requests, NEW purpose, LooksAtSession(r, purpose) PROVE LinksInv'
  <1>1. request[r].at = "issue" /\ UNCHANGED <<tables, last, history>>
    BY DEF LooksAtSession
  <1>2. CASE ~StillSignedIn(r)
    BY <1>1, <1>2, OnlyDone DEF LooksAtSession
  <1>3. CASE StillSignedIn(r)
    <2>1. Goto(r, "store") /\ "store" \in Steps
      BY <1>3 DEF LooksAtSession, Steps
    <2>2. /\ Moves(r) /\ request'[r].at = "store" /\ request'[r].token = request[r].token
          /\ request'[r].user = request[r].user /\ request'[r].address = request[r].address
      BY <2>1, GotoFacts DEF LinksInv
    <2>3. OneOwner(request'[r], User, last) /\ OwnLink(request'[r], VerificationToken)
      BY <1>1, <2>2 DEF LinksInv, Knows, OneOwner, OwnLink
    <2>4. QED
      BY <1>1, <2>2, <2>3, OnlyMoves DEF Redeeming
  <1>4. QED
    BY <1>2, <1>3

LEMMA LinkStoredKept ==
  ASSUME LinksInv, Held, NEW r \in Requests, NEW purpose, StoreLink(r, purpose) PROVE LinksInv'
  <1> DEFINE a == request[r].address
             u == request[r].user
  <1>1. /\ request[r].at = "store" /\ request[r] \in Asked
        /\ UNCHANGED <<PolicyAcceptance, Session, DataExportAuthorization>>
    BY DEF StoreLink, LinksInv, TypeOK
  <1>2. Store(r, request[r], User, Replaced(r))
    BY DEF StoreLink
  <1>3. u \in DOMAIN User
    BY <1>1 DEF Held, Awaits
  <1>4. User[u].address = a
    BY <1>3 DEF LinksInv, Knows, OneOwner
  <1>5. request[r].purpose # "ACCOUNT_DATA_EXPORT" => Replaced(r) = Links(request[r].purpose, a)
    BY DEF Replaced
  <1>6. QED
    BY <1>1, <1>2, <1>3, <1>4, <1>5, SameUsers, StoreKept

LEMMA SignupKept ==
  ASSUME LinksInv, NEW r \in Requests, NEW a \in Addresses, processSignup(r, a) PROVE LinksInv'
  <1> DEFINE wanted == [Idle EXCEPT !.purpose = "SIGNUP", !.address = a]
             row == [address |-> a, status |-> "PENDING"]
             users == IF AccountOf(a) = {} THEN With(User, last.user + 1, row) ELSE User
             top == IF AccountOf(a) = {} THEN last.user + 1 ELSE last.user
  <1>1. /\ request[r] = Idle /\ Store(r, wanted, users, Links("SIGNUP", a))
        /\ UNCHANGED <<PolicyAcceptance, Session, DataExportAuthorization>>
    BY DEF processSignup
  <1>2. Idle \in Asked /\ Idle.at = "idle"
    BY IdleFacts
  <1>3. wanted \in Asked /\ wanted.purpose = "SIGNUP" /\ wanted.address = a
    BY <1>2 DEF Asked, Purposes
  <1>4. row \in Account /\ row.address = a /\ row.status = "PENDING"
    BY DEF Account
  <1>5. /\ User \in [DOMAIN User -> Account] /\ DOMAIN User \subseteq 1 .. last.user
        /\ last.user \in Nat
    BY SameUsers
  <1> HIDE DEF wanted, row
  <1>6. /\ top \in Nat /\ users \in [DOMAIN users -> Account] /\ DOMAIN users \subseteq 1 .. top
        /\ top = last.user \/ (top = last.user + 1 /\ top \in DOMAIN users)
        /\ \A u \in DOMAIN User : u \in DOMAIN users /\ users[u] = User[u]
        /\ \A u \in DOMAIN users \ DOMAIN User : u = last.user + 1 /\ users[u].status = "PENDING"
        /\ \E u \in DOMAIN users : users[u].address = wanted.address
    <2>1. CASE AccountOf(a) = {}
      <3>1. users = With(User, last.user + 1, row) /\ top = last.user + 1
        BY <2>1
      <3> HIDE DEF users, top
      <3>2. /\ DOMAIN users = DOMAIN User \cup {top} /\ users[top] = row
            /\ \A u \in DOMAIN User : u # top /\ users[u] = User[u]
        BY <1>5, <3>1 DEF With
      <3>3. users \in [DOMAIN users -> Account]
        BY <1>4, <1>5, <3>1 DEF With
      <3>4. QED
        BY <1>3, <1>4, <1>5, <3>1, <3>2, <3>3
    <2>2. CASE AccountOf(a) # {}
      <3>1. users = User /\ top = last.user
        BY <2>2
      <3> HIDE DEF users, top
      <3>2. QED
        BY <1>3, <1>5, <2>2, <3>1 DEF AccountOf
    <2>3. QED
      BY <2>1, <2>2
  <1> HIDE DEF users, top
  <1>7. QED
    BY <1>1, <1>2, <1>3, <1>6, StoreKept

-----------------------------------------------------------------------------
(* Links that were of use *)

LEMMA Used ==
  ASSUME LinksInv, TypeOK', NEW r \in Requests, NEW t \in 1 .. last.token, history[t].uses = 0,
         \A q \in Requests \ {r} : Redeems(q) => request[q].token # t,
         DOMAIN VerificationToken' \subseteq DOMAIN VerificationToken \ {t},
         last'.token = last.token,
         history'[t].uses = 1,
         \A i \in 1 .. MaxTokens \ {t} : history'[i].uses = history[i].uses,
         Moves(r), request'[r].at \notin Redeeming
  PROVE  OnlyUse'
  <1>1. last.token \in Nat /\ MaxTokens \in Nat /\ last.token <= MaxTokens
    BY Numbers DEF LinksInv, Numeric
  <1>2. \A q \in Requests : Redeems(q)' => q # r /\ Redeems(q) /\ request'[q] = request[q]
    BY DEF Moves, Redeems
  <1>3. \A i \in 1 .. MaxTokens :
          /\ history'[i].uses <= 1
          /\ i > last'.token => history'[i].uses = 0
    BY <1>1 DEF LinksInv, OnlyUse
  <1>4. \A i \in DOMAIN VerificationToken' : history'[i].uses = 0
    <2>1. \A i \in DOMAIN VerificationToken' :
            i \in DOMAIN VerificationToken /\ i # t /\ i \in 1 .. MaxTokens
      BY Numbers DEF LinksInv, Numeric
    <2>2. QED
      BY <2>1 DEF LinksInv, OnlyUse
  <1>5. ASSUME NEW q \in Requests, Redeems(q)'
        PROVE  /\ request'[q].token \in 1 .. last'.token \ DOMAIN VerificationToken'
               /\ history'[request'[q].token].uses = 0
    <2> DEFINE i == request[q].token
    <2>1. /\ request'[q].token = i /\ i \in 1 .. last.token /\ i \notin DOMAIN VerificationToken
          /\ history[i].uses = 0 /\ i # t
      BY <1>2, <1>5 DEF LinksInv, OnlyUse
    <2> HIDE DEF i
    <2>2. i \in 1 .. MaxTokens
      BY <1>1, <2>1
    <2>3. QED
      BY <2>1, <2>2
  <1>6. \A p, q \in Requests :
          p # q /\ Redeems(p)' /\ Redeems(q)' => request'[p].token # request'[q].token
    BY <1>2 DEF LinksInv, OnlyUse
  <1>7. QED
    BY <1>3, <1>4, <1>5, <1>6 DEF OnlyUse

LEMMA UseCounted ==
  ASSUME LinksInv, NEW t \in 1 .. last.token, history[t].uses = 0,
         history' = [history EXCEPT ![t].uses = @ + 1]
  PROVE  /\ history' \in [1 .. MaxTokens -> [guesses : Nat, uses : Nat]]
         /\ history'[t].uses = 1
         /\ \A i \in 1 .. MaxTokens \ {t} : history'[i].uses = history[i].uses
         /\ \A i \in 1 .. MaxTokens : history'[i].guesses = history[i].guesses
  <1>1. history \in [1 .. MaxTokens -> [guesses : Nat, uses : Nat]]
    BY DEF LinksInv, TypeOK
  <1>2. t \in 1 .. MaxTokens
    BY Numbers DEF LinksInv, Numeric
  <1>3. QED
    BY <1>1, <1>2

\* What both kinds of verification do beside what they grant.
LEMMA VerifiedKept ==
  ASSUME LinksInv, NEW r \in Requests, NEW t, t = request[r].token, request[r].at = "verify",
         t \in DOMAIN VerificationToken, VerificationToken' = Without(VerificationToken, {t}),
         history' = [history EXCEPT ![t].uses = @ + 1], Done(r),
         UNCHANGED <<User, PolicyAcceptance, last>>,
         Session' \in [DOMAIN Session' -> [user : Nat, recent : BOOLEAN]],
         DOMAIN Session' = DOMAIN Session, SessionStep,
         DataExportAuthorization' \subseteq DOMAIN Session'
  PROVE  LinksInv'
  <1>1. Moves(r) /\ request'[r] = Idle
    BY DoneFacts DEF LinksInv
  <1>2. /\ Trims /\ VerificationToken' \in [DOMAIN VerificationToken' -> Link]
        /\ DOMAIN VerificationToken' = DOMAIN VerificationToken \ {t}
    BY LinksGone
  <1>3. t \in 1 .. last.token /\ history[t].uses = 0
    BY Numbers DEF LinksInv, Numeric, OnlyUse
  <1>4. /\ history' \in [1 .. MaxTokens -> [guesses : Nat, uses : Nat]]
        /\ history'[t].uses = 1
        /\ \A i \in 1 .. MaxTokens \ {t} : history'[i].uses = history[i].uses
        /\ \A i \in 1 .. MaxTokens : history'[i].guesses = history[i].guesses
    BY <1>3, UseCounted
  <1>5. TypeOK'
    BY <1>1, <1>2, <1>4 DEF LinksInv, TypeOK, Moves
  <1>6. \A q \in Requests : Settles(q)
    BY <1>1, <1>5, NextIdleKnows, IdleFacts DEF Moves, Settles, Informed, TakesNone, GuessesNone, Redeeming
  <1>7. OnlyUse'
    <2>1. \A q \in Requests \ {r} : Redeems(q) => request[q].token # t
      BY DEF LinksInv, OnlyUse
    <2>2. request'[r].at \notin Redeeming
      BY <1>1, IdleFacts DEF Redeeming
    <2>3. QED
      BY <1>1, <1>2, <1>3, <1>4, <1>5, <2>1, <2>2, Used
  <1>8. Charged'
    <2>1. last'.token >= last.token /\ last'.deaths >= last.deaths
      BY Numbers DEF LinksInv, Numeric
    <2>2. Counts
      BY <1>2 DEF Trims, Thins, Counts
    <2>3. QED
      BY <1>4, <1>5, <1>6, <2>1, <2>2, ChargedKept DEF LinksInv, Settles
  <1>9. LinksAlone'
    BY <1>2, LinksAloneKept DEF LinksInv
  <1>10. UserStep /\ Stays /\ (Active \subseteq PolicyAcceptance)'
    BY SameAccounts
  <1>11. LinkStep /\ DOMAIN VerificationToken' \subseteq DOMAIN VerificationToken
    BY <1>2, SameNumbers DEF Trims
  <1>12. QED
    BY <1>5, <1>6, <1>7, <1>8, <1>9, <1>10, <1>11, Assembled DEF Settles

LEMMA VerifyKept ==
  ASSUME LinksInv, NEW r \in Requests,
         verifyAccountSecurityReauthentication(r) \/ verifyPersonalDataExport(r)
  PROVE  LinksInv'
  <1> DEFINE t == request[r].token
             s == request[r].session
  <1>1. request[r].at = "verify" /\ Done(r) /\ UNCHANGED <<User, PolicyAcceptance, last>>
    BY DEF verifyAccountSecurityReauthentication, verifyPersonalDataExport, Verify
  <1>2. CASE ~Usable(r)
    BY <1>1, <1>2, OnlyDone
    DEF verifyAccountSecurityReauthentication, verifyPersonalDataExport, Verify, tables
  <1>3. CASE Usable(r)
    <2>1. /\ VerificationToken' = Without(VerificationToken, {t})
          /\ history' = [history EXCEPT ![t].uses = @ + 1]
          /\ \/ /\ Session' = [Session EXCEPT ![s].recent = TRUE]
                /\ UNCHANGED DataExportAuthorization
             \/ /\ DataExportAuthorization' = DataExportAuthorization \cup {s}
                /\ UNCHANGED Session
      BY <1>3 DEF verifyAccountSecurityReauthentication, verifyPersonalDataExport, Verify
    <2>2. t \in DOMAIN VerificationToken /\ s \in DOMAIN Session
      BY <1>3 DEF Usable, Fresh
    <2>3. /\ Session' \in [DOMAIN Session' -> [user : Nat, recent : BOOLEAN]]
          /\ DOMAIN Session' = DOMAIN Session /\ SessionStep
      <3>1. Session \in [DOMAIN Session -> [user : Nat, recent : BOOLEAN]]
        BY DEF LinksInv, TypeOK
      <3>2. CASE Session' = [Session EXCEPT ![s].recent = TRUE]
        BY <3>1, <3>2 DEF SessionStep
      <3>3. CASE UNCHANGED Session
        BY <3>1, <3>3 DEF SessionStep
      <3>4. QED
        BY <2>1, <3>2, <3>3
    <2>4. DataExportAuthorization' \subseteq DOMAIN Session'
      BY <2>1, <2>2, <2>3 DEF LinksInv, TypeOK
    <2>5. QED
      BY <1>1, <2>1, <2>2, <2>3, <2>4, VerifiedKept
  <1>4. QED
    BY <1>2, <1>3

LEMMA SessionOpenedKept ==
  ASSUME LinksInv, NEW r \in Requests, createSession(r) PROVE LinksInv'
  <1> DEFINE s == last.session + 1
             u == request[r].user
             t == request[r].token
  <1>1. /\ request[r].at = "open" /\ Done(r)
        /\ UNCHANGED <<User, PolicyAcceptance, VerificationToken>>
    BY DEF createSession
  <1>2. CASE ~OwnerExists(u)
    BY <1>1, <1>2, OnlyDone DEF createSession, tables
  <1>3. CASE OwnerExists(u)
    <2> DEFINE row == [user |-> u, recent |-> TRUE]
               kept == With(Session, s, row)
    <2>1. /\ RemoveSessions(Evicted(u), kept) /\ last' = [last EXCEPT !.session = s]
          /\ history' = [history EXCEPT ![t].uses = @ + 1]
      BY <1>3 DEF createSession
    <2>2. u \in Active /\ u \in Nat
      BY <1>1, <1>3, Numbers DEF LinksInv, Knows, OneOwner, OwnerExists, Active, Numeric
    <2>3. row \in [user : Nat, recent : BOOLEAN] /\ row.user = u
      BY <2>2
    <2> HIDE DEF row
    <2>4. /\ last.session \in Nat
          /\ Session \in [DOMAIN Session -> [user : Nat, recent : BOOLEAN]]
          /\ DOMAIN Session \subseteq 1 .. last.session
          /\ last \in [user : Nat, token : 0 .. MaxTokens, session : Nat, deaths : Nat, out : SUBSET Nat]
      BY DEF LinksInv, TypeOK
    <2>5. /\ DOMAIN kept = DOMAIN Session \cup {s} /\ kept[s] = row
          /\ \A i \in DOMAIN Session : kept[i] = Session[i]
          /\ kept \in [DOMAIN kept -> [user : Nat, recent : BOOLEAN]]
      BY <2>3, <2>4 DEF With
    <2> HIDE DEF kept
    <2>6. /\ DOMAIN Session' = DOMAIN kept \ Evicted(u)
          /\ \A i \in DOMAIN Session' : Session'[i] = kept[i]
          /\ Session' \in [DOMAIN Session' -> [user : Nat, recent : BOOLEAN]]
          /\ DataExportAuthorization' = DataExportAuthorization \ Evicted(u)
      BY <2>1, <2>5 DEF RemoveSessions, Without, Restrict
    <2>7. /\ last' \in [user : Nat, token : 0 .. MaxTokens, session : Nat, deaths : Nat, out : SUBSET Nat]
          /\ last'.user = last.user /\ last'.token = last.token /\ last'.session = s
          /\ last'.deaths = last.deaths
      BY <2>1, <2>4
    <2>8. SessionStep
      BY <2>2, <2>3, <2>5, <2>6 DEF SessionStep
    <2>9. t \in 1 .. last.token /\ t \notin DOMAIN VerificationToken /\ history[t].uses = 0
          /\ \A q \in Requests \ {r} : Redeems(q) => request[q].token # t
      <3>1. Redeems(r)
        BY <1>1 DEF Redeems, Redeeming
      <3>2. QED
        BY <3>1 DEF LinksInv, OnlyUse
    <2> HIDE DEF t
    <2>10. /\ history' \in [1 .. MaxTokens -> [guesses : Nat, uses : Nat]]
           /\ history'[t].uses = 1
           /\ \A i \in 1 .. MaxTokens \ {t} : history'[i].uses = history[i].uses
           /\ \A i \in 1 .. MaxTokens : history'[i].guesses = history[i].guesses
      BY <2>1, <2>9, UseCounted
    <2>11. Moves(r) /\ request'[r] = Idle
      BY <1>1, DoneFacts DEF LinksInv
    <2>12. TypeOK'
      <3>1. DOMAIN Session' \subseteq 1 .. last'.session
        BY <2>4, <2>5, <2>6, <2>7
      <3>2. DataExportAuthorization' \subseteq DOMAIN Session'
        BY <2>5, <2>6 DEF LinksInv, TypeOK
      <3>3. QED
        BY <1>1, <2>6, <2>7, <2>10, <2>11, <3>1, <3>2 DEF LinksInv, TypeOK, Moves
    <2>13. \A q \in Requests : Settles(q)
      BY <1>1, <2>11, <2>12, NextIdleKnows, IdleFacts
      DEF Moves, Settles, Informed, TakesNone, GuessesNone, Redeeming
    <2>14. OnlyUse'
      <3>1. request'[r].at \notin Redeeming
        BY <2>11, IdleFacts DEF Redeeming
      <3>2. DOMAIN VerificationToken' \subseteq DOMAIN VerificationToken \ {t}
        BY <1>1, <2>9
      <3>3. QED
        BY <2>7, <2>9, <2>10, <2>11, <2>12, <3>1, <3>2, Used
    <2>15. Trims
      BY <1>1 DEF Trims, Thins
    <2>16. Charged'
      <3>1. Counts /\ last'.token >= last.token /\ last'.deaths >= last.deaths
        BY <2>7, <2>15, Numbers DEF LinksInv, Numeric, Trims, Thins, Counts
      <3>2. QED
        BY <2>10, <2>12, <2>13, <3>1, ChargedKept DEF LinksInv, Settles
    <2>17. LinksAlone'
      BY <2>15, LinksAloneKept DEF LinksInv
    <2>18. UserStep /\ Stays /\ (Active \subseteq PolicyAcceptance)'
      BY <1>1, <2>7, SameAccounts
    <2>19. LinkStep /\ DOMAIN VerificationToken' \subseteq DOMAIN VerificationToken
      BY <2>7, <2>15, SameNumbers DEF Trims
    <2>20. QED
      BY <2>8, <2>12, <2>13, <2>14, <2>16, <2>17, <2>18, <2>19, Assembled DEF Settles
  <1>4. QED
    BY <1>2, <1>3

-----------------------------------------------------------------------------
(* Accounts that are deleted *)

LEMMA DeletionKept ==
  ASSUME LinksInv, NEW r \in Requests, deleteCurrentAccount(r) PROVE LinksInv'
  <1> DEFINE u == request[r].user
             a == request[r].address
  <1>1. request[r].at = "delete" /\ Done(r) /\ UNCHANGED <<last, history>>
    BY DEF deleteCurrentAccount
  <1>2. CASE ~(StillSignedIn(r) /\ Session[request[r].session].recent)
    BY <1>1, <1>2, OnlyDone DEF deleteCurrentAccount
  <1>3. CASE StillSignedIn(r) /\ Session[request[r].session].recent
    <2>1. /\ User' = Without(User, {u}) /\ PolicyAcceptance' = PolicyAcceptance \ {u}
          /\ VerificationToken' = Without(VerificationToken, LinksOfAddress(a))
          /\ RemoveSessions(SessionsOf(u), Session)
      BY <1>3 DEF deleteCurrentAccount
    <2>2. u \in DOMAIN User
      BY <1>3 DEF StillSignedIn, LinksInv, SessionsOwned, Active
    <2>3. User[u].address = a
      BY <2>2 DEF LinksInv, Knows, OneOwner
    <2>4. /\ Trims /\ VerificationToken' \in [DOMAIN VerificationToken' -> Link]
          /\ DOMAIN VerificationToken' = DOMAIN VerificationToken \ LinksOfAddress(a)
      BY <2>1, LinksGone
    <2>5. /\ Session' \in [DOMAIN Session' -> [user : Nat, recent : BOOLEAN]] /\ SessionStep
          /\ DataExportAuthorization' \subseteq DOMAIN Session'
          /\ DOMAIN Session' = DOMAIN Session \ SessionsOf(u)
          /\ \A s \in DOMAIN Session' : Session'[s] = Session[s]
      BY <2>1, SessionsGone DEF RemoveSessions, Without, Restrict
    <2>6. /\ DOMAIN User' = DOMAIN User \ {u} /\ User' \in [DOMAIN User' -> Account]
          /\ \A i \in DOMAIN User' : User'[i] = User[i]
      BY <2>1 DEF LinksInv, TypeOK, Without, Restrict
    <2>7. Moves(r) /\ request'[r] = Idle
      BY <1>1, DoneFacts DEF LinksInv
    <2>8. TypeOK'
      BY <1>1, <2>1, <2>4, <2>5, <2>6, <2>7 DEF LinksInv, TypeOK, Moves
    <2>9. \A q \in Requests : Settles(q)
      BY <1>1, <2>7, <2>8, NextIdleKnows, IdleFacts
      DEF Moves, Settles, Informed, TakesNone, GuessesNone, Redeeming
    <2>10. UserStep /\ LinkStep /\ last'.token <= MaxTokens
      BY <1>1, <2>4, <2>6, Numbers DEF LinksInv, Numeric, UserStep, LinkStep, Trims, Thins
    <2>11. Knows'
      BY <2>8, <2>9, <2>10, KnowsKept DEF LinksInv, Settles
    <2>12. LinksOwned'
      <3> SUFFICES ASSUME NEW t \in DOMAIN VerificationToken'
                   PROVE  /\ VerificationToken'[t].sentTo \in DOMAIN User'
                          /\ User'[VerificationToken'[t].sentTo].address = VerificationToken'[t].address
        BY DEF LinksOwned, AccountOf
      <3> DEFINE row == VerificationToken[t]
      <3>1. /\ t \in DOMAIN VerificationToken /\ t \notin LinksOfAddress(a) /\ row.purpose \in Purposes
            /\ VerificationToken'[t].sentTo = row.sentTo /\ VerificationToken'[t].address = row.address
        BY <2>4 DEF Trims, Thins, LinksInv, TypeOK, Link
      <3>2. row.address # a
        BY <3>1 DEF LinksOfAddress, Links
      <3>3. row.sentTo \in DOMAIN User /\ User[row.sentTo].address = row.address
        BY <3>1 DEF LinksInv, LinksOwned, AccountOf
      <3>4. row.sentTo # u
        BY <2>3, <3>2, <3>3
      <3>5. QED
        BY <2>6, <3>1, <3>3, <3>4
    <2>13. SessionsOwned'
      <3>1. (Active \subseteq PolicyAcceptance)'
        BY <2>1, <2>6 DEF LinksInv, SessionsOwned, Active
      <3>2. \A s \in DOMAIN Session' : Session'[s].user \in Active /\ Session'[s].user # u
        BY <2>5 DEF LinksInv, SessionsOwned, SessionsOf
      <3>3. \A i \in Active : i # u => i \in Active'
        BY <2>6 DEF Active
      <3>4. QED
        BY <3>1, <3>2, <3>3 DEF SessionsOwned
    <2>14. LinksAlone'
      BY <2>4, LinksAloneKept DEF LinksInv
    <2>15. OnlyUse'
      BY <1>1, <2>8, <2>9, <2>10, OnlyUseKept DEF LinksInv, Settles
    <2>16. Charged'
      <3>1. Counts /\ last'.token >= last.token /\ last'.deaths >= last.deaths
        BY <1>1, <2>4, Numbers DEF LinksInv, Numeric, Trims, Thins, Counts
      <3>2. QED
        BY <1>1, <2>8, <2>9, <3>1, ChargedKept DEF LinksInv, Settles
    <2>17. QED
      BY <2>8, <2>11, <2>12, <2>13, <2>14, <2>15, <2>16 DEF LinksInv
  <1>4. QED
    BY <1>2, <1>3

-----------------------------------------------------------------------------
(* All steps *)

LEMMA LinksInitially == Init => LinksInv
  <1> SUFFICES ASSUME NEW accounts \in 0 .. 1,
                      User = [u \in 1 .. accounts |-> [address |-> Idle.address, status |-> "ACTIVE"]],
                      PolicyAcceptance = 1 .. accounts,
                      Session = [s \in 1 .. accounts |-> [user |-> s, recent |-> FALSE]],
                      VerificationToken = << >>, DataExportAuthorization = {},
                      request = [r \in Requests |-> Idle],
                      last = [user |-> accounts, token |-> 0, session |-> accounts, deaths |-> 0,
                              out |-> {}],
                      history = [t \in 1 .. MaxTokens |-> [guesses |-> 0, uses |-> 0]]
               PROVE  LinksInv
    BY DEF Init
  <1>1. Idle \in Asked /\ Idle.at = "idle" /\ Idle.address \in Addresses
    BY IdleFacts DEF Asked
  <1>2. accounts \in Nat /\ MaxTokens \in Nat /\ AttemptBudget \in Nat \ {0}
        /\ Cardinality(Requests) \in Nat
    BY AccountsAssumption, FS_CardinalityType
  <1>3. DOMAIN VerificationToken = {}
    OBVIOUS
  <1>4. TypeOK
    <2>1. VerificationToken \in [DOMAIN VerificationToken -> Link]
      BY <1>3
    <2>2. /\ User \in [DOMAIN User -> Account] /\ DOMAIN User \subseteq 1 .. last.user
          /\ PolicyAcceptance \subseteq DOMAIN User
      BY <1>1, <1>2 DEF Account
    <2>3. /\ Session \in [DOMAIN Session -> [user : Nat, recent : BOOLEAN]]
          /\ DOMAIN Session \subseteq 1 .. last.session
          /\ DataExportAuthorization \subseteq DOMAIN Session
      BY <1>2
    <2>4. last \in [user : Nat, token : 0 .. MaxTokens, session : Nat, deaths : Nat, out : SUBSET Nat]
      BY <1>2
    <2>5. history \in [1 .. MaxTokens -> [guesses : Nat, uses : Nat]]
      OBVIOUS
    <2>6. DOMAIN VerificationToken \subseteq 1 .. last.token
      BY <1>3
    <2>7. request \in [Requests -> Asked]
      BY <1>1
    <2>8. QED
      BY <2>1, <2>2, <2>3, <2>4, <2>5, <2>6, <2>7 DEF TypeOK
  <1>5. Knows
    <2>1. DOMAIN User \subseteq Nat \ {0} /\ last.user \in Nat /\ last.token \in Nat
      BY <1>2
    <2>2. QED
      BY <2>1, IdleKnows DEF Knows
  <1>6. LinksOwned /\ LinksAlone
    BY <1>3 DEF LinksOwned, LinksAlone
  <1>7. SessionsOwned
    BY <1>2 DEF SessionsOwned, Active
  <1>8. OnlyUse
    BY <1>1, <1>3 DEF OnlyUse, Redeems, Redeeming
  <1>9. Charged
    BY <1>1, <1>2, <1>3 DEF Charged
  <1>10. QED
    BY <1>4, <1>5, <1>6, <1>7, <1>8, <1>9 DEF LinksInv

LEMMA LinksKept == LinksInv /\ Held /\ [Next]_vars => LinksInv'
  <1> SUFFICES ASSUME LinksInv, Held, [Next]_vars PROVE LinksInv'
    OBVIOUS
  <1>1. CASE UNCHANGED vars
    <2>1. TypeOK' /\ Knows' /\ LinksOwned' /\ SessionsOwned' /\ LinksAlone'
      BY <1>1 DEF LinksInv, TypeOK, Knows, LinksOwned, SessionsOwned, LinksAlone, AccountOf, Active,
                  vars, tables
    <2>2. OnlyUse' /\ Charged'
      BY <1>1 DEF LinksInv, OnlyUse, Redeems, Charged, Charging, vars, tables
    <2>3. QED
      BY <2>1, <2>2 DEF LinksInv
  <1>2. CASE SharedNext
    <2>1. CASE \E r \in Requests :
                 Send(r) \/ Confirm(r) \/ Compensate(r) \/ FindUser(r) \/ createSession(r) \/ Dies(r)
      BY <2>1, SendKept, ConfirmKept, CompensateKept, FindsKept, SessionOpenedKept, DiesKept
    <2>2. CASE \E t \in 1 .. MaxTokens : Expires(t)
      BY <2>2, ExpiresKept
    <2>3. CASE \E s \in 1 .. MaxSessions : Ages(s) \/ deleteSession(s)
      BY <2>3, AgesKept, SessionDeletedKept
    <2>4. QED
      BY <1>2, <2>1, <2>2, <2>3 DEF SharedNext
  <1>3. CASE SignInNext
    <2> PICK r \in Requests :
          \/ \E a \in Addresses :
               \/ findExistingLoginEmail(r, a) \/ findLoginChallengeCodeHash(r, a)
               \/ processSignup(r, a)
          \/ createVerificationToken(r) \/ registerFailedLoginCodeAttempt(r)
          \/ RedeemCode(r) \/ RedeemLink(r)
          \/ preflightSignupActivation(r) \/ Activate(r)
      BY <1>3 DEF SignInNext
    <2>1. ASSUME NEW a \in Addresses,
                 \/ findExistingLoginEmail(r, a) \/ findLoginChallengeCodeHash(r, a)
                 \/ processSignup(r, a)
          PROVE  LinksInv'
      BY <2>1, AsksLoginKept, GuessKept, SignupKept
    <2>2. CASE \/ createVerificationToken(r) \/ registerFailedLoginCodeAttempt(r)
               \/ RedeemCode(r) \/ RedeemLink(r) \/ Activate(r)
      BY <2>2, LoginStoredKept, ChargeKept, RedeemCodeKept, RedeemLinkKept, ActivateKept
    <2>3. CASE preflightSignupActivation(r)
      <3>1. PICK t \in Arrived :
              /\ Activatable(t)
              /\ Starts(r, [Idle EXCEPT !.at = "consume", !.purpose = "SIGNUP", !.token = t,
                                        !.address = VerificationToken[t].address])
              /\ UNCHANGED <<tables, last, history>>
        BY <2>3 DEF preflightSignupActivation
      <3>2. t \in DOMAIN VerificationToken /\ VerificationToken[t].purpose = "SIGNUP"
        BY <3>1 DEF Activatable, Fresh
      <3>3. QED
        BY <3>1, <3>2, ConsumesKept
    <2>4. QED
      BY <2>1, <2>2, <2>3
  <1>4. CASE AccountNext
    <2> PICK r \in Requests :
          \/ \E s \in 1 .. MaxSessions :
               \/ reauthenticateForSecurity(r, s) \/ reauthenticateForDeletion(r, s)
               \/ requestExport(r, s)
               \/ \E t \in 1 .. MaxTokens : followSecurityLink(r, s, t) \/ followExportLink(r, s, t)
               \/ revokeSessions(r, s) \/ resolveAccountDeletionSession(r, s)
          \/ \E t \in 1 .. MaxTokens : preflightAccountDeletionVerification(r, t)
          \/ issueAccountSecurityReauthentication(r) \/ issueAccountDeletionReauthentication(r)
          \/ issuePersonalDataExport(r)
          \/ verifyAccountSecurityReauthentication(r) \/ verifyPersonalDataExport(r)
          \/ ConsumeDeletionLink(r)
          \/ Revoke(r) \/ deleteCurrentAccount(r)
      BY <1>4 DEF AccountNext
    <2>1. ASSUME NEW s \in 1 .. MaxSessions,
                 \/ reauthenticateForSecurity(r, s) \/ reauthenticateForDeletion(r, s)
                 \/ requestExport(r, s)
          PROVE  LinksInv'
      BY <2>1, AskForKept
      DEF reauthenticateForSecurity, reauthenticateForDeletion, requestExport, Purposes
    <2>2. ASSUME NEW s \in 1 .. MaxSessions, NEW t \in 1 .. MaxTokens,
                 followSecurityLink(r, s, t) \/ followExportLink(r, s, t)
          PROVE  LinksInv'
      BY <2>2, FollowKept DEF followSecurityLink, followExportLink, Purposes
    <2>3. ASSUME NEW s \in 1 .. MaxSessions,
                 revokeSessions(r, s) \/ resolveAccountDeletionSession(r, s)
          PROVE  LinksInv'
      BY <2>3, RevokeAskedKept
    <2>4. ASSUME NEW t \in 1 .. MaxTokens, preflightAccountDeletionVerification(r, t)
          PROVE  LinksInv'
      <3>1. /\ Starts(r, [Idle EXCEPT !.at = "consume", !.purpose = "ACCOUNT_DELETION", !.token = t,
                                      !.address = VerificationToken[t].address])
            /\ UNCHANGED <<tables, last, history>> /\ t \in DOMAIN VerificationToken
            /\ VerificationToken[t].purpose = "ACCOUNT_DELETION"
        BY <2>4 DEF preflightAccountDeletionVerification, Confirmed, Fresh
      <3>2. QED
        BY <3>1, ConsumesKept
    <2>5. CASE \/ issueAccountSecurityReauthentication(r) \/ issueAccountDeletionReauthentication(r)
               \/ issuePersonalDataExport(r)
      BY <2>5, SessionSeenKept, LinkStoredKept
      DEF issueAccountSecurityReauthentication, issueAccountDeletionReauthentication,
          issuePersonalDataExport, Issue
    <2>6. CASE \/ verifyAccountSecurityReauthentication(r) \/ verifyPersonalDataExport(r)
               \/ ConsumeDeletionLink(r) \/ Revoke(r) \/ deleteCurrentAccount(r)
      BY <2>6, VerifyKept, ConsumeDeletionKept, RevokeKept, DeletionKept
    <2>7. QED
      BY <2>1, <2>2, <2>3, <2>4, <2>5, <2>6
  <1>5. QED
    BY <1>1, <1>2, <1>3, <1>4 DEF Next

-----------------------------------------------------------------------------
(* What a request that stores a link relies on while it holds its locks *)

NoneAwaits ==
  \A q \in Requests : request'[q].at = "store" => request'[q] = request[q]

LEMMA GoesElsewhere ==
  ASSUME LinksInv, NEW r \in Requests,
         \/ \E step \in Steps \ {"store"} : Goto(r, step)
         \/ Done(r)
         \/ \E fields : fields.at # "store" /\ Starts(r, fields)
         \/ UNCHANGED request
  PROVE  NoneAwaits
  <1>1. request \in [Requests -> Asked]
    BY DEF LinksInv, TypeOK
  <1>2. CASE \E step \in Steps \ {"store"} : Goto(r, step)
    BY <1>1, <1>2 DEF NoneAwaits, Goto, Asked
  <1>3. CASE Done(r)
    BY <1>1, <1>3, IdleFacts DEF NoneAwaits, Done
  <1>4. CASE \E fields : fields.at # "store" /\ Starts(r, fields)
    BY <1>1, <1>4 DEF NoneAwaits, Starts
  <1>5. QED
    BY <1>2, <1>3, <1>4 DEF NoneAwaits

\* A step that leaves accounts and sessions where they are.
LEMMA HeldQuietly ==
  ASSUME LinksInv, Held, NoneAwaits, last'.session = last.session, last'.out = last.out,
         DOMAIN User \subseteq DOMAIN User', DOMAIN Session' = DOMAIN Session,
         \A s \in DOMAIN Session : Session'[s].user = Session[s].user
  PROVE  Held'
  <1> SUFFICES ASSUME NEW q \in Requests, request'[q].at = "store"
               PROVE  Awaits(request[q], User', Session', last')
    BY DEF Held, NoneAwaits, Awaits
  <1>1. request[q].at = "store" /\ Awaits(request[q], User, Session, last)
    BY DEF Held, NoneAwaits
  <1>2. QED
    BY <1>1 DEF Awaits

\* A step that removes sessions, which the requests that hold the lock of the account
\* do not await, or that only sign out.
LEMMA HeldThough ==
  ASSUME LinksInv, Held, NoneAwaits, NEW removed, DOMAIN Session' = DOMAIN Session \ removed,
         \A s \in DOMAIN Session' : Session'[s].user = Session[s].user,
         last'.session = last.session, last.out \subseteq last'.out,
         \A q \in Requests : request[q].at = "store" =>
           /\ request[q].user \in DOMAIN User => request[q].user \in DOMAIN User'
           /\ request[q].purpose # "ACCOUNT_DELETION" /\ request[q].session \in removed
              /\ request[q].session \in DOMAIN Session
              => request[q].session \in last'.out
  PROVE  Held'
  <1> SUFFICES ASSUME NEW q \in Requests, request'[q].at = "store"
               PROVE  Awaits(request[q], User', Session', last')
    BY DEF Held, NoneAwaits, Awaits
  <1>1. request[q].at = "store" /\ Awaits(request[q], User, Session, last)
    BY DEF Held, NoneAwaits
  <1>2. QED
    BY <1>1 DEF Awaits

LEMMA StoresElsewhere ==
  ASSUME LinksInv, NEW r \in Requests, NEW wanted, NEW users, NEW superseded,
         Store(r, wanted, users, superseded)
  PROVE  NoneAwaits /\ last'.session = last.session /\ last'.out = last.out
  <1>1. request \in [Requests -> Asked]
    BY DEF LinksInv, TypeOK
  <1>2. \E row : row.at = "send" /\ request' = [request EXCEPT ![r] = row]
    BY DEF Store, Idle
  <1>3. NoneAwaits
    BY <1>1, <1>2 DEF NoneAwaits
  <1>4. \E t, u : last' = [last EXCEPT !.token = t, !.user = u]
    BY DEF Store
  <1>5. QED
    BY <1>3, <1>4, SameLast

LEMMA HeldInitially == Init => Held
  BY IdleFacts DEF Init, Held, Awaits

LEMMA HeldWhenShared ==
  ASSUME LinksInv, Held, NEW r \in Requests,
         Send(r) \/ Confirm(r) \/ Compensate(r) \/ FindUser(r) \/ Dies(r)
  PROVE  Held'
  <1>1. UNCHANGED <<User, Session>> /\ last'.session = last.session /\ last'.out = last.out
    <2>1. CASE Dies(r)
      BY <2>1, SameLast DEF Dies, tables
    <2>2. CASE ~Dies(r)
      BY <2>2 DEF Send, Confirm, Compensate, FindUser, tables
    <2>3. QED
      BY <2>1, <2>2
  <1>2. NoneAwaits
    <2>1. CASE FindUser(r)
      <3>1. request \in [Requests -> Asked]
        BY DEF LinksInv, TypeOK
      <3>2. \/ Done(r)
            \/ \E u \in DOMAIN User : request' = [request EXCEPT ![r].at = "open", ![r].user = u]
        BY <2>1 DEF FindUser, AccountOf
      <3>3. ASSUME NEW u, request' = [request EXCEPT ![r].at = "open", ![r].user = u]
            PROVE  NoneAwaits
        <4>1. request' = [request EXCEPT ![r] = [request[r] EXCEPT !.at = "open", !.user = u]]
          BY <3>3
        <4>2. [request[r] EXCEPT !.at = "open", !.user = u].at = "open"
          BY <3>1 DEF Asked
        <4>3. QED
          BY <3>1, <4>1, <4>2 DEF NoneAwaits
      <3>4. QED
        BY <3>2, <3>3, GoesElsewhere
    <2>2. CASE Send(r) \/ Confirm(r) \/ Compensate(r) \/ Dies(r)
      BY <2>2, GoesElsewhere DEF Send, Confirm, Compensate, Dies, Steps
    <2>3. QED
      BY <2>1, <2>2
  <1>3. QED
    BY <1>1, <1>2, HeldQuietly

\* A session more, and those it makes no room for: AccountFree.
LEMMA HeldWhenOpened ==
  ASSUME LinksInv, Held, NEW r \in Requests, createSession(r) PROVE Held'
  <1> DEFINE u == request[r].user
             s == last.session + 1
             row == [user |-> u, recent |-> TRUE]
  <1>1. NoneAwaits /\ UNCHANGED User /\ last.session \in Nat
    BY GoesElsewhere, Numbers DEF createSession, LinksInv, Numeric
  <1>2. CASE ~OwnerExists(u)
    BY <1>1, <1>2, HeldQuietly DEF createSession
  <1>3. CASE OwnerExists(u)
    <2>1. /\ RemoveSessions(Evicted(u), With(Session, s, row))
          /\ last' = [last EXCEPT !.session = s]
      BY <1>3 DEF createSession
    <2>2. last'.session = s /\ last'.out = last.out
      BY <2>1, SameLast
    <2>3. /\ DOMAIN Session' = (DOMAIN Session \cup {s}) \ Evicted(u)
          /\ \A i \in DOMAIN Session' : i # s => Session'[i] = Session[i]
      BY <2>1 DEF RemoveSessions, Without, Restrict, With
    <2> SUFFICES ASSUME NEW q \in Requests, request'[q].at = "store"
                 PROVE  Awaits(request[q], User', Session', last')
      BY <1>1 DEF Held, NoneAwaits, Awaits
    <2>4. request[q].at = "store" /\ Awaits(request[q], User, Session, last)
      BY <1>1 DEF Held, NoneAwaits
    <2>5. request[q].session \in Nat /\ request[q].session <= last.session /\ request[q].session # s
      BY <1>1, <2>4, Numbers DEF Awaits, LinksInv, Numeric, Asked
    <2>6. ASSUME request[q].purpose # "ACCOUNT_DELETION", request[q].session \in DOMAIN Session
          PROVE  request[q].session \notin Evicted(u)
      <3>1. request[q].user # u
        BY <2>4, <2>6 DEF createSession, AccountFree, LocksAccount
      <3>2. Session[request[q].session].user = request[q].user
        BY <2>4, <2>6 DEF Awaits
      <3>3. QED
        BY <3>1, <3>2 DEF Evicted, SessionsOf
    <2>7. QED
      BY <1>1, <2>2, <2>3, <2>4, <2>5, <2>6 DEF Awaits
  <1>4. QED
    BY <1>2, <1>3

LEMMA HeldWhenAging ==
  ASSUME LinksInv, Held, NEW s, NEW recent, Session' = [Session EXCEPT ![s].recent = recent],
         NoneAwaits, UNCHANGED <<User, last>>
  PROVE  Held'
  <1>1. Session \in [DOMAIN Session -> [user : Nat, recent : BOOLEAN]]
    BY DEF LinksInv, TypeOK
  <1>2. DOMAIN Session' = DOMAIN Session /\ \A i \in DOMAIN Session : Session'[i].user = Session[i].user
    BY <1>1
  <1>3. QED
    BY <1>2, HeldQuietly

LEMMA HeldWhenSignedOut ==
  ASSUME LinksInv, Held, NEW s, deleteSession(s) PROVE Held'
  <1>1. /\ NoneAwaits /\ UNCHANGED User /\ DOMAIN Session' = DOMAIN Session \ {s}
        /\ \A i \in DOMAIN Session' : Session'[i].user = Session[i].user
    BY DEF deleteSession, NoneAwaits, RemoveSessions, Without, Restrict
  <1>2. SignedOut(s)
    BY SigningOut
  <1>3. QED
    BY <1>1, <1>2, HeldThough DEF SignedOut, AwaitingLink

LEMMA HeldWhenRevoked ==
  ASSUME LinksInv, Held, NEW r \in Requests, Revoke(r) PROVE Held'
  <1>1. /\ NoneAwaits /\ UNCHANGED <<User, last>> /\ AccountFree(request[r].user)
    BY GoesElsewhere DEF Revoke
  <1>2. CASE UNCHANGED Session
    BY <1>1, <1>2, HeldQuietly
  <1>3. ASSUME NEW revoked \in Revocable(r), RemoveSessions(revoked, Session) PROVE Held'
    <2>1. \A s \in revoked : s \in SessionsOf(request[r].user)
      BY <1>3 DEF Revocable
    <2>2. /\ DOMAIN Session' = DOMAIN Session \ revoked
          /\ \A i \in DOMAIN Session' : Session'[i].user = Session[i].user
      BY <1>3 DEF RemoveSessions, Without, Restrict
    <2>3. ASSUME NEW q \in Requests, request[q].at = "store",
                 request[q].purpose # "ACCOUNT_DELETION", request[q].session \in revoked
          PROVE  FALSE
      <3>1. Session[request[q].session].user = request[r].user /\ request[q].session \in DOMAIN Session
        BY <2>1, <2>3 DEF SessionsOf
      <3>2. request[q].user = request[r].user
        BY <2>3, <3>1 DEF Held, Awaits
      <3>3. QED
        BY <1>1, <2>3, <3>2 DEF AccountFree, LocksAccount
    <2>4. QED
      BY <1>1, <2>2, <2>3, HeldThough
  <1>4. QED
    BY <1>2, <1>3 DEF Revoke

\* The account of a request that holds the lock of its address stays: AddressFree.
LEMMA HeldWhenDeleted ==
  ASSUME LinksInv, Held, NEW r \in Requests, deleteCurrentAccount(r) PROVE Held'
  <1> DEFINE u == request[r].user
  <1>1. /\ NoneAwaits /\ UNCHANGED last /\ AddressFree(request[r].address)
    BY GoesElsewhere DEF deleteCurrentAccount
  <1>2. CASE ~(StillSignedIn(r) /\ Session[request[r].session].recent)
    BY <1>1, <1>2, HeldQuietly DEF deleteCurrentAccount, tables
  <1>3. CASE StillSignedIn(r) /\ Session[request[r].session].recent
    <2>1. User' = Without(User, {u}) /\ RemoveSessions(SessionsOf(u), Session)
      BY <1>3 DEF deleteCurrentAccount
    <2>2. /\ DOMAIN Session' = DOMAIN Session \ SessionsOf(u)
          /\ \A i \in DOMAIN Session' : Session'[i].user = Session[i].user
          /\ DOMAIN User' = DOMAIN User \ {u}
      BY <2>1 DEF RemoveSessions, Without, Restrict
    <2>3. u \in DOMAIN User
      BY <1>3 DEF StillSignedIn, LinksInv, SessionsOwned, Active
    <2>4. User[u].address = request[r].address
      BY <2>3 DEF LinksInv, Knows, OneOwner
    <2>5. ASSUME NEW q \in Requests, request[q].at = "store" PROVE request[q].user # u
      <3>1. request[q].address # request[r].address
        BY <1>1, <2>5 DEF AddressFree
      <3>2. request[q].user \in DOMAIN User => User[request[q].user].address = request[q].address
        BY DEF LinksInv, Knows, OneOwner
      <3>3. QED
        BY <2>3, <2>4, <3>1, <3>2
    <2>6. ASSUME NEW q \in Requests, request[q].at = "store",
                 request[q].session \in SessionsOf(u), request[q].session \in DOMAIN Session
          PROVE  FALSE
      BY <2>5, <2>6 DEF Held, Awaits, SessionsOf
    <2>7. QED
      BY <1>1, <2>2, <2>5, <2>6, HeldThough
  <1>4. QED
    BY <1>2, <1>3

\* The look at the session, under the locks.
LEMMA HeldOnceSeen ==
  ASSUME LinksInv, Held, NEW r \in Requests, NEW purpose, LooksAtSession(r, purpose) PROVE Held'
  <1>1. UNCHANGED <<tables, last>>
    BY DEF LooksAtSession
  <1>2. CASE Done(r)
    BY <1>1, <1>2, GoesElsewhere, HeldQuietly DEF tables
  <1>3. CASE StillSignedIn(r) /\ Goto(r, "store")
    <2>1. /\ request'[r].session = request[r].session /\ request'[r].user = request[r].user
          /\ \A q \in Requests \ {r} : request'[q] = request[q]
      BY <1>3, GotoFacts DEF LinksInv, Moves, Steps
    <2>2. Awaits(request'[r], User, Session, last)
      BY <1>3, <2>1, Numbers DEF StillSignedIn, Awaits, LinksInv, SessionsOwned, Active, Numeric
    <2>3. QED
      BY <1>1, <2>1, <2>2 DEF Held, tables
  <1>4. QED
    BY <1>2, <1>3 DEF LooksAtSession

LEMMA HeldWhenSigningIn ==
  ASSUME LinksInv, Held, SignInNext PROVE Held'
  <1> PICK r \in Requests :
        \/ \E a \in Addresses :
             \/ findExistingLoginEmail(r, a) \/ findLoginChallengeCodeHash(r, a)
             \/ processSignup(r, a)
        \/ createVerificationToken(r) \/ registerFailedLoginCodeAttempt(r)
        \/ RedeemCode(r) \/ RedeemLink(r)
        \/ preflightSignupActivation(r) \/ Activate(r)
    BY DEF SignInNext
  <1>1. ASSUME NEW wanted, NEW users, NEW superseded, Store(r, wanted, users, superseded),
               DOMAIN User \subseteq DOMAIN users, UNCHANGED Session
        PROVE  Held'
    <2>1. User' = users
      BY <1>1 DEF Store
    <2>2. NoneAwaits /\ last'.session = last.session /\ last'.out = last.out
      BY <1>1, StoresElsewhere
    <2>3. QED
      BY <1>1, <2>1, <2>2, HeldQuietly
  <1>2. ASSUME NEW fields, fields.at # "store", Starts(r, fields), UNCHANGED <<User, Session, last>>
        PROVE  Held'
    <2>1. NoneAwaits
      BY <1>2, GoesElsewhere
    <2>2. QED
      BY <1>2, <2>1, HeldQuietly
  <1>3. ASSUME NEW a \in Addresses, findExistingLoginEmail(r, a) PROVE Held'
    BY <1>2, <1>3 DEF findExistingLoginEmail, tables, Idle
  <1>4. ASSUME NEW a \in Addresses, findLoginChallengeCodeHash(r, a) PROVE Held'
    BY <1>2, <1>4 DEF findLoginChallengeCodeHash, tables, Idle
  <1>5. ASSUME NEW a \in Addresses, processSignup(r, a) PROVE Held'
    <2> DEFINE signup == [Idle EXCEPT !.purpose = "SIGNUP", !.address = a]
               row == [address |-> a, status |-> "PENDING"]
               users == IF AccountOf(a) = {} THEN With(User, last.user + 1, row) ELSE User
    <2>1. Store(r, signup, users, Links("SIGNUP", a)) /\ UNCHANGED Session
      BY <1>5, Zenon DEF processSignup
    <2> HIDE DEF signup, row
    <2>2. DOMAIN User \subseteq DOMAIN users
      BY DEF With
    <2> HIDE DEF users
    <2>3. QED
      BY <1>1, <2>1, <2>2
  <1>6. CASE createVerificationToken(r)
    <2>1. /\ UNCHANGED Session
          /\ \/ Done(r) /\ UNCHANGED <<User, last>>
             \/ Store(r, request[r], User, Links("LOGIN", request[r].address))
      BY <1>6 DEF createVerificationToken
    <2>2. Done(r) /\ UNCHANGED <<User, last>> => Held'
      BY <2>1, GoesElsewhere, HeldQuietly
    <2>3. QED
      BY <1>1, <2>1, <2>2
  <1>7. CASE registerFailedLoginCodeAttempt(r) \/ RedeemCode(r)
    <2>1. NoneAwaits /\ UNCHANGED <<User, Session, last>>
      BY <1>7, GoesElsewhere DEF registerFailedLoginCodeAttempt, RedeemCode, Steps
    <2>2. QED
      BY <2>1, HeldQuietly
  <1>8. CASE RedeemLink(r)
    <2>1. /\ UNCHANGED <<User, Session, last>>
          /\ \/ UNCHANGED request
             \/ \E fields : fields.at # "store" /\ Starts(r, fields)
      BY <1>8 DEF RedeemLink, Idle
    <2>2. NoneAwaits
      BY <2>1, GoesElsewhere
    <2>3. QED
      BY <2>1, <2>2, HeldQuietly
  <1>9. CASE preflightSignupActivation(r)
    BY <1>2, <1>9 DEF preflightSignupActivation, tables, Idle
  <1>10. CASE Activate(r)
    <2>1. /\ NoneAwaits /\ UNCHANGED <<Session, last>>
      BY <1>10, GoesElsewhere DEF Activate, Steps
    <2>2. DOMAIN User' = DOMAIN User
      BY <1>10 DEF Activate
    <2>3. QED
      BY <2>1, <2>2, HeldQuietly
  <1>11. QED
    BY <1>3, <1>4, <1>5, <1>6, <1>7, <1>8, <1>9, <1>10

LEMMA HeldOnAccountPage ==
  ASSUME LinksInv, Held, AccountNext PROVE Held'
  <1> PICK r \in Requests :
        \/ \E s \in 1 .. MaxSessions :
             \/ reauthenticateForSecurity(r, s) \/ reauthenticateForDeletion(r, s)
             \/ requestExport(r, s)
             \/ \E t \in 1 .. MaxTokens : followSecurityLink(r, s, t) \/ followExportLink(r, s, t)
             \/ revokeSessions(r, s) \/ resolveAccountDeletionSession(r, s)
        \/ \E t \in 1 .. MaxTokens : preflightAccountDeletionVerification(r, t)
        \/ issueAccountSecurityReauthentication(r) \/ issueAccountDeletionReauthentication(r)
        \/ issuePersonalDataExport(r)
        \/ verifyAccountSecurityReauthentication(r) \/ verifyPersonalDataExport(r)
        \/ ConsumeDeletionLink(r)
        \/ Revoke(r) \/ deleteCurrentAccount(r)
    BY DEF AccountNext
  <1>1. ASSUME NEW fields, fields.at # "store", Starts(r, fields), UNCHANGED <<tables, last>>
        PROVE  Held'
    <2>1. NoneAwaits
      BY <1>1, GoesElsewhere
    <2>2. QED
      BY <1>1, <2>1, HeldQuietly DEF tables
  <1>2. ASSUME NEW s \in 1 .. MaxSessions,
               \/ reauthenticateForSecurity(r, s) \/ reauthenticateForDeletion(r, s)
               \/ requestExport(r, s)
               \/ revokeSessions(r, s) \/ resolveAccountDeletionSession(r, s)
        PROVE  Held'
    <2>1. s \in DOMAIN Session
      BY <1>2 DEF reauthenticateForSecurity, reauthenticateForDeletion, requestExport, AskFor, Admit,
                  revokeSessions, resolveAccountDeletionSession
    <2>2. ForSession(s) \in Asked
      BY <2>1, ForSessionFacts
    <2>3. PICK at \in {"issue", "revoke", "delete"}, purpose \in Purposes :
            \/ Admit(r, s, [ForSession(s) EXCEPT !.at = at, !.purpose = purpose])
            \/ Admit(r, s, [ForSession(s) EXCEPT !.at = at])
      BY <1>2 DEF reauthenticateForSecurity, reauthenticateForDeletion, requestExport, AskFor,
                  revokeSessions, resolveAccountDeletionSession, Purposes
    <2>4. PICK fields : fields.at = at /\ Admit(r, s, fields)
      BY <2>2, <2>3 DEF Asked
    <2>5. QED
      BY <1>1, <2>4 DEF Admit
  <1>3. ASSUME NEW s \in 1 .. MaxSessions, NEW t \in 1 .. MaxTokens,
               followSecurityLink(r, s, t) \/ followExportLink(r, s, t)
        PROVE  Held'
    BY <1>1, <1>3 DEF followSecurityLink, followExportLink, Follow, Admit, Idle
  <1>4. ASSUME NEW t \in 1 .. MaxTokens, preflightAccountDeletionVerification(r, t) PROVE Held'
    BY <1>1, <1>4 DEF preflightAccountDeletionVerification, Idle
  <1>5. ASSUME NEW purpose, Issue(r, purpose) PROVE Held'
    <2>1. CASE LooksAtSession(r, purpose)
      BY <2>1, HeldOnceSeen
    <2>2. CASE StoreLink(r, purpose)
      <3>1. User' = User /\ UNCHANGED Session
        BY <2>2 DEF StoreLink, Store
      <3>2. NoneAwaits /\ last'.session = last.session /\ last'.out = last.out
        BY <2>2, StoresElsewhere DEF StoreLink
      <3>3. QED
        BY <3>1, <3>2, HeldQuietly
    <2>3. QED
      BY <1>5, <2>1, <2>2 DEF Issue
  <1>6. CASE verifyAccountSecurityReauthentication(r) \/ verifyPersonalDataExport(r)
    <2>1. /\ NoneAwaits /\ UNCHANGED <<User, last>>
          /\ \/ UNCHANGED Session
             \/ Session' = [Session EXCEPT ![request[r].session].recent = TRUE]
      BY <1>6, GoesElsewhere
      DEF verifyAccountSecurityReauthentication, verifyPersonalDataExport, Verify
    <2>2. QED
      BY <2>1, HeldQuietly, HeldWhenAging
  <1>7. CASE ConsumeDeletionLink(r)
    <2>1. NoneAwaits /\ UNCHANGED <<User, Session, last>>
      BY <1>7, GoesElsewhere DEF ConsumeDeletionLink, Steps
    <2>2. QED
      BY <2>1, HeldQuietly
  <1>8. QED
    BY <1>2, <1>3, <1>4, <1>5, <1>6, <1>7, HeldWhenRevoked, HeldWhenDeleted
    DEF issueAccountSecurityReauthentication, issueAccountDeletionReauthentication,
        issuePersonalDataExport

LEMMA HeldKept == LinksInv /\ Held /\ [Next]_vars => Held'
  <1> SUFFICES ASSUME LinksInv, Held, [Next]_vars PROVE Held'
    OBVIOUS
  <1>1. CASE UNCHANGED vars
    BY <1>1 DEF Held, Awaits, vars, tables
  <1>2. CASE SharedNext
    <2>1. CASE \E r \in Requests :
                 Send(r) \/ Confirm(r) \/ Compensate(r) \/ FindUser(r) \/ createSession(r) \/ Dies(r)
      BY <2>1, HeldWhenShared, HeldWhenOpened
    <2>2. ASSUME NEW t, Expires(t) PROVE Held'
      BY <2>2 DEF Expires, Held, Awaits
    <2>3. ASSUME NEW s, Ages(s) PROVE Held'
      <3>1. Session' = [Session EXCEPT ![s].recent = FALSE] /\ UNCHANGED <<User, last, request>>
        BY <2>3 DEF Ages
      <3>2. NoneAwaits
        BY <3>1 DEF NoneAwaits
      <3>3. QED
        BY <3>1, <3>2, HeldWhenAging
    <2>4. QED
      BY <1>2, <2>1, <2>2, <2>3, HeldWhenSignedOut DEF SharedNext
  <1>3. QED
    BY <1>1, <1>2, HeldWhenSigningIn, HeldOnAccountPage DEF Next

LEMMA LinksAlways == Spec => [](LinksInv /\ Held)
  BY LinksInitially, LinksKept, HeldInitially, HeldKept, PTL DEF Spec

-----------------------------------------------------------------------------
(* The number of sessions *)

SessionsFew == \A u \in Nat : Cardinality(SessionsOf(u)) <= SessionLimit

LEMMA Least ==
  ASSUME NEW S, S \subseteq Nat, S # {}
  PROVE  \E x \in S : \A y \in S : x <= y
  <1>1. PICK x \in S : \A y \in S : ~ (<<y, x>> \in OpToRel(<, Nat))
    BY WFMin, NatLessThanWellFounded, Zenon
  <1>2. \A y \in S : x <= y
    <2> SUFFICES ASSUME NEW y \in S PROVE x <= y
      OBVIOUS
    <2>1. <<y, x>> \in Nat \X Nat
      BY SMT
    <2>2. ~(y < x)
      BY <1>1, <2>1 DEF OpToRel
    <2>3. QED
      BY <2>2, SMT
  <1>3. QED
    BY <1>2, Zenon

\* The newest but one less than the limit are one less than the limit at most.
LEMMA NewestFew ==
  ASSUME NEW S, S \subseteq Nat, IsFiniteSet(S), NEW limit \in Nat \ {0}
  PROVE  Cardinality({s \in S : Cardinality({n \in S : n >= s}) < limit}) < limit
  <1> DEFINE from(s) == {n \in S : n >= s}
             newest == {s \in S : Cardinality(from(s)) < limit}
  <1>1. CASE newest = {}
    <2>1. Cardinality(newest) = 0
      BY <1>1, FS_EmptySet
    <2>2. QED
      BY <2>1
  <1>2. CASE newest # {}
    <2>1. newest \subseteq Nat
      OBVIOUS
    <2>2. PICK m \in newest : \A s \in newest : m <= s
      BY <1>2, <2>1, Least, Zenon
    <2>3. newest \subseteq from(m) /\ from(m) \subseteq S
      BY <2>2
    <2>4. IsFiniteSet(from(m)) /\ Cardinality(from(m)) < limit
      BY <2>2, <2>3, FS_Subset
    <2> HIDE DEF newest, from
    <2>5. /\ IsFiniteSet(newest) /\ Cardinality(newest) <= Cardinality(from(m))
          /\ Cardinality(newest) \in Nat /\ Cardinality(from(m)) \in Nat
      BY <2>3, <2>4, FS_Subset, FS_CardinalityType
    <2>6. Cardinality(newest) < limit
      BY <2>4, <2>5
    <2>7. QED
      BY <2>6 DEF newest, from
  <1>3. QED
    BY <1>1, <1>2

LEMMA SessionsFinite ==
  ASSUME TypeOK, NEW u
  PROVE  /\ IsFiniteSet(SessionsOf(u)) /\ Cardinality(SessionsOf(u)) \in Nat
         /\ SessionsOf(u) \subseteq Nat
  <1>1. SessionsOf(u) \subseteq 1 .. last.session /\ last.session \in Nat
    BY DEF TypeOK, SessionsOf
  <1>2. IsFiniteSet(1 .. last.session)
    BY <1>1, FS_Interval
  <1>3. QED
    BY <1>1, <1>2, FS_Subset, FS_CardinalityType

NoneOpened ==
  \A s \in DOMAIN Session' : s \in DOMAIN Session /\ Session'[s].user = Session[s].user

LEMMA FewerSessions ==
  ASSUME TypeOK, SessionsFew,
         NoneOpened
  PROVE  SessionsFew'
  <1> SUFFICES ASSUME NEW u \in Nat PROVE Cardinality(SessionsOf(u)') <= SessionLimit
    BY DEF SessionsFew
  <1> DEFINE before == SessionsOf(u)
             after == SessionsOf(u)'
  <1>1. after \subseteq before
    BY DEF SessionsOf, NoneOpened
  <1>2. IsFiniteSet(before) /\ Cardinality(before) \in Nat /\ Cardinality(before) <= SessionLimit
    BY SessionsFinite DEF SessionsFew
  <1> HIDE DEF before, after
  <1>3. IsFiniteSet(after) /\ Cardinality(after) <= Cardinality(before) /\ Cardinality(after) \in Nat
    BY <1>1, <1>2, FS_Subset, FS_CardinalityType
  <1>4. Cardinality(after) <= SessionLimit
    BY <1>2, <1>3, AccountsAssumption
  <1>5. QED
    BY <1>4 DEF after

LEMMA OneMoreSession ==
  ASSUME LinksInv, SessionsFew, NEW r \in Requests, createSession(r)
  PROVE  SessionsFew'
  <1> DEFINE s == last.session + 1
             itsUser == request[r].user
  <1>1. CASE ~OwnerExists(itsUser)
    <2>1. Session' = Session
      BY <1>1 DEF createSession
    <2>2. QED
      BY <2>1, FewerSessions DEF LinksInv, NoneOpened
  <1>2. CASE OwnerExists(itsUser)
    <2>1. Session' = Without(With(Session, s, [user |-> itsUser, recent |-> TRUE]), Evicted(itsUser))
      BY <1>2 DEF createSession, RemoveSessions
    <2>2. /\ DOMAIN Session \subseteq 1 .. last.session /\ last.session \in Nat
      BY DEF LinksInv, TypeOK
    <2>3. /\ DOMAIN Session' = (DOMAIN Session \cup {s}) \ Evicted(itsUser)
          /\ s \in DOMAIN Session' => Session'[s].user = itsUser
          /\ \A i \in DOMAIN Session : i \in DOMAIN Session' => Session'[i] = Session[i]
      BY <2>1, <2>2 DEF With, Without, Restrict
    <2> SUFFICES ASSUME NEW u \in Nat PROVE Cardinality(SessionsOf(u)') <= SessionLimit
      BY DEF SessionsFew
    <2> DEFINE before == SessionsOf(u)
               after == SessionsOf(u)'
    <2>4. IsFiniteSet(before) /\ Cardinality(before) \in Nat /\ before \subseteq Nat
      BY SessionsFinite DEF LinksInv
    <2>5. CASE u # itsUser
      <3>1. after \subseteq before
        BY <2>3, <2>5 DEF SessionsOf
      <3>2. Cardinality(before) <= SessionLimit
        BY DEF SessionsFew
      <3> HIDE DEF before, after
      <3>3. Cardinality(after) <= Cardinality(before) /\ Cardinality(after) \in Nat
        BY <2>4, <3>1, FS_Subset, FS_CardinalityType
      <3>4. Cardinality(after) <= SessionLimit
        BY <2>4, <3>2, <3>3, AccountsAssumption
      <3>5. QED
        BY <3>4 DEF after
    <2>6. CASE u = itsUser
      <3> DEFINE newest == {i \in before : Cardinality({n \in before : n >= i}) < SessionLimit}
      <3>1. \A i \in before : i \notin Evicted(itsUser) => i \in newest
        <4>1. \A i \in before : IsFiniteSet({n \in before : n >= i})
          <5> TAKE i \in before
          <5>1. {n \in before : n >= i} \subseteq before
            OBVIOUS
          <5>2. QED
            BY <2>4, <5>1, FS_Subset
        <4>2. \A i \in before : Cardinality({n \in before : n >= i}) \in Nat
          BY <4>1, FS_CardinalityType
        <4>3. QED
          BY <2>6, <4>2, AccountsAssumption DEF Evicted
      <3>2. after \subseteq newest \cup {s}
        BY <2>3, <2>6, <3>1 DEF SessionsOf
      <3>3. newest \subseteq before
        OBVIOUS
      <3>4. Cardinality(newest) < SessionLimit
        BY <2>4, NewestFew, AccountsAssumption
      <3> HIDE DEF before, after, newest
      <3>5. IsFiniteSet(newest) /\ Cardinality(newest) \in Nat
        BY <2>4, <3>3, FS_Subset, FS_CardinalityType
      <3>6. IsFiniteSet(newest \cup {s}) /\ Cardinality(newest \cup {s}) <= Cardinality(newest) + 1
            /\ Cardinality(newest \cup {s}) \in Nat
        <4>1. IsFiniteSet(newest \cup {s})
          BY <3>5, FS_AddElement
        <4>2. /\ s \in newest => Cardinality(newest \cup {s}) = Cardinality(newest)
              /\ s \notin newest => Cardinality(newest \cup {s}) = Cardinality(newest) + 1
          BY <3>5, FS_AddElement
        <4>3. QED
          BY <3>5, <4>1, <4>2
      <3>7. Cardinality(after) <= Cardinality(newest \cup {s}) /\ Cardinality(after) \in Nat
        BY <3>2, <3>6, FS_Subset, FS_CardinalityType
      <3>8. Cardinality(after) <= SessionLimit
        BY <3>4, <3>5, <3>6, <3>7, AccountsAssumption
      <3>9. QED
        BY <3>8 DEF after
    <2>7. QED
      BY <2>5, <2>6
  <1>3. QED
    BY <1>1, <1>2

\* Every other step leaves the sessions as they are, lets them age, or ends some.
LEMMA OtherSessions ==
  ASSUME LinksInv, [Next]_vars, \A r \in Requests : ~createSession(r)
  PROVE  NoneOpened
  <1>1. ASSUME UNCHANGED Session PROVE NoneOpened
    BY <1>1 DEF NoneOpened
  <1>2. ASSUME NEW removed, RemoveSessions(removed, Session) PROVE NoneOpened
    BY <1>2 DEF RemoveSessions, Without, Restrict, NoneOpened
  <1>3. ASSUME NEW s, NEW recent, Session' = [Session EXCEPT ![s].recent = recent] PROVE NoneOpened
    <2>1. Session \in [DOMAIN Session -> [user : Nat, recent : BOOLEAN]]
      BY DEF LinksInv, TypeOK
    <2>2. QED
      BY <1>3, <2>1 DEF NoneOpened
  <1>4. CASE UNCHANGED vars
    BY <1>1, <1>4 DEF vars, tables
  <1>5. CASE SharedNext
    <2>1. CASE \E r \in Requests : Send(r) \/ Confirm(r) \/ Compensate(r) \/ FindUser(r) \/ Dies(r)
      BY <1>1, <2>1 DEF Send, Confirm, Compensate, FindUser, Dies, tables
    <2>2. CASE \E t \in 1 .. MaxTokens : Expires(t)
      BY <1>1, <2>2 DEF Expires
    <2>3. ASSUME NEW s \in 1 .. MaxSessions, Ages(s) PROVE NoneOpened
      <3>1. Session' = [Session EXCEPT ![s].recent = FALSE]
        BY <2>3 DEF Ages
      <3>2. QED
        BY <1>3, <3>1, Zenon
    <2>4. CASE \E s \in 1 .. MaxSessions : deleteSession(s)
      BY <1>2, <2>4 DEF deleteSession
    <2>5. QED
      BY <1>5, <2>1, <2>2, <2>3, <2>4 DEF SharedNext
  <1>6. CASE SignInNext
    <2>1. UNCHANGED Session
      BY <1>6 DEF SignInNext, findExistingLoginEmail, findLoginChallengeCodeHash, processSignup,
                  createVerificationToken, registerFailedLoginCodeAttempt, RedeemCode, RedeemLink,
                  preflightSignupActivation, Activate, tables
    <2>2. QED
      BY <1>1, <2>1
  <1>7. CASE AccountNext
    <2> PICK r \in Requests :
          \/ UNCHANGED Session
          \/ verifyAccountSecurityReauthentication(r) \/ verifyPersonalDataExport(r)
          \/ Revoke(r) \/ deleteCurrentAccount(r)
      BY <1>7 DEF AccountNext, reauthenticateForSecurity, reauthenticateForDeletion, requestExport,
                  AskFor, followSecurityLink, followExportLink, Follow, revokeSessions,
                  resolveAccountDeletionSession, Admit, preflightAccountDeletionVerification,
                  issueAccountSecurityReauthentication, issueAccountDeletionReauthentication,
                  issuePersonalDataExport, Issue, LooksAtSession, StoreLink, ConsumeDeletionLink,
                  tables
    <2>1. CASE verifyAccountSecurityReauthentication(r) \/ verifyPersonalDataExport(r)
      <3>1. \/ UNCHANGED Session
            \/ Session' = [Session EXCEPT ![request[r].session].recent = TRUE]
        BY <2>1 DEF verifyAccountSecurityReauthentication, verifyPersonalDataExport, Verify
      <3>2. QED
        BY <1>1, <1>3, <3>1, Zenon
    <2>2. CASE Revoke(r)
      <3>1. UNCHANGED Session \/ \E revoked \in Revocable(r) : RemoveSessions(revoked, Session)
        BY <2>2 DEF Revoke
      <3>2. QED
        BY <1>1, <1>2, <3>1, Zenon
    <2>3. CASE deleteCurrentAccount(r)
      BY <1>1, <1>2, <2>3 DEF deleteCurrentAccount, tables
    <2>4. QED
      BY <1>1, <2>1, <2>2, <2>3
  <1>8. QED
    BY <1>4, <1>5, <1>6, <1>7 DEF Next

LEMMA FewInitially == Init => SessionsFew
  <1> SUFFICES ASSUME NEW accounts \in 0 .. 1,
                      Session = [s \in 1 .. accounts |-> [user |-> s, recent |-> FALSE]]
               PROVE  SessionsFew
    BY DEF Init
  <1> SUFFICES ASSUME NEW u \in Nat PROVE Cardinality(SessionsOf(u)) <= SessionLimit
    BY DEF SessionsFew
  <1>1. SessionsOf(u) \subseteq {1}
    BY DEF SessionsOf
  <1>2. IsFiniteSet({1}) /\ Cardinality({1}) = 1
    BY FS_Singleton
  <1>3. Cardinality(SessionsOf(u)) <= 1 /\ Cardinality(SessionsOf(u)) \in Nat
    BY <1>1, <1>2, FS_Subset, FS_CardinalityType
  <1>4. QED
    BY <1>3, AccountsAssumption

LEMMA FewAlways == Spec => []SessionsFew
  <1>1. LinksInv /\ SessionsFew /\ [Next]_vars => SessionsFew'
    <2> SUFFICES ASSUME LinksInv, SessionsFew, [Next]_vars PROVE SessionsFew'
      OBVIOUS
    <2>1. CASE \E r \in Requests : createSession(r)
      BY <2>1, OneMoreSession
    <2>2. CASE \A r \in Requests : ~createSession(r)
      BY <2>2, OtherSessions, FewerSessions DEF LinksInv
    <2>3. QED
      BY <2>1, <2>2
  <1>2. QED
    BY <1>1, FewInitially, LinksAlways, PTL DEF Spec

\* Rows, requests and counters keep their form.
THEOREM LinksTyped == Spec => []TypeOK
  <1>1. LinksInv => TypeOK
    BY DEF LinksInv
  <1>2. QED
    BY <1>1, LinksAlways, PTL

\* lib/auth-adapter.ts and the account services: a challenge or a link is of use once,
\* and an address has one of each kind.
THEOREM LinkUsedOnce == Spec => []OneLinkOneUse
  <1>1. LinksInv => OneLinkOneUse
    <2> SUFFICES ASSUME LinksInv PROVE OneLinkOneUse
      OBVIOUS
    <2>1. \A t \in 1 .. last.token : history[t].uses <= 1
      BY Numbers DEF LinksInv, Numeric, OnlyUse
    <2>2. QED
      BY <2>1 DEF LinksInv, LinksAlone, OneLinkOneUse, Links
  <1>2. QED
    BY <1>1, LinksAlways, PTL

\* registerFailedLoginCodeAttempt: however guesses race with their charges, there are
\* fewer than the budget, the requests at work and those that died allow.
THEOREM GuessesBounded == Spec => []GuessesNearlyBounded
  <1>1. LinksInv => GuessesNearlyBounded
    BY Numbers DEF LinksInv, Numeric, Charged, GuessesNearlyBounded
  <1>2. QED
    BY <1>1, LinksAlways, PTL

\* deleteCurrentAccount and createSession: links, sessions and authorizations go with
\* their account, and an account has sessions up to the limit.
THEOREM AccountTakesAll == Spec => []NothingOutlivesAccount
  <1>1. LinksInv /\ SessionsFew => NothingOutlivesAccount
    <2> SUFFICES ASSUME LinksInv, SessionsFew PROVE NothingOutlivesAccount
      OBVIOUS
    <2>1. \A u \in DOMAIN User : Cardinality(SessionsOf(u)) <= SessionLimit
      BY Numbers DEF LinksInv, Numeric, SessionsFew
    <2>2. QED
      BY <2>1 DEF LinksInv, TypeOK, LinksOwned, SessionsOwned, NothingOutlivesAccount
  <1>2. QED
    BY <1>1, LinksAlways, FewAlways, PTL

\* The transactions that store links and those that remove sessions: no security or
\* export link for a session that anything but its browser, or its age, has ended.
THEOREM RevokedSendsNothing == Spec => NoLinkOnceRevoked
  <1> DEFINE Kept(r) ==
        /\ request[r].at = "store" /\ request'[r].at = "send"
        /\ request[r].purpose # "ACCOUNT_DELETION"
        => request[r].session \in DOMAIN Session \cup last.out
  <1>1. Held /\ [Next]_vars => [\A r \in Requests : Kept(r)]_vars
    BY DEF Held, Awaits
  <1>2. QED
    BY <1>1, LinksAlways, PTL DEF Spec, NoLinkOnceRevoked

-----------------------------------------------------------------------------
(* The dialog that ends sessions *)

SheetSpec == SheetInit /\ [][SheetNext]_sheetVars

\* An answer that says "completed" is one of a server that has ended the session.
SheetInv == ClosedMeansRevoked /\ (revocation = "completed" => ~target)

LEMMA SheetInitially == SheetInit => SheetInv
BY DEF SheetInit, SheetInv, ClosedMeansRevoked

LEMMA SheetKept == SheetInv /\ [SheetNext]_sheetVars => SheetInv'
<1> SUFFICES ASSUME SheetInv, [SheetNext]_sheetVars PROVE SheetInv'
  OBVIOUS
<1> USE DEF SheetInv, ClosedMeansRevoked
<1>1. ASSUME NEW nextOpen \in BOOLEAN, setOpen(nextOpen) PROVE SheetInv'
  BY <1>1 DEF setOpen
<1>2. CASE revokeSession \/ RequestRevocation \/ sendReauthenticationLink
  BY <1>2 DEF revokeSession, RequestRevocation, sendReauthenticationLink
<1>3. CASE ServerRevokes
  BY <1>3 DEF ServerRevokes
<1>4. CASE RevocationAnswered
  BY <1>4 DEF RevocationAnswered, defaultRevocationClient
<1>5. CASE RevocationLost \/ ReauthenticationAnswered
  BY <1>5 DEF RevocationLost, ReauthenticationAnswered
<1>6. CASE PageLoaded
  BY <1>6 DEF PageLoaded
<1>7. CASE EndsElsewhere
  BY <1>7 DEF EndsElsewhere
<1>8. CASE UNCHANGED sheetVars
  BY <1>8 DEF sheetVars
<1> QED BY <1>1, <1>2, <1>3, <1>4, <1>5, <1>6, <1>7, <1>8 DEF SheetNext

\* security-session-dialog.tsx closes itself as done only when the session has ended.
THEOREM ClosedWhenRevoked == SheetSpec => []ClosedMeansRevoked
<1>1. SheetInv => ClosedMeansRevoked
  BY DEF SheetInv
<1> QED BY <1>1, SheetInitially, SheetKept, PTL DEF SheetSpec

-----------------------------------------------------------------------------
(* The panel of the export *)

PanelSpec == PanelInit /\ [][PanelNext]_panelVars

PanelTypeOK ==
  /\ {second, expiresAt, retryAt, asked.request, asked.download} \subseteq Nat
  /\ asked \in [{"request", "download"} -> Nat]
  /\ exporting \in {"none", "request", "download"}

\* For as long as it is to wait the panel says so, and waits for what was asked.
DownloadWaits ==
  asked.download > second /\ SecondsLeft(expiresAt) > 0 =>
    /\ panel = "rate_limited" /\ exporting = "none"
    /\ retryAction = "download" /\ retryAt = asked.download

RequestWaits ==
  asked.request > second /\ ~Rendered =>
    panel = "rate_limited" /\ exporting = "none" /\ retryAt = asked.request

PanelInv == PanelTypeOK /\ DownloadWaits /\ RequestWaits

LEMMA PanelInitially == PanelInit => PanelInv
BY ExportPanelAssumption
   DEF PanelInit, PanelInv, PanelTypeOK, DownloadWaits, RequestWaits, SecondsLeft

LEMMA PanelKept == PanelInv /\ [PanelNext]_panelVars => PanelInv'
<1> SUFFICES ASSUME PanelInv, [PanelNext]_panelVars PROVE PanelInv'
  OBVIOUS
<1> USE DEF PanelInv, PanelTypeOK, DownloadWaits, RequestWaits, SecondsLeft, Rendered
<1>1. CASE requestConfirmation \/ download
  BY <1>1 DEF requestConfirmation, download, Start, requestEnabled, downloadEnabled, canDownload,
              Exporting, Waits
<1>2. CASE Answered
  <2>1. CASE \E seconds \in RetryAfters : enterRateLimit(seconds)
    BY <1>2, <2>1, ExportPanelAssumption DEF Answered, enterRateLimit
  <2>2. CASE UNCHANGED <<retryAt, retryAction, asked>>
    BY <1>2, <2>2 DEF Answered
  <2> QED BY <1>2, <2>1, <2>2 DEF Answered
<1>3. CASE ExpiryTimer
  BY <1>3 DEF ExpiryTimer, Runs
<1>4. CASE RetryTimer
  BY <1>4 DEF RetryTimer, Runs
<1>5. CASE SecondPasses
  BY <1>5 DEF SecondPasses
<1>6. CASE UNCHANGED panelVars
  BY <1>6 DEF panelVars
<1> QED BY <1>1, <1>2, <1>3, <1>4, <1>5, <1>6 DEF PanelNext

\* data-export-panel.tsx repeats nothing before its time.
THEOREM PanelAlwaysWaits == PanelSpec => []PanelWaits
<1>1. PanelInv => PanelWaits
  BY DEF PanelInv, PanelTypeOK, DownloadWaits, RequestWaits, PanelWaits
<1> QED BY <1>1, PanelInitially, PanelKept, PTL DEF PanelSpec

-----------------------------------------------------------------------------
(* The dialog that deletes the account *)

DialogSpec == DeletionInit /\ [][DeletionNext]_deletionVars

\* Without a lost answer there is no check under way and nothing left of a request.
OnlyLostAnswersLinger ==
  ~unanswered =>
    /\ \A c \in SessionChecks : checks[c] = NoCheck
    /\ ~armed /\ ~straggler
    /\ signal # "none" => asking = "deletion"
    /\ asking \in {"csrf", "deletion"} => dialog = "deleting"
    /\ place = "completed" => dialog = "deleting"

DialogInv ==
  /\ checks \in [SessionChecks -> [of : {"none", "online", "mount"},
                                   heard : {"none", "nothing", "retry", "completed", "pending"}]]
  /\ post # "none" => asking = "deletion"
  /\ post = "completed" => ~session
  /\ \A c \in SessionChecks : checks[c].heard = "completed" => ~session
  /\ place = "completed" => ~session
  /\ ~account => unanswered \/ post = "completed" \/ place = "completed"
  /\ OnlyLostAnswersLinger

LEMMA DialogInitially == DeletionInit => DialogInv
BY DEF DeletionInit, DialogInv, OnlyLostAnswersLinger, NoCheck

LEMMA SetDialogDisarms ==
  ASSUME NEW d, d # "recovering", SetDialog(d)
  PROVE  dialog' = d /\ ~armed'
BY Zenon DEF SetDialog

LEMMA DialogKept == DialogInv /\ [DeletionNext]_deletionVars => DialogInv'
<1> SUFFICES ASSUME DialogInv, [DeletionNext]_deletionVars PROVE DialogInv'
  OBVIOUS
<1> USE DEF DialogInv, OnlyLostAnswersLinger, NoCheck, server, OnPage
<1>1. ASSUME NEW nextOpen \in BOOLEAN, onOpenChange(nextOpen) PROVE DialogInv'
  <2>1. dialog' \in {"reviewing", "closed"} /\ ~armed'
    BY <1>1, SetDialogDisarms DEF onOpenChange
  <2> QED BY <1>1, <2>1 DEF onOpenChange, pending
<1>2. CASE Continue \/ sendReauthentication \/ LinkAnswered
  <2>1. ~armed' \/ UNCHANGED <<dialog, armed>>
    BY <1>2, SetDialogDisarms DEF Continue, sendReauthentication, LinkAnswered
  <2>2. CASE Continue
    BY <2>1, <2>2 DEF Continue
  <2>3. CASE sendReauthentication
    BY <2>1, <2>3 DEF sendReauthentication
  <2>4. CASE LinkAnswered
    BY <2>1, <2>4 DEF LinkAnswered
  <2> QED BY <1>2, <2>2, <2>3, <2>4
<1>3. CASE permanentlyDelete \/ getCsrfToken
  <2>1. CASE permanentlyDelete
    <3>1. dialog' = "deleting" /\ ~armed'
      BY <2>1, SetDialogDisarms DEF permanentlyDelete
    <3> QED BY <2>1, <3>1 DEF permanentlyDelete
  <2>2. CASE getCsrfToken
    <3>1. \/ ~armed' /\ asking' = "none" /\ UNCHANGED <<post, signal>>
          \/ /\ asking' = "deletion" /\ post' = "sent" /\ asking = "csrf"
             /\ UNCHANGED <<dialog, armed>>
      BY <2>2, SetDialogDisarms DEF getCsrfToken
    <3> QED BY <2>2, <3>1 DEF getCsrfToken
  <2> QED BY <1>3, <2>1, <2>2
<1>4. CASE ServerDecides \/ StragglerLands
  BY <1>4 DEF ServerDecides, StragglerLands, DeletesAccount
<1>5. CASE DeletionAnswered
  BY <1>5 DEF DeletionAnswered, SetDialog
<1>6. CASE AnswerLost
  BY <1>6 DEF AnswerLost, Forsaken, SetDialog
<1>7. ASSUME NEW c \in SessionChecks, recover(c) PROVE DialogInv'
  BY <1>7 DEF recover, recoverPendingDeletion
<1>8. ASSUME NEW c \in SessionChecks, SessionAnswers(c) PROVE DialogInv'
  BY <1>8 DEF SessionAnswers, checkSession
<1>9. ASSUME NEW c \in SessionChecks, Recovered(c) PROVE DialogInv'
  BY <1>9 DEF Recovered, SetDialog
<1>10. ASSUME NEW c \in SessionChecks, Reload(c) PROVE DialogInv'
  BY <1>10 DEF Reload, Forsaken
<1>11. CASE SignalLapses \/ SessionEnds
  BY <1>11 DEF SignalLapses, SessionEnds
<1>12. CASE UNCHANGED deletionVars
  BY <1>12 DEF deletionVars
<1> QED
  BY <1>1, <1>2, <1>3, <1>4, <1>5, <1>6, <1>7, <1>8, <1>9, <1>10, <1>11, <1>12
     DEF DeletionNext

\* delete-account-dialog.tsx says that the account is gone only when it knows, and that
\* the deletion failed only when it did or its answer was lost.
THEOREM DeletionTruthfullyTold == DialogSpec => []DeletionTold
<1>1. DialogInv => DeletionTold
  BY DEF DialogInv, OnlyLostAnswersLinger, DeletionTold
<1> QED BY <1>1, DialogInitially, DialogKept, PTL DEF DialogSpec
-----------------------------------------------------------------------------
(* The download *)

DownloadSpec == ExportInit /\ [][ExportNext]_exportVars

\* What the i-th contributor says of a snapshot.
Told(i, rows, at) == contribute(Contributors[i], rows, at)

\* The sections written so far are what the contributors say of one snapshot.
SectionsTold(sections, rows, at) ==
  /\ sections \in Seq({Told(1, rows, at), Told(2, rows, at), Told(3, rows, at)})
  /\ Len(sections) <= 3
  /\ \A i \in 1 .. Len(sections) : sections[i] = Told(i, rows, at)

\* The snapshot is one of the moments since the download was asked for, at which the
\* download was due, and a completed one has all the sections.
Consistent(seen, step, at, rows, sections) ==
  /\ step \in {"idle", "begins", "reads", "authorizes"} => sections = << >>
  /\ step \in {"authorizes", "contributes", "completed"} => rows \in seen
  /\ step \in {"contributes", "completed"} =>
       Objection(rows, at) = "none" /\ SectionsTold(sections, rows, at)
  /\ step = "completed" => Len(sections) = 3

DownloadInv ==
  /\ generation = [step |-> generation.step, deadline |-> generation.deadline,
                   generatedAt |-> generation.generatedAt, snapshot |-> generation.snapshot,
                   first |-> generation.first, sections |-> generation.sections]
  /\ generation.step \in {"idle", "begins", "reads", "authorizes", "contributes"} \cup Outcomes
  /\ Generating => Rows \in moments
  /\ Consistent(moments, generation.step, generation.generatedAt, generation.snapshot,
                generation.sections)

LEMMA ThreeContributors == Len(Contributors) = 3 /\ DOMAIN Contributors = 1 .. 3
BY DEF Contributors

LEMMA NothingToldYet == ASSUME NEW rows, NEW at PROVE SectionsTold(<< >>, rows, at)
BY DEF SectionsTold

\* A section more, of the same snapshot.
LEMMA ToldOneMore ==
  ASSUME NEW sections, NEW rows, NEW at, SectionsTold(sections, rows, at), Len(sections) < 3
  PROVE  SectionsTold(Append(sections, Told(Len(sections) + 1, rows, at)), rows, at)
<1> DEFINE n == Len(sections)
           said == Told(n + 1, rows, at)
           all == {Told(1, rows, at), Told(2, rows, at), Told(3, rows, at)}
           more == Append(sections, said)
<1>1. sections \in Seq(all) /\ n \in Nat /\ n < 3
  BY DEF SectionsTold
<1>2. \A i \in 1 .. n : sections[i] = Told(i, rows, at)
  BY DEF SectionsTold
<1>3. said \in all
  <2>1. n + 1 = 1 \/ n + 1 = 2 \/ n + 1 = 3
    BY <1>1
  <2> QED BY <2>1
<1> HIDE DEF said, all
<1>4. /\ more \in Seq(all) /\ Len(more) = n + 1 /\ more[n + 1] = said
      /\ \A i \in 1 .. n : more[i] = sections[i]
  BY <1>1, <1>3, AppendProperties
<1>5. \A i \in 1 .. Len(more) : more[i] = Told(i, rows, at)
  <2> SUFFICES ASSUME NEW i \in 1 .. n + 1 PROVE more[i] = Told(i, rows, at)
    BY <1>4
  <2>1. CASE i = n + 1
    BY <1>4, <2>1 DEF said
  <2>2. CASE i \in 1 .. n
    BY <1>2, <1>4, <2>2
  <2> QED BY <1>1, <2>1, <2>2
<1> HIDE DEF more
<1>6. SectionsTold(more, rows, at)
  BY <1>1, <1>4, <1>5 DEF SectionsTold, all
<1> QED BY <1>6 DEF more, said

LEMMA DownloadInitially == ExportInit => DownloadInv
<1> SUFFICES ASSUME ExportInit PROVE DownloadInv
  OBVIOUS
<1>1. /\ generation.step = "idle" /\ generation.sections = << >>
      /\ generation = [step |-> generation.step, deadline |-> generation.deadline,
                       generatedAt |-> generation.generatedAt, snapshot |-> generation.snapshot,
                       first |-> generation.first, sections |-> generation.sections]
  BY DEF ExportInit, NoGeneration
<1> QED BY <1>1 DEF DownloadInv, Consistent, Generating

\* A step of generatePersonalDataExport leaves the rows alone.
LEMMA GeneratesSoundly ==
  ASSUME DownloadInv, NEW step, NEW deadline, NEW at, NEW rows, NEW first, NEW sections,
         Generates([step |-> step, deadline |-> deadline, generatedAt |-> at,
                    snapshot |-> rows, first |-> first, sections |-> sections]),
         step \in {"begins", "reads", "authorizes", "contributes"} \cup Outcomes,
         Reached("idle") \/ Generating,
         Consistent(moments', step, at, rows, sections)
  PROVE  DownloadInv'
<1>1. /\ generation' = [step |-> step, deadline |-> deadline, generatedAt |-> at,
                        snapshot |-> rows, first |-> first, sections |-> sections]
      /\ Rows' = Rows /\ Rows \in moments'
  BY DEF Generates, Rows, DownloadInv, Generating
<1>2. /\ generation'.step = step /\ generation'.deadline = deadline
      /\ generation'.generatedAt = at /\ generation'.snapshot = rows
      /\ generation'.first = first /\ generation'.sections = sections
  BY <1>1
<1> QED BY <1>1, <1>2 DEF DownloadInv

LEMMA DownloadKept == DownloadInv /\ [ExportNext]_exportVars => DownloadInv'
<1> SUFFICES ASSUME DownloadInv, [ExportNext]_exportVars PROVE DownloadInv'
  OBVIOUS
<1> DEFINE g == generation
           Now(step, deadline, at, rows, first, sections) ==
             [step |-> step, deadline |-> deadline, generatedAt |-> at,
              snapshot |-> rows, first |-> first, sections |-> sections]
<1>0. /\ g = Now(g.step, g.deadline, g.generatedAt, g.snapshot, g.first, g.sections)
      /\ Consistent(moments, g.step, g.generatedAt, g.snapshot, g.sections)
  BY DEF DownloadInv
<1> HIDE DEF g
<1>1. ASSUME NEW step, Proceeds(step), Reached("idle") \/ Generating,
             step \in {"authorizes", "contributes"} \cup Outcomes,
             Consistent(moments', step, g.generatedAt, g.snapshot, g.sections)
      PROVE  DownloadInv'
  <2>1. [g EXCEPT !.step = step]
          = Now(step, g.deadline, g.generatedAt, g.snapshot, g.first, g.sections)
    BY <1>0
  <2>2. Generates(Now(step, g.deadline, g.generatedAt, g.snapshot, g.first, g.sections))
    BY <1>1, <2>1 DEF Proceeds, g
  <2> QED BY <1>1, <2>2, GeneratesSoundly
<1>2. CASE AdmitsDownload
  <2>1. Reached("idle") /\ g.step = "idle" /\ g.sections = << >>
    BY <1>0, <1>2 DEF AdmitsDownload, Reached, g, Consistent
  <2>2. ASSUME Generates([g EXCEPT !.step = "begins", !.deadline = moment + Timeout])
        PROVE  DownloadInv'
    <3>1. [g EXCEPT !.step = "begins", !.deadline = moment + Timeout]
            = Now("begins", moment + Timeout, g.generatedAt, g.snapshot, g.first, g.sections)
      <4> DEFINE begun == [g EXCEPT !.step = "begins"]
      <4>1. begun = Now("begins", g.deadline, g.generatedAt, g.snapshot, g.first, g.sections)
        BY <1>0
      <4>2. [g EXCEPT !.step = "begins", !.deadline = moment + Timeout]
              = [begun EXCEPT !.deadline = moment + Timeout]
        OBVIOUS
      <4> HIDE DEF begun
      <4> QED BY <4>1, <4>2
    <3>2. Consistent(moments', "begins", g.generatedAt, g.snapshot, g.sections)
      BY <2>1 DEF Consistent
    <3> QED BY <2>1, <2>2, <3>1, <3>2, GeneratesSoundly
  <2>3. \A step \in {"rate_limited", "unauthenticated"} :
          Consistent(moments', step, g.generatedAt, g.snapshot, g.sections)
    BY DEF Consistent
  <2> QED BY <1>1, <1>2, <2>1, <2>2, <2>3 DEF AdmitsDownload, g, Outcomes
<1>3. CASE BeginsTransaction
  <2>1. g.step = "begins" /\ Generating /\ g.sections = << >>
    BY <1>0, <1>3 DEF BeginsTransaction, Reached, g, Consistent, Generating, Outcomes
  <2>2. [g EXCEPT !.step = "reads", !.generatedAt = moment]
          = Now("reads", g.deadline, moment, g.snapshot, g.first, g.sections)
    <3> DEFINE begun == [g EXCEPT !.step = "reads"]
    <3>1. begun = Now("reads", g.deadline, g.generatedAt, g.snapshot, g.first, g.sections)
      BY <1>0
    <3>2. [g EXCEPT !.step = "reads", !.generatedAt = moment]
            = [begun EXCEPT !.generatedAt = moment]
      OBVIOUS
    <3> HIDE DEF begun
    <3> QED BY <3>1, <3>2
  <2>3. Generates(Now("reads", g.deadline, moment, g.snapshot, g.first, g.sections))
    BY <1>3, <2>2 DEF BeginsTransaction, g
  <2>4. Consistent(moments', "reads", moment, g.snapshot, g.sections)
    BY <2>1 DEF Consistent
  <2> QED BY <2>1, <2>3, <2>4, GeneratesSoundly
<1>4. CASE ReadsFirst
  <2>1. g.step = "reads" /\ Generating /\ g.sections = << >>
    BY <1>0, <1>4 DEF ReadsFirst, Reached, g, Consistent, Generating, Outcomes
  <2>2. [g EXCEPT !.step = "authorizes", !.snapshot = Rows]
          = Now("authorizes", g.deadline, g.generatedAt, Rows, g.first, g.sections)
    <3> DEFINE read == [g EXCEPT !.step = "authorizes"]
    <3>1. read = Now("authorizes", g.deadline, g.generatedAt, g.snapshot, g.first, g.sections)
      BY <1>0
    <3>2. [g EXCEPT !.step = "authorizes", !.snapshot = Rows] = [read EXCEPT !.snapshot = Rows]
      OBVIOUS
    <3> HIDE DEF read
    <3> QED BY <3>1, <3>2
  <2>3. Generates(Now("authorizes", g.deadline, g.generatedAt, Rows, g.first, g.sections))
    BY <1>4, <2>2 DEF ReadsFirst, g
  <2>4. Rows \in moments'
    BY <1>4, <2>1 DEF ReadsFirst, Generates, DownloadInv
  <2>5. Consistent(moments', "authorizes", g.generatedAt, Rows, g.sections)
    BY <2>1, <2>4 DEF Consistent
  <2> QED BY <2>1, <2>3, <2>5, GeneratesSoundly
<1>5. CASE AuthorizesDownload
  <2> DEFINE objection == Objection(g.snapshot, g.generatedAt)
             step == IF objection = "none" THEN "contributes" ELSE objection
  <2>1. /\ g.step = "authorizes" /\ Generating /\ g.sections = << >> /\ g.snapshot \in moments
        /\ moments' = moments
    BY <1>0, <1>5 DEF AuthorizesDownload, Proceeds, Generates, Reached, g, Consistent,
                      Generating, Outcomes
  <2>2. objection \in {"none", "unauthenticated", "not_ready"}
    BY Zenon DEF Objection
  <2>3. Proceeds(step)
    BY <1>5 DEF AuthorizesDownload, Snapshot, g
  <2>4. step \in {"contributes", "unauthenticated", "not_ready"}
    BY <2>2
  <2>5. Consistent(moments', step, g.generatedAt, g.snapshot, g.sections)
    <3> HIDE DEF objection
    <3>1. SectionsTold(g.sections, g.snapshot, g.generatedAt)
      BY <2>1, NothingToldYet
    <3> QED BY <2>1, <2>2, <3>1 DEF Consistent, objection
  <2> HIDE DEF step
  <2> QED BY <1>1, <2>1, <2>3, <2>4, <2>5 DEF Outcomes
<1>6. CASE Contributes
  <2> DEFINE said == Told(Len(g.sections) + 1, g.snapshot, g.generatedAt)
  <2>1. /\ g.step = "contributes" /\ Generating /\ moments' = moments
        /\ Len(g.sections) < 3
        /\ SectionsTold(g.sections, g.snapshot, g.generatedAt)
    BY <1>0, <1>6, ThreeContributors
       DEF Contributes, Generates, Reached, g, Consistent, Generating, Outcomes
  <2>2. \/ Generates([g EXCEPT !.first = <<said>>])
        \/ Generates([g EXCEPT !.first = << >>, !.sections = Append(@, said)])
    BY <1>6 DEF Contributes, Snapshot, Told, g
  <2> HIDE DEF said
  <2>3. CASE Generates([g EXCEPT !.first = <<said>>])
    <3>1. [g EXCEPT !.first = <<said>>]
            = Now("contributes", g.deadline, g.generatedAt, g.snapshot, <<said>>, g.sections)
      BY <1>0, <2>1
    <3>2. Consistent(moments', "contributes", g.generatedAt, g.snapshot, g.sections)
      BY <1>0, <2>1 DEF Consistent
    <3> QED BY <2>1, <2>3, <3>1, <3>2, GeneratesSoundly
  <2>4. CASE Generates([g EXCEPT !.first = << >>, !.sections = Append(@, said)])
    <3>1. [g EXCEPT !.first = << >>, !.sections = Append(@, said)]
            = Now("contributes", g.deadline, g.generatedAt, g.snapshot, << >>,
                  Append(g.sections, said))
      <4> DEFINE agreed == [g EXCEPT !.first = << >>]
                 more == Append(g.sections, said)
      <4>1. agreed = Now("contributes", g.deadline, g.generatedAt, g.snapshot, << >>, g.sections)
        BY <1>0, <2>1
      <4>2. [g EXCEPT !.first = << >>, !.sections = Append(@, said)]
              = [agreed EXCEPT !.sections = more]
        OBVIOUS
      <4> HIDE DEF agreed, more
      <4>3. [agreed EXCEPT !.sections = more]
              = Now("contributes", g.deadline, g.generatedAt, g.snapshot, << >>, more)
        BY <4>1
      <4> QED BY <4>2, <4>3 DEF more
    <3>2. SectionsTold(Append(g.sections, said), g.snapshot, g.generatedAt)
      BY <2>1, ToldOneMore DEF said
    <3>3. Consistent(moments', "contributes", g.generatedAt, g.snapshot,
                     Append(g.sections, said))
      BY <1>0, <2>1, <3>2 DEF Consistent
    <3>4. Generates(Now("contributes", g.deadline, g.generatedAt, g.snapshot, << >>,
                        Append(g.sections, said)))
      BY Zenon, <2>4, <3>1
    <3> HIDE DEF Now
    <3>5. /\ Reached("idle") \/ Generating
          /\ "contributes" \in {"begins", "reads", "authorizes", "contributes"} \cup Outcomes
      BY <2>1
    <3> QED BY <3>3, <3>4, <3>5, GeneratesSoundly DEF Now
  <2> QED BY <2>2, <2>3, <2>4
<1>7. CASE serializePersonalDataExportEnvelope
  <2>1. /\ Proceeds("completed") /\ g.step = "contributes" /\ Generating
        /\ moments' = moments /\ Len(g.sections) = 3
    BY <1>7, ThreeContributors
       DEF serializePersonalDataExportEnvelope, Proceeds, Generates, Reached, g, Generating, Outcomes
  <2>2. Consistent(moments', "completed", g.generatedAt, g.snapshot, g.sections)
    BY <1>0, <2>1 DEF Consistent
  <2> QED BY <1>1, <2>1, <2>2 DEF Outcomes
<1>8. CASE GenerationFails
  <2>1. Consistent(moments', "unavailable", g.generatedAt, g.snapshot, g.sections)
    BY DEF Consistent
  <2> QED BY <1>1, <1>8, <2>1 DEF GenerationFails, Outcomes
<1>9. CASE \/ \E name \in Names : updateCurrentUserName(name)
           \/ \E s \in Devices : Authenticates(s) \/ SignsOut(s)
           \/ RenewsAuthorization \/ RemovesAccount
  <2>1. UNCHANGED generation /\ moments' = IF Generating THEN moments \cup {Rows'} ELSE moments
    BY <1>9 DEF updateCurrentUserName, Authenticates, SignsOut, RenewsAuthorization,
                RemovesAccount, Changes
  <2>2. Consistent(moments', g.step, g.generatedAt, g.snapshot, g.sections)
    BY <1>0, <2>1 DEF Consistent
  <2> QED BY <2>1, <2>2 DEF DownloadInv, Generating, g
<1>10. CASE MomentPasses \/ UNCHANGED exportVars
  BY <1>10 DEF MomentPasses, exportVars, Rows, DownloadInv, Generating
<1> QED
  BY <1>2, <1>3, <1>4, <1>5, <1>6, <1>7, <1>8, <1>9, <1>10 DEF ExportNext

\* A file generatePersonalDataExport hands out is of one moment, at which it was due.
THEOREM FilesAreOfOneMoment == DownloadSpec => []ExportOfOneMoment
<1>1. ASSUME DownloadInv, Reached("completed") PROVE ExportOfOneMoment
  <2>1. /\ generation.snapshot \in moments /\ Len(generation.sections) = 3
        /\ Objection(generation.snapshot, generation.generatedAt) = "none"
        /\ SectionsTold(generation.sections, generation.snapshot, generation.generatedAt)
    BY <1>1 DEF DownloadInv, Consistent, Reached
  <2>2. \A i \in DOMAIN Contributors :
          generation.sections[i]
            = contribute(Contributors[i], generation.snapshot, generation.generatedAt)
    BY <2>1, ThreeContributors DEF SectionsTold, Told
  <2> QED BY <2>1, <2>2 DEF ExportOfOneMoment
<1>2. DownloadInv => ExportOfOneMoment
  BY <1>1 DEF ExportOfOneMoment
<1> QED BY <1>2, DownloadInitially, DownloadKept, PTL DEF DownloadSpec
=============================================================================
