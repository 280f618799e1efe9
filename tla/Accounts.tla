------------------------------ MODULE Accounts ------------------------------
(***************************************************************************)
(* Accounts, their sessions and the links mailed to them: the tables of    *)
(* prisma/schema.prisma, the transactions of lib/auth-adapter.ts, and what *)
(* all mailed links share (issued, sent, confirmed as delivered or taken   *)
(* back).  The flows are in SignIn and AccountLinks.                       *)
(*                                                                         *)
(* Rows are numbered in the order they are created.  A transaction takes   *)
(* the advisory lock of its address, its account or both, always in that   *)
(* order, and is one step; only a link that a session asks for is stored   *)
(* in two, a look at the session and an insert, with those locks held in   *)
(* between.  A session that expires is one that is gone, as after signing  *)
(* out, for which no lock is taken; a request the rate limits or the CSRF  *)
(* check refuses is one never begun.                                       *)
(***************************************************************************)
EXTENDS Naturals, FiniteSets, Functions, FiniteSetsExt

CONSTANTS
  Addresses,       \* normalized e-mail addresses
  Requests,        \* requests the servers may be working on at once
  AttemptBudget,   \* LOGIN_CODE_ATTEMPT_BUDGET
  SessionLimit,    \* sessions an account may have
  MaxUsers, MaxTokens, MaxSessions, MaxDeaths   \* bounds of an instance

ASSUME AccountsAssumption ==
  /\ Addresses # {}
  /\ AttemptBudget \in Nat \ {0} /\ SessionLimit \in Nat \ {0}
  /\ {MaxUsers, MaxTokens, MaxSessions, MaxDeaths} \subseteq Nat
  /\ IsFiniteSet(Requests)

VARIABLES
  User,                      \* account -> address, status
  PolicyAcceptance,          \* accounts with an acceptance of the policies
  VerificationToken,         \* link -> its columns, whether it has expired and
                             \* reached the mailbox, the account it was sent to
  Session,                   \* session -> account, recently authenticated
  DataExportAuthorization,   \* sessions that may download an export
  request,                   \* what each request is doing
  last,                      \* the newest account, link and session; the sessions
                             \* that signed out as a link was stored for them
  history                    \* link -> guesses compared, times it was of use

tables == <<User, PolicyAcceptance, VerificationToken, Session, DataExportAuthorization>>
vars == <<tables, request, last, history>>

Purposes == {"LOGIN", "SIGNUP", "ACCOUNT_SECURITY", "ACCOUNT_DELETION", "ACCOUNT_DATA_EXPORT"}
Steps == {"idle", "issue", "store", "send", "confirm", "compensate", "charge",
          "consume", "find", "open", "verify", "revoke", "delete"}

Idle == [at |-> "idle", purpose |-> "LOGIN", token |-> 0, user |-> 0, session |-> 0,
         address |-> CHOOSE a \in Addresses : TRUE]

Account == [address : Addresses, status : {"PENDING", "ACTIVE"}]
Link == [address : Addresses, purpose : Purposes, delivered : BOOLEAN, attempts : 0 .. AttemptBudget,
         expired : BOOLEAN, arrived : BOOLEAN, sentTo : Nat]
Asked == [at : Steps, purpose : Purposes, token : Nat, user : Nat, session : Nat,
          address : Addresses]

TypeOK ==
  /\ DOMAIN User \subseteq 1 .. last.user
  /\ User \in [DOMAIN User -> Account]
  /\ PolicyAcceptance \subseteq DOMAIN User
  /\ DOMAIN VerificationToken \subseteq 1 .. last.token
  /\ VerificationToken \in [DOMAIN VerificationToken -> Link]
  /\ DOMAIN Session \subseteq 1 .. last.session
  /\ Session \in [DOMAIN Session -> [user : Nat, recent : BOOLEAN]]
  /\ DataExportAuthorization \subseteq DOMAIN Session
  /\ request \in [Requests -> Asked]
  /\ last \in [user : Nat, token : 0 .. MaxTokens, session : Nat, deaths : Nat, out : SUBSET Nat]
  /\ history \in [1 .. MaxTokens -> [guesses : Nat, uses : Nat]]

\* Some addresses have an account, signed in on one device a while ago.
Init ==
  \E accounts \in 0 .. 1 :
    /\ User = [u \in 1 .. accounts |-> [address |-> Idle.address, status |-> "ACTIVE"]]
    /\ PolicyAcceptance = 1 .. accounts
    /\ Session = [s \in 1 .. accounts |-> [user |-> s, recent |-> FALSE]]
    /\ VerificationToken = << >>
    /\ DataExportAuthorization = {}
    /\ request = [r \in Requests |-> Idle]
    /\ last = [user |-> accounts, token |-> 0, session |-> accounts, deaths |-> 0,
               out |-> {}]
    /\ history = [t \in 1 .. MaxTokens |-> [guesses |-> 0, uses |-> 0]]

-----------------------------------------------------------------------------
(* Tables and requests *)

With(table, id, row) == [i \in DOMAIN table \cup {id} |-> IF i = id THEN row ELSE table[i]]
Without(table, ids) == Restrict(table, DOMAIN table \ ids)

Active == {u \in DOMAIN User : User[u].status = "ACTIVE"}
AccountOf(address) == {u \in DOMAIN User : User[u].address = address}
Links(purpose, address) ==
  {t \in DOMAIN VerificationToken :
     VerificationToken[t].purpose = purpose /\ VerificationToken[t].address = address}
Fresh == {t \in DOMAIN VerificationToken : ~VerificationToken[t].expired}
Arrived == {t \in DOMAIN VerificationToken : VerificationToken[t].arrived}
SessionsOf(user) == {s \in DOMAIN Session : Session[s].user = user}

\* pg_advisory_xact_lock: whether no request is about to store a link of the address,
\* or one of the account.  A link that deletes takes the lock of its address only; of
\* the transactions that take both locks, the first keeps the others out.
LocksAccount_Never(purpose) == FALSE
LocksAccount(purpose) == purpose # "ACCOUNT_DELETION"

AddressFree(a) == \A r \in Requests : request[r].at = "store" => request[r].address # a
AccountFree(u) ==
  \A r \in Requests :
    request[r].at = "store" /\ LocksAccount(request[r].purpose) => request[r].user # u

Goto(r, step) == request' = [request EXCEPT ![r].at = step]
Done(r) == request' = [request EXCEPT ![r] = Idle]

-----------------------------------------------------------------------------
(* What all mailed links share *)

\* The link is stored, undelivered, in the place of `superseded`, with the account
\* if that is new; the message is then sent.
Store(r, asked, users, superseded) ==
  LET t == last.token + 1
      a == asked.address
  IN
  /\ last.token < MaxTokens
  /\ User' = users
  /\ VerificationToken' =
       With(Without(VerificationToken, superseded), t,
            [address |-> a, purpose |-> asked.purpose, delivered |-> FALSE, attempts |-> 0,
             expired |-> FALSE, arrived |-> FALSE,
             sentTo |-> CHOOSE u \in DOMAIN users : users[u].address = a])
  /\ last' = [last EXCEPT !.token = t, !.user = Max(DOMAIN users \cup {@})]
  /\ UNCHANGED history
  /\ request' = [request EXCEPT ![r] = [Idle EXCEPT !.at = "send", !.purpose = asked.purpose,
                                                    !.address = a, !.token = t]]

\* The provider accepts the message, or refuses it, or its answer is lost, in
\* which case the message may arrive.
Send(r) ==
  /\ request[r].at = "send"
  /\ \E accepted, arrives \in BOOLEAN :
       /\ accepted => arrives
       /\ VerificationToken' =
            [t \in DOMAIN VerificationToken |->
               [VerificationToken[t] EXCEPT !.arrived = @ \/ (arrives /\ t = request[r].token)]]
       /\ IF ~accepted THEN Goto(r, "compensate")
          ELSE IF request[r].purpose = "LOGIN" THEN Done(r)
          ELSE Goto(r, "confirm")
  /\ UNCHANGED <<User, PolicyAcceptance, Session, DataExportAuthorization, last, history>>

\* A link counts once its message was accepted, if it still is there.  Only then
\* does an export link take the place of those delivered before.
Superseded(t) ==
  IF VerificationToken[t].purpose = "ACCOUNT_DATA_EXPORT"
  THEN {o \in Links("ACCOUNT_DATA_EXPORT", VerificationToken[t].address) \ {t} :
          VerificationToken[o].delivered}
  ELSE {}

Confirmable(t) ==
  /\ t \in DOMAIN VerificationToken
  /\ ~VerificationToken[t].delivered
  /\ VerificationToken[t].purpose = "ACCOUNT_DATA_EXPORT" => ~VerificationToken[t].expired

\* The answer of the transaction may be lost once it is committed.
Confirm(r) ==
  LET t == request[r].token IN
  /\ request[r].at = "confirm" /\ AddressFree(request[r].address)
  /\ IF Confirmable(t)
     THEN /\ VerificationToken' =
               [Without(VerificationToken, Superseded(t)) EXCEPT ![t].delivered = TRUE]
          /\ Done(r) \/ Goto(r, "compensate")
     ELSE Goto(r, "compensate") /\ UNCHANGED VerificationToken
  /\ UNCHANGED <<User, PolicyAcceptance, Session, DataExportAuthorization, last, history>>

\* Exactly the request's own link is taken back, an export link unless it was
\* delivered after all.
Compensated(r) ==
  LET t == request[r].token IN
  {o \in {t} \cap DOMAIN VerificationToken :
     request[r].purpose = "ACCOUNT_DATA_EXPORT" => ~VerificationToken[o].delivered}

Compensate(r) ==
  /\ request[r].at = "compensate"
  /\ request[r].purpose # "LOGIN" => AddressFree(request[r].address)
  /\ VerificationToken' = Without(VerificationToken, Compensated(r))
  /\ Done(r)
  /\ UNCHANGED <<User, PolicyAcceptance, Session, DataExportAuthorization, last, history>>

-----------------------------------------------------------------------------
(* What all sign-ins share: Auth.js looks the account up once the link is      *)
(* used, and opens a session for it in a transaction of its own                *)

FindUser(r) ==
  /\ request[r].at = "find"
  /\ IF AccountOf(request[r].address) \cap Active = {}
     THEN Done(r)
     ELSE \E u \in AccountOf(request[r].address) \cap Active :
            request' = [request EXCEPT ![r].at = "open", ![r].user = u]
  /\ UNCHANGED <<tables, last, history>>

\* The oldest sessions make room for the new one.
Evicted(user) ==
  {s \in SessionsOf(user) :
     Cardinality({n \in SessionsOf(user) : n >= s}) >= SessionLimit}

RemoveSessions(removed, kept) ==
  /\ Session' = Without(kept, removed)
  /\ DataExportAuthorization' = DataExportAuthorization \ removed

\* Session.userId refers to a row.
OwnerExists(u) == u \in DOMAIN User

createSession(r) ==
  LET s == last.session + 1
      u == request[r].user
  IN
  /\ request[r].at = "open" /\ AccountFree(u)
  /\ IF OwnerExists(u)
     THEN /\ last.session < MaxSessions
          /\ RemoveSessions(Evicted(u), With(Session, s, [user |-> u, recent |-> TRUE]))
          /\ last' = [last EXCEPT !.session = s]
          /\ history' = [history EXCEPT ![request[r].token].uses = @ + 1]
     ELSE UNCHANGED <<Session, DataExportAuthorization, last, history>>
  /\ Done(r)
  /\ UNCHANGED <<User, PolicyAcceptance, VerificationToken>>

-----------------------------------------------------------------------------
(* Time, browsers and crashes *)

Expires(t) ==
  /\ t \in Fresh
  /\ VerificationToken' = [VerificationToken EXCEPT ![t].expired = TRUE]
  /\ UNCHANGED <<User, PolicyAcceptance, Session, DataExportAuthorization,
                 request, last, history>>

\* RECENT_AUTHENTICATION_MS have passed.
Ages(s) ==
  /\ s \in DOMAIN Session /\ Session[s].recent
  /\ Session' = [Session EXCEPT ![s].recent = FALSE]
  /\ UNCHANGED <<User, PolicyAcceptance, VerificationToken, DataExportAuthorization,
                 request, last, history>>

\* The browser signs out, or the session expires.
AwaitingLink == {request[r].session : r \in {q \in Requests : request[q].at = "store"}}

deleteSession(s) ==
  /\ s \in DOMAIN Session
  /\ RemoveSessions({s}, Session)
  /\ last' = [last EXCEPT !.out = @ \cup ({s} \cap AwaitingLink)]
  /\ UNCHANGED <<User, PolicyAcceptance, VerificationToken, request, history>>

Dies(r) ==
  /\ request[r] # Idle
  /\ last.deaths < MaxDeaths
  /\ last' = [last EXCEPT !.deaths = @ + 1]
  /\ Done(r)
  /\ UNCHANGED <<tables, history>>

SharedNext ==
  \/ \E r \in Requests :
       Send(r) \/ Confirm(r) \/ Compensate(r) \/ FindUser(r) \/ createSession(r) \/ Dies(r)
  \/ \E t \in 1 .. MaxTokens : Expires(t)
  \/ \E s \in 1 .. MaxSessions : Ages(s) \/ deleteSession(s)
=============================================================================
