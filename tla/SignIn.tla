------------------------------- MODULE SignIn -------------------------------
(***************************************************************************)
(* Signing in and signing up: app/api/auth (Auth.js with the adapter of    *)
(* lib/auth-adapter.ts), login/service.ts and signup/service.ts.           *)
(*                                                                         *)
(* A login challenge can be answered by its link or by its code, by any    *)
(* number of requests at once.                                             *)
(***************************************************************************)
EXTENDS Accounts

Starts(r, fields) ==
  /\ request[r] = Idle
  /\ request' = [request EXCEPT ![r] = fields]

-----------------------------------------------------------------------------
(* Asking for a challenge *)

\* An address without an active account gets the same answer and no challenge.
findExistingLoginEmail(r, a) ==
  /\ AccountOf(a) \cap Active # {}
  /\ Starts(r, [Idle EXCEPT !.at = "issue", !.address = a])
  /\ UNCHANGED <<tables, last, history>>

\* The message is sent once the challenge is stored and published; a transaction
\* that throws publishes nothing.
createVerificationToken(r) ==
  /\ request[r].at = "issue" /\ request[r].purpose = "LOGIN"
  /\ AddressFree(request[r].address)
  /\ IF AccountOf(request[r].address) \cap Active = {}
     THEN Done(r) /\ UNCHANGED <<User, VerificationToken, last, history>>
     ELSE Store(r, request[r], User, Links("LOGIN", request[r].address))
  /\ UNCHANGED <<PolicyAcceptance, Session, DataExportAuthorization>>

-----------------------------------------------------------------------------
(* Answering it with the code *)

\* The stored code is read and compared; a right guess goes on to redeem it, a
\* wrong one is charged in a transaction of its own.
findLoginChallengeCodeHash(r, a) ==
  \E t \in Links("LOGIN", a) \cap Fresh :
    /\ \/ /\ t \in Arrived
          /\ Starts(r, [Idle EXCEPT !.at = "consume", !.token = t, !.address = a])
          /\ UNCHANGED history
       \/ /\ Starts(r, [Idle EXCEPT !.at = "charge", !.token = t, !.address = a])
          /\ history' = [history EXCEPT ![t].guesses = @ + 1]
    /\ UNCHANGED <<tables, last>>

\* Charged to whatever challenge the address has by now; the last of the budget
\* discards it.
Spent_LastCounted(attempts) == attempts > AttemptBudget
Spent(attempts) == attempts >= AttemptBudget

registerFailedLoginCodeAttempt(r) ==
  LET charged == Links("LOGIN", request[r].address) IN
  /\ request[r].at = "charge"
  /\ IF \E t \in charged : Spent(VerificationToken[t].attempts + 1)
     THEN VerificationToken' = Without(VerificationToken, charged)
     ELSE VerificationToken' =
            [t \in DOMAIN VerificationToken |->
               IF t \in charged
               THEN [VerificationToken[t] EXCEPT !.attempts = @ + 1]
               ELSE VerificationToken[t]]
  /\ Done(r)
  /\ UNCHANGED <<User, PolicyAcceptance, Session, DataExportAuthorization, last, history>>

\* One DELETE that returns the row it deleted.
RedeemCode(r) ==
  LET t == request[r].token IN
  /\ request[r].at = "consume" /\ request[r].purpose = "LOGIN"
  /\ IF t \in Fresh
     THEN /\ VerificationToken' = Without(VerificationToken, {t})
          /\ Goto(r, "find")
     ELSE Done(r) /\ UNCHANGED VerificationToken
  /\ UNCHANGED <<User, PolicyAcceptance, Session, DataExportAuthorization, last, history>>

-----------------------------------------------------------------------------
(* Answering it with the link *)

\* The same, but Auth.js looks at the expiry of what was deleted.
Redeemed_Kept(t) == {}
Redeemed(t) == {t}

RedeemLink(r) ==
  \E t \in Arrived :
    /\ VerificationToken[t].purpose = "LOGIN"
    /\ VerificationToken' = Without(VerificationToken, Redeemed(t))
    /\ IF t \notin Fresh
       THEN request[r] = Idle /\ UNCHANGED request
       ELSE Starts(r, [Idle EXCEPT !.at = "find", !.token = t,
                                   !.address = VerificationToken[t].address])
    /\ UNCHANGED <<User, PolicyAcceptance, Session, DataExportAuthorization, last, history>>

-----------------------------------------------------------------------------
(* Signing up *)

\* The account, unless there is one, and its only link, in one transaction; an
\* active account is told so by mail, which changes nothing.
processSignup(r, a) ==
  /\ request[r] = Idle /\ AddressFree(a)
  /\ AccountOf(a) \cap Active = {}
  /\ AccountOf(a) = {} => last.user < MaxUsers
  /\ Store(r, [Idle EXCEPT !.purpose = "SIGNUP", !.address = a],
           IF AccountOf(a) = {}
           THEN With(User, last.user + 1, [address |-> a, status |-> "PENDING"])
           ELSE User,
           Links("SIGNUP", a))
  /\ UNCHANGED <<PolicyAcceptance, Session, DataExportAuthorization>>

\* A browser signed in to another account is turned away.
Activatable(t) ==
  /\ t \in Fresh
  /\ VerificationToken[t].purpose = "SIGNUP"
  /\ VerificationToken[t].delivered
  /\ AccountOf(VerificationToken[t].address) \ Active # {}

preflightSignupActivation(r) ==
  \E t \in Arrived :
    /\ Activatable(t)
    /\ Starts(r, [Idle EXCEPT !.at = "consume", !.purpose = "SIGNUP", !.token = t,
                              !.address = VerificationToken[t].address])
    /\ UNCHANGED <<tables, last, history>>

Activate(r) ==
  LET t == request[r].token
      a == request[r].address
  IN
  /\ request[r].at = "consume" /\ request[r].purpose = "SIGNUP" /\ AddressFree(a)
  /\ IF Activatable(t)
     THEN \E u \in AccountOf(a) :
            /\ User' = [User EXCEPT ![u].status = "ACTIVE"]
            /\ PolicyAcceptance' = PolicyAcceptance \cup {u}
            /\ VerificationToken' = Without(VerificationToken, Links("SIGNUP", a))
            /\ Goto(r, "find")
     ELSE Done(r) /\ UNCHANGED <<User, PolicyAcceptance, VerificationToken>>
  /\ UNCHANGED <<Session, DataExportAuthorization, last, history>>

SignInNext ==
  \E r \in Requests :
    \/ \E a \in Addresses :
         \/ findExistingLoginEmail(r, a) \/ findLoginChallengeCodeHash(r, a)
         \/ processSignup(r, a)
    \/ createVerificationToken(r) \/ registerFailedLoginCodeAttempt(r)
    \/ RedeemCode(r) \/ RedeemLink(r)
    \/ preflightSignupActivation(r) \/ Activate(r)
=============================================================================
