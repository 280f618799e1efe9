---------------------------- MODULE AccountLinks ----------------------------
(***************************************************************************)
(* The account page: links that prove a signed-in account still reads its  *)
(* mail (account/security, account/deletion, account/data-export), the     *)
(* sessions it may revoke and its deletion.                                *)
(*                                                                         *)
(* A request is admitted for a session, works for a while, and looks at    *)
(* that session again under the locks of its account before it writes.     *)
(* Transactions that remove sessions need only the look: one that signs    *)
(* out after it could as well have signed out after the removal.           *)
(***************************************************************************)
EXTENDS SignIn

AddressOf(s) == User[Session[s].user].address
ForSession(s) ==
  [Idle EXCEPT !.session = s, !.user = Session[s].user, !.address = AddressOf(s)]

\* resolveActiveAccountSession
Admit(r, s, asked) ==
  /\ s \in DOMAIN Session
  /\ Starts(r, asked)
  /\ UNCHANGED <<tables, last, history>>

\* Under the locks: the same session of the same account.
StillSignedIn(r) ==
  /\ request[r].session \in DOMAIN Session
  /\ Session[request[r].session].user = request[r].user

-----------------------------------------------------------------------------
(* Asking for a link *)

AskFor(r, s, purpose) ==
  Admit(r, s, [ForSession(s) EXCEPT !.at = "issue", !.purpose = purpose])

reauthenticateForSecurity(r, s) == AskFor(r, s, "ACCOUNT_SECURITY")
reauthenticateForDeletion(r, s) == AskFor(r, s, "ACCOUNT_DELETION")
requestExport(r, s) == AskFor(r, s, "ACCOUNT_DATA_EXPORT")

\* An export link leaves the earlier ones alone until it is delivered.
Replaced(r) ==
  IF request[r].purpose = "ACCOUNT_DATA_EXPORT"
  THEN {}
  ELSE Links(request[r].purpose, request[r].address)

\* A transaction of two statements: the session is read under the locks, which are
\* held on, and the link is inserted; the session may sign out in between.
LooksAtSession(r, purpose) ==
  /\ request[r].at = "issue" /\ request[r].purpose = purpose
  /\ AddressFree(request[r].address)
  /\ IF StillSignedIn(r) THEN Goto(r, "store") ELSE Done(r)
  /\ UNCHANGED <<tables, last, history>>

StoreLink(r, purpose) ==
  /\ request[r].at = "store" /\ request[r].purpose = purpose
  /\ Store(r, request[r], User, Replaced(r))
  /\ UNCHANGED <<PolicyAcceptance, Session, DataExportAuthorization>>

Issue(r, purpose) == LooksAtSession(r, purpose) \/ StoreLink(r, purpose)

issueAccountSecurityReauthentication(r) == Issue(r, "ACCOUNT_SECURITY")
issueAccountDeletionReauthentication(r) == Issue(r, "ACCOUNT_DELETION")
issuePersonalDataExport(r) == Issue(r, "ACCOUNT_DATA_EXPORT")

-----------------------------------------------------------------------------
(* Following it *)

\* First read without a lock, which only tells the address.
Follow(r, s, t, purpose) ==
  /\ t \in Arrived
  /\ VerificationToken[t].purpose = purpose
  /\ Admit(r, s, [Idle EXCEPT !.at = "verify", !.purpose = purpose,
                              !.token = t, !.session = s,
                              !.address = VerificationToken[t].address])

followSecurityLink(r, s, t) == Follow(r, s, t, "ACCOUNT_SECURITY")
followExportLink(r, s, t) == Follow(r, s, t, "ACCOUNT_DATA_EXPORT")

\* Read again under the locks, with the session of the browser that follows it.
Usable(r) ==
  LET t == request[r].token IN
  /\ t \in Fresh
  /\ VerificationToken[t].delivered
  /\ request[r].session \in DOMAIN Session
  /\ Session[request[r].session].user \in AccountOf(VerificationToken[t].address) \cap Active

\* The link is used up, and makes what `granted` says.
Verify(r, purpose, granted) ==
  LET t == request[r].token IN
  /\ request[r].at = "verify" /\ request[r].purpose = purpose
  /\ AddressFree(request[r].address)
  /\ IF Usable(r)
     THEN /\ VerificationToken' = Without(VerificationToken, {t})
          /\ history' = [history EXCEPT ![t].uses = @ + 1]
          /\ granted
     ELSE UNCHANGED <<VerificationToken, Session, DataExportAuthorization, history>>
  /\ Done(r)
  /\ UNCHANGED <<User, PolicyAcceptance, last>>

verifyAccountSecurityReauthentication(r) ==
  Verify(r, "ACCOUNT_SECURITY",
         /\ Session' = [Session EXCEPT ![request[r].session].recent = TRUE]
         /\ UNCHANGED DataExportAuthorization)

verifyPersonalDataExport(r) ==
  Verify(r, "ACCOUNT_DATA_EXPORT",
         /\ DataExportAuthorization' = DataExportAuthorization \cup {request[r].session}
         /\ UNCHANGED Session)

\* A deletion link signs in afresh: the browser has no session, or one of the account.
Confirmed(t) ==
  /\ t \in Fresh
  /\ VerificationToken[t].purpose = "ACCOUNT_DELETION"
  /\ VerificationToken[t].delivered
  /\ AccountOf(VerificationToken[t].address) \cap Active # {}

preflightAccountDeletionVerification(r, t) ==
  /\ t \in Arrived /\ Confirmed(t)
  /\ Starts(r, [Idle EXCEPT !.at = "consume", !.purpose = "ACCOUNT_DELETION", !.token = t,
                            !.address = VerificationToken[t].address])
  /\ UNCHANGED <<tables, last, history>>

ConsumeDeletionLink(r) ==
  LET t == request[r].token IN
  /\ request[r].at = "consume" /\ request[r].purpose = "ACCOUNT_DELETION"
  /\ AddressFree(request[r].address)
  /\ IF Confirmed(t)
     THEN VerificationToken' = Without(VerificationToken, {t}) /\ Goto(r, "find")
     ELSE Done(r) /\ UNCHANGED VerificationToken
  /\ UNCHANGED <<User, PolicyAcceptance, Session, DataExportAuthorization, last, history>>

-----------------------------------------------------------------------------
(* Revoking sessions, deleting the account: recent authentication only *)

revokeSessions(r, s) == Admit(r, s, [ForSession(s) EXCEPT !.at = "revoke"])

Revocable(r) ==
  LET others == SessionsOf(request[r].user) \ {request[r].session}
  IN {others} \cup {{s} : s \in others}

Revoke(r) ==
  /\ request[r].at = "revoke" /\ AccountFree(request[r].user)
  /\ IF StillSignedIn(r) /\ Session[request[r].session].recent
     THEN \E revoked \in Revocable(r) : RemoveSessions(revoked, Session)
     ELSE UNCHANGED <<Session, DataExportAuthorization>>
  /\ Done(r)
  /\ UNCHANGED <<User, PolicyAcceptance, VerificationToken, last, history>>

resolveAccountDeletionSession(r, s) ==
  /\ s \in DOMAIN Session /\ Session[s].recent
  /\ Admit(r, s, [ForSession(s) EXCEPT !.at = "delete"])

\* All links of the address, whatever their purpose; the rest goes with the row.  The
\* row of RateLimitBucket that goes as well is MailGate's.
LinksOfAddress_Deletion(a) == Links("ACCOUNT_DELETION", a)
LinksOfAddress(a) == UNION {Links(p, a) : p \in Purposes}

deleteCurrentAccount(r) ==
  LET u == request[r].user IN
  /\ request[r].at = "delete" /\ AddressFree(request[r].address)
  /\ IF StillSignedIn(r) /\ Session[request[r].session].recent
     THEN /\ User' = Without(User, {u})
          /\ PolicyAcceptance' = PolicyAcceptance \ {u}
          /\ VerificationToken' =
               Without(VerificationToken, LinksOfAddress(request[r].address))
          /\ RemoveSessions(SessionsOf(u), Session)
     ELSE UNCHANGED tables
  /\ Done(r)
  /\ UNCHANGED <<last, history>>

AccountNext ==
  \E r \in Requests :
    \/ \E s \in 1 .. MaxSessions :
         \/ reauthenticateForSecurity(r, s) \/ reauthenticateForDeletion(r, s)
         \/ requestExport(r, s)
         \/ \E t \in 1 .. MaxTokens : followSecurityLink(r, s, t) \/ followExportLink(r, s, t)
         \/ revokeSessions(r, s) \/ resolveAccountDeletionSession(r, s)
    \/ \E t \in 1 .. MaxTokens : preflightAccountDeletionVerification(r, t)
    \/ issueAccountSecurityReauthentication(r) \/ issueAccountDeletionReauthentication(r)
    \/ issuePersonalDataExport(r)
    \/ verifyAccountSecurityReauthentication(r) \/ verifyPersonalDataExport(r)
    \/ ConsumeDeletionLink(r)
    \/ Revoke(r) \/ deleteCurrentAccount(r)

Next == SharedNext \/ SignInNext \/ AccountNext

Spec == Init /\ [][Next]_vars

-----------------------------------------------------------------------------
(* Properties *)

\* A challenge or a link is good for one session, one fresh authentication or one
\* export, whether it is answered by link or by code and by how many requests at
\* once; an address has one link of each kind, the newest, but of its export links
\* one delivered beside those on their way.
OneLinkOneUse ==
  /\ \A t \in 1 .. last.token : history[t].uses <= 1
  /\ \A t \in DOMAIN VerificationToken :
       LET row == VerificationToken[t] IN
       \A o \in Links(row.purpose, row.address) \ {t} :
         /\ row.purpose = "ACCOUNT_DATA_EXPORT"
         /\ ~(row.delivered /\ VerificationToken[o].delivered)

\* The budget of guesses holds up to the other requests whose guess has been
\* compared but not yet charged, and those that died in between.
GuessesNearlyBounded ==
  \A t \in 1 .. last.token :
    history[t].guesses < AttemptBudget + Cardinality(Requests) + last.deaths

\* A link, a session or an authorization never outlives its account, also when
\* the address has a new one, and however late a request writes it; only accounts
\* that accepted the policies have sessions, up to the limit.
NothingOutlivesAccount ==
  /\ \A t \in DOMAIN VerificationToken :
       VerificationToken[t].sentTo \in AccountOf(VerificationToken[t].address)
  /\ \A s \in DOMAIN Session : Session[s].user \in Active \cap PolicyAcceptance
  /\ \A u \in DOMAIN User : Cardinality(SessionsOf(u)) <= SessionLimit
  /\ DataExportAuthorization \subseteq DOMAIN Session

\* No security link and no export link is stored for a session that another device
\* revoked, that a new one made room for or that went with its account, however late
\* that came: only signing out and expiry, which take no lock, come between the look
\* at the session and the link.  (A deletion link takes too few locks to promise it.)
NoLinkOnceRevoked ==
  [][\A r \in Requests :
       /\ request[r].at = "store" /\ request'[r].at = "send"
       /\ request[r].purpose # "ACCOUNT_DELETION"
       => request[r].session \in DOMAIN Session \cup last.out]_vars

\* What the specification says of codes (20260831-login-access-code/spec.md:274: "No
\* challenge can ever be probed with more than 5 code guesses"): one request reads
\* and compares while another has not yet charged its guess.
FiveGuesses == \A t \in 1 .. last.token : history[t].guesses <= AttemptBudget

\* What it says of exports (20260823-personal-data-export/spec.md:127, FR-009): the
\* newest delivered link is the one that is kept; a late confirmation wins instead.
DeliveredExports(table) ==
  {t \in DOMAIN table : table[t].purpose = "ACCOUNT_DATA_EXPORT" /\ table[t].delivered}
NewerExportKept ==
  [][\A t \in DeliveredExports(VerificationToken), n \in DOMAIN VerificationToken' :
       t \notin DeliveredExports(VerificationToken') /\ n \in DeliveredExports(VerificationToken')
         => n > t]_vars
=============================================================================
