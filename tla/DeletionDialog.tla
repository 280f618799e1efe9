--------------------------- MODULE DeletionDialog ---------------------------
(***************************************************************************)
(* The page that deletes an account (delete-account-dialog.tsx and the     *)
(* recovery of deletion/schema.ts), against a server that may carry the    *)
(* deletion out although its answer never arrives.                         *)
(*                                                                         *)
(* The page may be reloaded at any moment: its requests then go on without *)
(* it, and only the signal in the session storage survives.  A session     *)
(* that stops authorizing never authorizes again while the page is open.   *)
(***************************************************************************)
EXTENDS FiniteSets

CONSTANTS SessionChecks   \* checks of the session a page may have under way

VARIABLES
  dialog,      \* AccountDeletionUiState; the dialog is open unless "closed"
  place,       \* where the browser is
  asking,      \* the request whose answer permanentlyDelete or
               \* sendReauthentication awaits; inFlightRef is set unless "none"
  post,        \* what the server did with the page's deletion request
  signal,      \* the pending deletion signal in sessionStorage
  checks,      \* recoveries under way: whose they are and what they heard
  armed,       \* the listener for "online" is registered
  account, session,   \* the account exists; the session authorizes
  unanswered,  \* a deletion was requested whose answer never arrived
  straggler    \* ... and the server may still carry it out

server == <<account, session, unanswered, straggler>>
deletionVars == <<dialog, place, asking, post, signal, checks, armed, server>>

NoCheck == [of |-> "none", heard |-> "none"]

DeletionInit ==
  /\ dialog \in {"closed", "reviewing"} /\ place = "page"
  /\ asking = "none" /\ post = "none"
  /\ signal = "none" /\ armed = FALSE
  /\ checks = [c \in SessionChecks |-> NoCheck]
  /\ account = TRUE /\ session = TRUE /\ unanswered = FALSE /\ straggler = FALSE

pending == dialog \in {"sending_reauth", "deleting", "recovering"}

\* setState, with the effect that listens for "online" while recovering.
SetDialog(d) ==
  /\ dialog' = d
  /\ armed' = (d = "recovering" /\ (armed \/ dialog # "recovering"))

OnPage == place = "page"

-----------------------------------------------------------------------------
(* The buttons *)

onOpenChange(nextOpen) ==
  /\ OnPage /\ nextOpen = (dialog = "closed")
  /\ ~nextOpen => ~pending /\ asking = "none"
  /\ SetDialog(IF nextOpen THEN "reviewing" ELSE "closed")
  /\ UNCHANGED <<place, asking, post, signal, checks, server>>

\* Whether the session is recent enough is known since the page was rendered.
Continue ==
  /\ OnPage /\ dialog = "reviewing"
  /\ \E d \in {"final_ready", "reauth_required"} : SetDialog(d)
  /\ UNCHANGED <<place, asking, post, signal, checks, server>>

sendReauthentication ==
  /\ OnPage /\ dialog \in {"reauth_required", "reauth_error"} /\ asking = "none"
  /\ SetDialog("sending_reauth")
  /\ asking' = "link"
  /\ UNCHANGED <<place, post, signal, checks, server>>

LinkAnswered ==
  /\ OnPage /\ asking = "link"
  /\ asking' = "none"
  /\ \/ /\ \E d \in {"reauth_sent", "reauth_error"} : SetDialog(d)
        /\ UNCHANGED place
     \/ /\ ~session
        /\ place' = "login"
        /\ UNCHANGED <<dialog, armed>>
  /\ UNCHANGED <<post, signal, checks, server>>

permanentlyDelete ==
  /\ OnPage /\ dialog \in {"final_ready", "deletion_error"} /\ asking = "none"
  /\ SetDialog("deleting")
  /\ asking' = "csrf"
  /\ UNCHANGED <<place, post, signal, checks, server>>

getCsrfToken ==
  /\ OnPage /\ asking = "csrf"
  /\ \/ /\ SetDialog("deletion_error")
        /\ asking' = "none"
        /\ UNCHANGED <<post, signal>>
     \/ /\ signal' = "valid"
        /\ asking' = "deletion" /\ post' = "sent"
        /\ UNCHANGED <<dialog, armed>>
  /\ UNCHANGED <<place, checks, server>>

-----------------------------------------------------------------------------
(* The server, and its answer *)

\* The deletion ends every session of the account.
DeletesAccount == account' = FALSE /\ session' = FALSE

ServerDecides ==
  /\ post = "sent"
  /\ \/ session /\ DeletesAccount /\ post' = "completed"
     \/ /\ post' \in (IF session THEN {"reauthentication_required", "failed"}
                      ELSE {"unauthenticated"})
        /\ UNCHANGED <<account, session>>
  /\ UNCHANGED <<dialog, place, asking, signal, checks, armed, unanswered, straggler>>

StragglerLands ==
  /\ straggler /\ session /\ DeletesAccount
  /\ straggler' = FALSE
  /\ UNCHANGED <<dialog, place, asking, post, signal, checks, armed, unanswered>>

DeletionAnswered ==
  /\ OnPage /\ asking = "deletion" /\ post # "sent"
  /\ asking' = "none" /\ signal' = "none" /\ post' = "none"
  /\ CASE post \in {"completed", "unauthenticated"} ->
            /\ place' = IF post = "completed" THEN "completed" ELSE "login"
            /\ UNCHANGED <<dialog, armed>>
       [] post = "reauthentication_required" ->
            SetDialog("reauth_required") /\ UNCHANGED place
       [] OTHER -> SetDialog("deletion_error") /\ UNCHANGED place
  /\ UNCHANGED <<checks, server>>

\* A request whose answer is lost may not have reached the server yet.
Forsaken ==
  /\ unanswered' = (unanswered \/ asking = "deletion")
  /\ straggler' = (straggler \/ post = "sent")
  /\ asking' = "none" /\ post' = "none"

AnswerLost ==
  /\ OnPage /\ asking = "deletion"
  /\ Forsaken
  /\ SetDialog("recovering")
  /\ UNCHANGED <<place, signal, checks, account, session>>

-----------------------------------------------------------------------------
(* recoveries *)

\* The first half of recoverPendingDeletion, up to checkSession.
recoverPendingDeletion(c, of) ==
  /\ signal' = IF signal = "valid" THEN "valid" ELSE "none"
  /\ checks' = [checks EXCEPT ![c] =
       IF signal = "valid" THEN [of |-> of, heard |-> "nothing"] ELSE NoCheck]

recover(c) ==
  /\ OnPage /\ armed /\ checks[c] = NoCheck
  /\ armed' = FALSE
  /\ recoverPendingDeletion(c, "online")
  /\ UNCHANGED <<dialog, place, asking, post, server>>

checkSession_IgnoringStatus(authorizes) == {IF authorizes THEN "retry" ELSE "completed", "completed"}
checkSession(authorizes) == {IF authorizes THEN "retry" ELSE "completed", "pending"}

SessionAnswers(c) ==
  /\ checks[c].heard = "nothing"
  /\ \E status \in checkSession(session) : checks' = [checks EXCEPT ![c].heard = status]
  /\ UNCHANGED <<dialog, place, asking, post, signal, armed, server>>

\* What the page does with it, whatever it has been doing meanwhile.
Recovered(c) ==
  LET status == checks[c].heard IN
  /\ OnPage /\ status \in {"retry", "completed", "pending"}
  /\ checks' = [checks EXCEPT ![c] = NoCheck]
  /\ signal' = IF status = "pending" THEN signal ELSE "none"
  /\ \/ status = "completed" /\ place' = "completed" /\ UNCHANGED <<dialog, armed>>
     \/ status = "retry" /\ SetDialog("deletion_error") /\ UNCHANGED place
     \/ /\ status = "pending" /\ UNCHANGED place
        /\ IF checks[c].of = "mount" THEN SetDialog("recovering")
           ELSE UNCHANGED <<dialog, armed>>
  /\ UNCHANGED <<asking, post, server>>

\* The page starts anew; the server has what was sent.
Reload(c) ==
  /\ OnPage
  /\ dialog' \in {"closed", "reviewing"} /\ armed' = FALSE
  /\ Forsaken
  /\ signal' = IF signal = "valid" THEN "valid" ELSE "none"
  /\ checks' = [d \in SessionChecks |->
       IF d = c /\ signal = "valid" THEN [of |-> "mount", heard |-> "nothing"] ELSE NoCheck]
  /\ UNCHANGED <<place, account, session>>

\* createPendingDeletionSignal gives the signal ten minutes.
SignalLapses ==
  /\ signal = "valid" /\ signal' = "lapsed"
  /\ UNCHANGED <<dialog, place, asking, post, checks, armed, server>>

\* The session is revoked elsewhere, or expires.
SessionEnds ==
  /\ session /\ session' = FALSE
  /\ UNCHANGED <<dialog, place, asking, post, signal, checks, armed, account, unanswered, straggler>>

DeletionNext ==
  \/ \E nextOpen \in BOOLEAN : onOpenChange(nextOpen)
  \/ Continue \/ sendReauthentication \/ LinkAnswered
  \/ permanentlyDelete \/ getCsrfToken
  \/ ServerDecides \/ StragglerLands \/ DeletionAnswered \/ AnswerLost
  \/ \E c \in SessionChecks : recover(c) \/ SessionAnswers(c) \/ Recovered(c) \/ Reload(c)
  \/ SignalLapses \/ SessionEnds

-----------------------------------------------------------------------------
(* Properties *)

\* The browser is taken to the page that says the account is gone only when its
\* session no longer authorizes; and when the dialog says that the deletion failed
\* although the account is gone, some request never got its answer.
DeletionTold ==
  /\ place = "completed" => ~session
  /\ dialog = "deletion_error" /\ asking = "none" /\ ~account => unanswered

\* What the specification says of a recovery that finds the session authorized
\* (spec.md:106: "presents a generic retryable error with the account unchanged"),
\* which the code does not keep when the request lands after the check.
ErrorMeansUnchanged == dialog = "deletion_error" /\ asking = "none" => account
=============================================================================
