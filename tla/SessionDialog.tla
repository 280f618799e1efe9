---------------------------- MODULE SessionDialog ----------------------------
(***************************************************************************)
(* The dialog that ends a session of the account, or all the others        *)
(* (security-session-dialog.tsx), on the page that lists the sessions.     *)
(* The page is loaded when the router gets to it: router.refresh and       *)
(* router.push return before it is.                                        *)
(***************************************************************************)
EXTENDS Naturals

VARIABLES
  sheet,      \* DialogState
  awaits,     \* what revokeSession or sendReauthentication awaits; inFlightRef
  revocation, \* what the server did with the request
  target,     \* the session to end exists
  viewer,     \* the session of the browser authorizes
  listed,     \* the page shows the session
  loading,    \* the router is getting: "nothing", "list" or "login"
  endedBy     \* how the dialog was left the last time

sheetVars == <<sheet, awaits, revocation, target, viewer, listed, loading, endedBy>>

SheetInit ==
  /\ sheet = "closed" /\ awaits = "none" /\ revocation = "none"
  /\ target = TRUE /\ viewer = TRUE /\ listed = TRUE
  /\ loading = "nothing" /\ endedBy = "nobody"

Busy == sheet \in {"revoking", "refreshing", "sending_reauthentication", "recovering"}

showRevocationAction == sheet \in {"reviewing", "revocation_error"}

showReauthenticationAction ==
  sheet \in {"reauthentication_required", "reauthentication_rate_limited",
             "reauthentication_error"}

\* The trigger is in the row of the session, which goes with it.
setOpen(nextOpen) ==
  /\ nextOpen = (sheet = "closed")
  /\ IF nextOpen THEN listed /\ loading # "login" ELSE ~Busy /\ awaits = "none"
  /\ sheet' = IF nextOpen THEN "reviewing" ELSE "closed"
  /\ endedBy' = IF nextOpen THEN "nobody" ELSE "user"
  /\ UNCHANGED <<awaits, revocation, target, viewer, listed, loading>>

revokeSession ==
  /\ showRevocationAction /\ awaits = "none"
  /\ sheet' = "revoking" /\ awaits' = "csrf"
  /\ UNCHANGED <<revocation, target, viewer, listed, loading, endedBy>>

RequestRevocation ==
  /\ awaits = "csrf"
  /\ awaits' = "revocation" /\ revocation' = "sent"
  /\ UNCHANGED <<sheet, target, viewer, listed, loading, endedBy>>

\* A session that is already gone counts as ended.
ServerRevokes ==
  /\ revocation = "sent"
  /\ \/ /\ viewer
        /\ target' = FALSE /\ revocation' = "completed"
     \/ /\ revocation' \in (IF viewer THEN {"reauthentication_required", "revocation_failed"}
                            ELSE {"unauthenticated"})
        /\ UNCHANGED target
  /\ UNCHANGED <<sheet, awaits, viewer, listed, loading, endedBy>>

\* An answer that cannot be read is a failure, whatever the server has done.
defaultRevocationClient_Optimistic == {revocation, "completed"}
defaultRevocationClient == {revocation, "revocation_failed"}

RevocationAnswered ==
  /\ awaits = "revocation" /\ revocation # "sent"
  /\ awaits' = "none" /\ revocation' = "none"
  /\ \E answer \in defaultRevocationClient :
       \/ /\ answer = "unauthenticated"
          /\ loading' = "login"
          /\ UNCHANGED <<sheet, endedBy>>
       \/ /\ answer # "unauthenticated"
          /\ loading' = IF loading = "login" THEN "login" ELSE "list"
          /\ sheet' = CASE answer = "completed" -> "closed"
                        [] answer = "reauthentication_required" -> answer
                        [] OTHER -> "revocation_error"
          /\ endedBy' = IF answer = "completed" THEN "completion" ELSE endedBy
  /\ UNCHANGED <<target, viewer, listed>>

\* The page is loaded anew, with the notice that something was recovered.
RevocationLost ==
  /\ awaits \in {"csrf", "revocation"}
  /\ awaits' = "none" /\ sheet' = "closed"
  /\ endedBy' = "recovery" /\ loading' = "list"
  /\ UNCHANGED <<revocation, target, viewer, listed>>

sendReauthenticationLink ==
  /\ showReauthenticationAction /\ awaits = "none"
  /\ sheet' = "sending_reauthentication" /\ awaits' = "link"
  /\ UNCHANGED <<revocation, target, viewer, listed, loading, endedBy>>

ReauthenticationAnswered ==
  /\ awaits = "link"
  /\ awaits' = "none"
  /\ \/ /\ sheet' \in {"reauthentication_sent", "reauthentication_rate_limited",
                       "reauthentication_error"}
        /\ UNCHANGED loading
     \/ ~viewer /\ loading' = "login" /\ UNCHANGED sheet
  /\ UNCHANGED <<revocation, target, viewer, listed, endedBy>>

\* The server renders the list of a session that authorizes.
PageLoaded ==
  /\ loading = "list"
  /\ loading' = IF viewer THEN "nothing" ELSE "login"
  /\ listed' = IF viewer THEN target ELSE listed
  /\ UNCHANGED <<sheet, awaits, revocation, target, viewer, endedBy>>

\* Either session ends elsewhere.
EndsElsewhere ==
  /\ \/ target /\ target' = FALSE /\ UNCHANGED viewer
     \/ viewer /\ viewer' = FALSE /\ UNCHANGED target
  /\ UNCHANGED <<sheet, awaits, revocation, listed, loading, endedBy>>

SheetNext ==
  \/ \E nextOpen \in BOOLEAN : setOpen(nextOpen)
  \/ revokeSession \/ RequestRevocation \/ ServerRevokes \/ RevocationAnswered
  \/ RevocationLost \/ sendReauthenticationLink \/ ReauthenticationAnswered
  \/ PageLoaded \/ EndsElsewhere

-----------------------------------------------------------------------------
(* Properties *)

\* A dialog that closes itself as done leaves a session that has ended and a list
\* without it, or one that is being loaded again.
ClosedMeansRevoked ==
  endedBy = "completion" => ~target /\ (listed => loading # "nothing")
=============================================================================
