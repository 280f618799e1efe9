----------------------------- MODULE ExportPanel -----------------------------
(***************************************************************************)
(* The panel that requests and downloads the personal data export          *)
(* (data-export-panel.tsx): one page, its two timers and its requests.     *)
(* Both timers run every second, also in the second a request is answered. *)
(***************************************************************************)
EXTENDS Naturals

CONSTANTS
  MaxSeconds,   \* how long the page is watched
  RetryAfters   \* what the server may ask to wait; normalizeRetryAfter bounds it

ASSUME ExportPanelAssumption == MaxSeconds \in Nat /\ RetryAfters \subseteq Nat \ {0}

VARIABLES
  panel,       \* PanelState, or "left" when the browser went to the login page
  exporting,   \* the request that is awaited; inFlightRef is set unless "none"
  expiresAt,   \* when the authorization the page was rendered with expires, or 0
  retryAt, retryAction,   \* until when, and what, the server asked to wait with
  ticked,      \* timers that have run in this second
  second,
  asked        \* for each action, until when the server asked not to repeat it

panelVars == <<panel, exporting, expiresAt, retryAt, retryAction, ticked, second, asked>>

Rendered == expiresAt # 0          \* authorizationState.status === "ready"
SecondsLeft(at) == IF at > second THEN at - second ELSE 0

initialPanelState(notice, expired) ==
  CASE notice \in {"invalid", "rate_limited"} -> notice
    [] notice \notin {"invalid", "rate_limited"} /\ Rendered -> "ready"
    [] notice = "ready" /\ ~Rendered -> "invalid"
    [] OTHER -> IF expired THEN "expired" ELSE "idle"

\* A link that was followed too often leads here too, with how long to wait.
PanelInit ==
  /\ second = 0 /\ exporting = "none" /\ ticked = {}
  /\ asked = [request |-> 0, download |-> 0]
  /\ expiresAt \in 0 .. MaxSeconds
  /\ \E notice \in {"none", "ready", "invalid", "rate_limited"}, expired \in BOOLEAN :
       /\ panel = initialPanelState(notice, expired)
       /\ retryAt \in IF notice = "rate_limited" THEN RetryAfters ELSE {0}
       /\ retryAction = IF notice = "rate_limited" /\ Rendered THEN "confirmation" ELSE "request"

Exporting == panel \in {"requesting", "downloading"}

canDownload ==
  \/ panel \in {"ready", "downloading", "downloaded", "download_error"}
  \/ panel \in {"invalid", "rate_limited"} /\ Rendered

Waits == panel = "rate_limited" /\ SecondsLeft(retryAt) > 0

\* Either button is shown, never both.
downloadEnabled_Early == canDownload /\ ~Exporting
downloadEnabled == canDownload /\ ~Exporting /\ ~(Waits /\ retryAction = "download")
requestEnabled == ~canDownload /\ ~Exporting /\ ~Waits

Start(action, state) ==
  /\ exporting = "none"
  /\ exporting' = action /\ panel' = state
  /\ UNCHANGED <<expiresAt, retryAt, retryAction, ticked, second, asked>>

requestConfirmation == requestEnabled /\ Start("request", "requesting")
download == downloadEnabled /\ Start("download", "downloading")

enterRateLimit(seconds) ==
  /\ panel' = "rate_limited"
  /\ retryAt' = second + seconds /\ retryAction' = exporting
  /\ asked' = [asked EXCEPT ![exporting] = second + seconds]

\* An answer finds the panel in whatever state the timers have put it.
Answered ==
  /\ exporting # "none" /\ panel # "left"
  /\ exporting' = "none"
  /\ \/ \E seconds \in RetryAfters : enterRateLimit(seconds)
     \/ /\ panel' \in {"left"} \cup (IF exporting = "request" THEN {"sent", "request_error"}
                                     ELSE {"downloaded", "expired", "download_error"})
        /\ UNCHANGED <<retryAt, retryAction, asked>>
  /\ UNCHANGED <<expiresAt, ticked, second>>

Runs(timer) == timer \notin ticked /\ panel # "left" /\ ticked' = ticked \cup {timer}

ExpiryTimer ==
  /\ Rendered /\ Runs("expiry")
  /\ panel' = IF SecondsLeft(expiresAt) = 0
                 /\ panel \in {"ready", "downloading", "downloaded", "download_error",
                               "invalid", "rate_limited"}
              THEN "expired" ELSE panel
  /\ UNCHANGED <<exporting, expiresAt, retryAt, retryAction, second, asked>>

RetryTimer ==
  /\ panel = "rate_limited" /\ Runs("retry")
  /\ panel' = IF SecondsLeft(retryAt) > 0 THEN panel
              ELSE IF SecondsLeft(expiresAt) > 0 THEN "ready" ELSE "idle"
  /\ UNCHANGED <<exporting, expiresAt, retryAt, retryAction, second, asked>>

SecondPasses ==
  /\ second < MaxSeconds
  /\ Rendered => "expiry" \in ticked
  /\ panel = "rate_limited" => "retry" \in ticked
  /\ second' = second + 1 /\ ticked' = {}
  /\ UNCHANGED <<panel, exporting, expiresAt, retryAt, retryAction, asked>>

PanelNext ==
  \/ requestConfirmation \/ download \/ Answered
  \/ ExpiryTimer \/ RetryTimer \/ SecondPasses

-----------------------------------------------------------------------------
(* Properties *)

\* What the server asked to wait with is not sent again before its time: a download
\* while the authorization lasts, a request on a page rendered without one, whatever
\* the timers and the other answers did to the panel meanwhile.
PanelWaits ==
  /\ exporting = "download" /\ SecondsLeft(expiresAt) > 0 => asked.download <= second
  /\ exporting = "request" /\ ~Rendered => asked.request <= second

\* What the contract says of every operation (ui-state-machine.md:50: "relevant
\* manual retry disabled until local countdown ends"); on a page whose authorization
\* has expired the code forgets a wait within a second.
RetryDisabled == exporting # "none" => asked[exporting] <= second
=============================================================================
