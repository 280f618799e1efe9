----------------------------- MODULE MCServices -----------------------------
(***************************************************************************)
(* Instances for TLC of the parts that stand alone: the Holded client, the *)
(* settings of the integrations, the retention of bank data, the gate of   *)
(* an account's mails, the pages of an account and its download.  They     *)
(* meet the others in answers any of which these may give, so a behaviour  *)
(* is one of one part, while the others stay as they began.                *)
(***************************************************************************)
EXTENDS HoldedClient, Settings, Retention, MailGate, DeletionDialog,
        SessionDialog, ExportPanel, DataExport, TLC

VARIABLE part   \* the part that moves

\* The bank has one movement, of one of the accounts.
OneMovement == {<<"checking", 0>>}

Limits == [client |-> 1, address |-> 1]

Symmetry == Permutations(Readers) \cup Permutations(Mailers)

\* A part that does not move begins in one way.
Init ==
  /\ part \in {"client", "settings", "retention", "mail", "deletion", "session",
               "export", "download"}
  /\ HoldedInit /\ SettingsInit /\ RetentionInit
  /\ GateInit /\ DeletionInit /\ SheetInit /\ PanelInit /\ ExportInit
  /\ part # "settings" => \A p \in Providers : row[p].valid
  /\ part # "deletion" => dialog = "closed"
  /\ part # "export" => expiresAt = 0 /\ panel = "idle"
  /\ part # "download" => grantedUntil = 1 /\ owner = CHOOSE name \in Names : TRUE

backstage == <<hvars, settingsVars, retentionVars>>
pages == <<deletionVars, sheetVars, panelVars, exportVars>>

Services ==
  \/ part = "client" /\ HoldedNext /\ UNCHANGED <<settingsVars, retentionVars>>
  \/ part = "settings" /\ SettingsNext /\ UNCHANGED <<hvars, retentionVars>>
  \/ part = "retention" /\ RetentionNext /\ UNCHANGED <<hvars, settingsVars>>

Pages ==
  \/ part = "deletion" /\ DeletionNext /\ UNCHANGED <<sheetVars, panelVars, exportVars>>
  \/ part = "session" /\ SheetNext /\ UNCHANGED <<deletionVars, panelVars, exportVars>>
  \/ part = "export" /\ PanelNext /\ UNCHANGED <<deletionVars, sheetVars, exportVars>>
  \/ part = "download" /\ ExportNext /\ UNCHANGED <<deletionVars, sheetVars, panelVars>>

Next ==
  /\ \/ Services /\ UNCHANGED <<gateVars, pages>>
     \/ part = "mail" /\ GateNext /\ UNCHANGED <<backstage, pages>>
     \/ Pages /\ UNCHANGED <<backstage, gateVars>>
  /\ UNCHANGED part

vars == <<part, backstage, gateVars, pages>>

Spec == Init /\ [][Next]_vars
=============================================================================
