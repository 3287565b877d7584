----------------------------- MODULE AlertWizard -----------------------------
(***************************************************************************)
(* The bot handlers that manage a user's alerts (bot/commands.py,          *)
(* bot/callbacks.py) over the statements of UserAlerts.                    *)
(*                                                                         *)
(* Updates are handled one at a time (the Application is built without     *)
(* concurrent_updates), so a handler is one action; a database or Telegram *)
(* error half-way is one of its outcomes.  Buttons never expire: the chat  *)
(* may hold any number of older wizards, cards and choosers, all of which  *)
(* share one user_data, so every button of every step can be tapped at any *)
(* time, twice and for positions that are gone.  What only shows messages  *)
(* (/mysubs, /unsubscribe, "Remove all", Cancel) is therefore no action.   *)
(***************************************************************************)
EXTENDS UserAlerts

CONSTANTS
  AlertLimit,   \* the limit of cmd_subscribe (5)
  MaxFaults,    \* bound on database and Telegram errors and on restarts
  Nobody        \* no alert

ASSUME WizardAssumption ==
  /\ AlertLimit \in Nat /\ MaxFaults \in Nat /\ Nobody \notin AlertIds

VARIABLES
  draft,     \* user_data sub_*: a missing key reads as empty
  edit,      \* user_data edit_position, 0 when it is missing
  owner,     \* the alert whose Edit button filled the draft (history)
  faults

wizard == <<draft, edit, owner>>
wizardVars == <<alerts, wizard, faults>>

WizardInit ==
  /\ AlertsInit
  /\ draft = NoFilter /\ edit = 0 /\ owner = Nobody /\ faults = 0

Fault == faults < MaxFaults /\ faults' = faults + 1

(* What a handler stored stays when the keyboard it shows last fails.      *)
Choose(s, c) == draft' = [draft EXCEPT !.chosen[s] = c]

-----------------------------------------------------------------------------
(* Commands                                                                *)

(* /start subscribe: without the limit.                                    *)
CmdStart ==
  /\ Choose("topics", {})
  /\ UNCHANGED <<alerts, edit, owner, faults>>

(* The limit is skipped when the alerts cannot be read; what an abandoned  *)
(* edit left in user_data, edit_position included, stays.                  *)
CmdSubscribe ==
  /\ (Cardinality(Stored) < AlertLimit /\ UNCHANGED faults) \/ Fault
  /\ Choose("topics", {})
  /\ UNCHANGED <<alerts, edit, owner>>

-----------------------------------------------------------------------------
(* The wizard                                                              *)

(* "general" excludes the other topics.                                    *)
ToggleTopic(S, t) ==
  IF t \in S THEN S \ {t} ELSE IF t = General THEN {t} ELSE (S \ {General}) \cup {t}
Toggle(S, v) == IF v \in S THEN S \ {v} ELSE S \cup {v}

HandleSubTopic(t) ==
  /\ Choose("topics", ToggleTopic(draft.chosen["topics"], t))
  /\ UNCHANGED <<alerts, edit, owner, faults>>

(* handle_sub_seniority, _location and _source                             *)
HandleSubOption(s, v) ==
  /\ Choose(s, Toggle(draft.chosen[s], v))
  /\ UNCHANGED <<alerts, edit, owner, faults>>

(* Done moves on and forgets what was chosen for the step that comes.      *)
MoveOn(next) ==
  /\ Choose(next, {})
  /\ UNCHANGED <<alerts, edit, owner, faults>>

HandleSubDone == draft.chosen["topics"] # {} /\ MoveOn("seniority")
HandleSubSeniorityDone == MoveOn("locations")
HandleSubLocationDone == MoveOn("sources")

(* The last step.  edit_position is popped before the write and the sub_*  *)
(* keys after the confirmation, so an error in between keeps the draft.    *)
Write == IF edit # 0 THEN UpdateUserAlert(edit, draft)
         ELSE \E i \in AlertIds : CreateUserAlert(i, draft)

SourceDonePopsLast ==   \* mutant: edit_position is cleaned up with the draft
  /\ \/ Write /\ draft' = NoFilter /\ edit' = 0 /\ owner' = Nobody /\ UNCHANGED faults
     \/ Write /\ Fault /\ UNCHANGED wizard
     \/ Fault /\ UNCHANGED <<alerts, wizard>>

HandleSubSourceDone ==
  /\ \/ Write /\ draft' = NoFilter /\ UNCHANGED faults
     \/ Write /\ Fault /\ UNCHANGED draft          \* confirmation not shown
     \/ Fault /\ UNCHANGED <<alerts, draft>>       \* not written
  /\ edit' = 0 /\ owner' = Nobody

-----------------------------------------------------------------------------
(* Cards and choosers                                                      *)

Delete(p) ==
  /\ DeleteUserAlert(p) \/ (RepackCanFail(p) /\ UNCHANGED alerts)
  /\ UNCHANGED <<wizard, faults>>

HandleDel(p) == Delete(p)
HandleUnsub(p) == Delete(p)

HandleUnsubAllConfirm ==
  /\ DeleteAllUserAlerts
  /\ UNCHANGED <<wizard, faults>>

HandleDm(p, on) ==
  /\ SetAlertDmEnabled(p, on)
  /\ UNCHANGED <<wizard, faults>>

HandleEditSelectionOnly(p) ==   \* mutant: only what the wizard asks for is seeded
  /\ \E i \in At(p) : draft' = [alerts[i].filter EXCEPT !.keywords = draft.keywords]
                      /\ owner' = i
  /\ edit' = p
  /\ UNCHANGED <<alerts, faults>>

HandleEditZeroBased(p) ==   \* mutant: the button's position taken for an index
  /\ \E i \in At(p) : draft' = alerts[i].filter /\ owner' = i
  /\ edit' = p - 1
  /\ UNCHANGED <<alerts, faults>>

(* Pre-seeds the wizard; without such an alert it only says so.            *)
HandleEdit(p) ==
  /\ \E i \in At(p) : draft' = alerts[i].filter /\ owner' = i
  /\ edit' = p
  /\ UNCHANGED <<alerts, faults>>

(* user_data lives in the Application: recovery and restart lose it.       *)
WizardRestart ==
  /\ Fault
  /\ draft' = NoFilter /\ edit' = 0 /\ owner' = Nobody
  /\ UNCHANGED alerts

-----------------------------------------------------------------------------
WizardCommands == CmdStart \/ CmdSubscribe

WizardTaps ==
  \/ \E t \in Options["topics"] : HandleSubTopic(t)
  \/ \E s \in Steps \ {"topics"} : \E v \in Options[s] : HandleSubOption(s, v)
  \/ HandleSubDone \/ HandleSubSeniorityDone \/ HandleSubLocationDone
  \/ HandleSubSourceDone

CardTaps ==
  \/ \E p \in 1..MaxAlerts : HandleDel(p) \/ HandleUnsub(p) \/ HandleEdit(p)
  \/ \E p \in 1..MaxAlerts, on \in BOOLEAN : HandleDm(p, on)
  \/ HandleUnsubAllConfirm

WizardNext == WizardCommands \/ WizardTaps \/ CardTaps \/ WizardRestart

WizardSpec == WizardInit /\ [][WizardNext]_wizardVars

-----------------------------------------------------------------------------
(* Types of the wizard's state; the draft has an owner while it edits.     *)
WizardTypeOK ==
  /\ AlertsTypeOK
  /\ draft \in Filters /\ edit \in 0..MaxAlerts
  /\ owner \in AlertIds \cup {Nobody} /\ (owner = Nobody <=> edit = 0)
  /\ faults \in 0..MaxFaults

(* No handler reorders the alerts it leaves: of two alerts that survive a  *)
(* step the first stays the first, and an alert is created behind them.    *)
SurvivorsKeepOrder ==
  [][\A i \in Stored : \A j \in AlertIds :
       /\ alerts'[i].pos > 0 /\ alerts'[j].pos > 0
       /\ alerts[j].pos = 0 \/ alerts[i].pos < alerts[j].pos
       => alerts'[i].pos < alerts'[j].pos]_wizardVars

(* An alert's filter changes only where the wizard's edit points, and that *)
(* edit is used up: a second tap, or a retry after an error, cannot write  *)
(* it again (edit_position is popped first, _handle_sub_source_done).      *)
OverwriteUsesUpEdit ==
  [][\A i \in Stored :
       alerts'[i].pos > 0 /\ alerts'[i].filter # alerts[i].filter
         => alerts[i].pos = edit /\ edit' = 0]_wizardVars

(* Editing an alert keeps the keywords and the salary it had, which the    *)
(* wizard does not ask for, however many taps, commands and other edits    *)
(* lie between the Edit button and the last step.                          *)
EditKeepsKeywords ==
  [][\A i \in Stored :
       alerts'[i].pos > 0 /\ alerts'[i].filter # alerts[i].filter /\ i = owner
         => alerts'[i].filter.keywords = alerts[i].filter.keywords]_wizardVars

-----------------------------------------------------------------------------
(* The alerts as the user sees them: the stored row with position p is     *)
(* number p of his list.                                                   *)
InOrder(rows) ==
  [p \in {rows[i].pos : i \in AlertIds} \ {0} |->
     LET i == CHOOSE i \in AlertIds : rows[i].pos = p
     IN [filter |-> rows[i].filter, dm |-> rows[i].dm]]

AlertsList == INSTANCE AlertList WITH list <- InOrder(alerts), editing <- edit

(* Whatever is tapped, in whatever order, on whatever old keyboard, and    *)
(* wherever a statement or a message fails, the rows behave like one list  *)
(* that is only appended to, replaced in one place or closed up            *)
(* (core/db.py's statements on user_alerts).                               *)
ImplementsAlertList == AlertsList!Spec
=============================================================================
