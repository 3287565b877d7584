-------------------------- MODULE SubscriberProofs --------------------------
(***************************************************************************)
(* What a subscriber has: his alerts and the wizard that edits them, for   *)
(* any number of alerts, options and faults; his records, for any number   *)
(* of jobs, names and days and any page size; and the geography of the     *)
(* jobs he is sent, for any set of jobs.                                   *)
(*                                                                         *)
(* "No gap" as PositionsPacked states it speaks of neighbours; a deletion  *)
(* needs to know of every position below, so the invariant says that all   *)
(* of them are taken (Filled).  EditKeepsKeywords rests on KeptKeywords:   *)
(* while an alert owns the draft, the draft carries its keywords.          *)
(***************************************************************************)
EXTENDS AlertWizard, UserRecords, JobRules, SequenceTheorems, FiniteSetTheorems,
        WellFoundedInduction, TLAPS

-----------------------------------------------------------------------------
(* The alerts and the wizard                                               *)

Filled ==
  \A i \in Stored : \A q \in 1..alerts[i].pos : \E j \in AlertIds : alerts[j].pos = q

AtOwnPlace == \A i, j \in Stored : alerts[i].pos = alerts[j].pos => i = j

KeptKeywords ==
  \A i \in Stored : i = owner => draft.keywords = alerts[i].filter.keywords

WizardInv == WizardTypeOK /\ Filled /\ AtOwnPlace /\ KeptKeywords

-----------------------------------------------------------------------------
(* Filters and rows                                                        *)

LEMMA NoFilterType == NoFilter \in Filters
  BY AlertAssumption DEF NoFilter, Filters, Selections, Steps

LEMMA NoRowType == NoRow \in Row
  BY AlertAssumption, NoFilterType DEF NoRow, Row

LEMMA ChosenType ==
  ASSUME NEW f \in Filters, NEW s \in Steps, NEW c \in SUBSET Options[s]
  PROVE  /\ [f EXCEPT !.chosen[s] = c] \in Filters
         /\ [f EXCEPT !.chosen[s] = c].keywords = f.keywords
<1>1. f.chosen \in Selections /\ f.keywords \in SUBSET Keywords
  BY DEF Filters
<1>2. [f.chosen EXCEPT ![s] = c] \in Selections
  BY <1>1 DEF Selections
<1>3. [f EXCEPT !.chosen[s] = c] = [chosen |-> [f.chosen EXCEPT ![s] = c], keywords |-> f.keywords]
  BY DEF Filters
<1> QED
  BY <1>1, <1>2, <1>3 DEF Filters

-----------------------------------------------------------------------------
(* The statements: each keeps the rows typed, distinct and filled          *)

RowsOK == AlertsTypeOK /\ Filled /\ AtOwnPlace

(* What a statement leaves where it is keeps the positions.                *)
LEMMA SamePositions ==
  ASSUME Filled, AtOwnPlace, AlertsTypeOK',
         \A i \in AlertIds : alerts'[i].pos = alerts[i].pos
  PROVE  Filled' /\ AtOwnPlace'
<1>1. Stored' = Stored
  BY DEF Stored
<1>2. Filled'
  BY <1>1 DEF Filled, Stored
<1>3. AtOwnPlace'
  BY <1>1 DEF AtOwnPlace, Stored
<1> QED
  BY <1>2, <1>3

LEMMA CreateKeeps ==
  ASSUME RowsOK, NEW i \in AlertIds, NEW f \in Filters, CreateUserAlert(i, f)
  PROVE  RowsOK'
<1>1. PICK p \in 1..MaxAlerts :
        IsNextPosition(p) /\ alerts' = [alerts EXCEPT ![i] = [pos |-> p, filter |-> f, dm |-> TRUE]]
  BY DEF CreateUserAlert
<1>2. alerts[i].pos = 0
  BY DEF CreateUserAlert
<1>3. AlertsTypeOK'
  <2>1. [pos |-> p, filter |-> f, dm |-> TRUE] \in Row
    BY AlertAssumption DEF Row
  <2> QED
    BY <1>1, <2>1 DEF AlertsTypeOK, RowsOK
<1>4. \A j \in AlertIds : alerts'[j] = IF j = i THEN [pos |-> p, filter |-> f, dm |-> TRUE] ELSE alerts[j]
  BY <1>1 DEF RowsOK, AlertsTypeOK
<1>5. \A j \in AlertIds : alerts[j].pos \in 0..MaxAlerts
  BY DEF RowsOK, AlertsTypeOK, Row
<1>6. AtOwnPlace'
  <2>1. \A j \in AlertIds : j # i /\ alerts[j].pos > 0 => alerts[j].pos < p
    BY <1>1 DEF IsNextPosition, Stored
  <2> QED
    BY <1>2, <1>4, <1>5, <2>1 DEF AtOwnPlace, RowsOK, Stored
<1>7. Filled'
  <2> SUFFICES ASSUME NEW j \in Stored', NEW q \in 1..alerts'[j].pos
               PROVE  \E k \in AlertIds : alerts'[k].pos = q
    BY DEF Filled
  <2>1. CASE j # i
    <3>1. j \in Stored /\ q \in 1..alerts[j].pos
      BY <1>4, <2>1 DEF Stored
    <3>2. PICK k \in AlertIds : alerts[k].pos = q
      BY <3>1 DEF RowsOK, Filled
    <3>3. k # i
      BY <1>2, <3>1, <3>2, <1>5 DEF Stored
    <3> QED
      BY <1>4, <3>2, <3>3
  <2>2. CASE j = i /\ q = p
    BY <1>4, <2>2
  <2>3. CASE j = i /\ q # p
    <3>1. q \in 1..(p - 1) /\ p > 1
      BY <1>4, <2>3
    <3>2. PICK l \in Stored : alerts[l].pos = p - 1
      BY <1>1, <3>1 DEF IsNextPosition
    <3>3. PICK k \in AlertIds : alerts[k].pos = q
      BY <3>1, <3>2 DEF RowsOK, Filled
    <3>4. k # i
      BY <1>2, <3>1, <3>3
    <3> QED
      BY <1>4, <3>3, <3>4
  <2> QED
    BY <2>1, <2>2, <2>3
<1> QED
  BY <1>3, <1>6, <1>7 DEF RowsOK

LEMMA UpdateKeeps ==
  ASSUME RowsOK, NEW p \in Nat, NEW f \in Filters, UpdateUserAlert(p, f)
  PROVE  RowsOK'
<1>1. \A i \in AlertIds : alerts'[i] = IF i \in At(p) THEN [alerts[i] EXCEPT !.filter = f] ELSE alerts[i]
  BY DEF UpdateUserAlert
<1>2. AlertsTypeOK'
  <2>1. \A i \in AlertIds : alerts'[i] \in Row
    BY <1>1 DEF RowsOK, AlertsTypeOK, Row
  <2> QED
    BY <2>1 DEF AlertsTypeOK, UpdateUserAlert
<1>3. \A i \in AlertIds : alerts'[i].pos = alerts[i].pos
  BY <1>1 DEF RowsOK, AlertsTypeOK, Row
<1> QED
  BY <1>2, <1>3, SamePositions DEF RowsOK

LEMMA SetDmKeeps ==
  ASSUME RowsOK, NEW p \in Nat, NEW on \in BOOLEAN, SetAlertDmEnabled(p, on)
  PROVE  RowsOK'
<1>1. \A i \in AlertIds : alerts'[i] = IF i \in At(p) THEN [alerts[i] EXCEPT !.dm = on] ELSE alerts[i]
  BY DEF SetAlertDmEnabled
<1>2. AlertsTypeOK'
  <2>1. \A i \in AlertIds : alerts'[i] \in Row
    BY <1>1 DEF RowsOK, AlertsTypeOK, Row
  <2> QED
    BY <2>1 DEF AlertsTypeOK, SetAlertDmEnabled
<1>3. \A i \in AlertIds : alerts'[i].pos = alerts[i].pos
  BY <1>1 DEF RowsOK, AlertsTypeOK, Row
<1> QED
  BY <1>2, <1>3, SamePositions DEF RowsOK

(* What a deletion does to each row, and to its position.                  *)
LEMMA DeletePositions ==
  ASSUME RowsOK, NEW p \in 1..MaxAlerts, DeleteUserAlert(p)
  PROVE  /\ AlertsTypeOK'
         /\ \A i \in AlertIds :
              /\ alerts[i].pos = p => alerts'[i] = NoRow
              /\ alerts[i].pos > p => alerts'[i] = [alerts[i] EXCEPT !.pos = @ - 1]
              /\ alerts[i].pos < p => alerts'[i] = alerts[i]
<1>1. \A i \in AlertIds : alerts[i] \in Row /\ alerts[i].pos \in 0..MaxAlerts
  BY DEF RowsOK, AlertsTypeOK, Row
<1>2. \A i \in AlertIds : (i \in At(p) <=> alerts[i].pos = p) /\ (i \in Behind(p) <=> alerts[i].pos > p)
  BY <1>1 DEF At, Behind, Stored
<1>3. \A i \in AlertIds :
        /\ alerts[i].pos = p => alerts'[i] = NoRow
        /\ alerts[i].pos > p => alerts'[i] = [alerts[i] EXCEPT !.pos = @ - 1]
        /\ alerts[i].pos < p => alerts'[i] = alerts[i]
  BY <1>1, <1>2 DEF DeleteUserAlert
<1>4. \A i \in AlertIds : alerts'[i] \in Row
  <2> SUFFICES ASSUME NEW i \in AlertIds PROVE alerts'[i] \in Row
    OBVIOUS
  <2>1. CASE alerts[i].pos > p
    <3>1. alerts'[i] = [alerts[i] EXCEPT !.pos = @ - 1]
      BY <1>3, <2>1
    <3>2. alerts[i].pos - 1 \in 0..MaxAlerts
      BY <1>1, <2>1, AlertAssumption
    <3> QED
      BY <1>1, <3>1, <3>2 DEF Row
  <2>2. CASE alerts[i].pos = p
    BY <1>3, <2>2, NoRowType
  <2>3. CASE alerts[i].pos < p
    BY <1>1, <1>3, <2>3
  <2> QED
    BY <1>1, <2>1, <2>2, <2>3, AlertAssumption
<1> QED
  BY <1>3, <1>4 DEF AlertsTypeOK, DeleteUserAlert

LEMMA DeleteKeeps ==
  ASSUME RowsOK, NEW p \in 1..MaxAlerts, DeleteUserAlert(p)
  PROVE  RowsOK'
<1>1. \A i \in AlertIds : alerts[i].pos \in 0..MaxAlerts /\ alerts[i] \in Row
  BY DEF RowsOK, AlertsTypeOK, Row
<1>2. \A i \in AlertIds :
        /\ alerts[i].pos = p => alerts'[i].pos = 0
        /\ alerts[i].pos > p => alerts'[i].pos = alerts[i].pos - 1
        /\ alerts[i].pos < p => alerts'[i].pos = alerts[i].pos
  <2>1. NoRow.pos = 0
    BY DEF NoRow
  <2>2. \A r \in Row : [r EXCEPT !.pos = @ - 1].pos = r.pos - 1
    BY DEF Row
  <2>3. \A i \in AlertIds :
          /\ alerts[i].pos = p => alerts'[i] = NoRow
          /\ alerts[i].pos > p => alerts'[i] = [alerts[i] EXCEPT !.pos = @ - 1]
          /\ alerts[i].pos < p => alerts'[i] = alerts[i]
    BY DeletePositions
  <2> QED
    BY <1>1, <2>1, <2>2, <2>3
<1>3. AtOwnPlace'
  BY <1>1, <1>2 DEF AtOwnPlace, RowsOK, Stored
<1>4. Filled'
  <2> SUFFICES ASSUME NEW i \in Stored', NEW q \in 1..alerts'[i].pos
               PROVE  \E k \in AlertIds : alerts'[k].pos = q
    BY DEF Filled
  <2>0. i \in AlertIds /\ alerts'[i].pos > 0 /\ q \in Nat /\ q > 0 /\ q <= alerts'[i].pos
    BY <1>1, <1>2 DEF Stored
  <2>1. CASE q < p
    <3>1. PICK k \in AlertIds : alerts[k].pos = q
      BY <1>1, <1>2, <2>0, <2>1 DEF RowsOK, Filled, Stored
    <3> QED
      BY <1>2, <2>1, <3>1
  <2>2. CASE q >= p
    <3>1. alerts[i].pos > p /\ q + 1 \in 1..alerts[i].pos
      BY <1>1, <1>2, <2>0, <2>2
    <3>2. PICK k \in AlertIds : alerts[k].pos = q + 1
      BY <1>1, <2>0, <3>1 DEF RowsOK, Filled, Stored
    <3>3. alerts'[k].pos = q
      BY <1>2, <2>0, <2>2, <3>2
    <3> QED
      BY <3>3
  <2> QED
    BY <2>0, <2>1, <2>2
<1> QED
  BY <1>3, <1>4, DeletePositions DEF RowsOK

LEMMA DeleteAllKeeps ==
  ASSUME RowsOK, DeleteAllUserAlerts
  PROVE  RowsOK'
<1>1. \A i \in AlertIds : alerts'[i] = NoRow /\ alerts'[i].pos = 0
  BY DEF DeleteAllUserAlerts, NoRow
<1>2. AlertsTypeOK'
  BY NoRowType DEF AlertsTypeOK, DeleteAllUserAlerts
<1>3. Stored' = {}
  BY <1>1 DEF Stored
<1> QED
  BY <1>2, <1>3 DEF RowsOK, Filled, AtOwnPlace

LEMMA InitRows ==
  ASSUME AlertsInit
  PROVE  RowsOK
<1>1. CASE alerts = [i \in AlertIds |-> NoRow]
  <2>1. AlertsTypeOK
    BY <1>1, NoRowType DEF AlertsTypeOK
  <2>2. Stored = {}
    BY <1>1 DEF Stored, NoRow
  <2> QED
    BY <2>1, <2>2 DEF RowsOK, Filled, AtOwnPlace
<1>2. ASSUME NEW i \in AlertIds, NEW k \in SUBSET Keywords,
             alerts = [j \in AlertIds |->
                         IF j = i THEN [pos |-> 1, dm |-> TRUE,
                                        filter |-> [chosen |-> [NoFilter.chosen EXCEPT !["topics"] = {General}],
                                                    keywords |-> k]]
                         ELSE NoRow]
      PROVE RowsOK
  <2> DEFINE c == [NoFilter.chosen EXCEPT !["topics"] = {General}]
  <2>1. c \in Selections
    <3>1. NoFilter.chosen \in Selections
      BY NoFilterType DEF Filters
    <3> QED
      BY <3>1, AlertAssumption DEF Selections, Steps
  <2>2. [pos |-> 1, dm |-> TRUE, filter |-> [chosen |-> c, keywords |-> k]] \in Row
    BY <2>1, AlertAssumption DEF Row, Filters
  <2>3. AlertsTypeOK
    BY <1>2, <2>2, NoRowType DEF AlertsTypeOK
  <2>4. \A j \in AlertIds : alerts[j].pos = IF j = i THEN 1 ELSE 0
    BY <1>2 DEF NoRow
  <2> QED
    BY <2>3, <2>4 DEF RowsOK, Filled, AtOwnPlace, Stored
<1> QED
  BY <1>1, <1>2 DEF AlertsInit

-----------------------------------------------------------------------------
(* The handlers                                                            *)

LEMMA OptionsSubset ==
  ASSUME NEW f \in Filters, NEW s \in Steps
  PROVE  f.chosen[s] \in SUBSET Options[s]
  BY DEF Filters, Selections

LEMMA EditIsPosition == WizardInv => edit \in Nat /\ MaxAlerts \in Nat
  BY AlertAssumption DEF WizardInv, WizardTypeOK

LEMMA InvRows == WizardInv => RowsOK
  BY DEF WizardInv, WizardTypeOK, RowsOK

LEMMA FaultType ==
  ASSUME faults \in 0..MaxFaults, Fault \/ UNCHANGED faults
  PROVE  faults' \in 0..MaxFaults
  BY WizardAssumption DEF Fault

(* A choice changes neither the rows nor the keywords of the draft.        *)
LEMMA ChooseKeeps ==
  ASSUME WizardInv, NEW s \in Steps, NEW c \in SUBSET Options[s], Choose(s, c),
         UNCHANGED <<alerts, edit, owner>>, Fault \/ UNCHANGED faults
  PROVE  WizardInv'
<1>1. draft' \in Filters /\ draft'.keywords = draft.keywords
  BY ChosenType DEF Choose, WizardInv, WizardTypeOK
<1>2. WizardTypeOK'
  BY <1>1, FaultType DEF WizardInv, WizardTypeOK, AlertsTypeOK
<1>3. (Filled /\ AtOwnPlace)'
  BY DEF WizardInv, Filled, AtOwnPlace, Stored
<1>4. KeptKeywords'
  BY <1>1 DEF WizardInv, KeptKeywords, Stored
<1> QED
  BY <1>2, <1>3, <1>4 DEF WizardInv

(* A statement that keeps the filters of the alerts it leaves keeps the    *)
(* draft's owner.                                                          *)
LEMMA RowsKeep ==
  ASSUME WizardInv, RowsOK', UNCHANGED <<wizard, faults>>,
         \A i \in AlertIds : alerts'[i].pos > 0 =>
           alerts[i].pos > 0 /\ alerts'[i].filter = alerts[i].filter
  PROVE  WizardInv'
<1>1. WizardTypeOK'
  BY DEF WizardInv, WizardTypeOK, RowsOK, wizard
<1>2. KeptKeywords'
  BY DEF WizardInv, KeptKeywords, Stored, wizard
<1> QED
  BY <1>1, <1>2 DEF WizardInv, RowsOK

LEMMA CommandsKeep ==
  ASSUME WizardInv, WizardCommands
  PROVE  WizardInv'
<1>1. "topics" \in Steps /\ {} \in SUBSET Options["topics"]
  BY DEF Steps
<1>2. CASE CmdStart
  BY <1>1, <1>2, ChooseKeeps DEF CmdStart
<1>3. CASE CmdSubscribe
  BY <1>1, <1>3, ChooseKeeps DEF CmdSubscribe
<1> QED
  BY <1>2, <1>3 DEF WizardCommands

(* Both outcomes of the write keep the rows.                               *)
LEMMA WriteKeeps ==
  ASSUME WizardInv, Write
  PROVE  RowsOK'
<1>1. draft \in Filters
  BY DEF WizardInv, WizardTypeOK
<1>2. CASE edit # 0 /\ UpdateUserAlert(edit, draft)
  BY <1>1, <1>2, UpdateKeeps, EditIsPosition, InvRows
<1>3. ASSUME NEW i \in AlertIds, CreateUserAlert(i, draft)
      PROVE RowsOK'
  BY <1>1, <1>3, CreateKeeps, InvRows
<1> QED
  BY <1>2, <1>3 DEF Write

LEMMA SourceDoneKeeps ==
  ASSUME WizardInv, HandleSubSourceDone
  PROVE  WizardInv'
<1>1. edit' = 0 /\ owner' = Nobody
  BY DEF HandleSubSourceDone
<1>2. draft' \in Filters
  BY NoFilterType DEF HandleSubSourceDone, WizardInv, WizardTypeOK
<1>3. RowsOK'
  <2>1. CASE Write
    BY <2>1, WriteKeeps
  <2>2. CASE UNCHANGED alerts
    BY <2>2, InvRows DEF RowsOK, AlertsTypeOK, Filled, AtOwnPlace, Stored
  <2> QED
    BY <2>1, <2>2 DEF HandleSubSourceDone
<1>4. faults' \in 0..MaxFaults
  BY FaultType DEF HandleSubSourceDone, WizardInv, WizardTypeOK
<1>5. WizardTypeOK'
  BY <1>1, <1>2, <1>3, <1>4, EditIsPosition DEF WizardTypeOK, RowsOK
<1>6. KeptKeywords'
  BY <1>1, WizardAssumption DEF KeptKeywords, Stored
<1> QED
  BY <1>3, <1>5, <1>6 DEF WizardInv, RowsOK

LEMMA TapsKeep ==
  ASSUME WizardInv, WizardTaps
  PROVE  WizardInv'
<1>0. draft \in Filters
  BY DEF WizardInv, WizardTypeOK
<1>1. ASSUME NEW t \in Options["topics"], HandleSubTopic(t)
      PROVE WizardInv'
  <2>1. "topics" \in Steps
    BY DEF Steps
  <2>2. ToggleTopic(draft.chosen["topics"], t) \in SUBSET Options["topics"]
    BY <1>0, <2>1, OptionsSubset DEF ToggleTopic
  <2> QED
    BY <1>1, <2>1, <2>2, ChooseKeeps DEF HandleSubTopic
<1>2. ASSUME NEW s \in Steps \ {"topics"}, NEW v \in Options[s], HandleSubOption(s, v)
      PROVE WizardInv'
  <2>1. Toggle(draft.chosen[s], v) \in SUBSET Options[s]
    BY <1>0, OptionsSubset DEF Toggle
  <2> QED
    BY <1>2, <2>1, ChooseKeeps DEF HandleSubOption
<1>3. ASSUME NEW s \in Steps, MoveOn(s)
      PROVE WizardInv'
  BY <1>3, ChooseKeeps DEF MoveOn
<1>4. {"seniority", "locations", "sources"} \subseteq Steps
  BY DEF Steps
<1> QED
  BY <1>1, <1>2, <1>3, <1>4, SourceDoneKeeps
     DEF WizardTaps, HandleSubDone, HandleSubSeniorityDone, HandleSubLocationDone

LEMMA DeleteHandlerKeeps ==
  ASSUME WizardInv, NEW p \in 1..MaxAlerts, Delete(p)
  PROVE  WizardInv'
<1>1. CASE DeleteUserAlert(p)
  <2>1. \A i \in AlertIds : alerts'[i].pos > 0 =>
          alerts[i].pos > 0 /\ alerts'[i].filter = alerts[i].filter
    <3>1. \A i \in AlertIds :
            /\ alerts[i].pos = p => alerts'[i] = NoRow
            /\ alerts[i].pos > p => alerts'[i] = [alerts[i] EXCEPT !.pos = @ - 1]
            /\ alerts[i].pos < p => alerts'[i] = alerts[i]
      BY <1>1, DeletePositions, InvRows
    <3>2. NoRow.pos = 0
      BY DEF NoRow
    <3>3. \A r \in Row : [r EXCEPT !.pos = @ - 1].filter = r.filter
      BY DEF Row
    <3>4. \A i \in AlertIds : alerts[i] \in Row
      BY InvRows DEF RowsOK, AlertsTypeOK
    <3> SUFFICES ASSUME NEW i \in AlertIds, alerts'[i].pos > 0
                 PROVE  alerts[i].pos > 0 /\ alerts'[i].filter = alerts[i].filter
      OBVIOUS
    <3>5. alerts[i].pos \in 0..MaxAlerts /\ MaxAlerts \in Nat
      BY <3>4, AlertAssumption DEF Row
    <3>6. CASE alerts[i].pos > p
      <4>1. alerts'[i].filter = alerts[i].filter
        BY <3>1, <3>3, <3>4, <3>6
      <4> QED
        BY <3>5, <3>6, <4>1
    <3>7. CASE alerts[i].pos < p
      <4>1. alerts'[i] = alerts[i]
        BY <3>1, <3>7
      <4> QED
        BY <4>1
    <3>8. ASSUME alerts[i].pos = p PROVE FALSE
      <4>1. alerts'[i] = NoRow
        BY <3>1, <3>8
      <4>2. alerts'[i].pos = 0
        BY <3>2, <4>1
      <4> QED
        BY <4>2
    <3>9. alerts[i].pos > p \/ alerts[i].pos < p
      BY <3>5, <3>8
    <3> QED
      BY <3>6, <3>7, <3>9
  <2> QED
    BY <1>1, <2>1, RowsKeep, DeleteKeeps, InvRows DEF Delete
<1>2. CASE UNCHANGED alerts
  BY <1>2, RowsKeep, InvRows DEF Delete, RowsOK, AlertsTypeOK, Filled, AtOwnPlace, Stored, WizardInv,
     WizardTypeOK, KeptKeywords, wizard
<1> QED
  BY <1>1, <1>2 DEF Delete

LEMMA CardsKeep ==
  ASSUME WizardInv, CardTaps
  PROVE  WizardInv'
<1>1. ASSUME NEW p \in 1..MaxAlerts, HandleEdit(p)
      PROVE WizardInv'
  <2>1. PICK i \in At(p) : draft' = alerts[i].filter /\ owner' = i
    BY <1>1 DEF HandleEdit
  <2>2. i \in AlertIds /\ alerts[i] \in Row /\ draft' \in Filters
    BY <2>1, InvRows DEF At, Stored, RowsOK, AlertsTypeOK, Row
  <2>3. edit' = p /\ p # 0 /\ p \in 0..MaxAlerts /\ owner' # Nobody /\ UNCHANGED <<alerts, faults>>
    BY <1>1, <2>1, <2>2, WizardAssumption, EditIsPosition DEF HandleEdit
  <2>4. WizardTypeOK'
    BY <2>1, <2>2, <2>3 DEF WizardInv, WizardTypeOK, AlertsTypeOK
  <2>5. (Filled /\ AtOwnPlace)'
    BY <2>3 DEF WizardInv, Filled, AtOwnPlace, Stored
  <2>6. KeptKeywords'
    BY <2>1, <2>3 DEF KeptKeywords, Stored
  <2> QED
    BY <2>4, <2>5, <2>6 DEF WizardInv
<1>2. ASSUME NEW p \in 1..MaxAlerts, NEW on \in BOOLEAN, HandleDm(p, on)
      PROVE WizardInv'
  <2>1. RowsOK' /\ p \in Nat
    BY <1>2, SetDmKeeps, InvRows, EditIsPosition DEF HandleDm
  <2>2. \A i \in AlertIds : alerts[i] \in Row /\ alerts'[i] =
          IF i \in At(p) THEN [alerts[i] EXCEPT !.dm = on] ELSE alerts[i]
    BY <1>2, InvRows DEF HandleDm, SetAlertDmEnabled, RowsOK, AlertsTypeOK
  <2>3. \A r \in Row : [r EXCEPT !.dm = on].filter = r.filter /\ [r EXCEPT !.dm = on].pos = r.pos
    BY DEF Row
  <2> QED
    BY <1>2, <2>1, <2>2, <2>3, RowsKeep DEF HandleDm
<1>3. CASE HandleUnsubAllConfirm
  <2>1. \A i \in AlertIds : alerts'[i].pos = 0
    BY <1>3 DEF HandleUnsubAllConfirm, DeleteAllUserAlerts, NoRow
  <2> QED
    BY <1>3, <2>1, DeleteAllKeeps, RowsKeep, InvRows DEF HandleUnsubAllConfirm
<1> QED
  BY <1>1, <1>2, <1>3, DeleteHandlerKeeps DEF CardTaps, HandleDel, HandleUnsub

LEMMA RestartKeeps ==
  ASSUME WizardInv, WizardRestart
  PROVE  WizardInv'
<1>1. WizardTypeOK'
  BY NoFilterType, FaultType, EditIsPosition
     DEF WizardInv, WizardTypeOK, AlertsTypeOK, WizardRestart
<1>2. (Filled /\ AtOwnPlace)'
  BY DEF WizardInv, WizardRestart, Filled, AtOwnPlace, Stored
<1>3. KeptKeywords'
  BY WizardAssumption DEF KeptKeywords, Stored, WizardRestart
<1> QED
  BY <1>1, <1>2, <1>3 DEF WizardInv

LEMMA WizardInitInv == WizardInit => WizardInv
<1> SUFFICES ASSUME WizardInit PROVE WizardInv
  OBVIOUS
<1>1. RowsOK
  BY InitRows DEF WizardInit
<1>2. WizardTypeOK
  BY <1>1, NoFilterType, WizardAssumption, AlertAssumption DEF WizardInit, WizardTypeOK, RowsOK
<1>3. KeptKeywords
  BY WizardAssumption DEF WizardInit, KeptKeywords, Stored
<1> QED
  BY <1>1, <1>2, <1>3 DEF WizardInv, RowsOK

LEMMA WizardStepInv == WizardInv /\ [WizardNext]_wizardVars => WizardInv'
<1> SUFFICES ASSUME WizardInv, [WizardNext]_wizardVars PROVE WizardInv'
  OBVIOUS
<1>1. CASE UNCHANGED wizardVars
  BY <1>1 DEF wizardVars, wizard, WizardInv, WizardTypeOK, AlertsTypeOK, Filled, AtOwnPlace,
     KeptKeywords, Stored
<1> QED
  BY <1>1, CommandsKeep, TapsKeep, CardsKeep, RestartKeeps DEF WizardNext

-----------------------------------------------------------------------------
(* The theorems                                                            *)

LEMMA WizardInvariant == WizardSpec => []WizardInv
  BY WizardInitInv, WizardStepInv, PTL DEF WizardSpec

(* The rows, the draft and the edit have their types, and an edit has an   *)
(* owner: no handler stores a filter no keyboard offers.                   *)
THEOREM WizardTypes == WizardSpec => []WizardTypeOK
<1>1. WizardInv => WizardTypeOK
  BY DEF WizardInv
<1> QED
  BY <1>1, WizardInvariant, PTL

(* Positions are packed, for any number of alerts and any sequence of      *)
(* creations and deletions, also those whose re-packing fails.             *)
THEOREM PositionsStayPacked == WizardSpec => []PositionsPacked
<1>1. WizardInv => PositionsPacked
  <2> SUFFICES ASSUME WizardInv PROVE PositionsPacked
    OBVIOUS
  <2>1. ASSUME NEW i \in Stored, alerts[i].pos > 1
        PROVE \E j \in Stored : alerts[j].pos = alerts[i].pos - 1
    <3>1. alerts[i].pos - 1 \in 1..alerts[i].pos
      BY <2>1, InvRows, EditIsPosition DEF RowsOK, AlertsTypeOK, Row, Stored
    <3>2. PICK j \in AlertIds : alerts[j].pos = alerts[i].pos - 1
      BY <3>1 DEF WizardInv, Filled
    <3> QED
      BY <3>1, <3>2 DEF Stored
  <2> QED
    BY <2>1 DEF WizardInv, AtOwnPlace, PositionsPacked
<1> QED
  BY <1>1, WizardInvariant, PTL

(* A deletion moves the rows behind it by one, all others not at all.      *)
LEMMA DeleteKeepsOrder ==
  ASSUME RowsOK, NEW p \in 1..MaxAlerts, DeleteUserAlert(p),
         NEW i \in Stored, NEW j \in AlertIds,
         alerts'[i].pos > 0, alerts'[j].pos > 0, alerts[j].pos = 0 \/ alerts[i].pos < alerts[j].pos
  PROVE  alerts'[i].pos < alerts'[j].pos
<1>1. i \in AlertIds /\ alerts[i].pos > 0
  BY DEF Stored
<1>2. \A k \in AlertIds : alerts[k] \in Row /\ alerts[k].pos \in 0..MaxAlerts
  BY DEF RowsOK, AlertsTypeOK, Row
<1>3. MaxAlerts \in Nat
  BY AlertAssumption
<1>4. \A k \in AlertIds :
        /\ alerts[k].pos = p => alerts'[k] = NoRow
        /\ alerts[k].pos > p => alerts'[k] = [alerts[k] EXCEPT !.pos = @ - 1]
        /\ alerts[k].pos < p => alerts'[k] = alerts[k]
  BY DeletePositions
<1>5. NoRow.pos = 0 /\ \A r \in Row : [r EXCEPT !.pos = @ - 1].pos = r.pos - 1
  BY DEF NoRow, Row
<1>6. \A k \in AlertIds :
        /\ alerts[k].pos = p => alerts'[k].pos = 0
        /\ alerts[k].pos > p => alerts'[k].pos = alerts[k].pos - 1
        /\ alerts[k].pos < p => alerts'[k].pos = alerts[k].pos
  BY <1>2, <1>4, <1>5
<1> QED
  BY <1>1, <1>2, <1>3, <1>6

(* The other steps leave positions, or add a row behind all others.        *)
LEMMA StepKeepsOrder ==
  ASSUME WizardInv, WizardNext, NEW i \in Stored, NEW j \in AlertIds,
         alerts'[i].pos > 0, alerts'[j].pos > 0, alerts[j].pos = 0 \/ alerts[i].pos < alerts[j].pos
  PROVE  alerts'[i].pos < alerts'[j].pos
<1>0. /\ i \in AlertIds /\ alerts[i].pos > 0 /\ MaxAlerts \in Nat
      /\ \A k \in AlertIds : alerts[k] \in Row /\ alerts[k].pos \in 0..MaxAlerts
  BY InvRows, AlertAssumption DEF Stored, RowsOK, AlertsTypeOK, Row
<1>1. CASE \A k \in AlertIds : alerts'[k].pos = alerts[k].pos
  BY <1>0, <1>1
<1>2. ASSUME NEW p \in 1..MaxAlerts, DeleteUserAlert(p)
      PROVE alerts'[i].pos < alerts'[j].pos
  BY <1>2, InvRows, DeleteKeepsOrder
<1>3. ASSUME NEW k \in AlertIds, NEW f, CreateUserAlert(k, f)
      PROVE alerts'[i].pos < alerts'[j].pos
  <2>1. PICK p \in 1..MaxAlerts :
          IsNextPosition(p) /\ alerts' = [alerts EXCEPT ![k] = [pos |-> p, filter |-> f, dm |-> TRUE]]
    BY <1>3 DEF CreateUserAlert
  <2>2. alerts[k].pos = 0 /\ alerts[i].pos < p /\ k # i
    BY <1>0, <1>3, <2>1 DEF CreateUserAlert, IsNextPosition
  <2>3. alerts'[i] = alerts[i]
    BY <2>1, <2>2, InvRows DEF RowsOK, AlertsTypeOK
  <2>4. CASE j = k
    <3>1. alerts'[j].pos = p
      BY <2>1, <2>4, InvRows DEF RowsOK, AlertsTypeOK
    <3> QED
      BY <2>2, <2>3, <3>1
  <2>5. CASE j # k
    <3>1. alerts'[j] = alerts[j]
      BY <2>1, <2>5, InvRows DEF RowsOK, AlertsTypeOK
    <3> QED
      BY <1>0, <2>3, <3>1
  <2> QED
    BY <2>4, <2>5
<1>4. ASSUME NEW p, NEW f, UpdateUserAlert(p, f)
      PROVE \A k \in AlertIds : alerts'[k].pos = alerts[k].pos
  BY <1>0, <1>4 DEF UpdateUserAlert, Row
<1>5. ASSUME NEW p, NEW on, SetAlertDmEnabled(p, on)
      PROVE \A k \in AlertIds : alerts'[k].pos = alerts[k].pos
  BY <1>0, <1>5 DEF SetAlertDmEnabled, Row
<1>6. CASE DeleteAllUserAlerts
  BY <1>6 DEF DeleteAllUserAlerts, NoRow
<1>7. CASE UNCHANGED alerts
  BY <1>1, <1>7
<1>8. CASE WizardCommands \/ WizardRestart
  BY <1>7, <1>8 DEF WizardCommands, CmdStart, CmdSubscribe, WizardRestart
<1>9. CASE WizardTaps
  <2>1. CASE HandleSubSourceDone
    BY <1>1, <1>3, <1>4, <1>7, <2>1 DEF HandleSubSourceDone, Write
  <2> QED
    BY <1>7, <1>9, <2>1 DEF WizardTaps, HandleSubTopic, HandleSubOption, MoveOn, HandleSubDone,
       HandleSubSeniorityDone, HandleSubLocationDone
<1>10. CASE CardTaps
  BY <1>1, <1>2, <1>5, <1>6, <1>7, <1>10
     DEF CardTaps, HandleDel, HandleUnsub, Delete, HandleEdit, HandleDm, HandleUnsubAllConfirm
<1> QED
  BY <1>8, <1>9, <1>10 DEF WizardNext

(* Alerts keep their order through every step of every handler, and a new  *)
(* one comes last, whatever else the chat still offers.                    *)
THEOREM OrderIsKept == WizardSpec => SurvivorsKeepOrder
<1>1. WizardInv /\ [WizardNext]_wizardVars =>
        [\A i \in Stored : \A j \in AlertIds :
           /\ alerts'[i].pos > 0 /\ alerts'[j].pos > 0
           /\ alerts[j].pos = 0 \/ alerts[i].pos < alerts[j].pos
           => alerts'[i].pos < alerts'[j].pos]_wizardVars
  BY StepKeepsOrder
<1> QED
  BY <1>1, WizardInvariant, PTL DEF WizardSpec, SurvivorsKeepOrder

-----------------------------------------------------------------------------
(* Overwriting                                                             *)

(* Only the update of the wizard's last step changes a stored filter, to   *)
(* the draft and at the position of the edit.                              *)
LEMMA ChangedByUpdate ==
  ASSUME WizardInv, WizardNext, NEW i \in Stored,
         alerts'[i].pos > 0, alerts'[i].filter # alerts[i].filter
  PROVE  /\ HandleSubSourceDone
         /\ alerts[i].pos = edit
         /\ alerts'[i].filter = draft
<1>0. /\ i \in AlertIds /\ alerts[i].pos > 0 /\ MaxAlerts \in Nat
      /\ alerts[i] \in Row /\ alerts[i].pos \in 0..MaxAlerts
  BY InvRows, AlertAssumption DEF Stored, RowsOK, AlertsTypeOK, Row
<1>1. ASSUME NEW p \in 1..MaxAlerts, DeleteUserAlert(p)
      PROVE FALSE
  <2>1. /\ alerts[i].pos = p => alerts'[i] = NoRow
        /\ alerts[i].pos > p => alerts'[i] = [alerts[i] EXCEPT !.pos = @ - 1]
        /\ alerts[i].pos < p => alerts'[i] = alerts[i]
    BY <1>0, <1>1, DeletePositions, InvRows
  <2>2. NoRow.pos = 0 /\ [alerts[i] EXCEPT !.pos = @ - 1].filter = alerts[i].filter
    BY <1>0 DEF NoRow, Row
  <2>3. CASE alerts[i].pos > p
    BY <2>1, <2>2, <2>3
  <2>4. CASE alerts[i].pos < p
    BY <2>1, <2>4
  <2>5. CASE alerts[i].pos = p
    <3>1. alerts'[i].pos = 0
      BY <2>1, <2>2, <2>5
    <3> QED
      BY <3>1
  <2>6. p \in Nat
    BY <1>0
  <2> QED
    BY <1>0, <2>3, <2>4, <2>5, <2>6
<1>2. ASSUME NEW k \in AlertIds, CreateUserAlert(k, draft)
      PROVE FALSE
  <2>1. k # i
    BY <1>0, <1>2 DEF CreateUserAlert
  <2>2. alerts'[i] = alerts[i]
    BY <1>0, <1>2, <2>1, InvRows DEF CreateUserAlert, RowsOK, AlertsTypeOK
  <2> QED
    BY <2>2
<1>3. ASSUME NEW p, NEW on, SetAlertDmEnabled(p, on)
      PROVE FALSE
  BY <1>0, <1>3 DEF SetAlertDmEnabled, Row
<1>4. ASSUME DeleteAllUserAlerts
      PROVE FALSE
  <2>1. alerts'[i].pos = 0
    BY <1>0, <1>4 DEF DeleteAllUserAlerts, NoRow
  <2> QED
    BY <2>1
<1>5. alerts' # alerts
  OBVIOUS
<1>6. HandleSubSourceDone
  <2>1. ~(WizardCommands \/ WizardRestart)
    BY <1>5 DEF WizardCommands, CmdStart, CmdSubscribe, WizardRestart
  <2>2. ~CardTaps
    BY <1>1, <1>3, <1>4, <1>5
       DEF CardTaps, HandleDel, HandleUnsub, Delete, HandleEdit, HandleDm, HandleUnsubAllConfirm
  <2> QED
    BY <1>5, <2>1, <2>2 DEF WizardNext, WizardTaps, HandleSubTopic, HandleSubOption, MoveOn,
       HandleSubDone, HandleSubSeniorityDone, HandleSubLocationDone
<1>7. edit # 0 /\ UpdateUserAlert(edit, draft)
  BY <1>2, <1>5, <1>6 DEF HandleSubSourceDone, Write
<1>8. alerts'[i] = IF i \in At(edit) THEN [alerts[i] EXCEPT !.filter = draft] ELSE alerts[i]
  BY <1>0, <1>7 DEF UpdateUserAlert
<1>9. i \in At(edit)
  BY <1>8
<1>10. alerts'[i].filter = draft
  BY <1>0, <1>8, <1>9 DEF Row
<1> QED
  BY <1>6, <1>9, <1>10 DEF At

(* An overwrite hits the position that was chosen for editing and uses the *)
(* choice up, for any sequence of taps, commands, errors and restarts.     *)
THEOREM OverwritesUseUpTheEdit == WizardSpec => OverwriteUsesUpEdit
<1>1. WizardInv /\ [WizardNext]_wizardVars =>
        [\A i \in Stored :
           alerts'[i].pos > 0 /\ alerts'[i].filter # alerts[i].filter
             => alerts[i].pos = edit /\ edit' = 0]_wizardVars
  BY ChangedByUpdate DEF HandleSubSourceDone
<1> QED
  BY <1>1, WizardInvariant, PTL DEF WizardSpec, OverwriteUsesUpEdit

(* An edit keeps the keywords of the alert it was opened for.              *)
THEOREM EditsKeepKeywords == WizardSpec => EditKeepsKeywords
<1>1. WizardInv /\ [WizardNext]_wizardVars =>
        [\A i \in Stored :
           alerts'[i].pos > 0 /\ alerts'[i].filter # alerts[i].filter /\ i = owner
             => alerts'[i].filter.keywords = alerts[i].filter.keywords]_wizardVars
  BY ChangedByUpdate DEF WizardInv, KeptKeywords
<1> QED
  BY <1>1, WizardInvariant, PTL DEF WizardSpec, EditKeepsKeywords

-----------------------------------------------------------------------------
(* The list                                                                *)

Content(r) == [filter |-> r.filter, dm |-> r.dm]

(* The rows store the list f of n alerts.                                  *)
Lists(rows, f, n) ==
  /\ n \in Nat /\ f = [q \in 1..n |-> f[q]]
  /\ \A i \in AlertIds :
       rows[i].pos # 0 => rows[i].pos \in 1..n /\ f[rows[i].pos] = Content(rows[i])
  /\ \A q \in 1..n : \E i \in AlertIds : rows[i].pos = q

LEMMA ListIsOne ==
  ASSUME NEW rows, NEW f, NEW n, Lists(rows, f, n)
  PROVE  InOrder(rows) = f
<1>1. {rows[i].pos : i \in AlertIds} \ {0} = 1..n
  BY DEF Lists
<1>2. ASSUME NEW p \in 1..n
      PROVE  LET i == CHOOSE i \in AlertIds : rows[i].pos = p
             IN [filter |-> rows[i].filter, dm |-> rows[i].dm] = f[p]
  <2> DEFINE i == CHOOSE i \in AlertIds : rows[i].pos = p
  <2>1. i \in AlertIds /\ rows[i].pos = p
    BY DEF Lists
  <2> HIDE DEF i
  <2>2. f[p] = Content(rows[i])
    BY <2>1 DEF Lists
  <2> QED
    BY <2>2 DEF Content, i
<1>3. InOrder(rows) = [p \in 1..n |-> f[p]]
  BY <1>1, <1>2 DEF InOrder
<1> QED
  BY <1>3 DEF Lists

LEMMA ListExists == ASSUME RowsOK PROVE \E n \in 0..MaxAlerts : Lists(alerts, InOrder(alerts), n)
<1> DEFINE P == {alerts[i].pos : i \in AlertIds}
           T == {q \in Nat : q + 1 \notin P}
<1>0. MaxAlerts \in Nat
  BY AlertAssumption
<1>1. \A i \in AlertIds : alerts[i].pos \in 0..MaxAlerts
  BY DEF RowsOK, AlertsTypeOK, Row
<1>2. \A p \in P \ {0} : p \in 1..MaxAlerts /\ \A q \in 1..p : q \in P
  BY <1>0, <1>1 DEF RowsOK, Filled, Stored
<1>3. T \in SUBSET Nat /\ MaxAlerts \in T
  BY <1>0, <1>1
<1>4. PICK n \in T : \A m \in T : ~(<<m, n>> \in OpToRel(<, Nat))
  <2> HIDE DEF T
  <2> QED
    BY <1>3, NatLessThanWellFounded, WFMin
<1>5. n \in Nat /\ n + 1 \notin P /\ \A m \in Nat : m < n => m + 1 \in P
  BY <1>4 DEF OpToRel
<1>6. P \ {0} = 1..n
  <2>1. ASSUME NEW p \in P \ {0} PROVE p \in 1..n
    BY <1>0, <1>2, <1>5, <2>1
  <2>2. ASSUME NEW p \in 1..n PROVE p \in P \ {0}
    <3>1. p - 1 \in Nat /\ p - 1 < n /\ (p - 1) + 1 = p
      BY <1>5
    <3> QED
      BY <1>5, <3>1
  <2> QED
    BY <2>1, <2>2
<1>7. n <= MaxAlerts
  BY <1>0, <1>2, <1>5, <1>6
<1>8. InOrder(alerts) = [p \in 1..n |-> InOrder(alerts)[p]]
  BY <1>6 DEF InOrder
<1>9. ASSUME NEW i \in AlertIds, alerts[i].pos # 0
      PROVE  alerts[i].pos \in 1..n /\ InOrder(alerts)[alerts[i].pos] = Content(alerts[i])
  <2>1. alerts[i].pos \in P \ {0}
    BY <1>9
  <2> DEFINE j == CHOOSE j \in AlertIds : alerts[j].pos = alerts[i].pos
  <2>2. j \in AlertIds /\ alerts[j].pos = alerts[i].pos
    OBVIOUS
  <2>3. InOrder(alerts)[alerts[i].pos] = Content(alerts[j])
    BY <2>1 DEF InOrder, Content
  <2> HIDE DEF j
  <2>4. i \in Stored /\ j \in Stored
    BY <1>1, <1>9, <2>2 DEF Stored
  <2>5. j = i
    BY <2>2, <2>4 DEF RowsOK, AtOwnPlace
  <2> QED
    BY <1>6, <2>1, <2>3, <2>5
<1>10. \A q \in 1..n : \E i \in AlertIds : alerts[i].pos = q
  BY <1>6
<1> HIDE DEF P, T
<1> QED
  BY <1>0, <1>5, <1>7, <1>8, <1>9, <1>10 DEF Lists

Entries == [filter : Filters, dm : BOOLEAN]

(* The list as a sequence, and its rows.                                   *)
LEMMA ListTypes ==
  ASSUME RowsOK, NEW L, NEW n \in Nat, Lists(alerts, L, n)
  PROVE  /\ L \in Seq(Entries) /\ Len(L) = n /\ DOMAIN L = 1..n
         /\ \A i \in AlertIds :
              /\ alerts[i] \in Row /\ alerts[i].pos \in 0..n /\ n <= MaxAlerts
              /\ i \in Stored <=> alerts[i].pos # 0
              /\ alerts[i].pos # 0 => L[alerts[i].pos] = Content(alerts[i])
<1>1. \A i \in AlertIds : alerts[i] \in Row /\ alerts[i].pos \in 0..MaxAlerts
  BY DEF RowsOK, AlertsTypeOK, Row
<1>2. \A i \in AlertIds : Content(alerts[i]) \in Entries
  BY <1>1 DEF Row, Content, Entries
<1>3. L = [q \in 1..n |-> L[q]] /\ \A q \in 1..n : L[q] \in Entries
  BY <1>2 DEF Lists
<1>4. L \in [1..n -> Entries]
  BY <1>3
<1>5. n \in 0..MaxAlerts \/ AlertIds = {}
  BY <1>1, AlertAssumption DEF Lists
<1> HIDE DEF Entries
<1> QED
  BY <1>1, <1>4, <1>5 DEF Lists, Stored

LEMMA CreateAppends ==
  ASSUME RowsOK, NEW L, NEW n \in Nat, Lists(alerts, L, n),
         NEW i \in AlertIds, NEW f \in Filters, CreateUserAlert(i, f)
  PROVE  InOrder(alerts') = Append(L, [filter |-> f, dm |-> TRUE])
<1> DEFINE e == [filter |-> f, dm |-> TRUE]
<1>1. PICK p \in 1..MaxAlerts :
        /\ IsNextPosition(p)
        /\ alerts' = [alerts EXCEPT ![i] = [pos |-> p, filter |-> f, dm |-> TRUE]]
  BY DEF CreateUserAlert
<1>2. /\ L \in Seq(Entries) /\ Len(L) = n /\ DOMAIN L = 1..n
      /\ \A j \in AlertIds :
           /\ alerts[j] \in Row /\ alerts[j].pos \in 0..n
           /\ j \in Stored <=> alerts[j].pos # 0
           /\ alerts[j].pos # 0 => L[alerts[j].pos] = Content(alerts[j])
  BY ListTypes
<1>3. p \in Nat /\ p > 0
  BY <1>1, AlertAssumption
<1>4. \A q \in 1..n : \E j \in AlertIds : alerts[j].pos = q
  BY DEF Lists
<1>5. p = n + 1
  <2>1. n < p
    BY <1>1, <1>2, <1>3, <1>4 DEF IsNextPosition
  <2>2. p > 1 => p - 1 <= n
    BY <1>1, <1>2, <1>3 DEF IsNextPosition, Stored
  <2> QED
    BY <1>3, <2>1, <2>2
<1>6. /\ alerts'[i] = [pos |-> n + 1, filter |-> f, dm |-> TRUE] /\ alerts[i].pos = 0
      /\ \A j \in AlertIds : j # i => alerts'[j] = alerts[j]
  BY <1>1, <1>5 DEF RowsOK, AlertsTypeOK, CreateUserAlert
<1>7. e \in Entries
  BY DEF Entries
<1> DEFINE A == Append(L, e)
<1> HIDE DEF e, Entries
<1>8. /\ A = [q \in 1..(n + 1) |-> A[q]]
      /\ A[n + 1] = e
      /\ \A q \in 1..n : A[q] = L[q]
  <2>1. /\ A \in Seq(Entries) /\ Len(A) = n + 1
        /\ A[n + 1] = e
        /\ \A q \in 1..n : A[q] = L[q]
    BY <1>2, <1>7, AppendProperties
  <2> HIDE DEF A
  <2> QED
    BY <2>1
<1> HIDE DEF A
<1>9. Content(alerts'[i]) = e /\ alerts'[i].pos = n + 1
  BY <1>6 DEF Content, e
<1>10. \A j \in AlertIds : alerts'[j].pos # 0 =>
         alerts'[j].pos \in 1..(n + 1) /\ A[alerts'[j].pos] = Content(alerts'[j])
  <2>1. ASSUME NEW j \in AlertIds, j # i, alerts'[j].pos # 0
        PROVE  alerts'[j].pos \in 1..(n + 1) /\ A[alerts'[j].pos] = Content(alerts'[j])
    <3>1. alerts'[j] = alerts[j] /\ alerts[j].pos \in 1..n /\ L[alerts[j].pos] = Content(alerts[j])
      BY <1>2, <1>6, <2>1
    <3>2. A[alerts[j].pos] = Content(alerts[j])
      BY <1>8, <3>1
    <3>3. \A q \in 1..n : q \in 1..(n + 1)
      OBVIOUS
    <3> QED
      BY <3>1, <3>2, <3>3
  <2> QED
    BY <1>8, <1>9, <2>1
<1>11. \A q \in 1..(n + 1) : \E j \in AlertIds : alerts'[j].pos = q
  <2>1. ASSUME NEW q \in 1..n PROVE \E j \in AlertIds : alerts'[j].pos = q
    <3>1. PICK j \in AlertIds : alerts[j].pos = q
      BY <1>4
    <3> QED
      BY <1>6, <3>1
  <2> QED
    BY <1>9, <2>1
<1>12. Lists(alerts', A, n + 1)
  <2>1. n + 1 \in Nat
    OBVIOUS
  <2> QED
    BY <2>1, <1>8, <1>10, <1>11 DEF Lists
<1> QED
  BY <1>12, ListIsOne DEF A, e

(* A statement that changes no position replaces entries where they are.   *)
LEMMA ReplacedInPlace ==
  ASSUME RowsOK, NEW L, NEW n \in Nat, Lists(alerts, L, n),
         NEW p \in 1..n, NEW e,
         \A i \in AlertIds :
           /\ alerts'[i].pos = alerts[i].pos
           /\ alerts[i].pos = p => Content(alerts'[i]) = e
           /\ alerts[i].pos # p => Content(alerts'[i]) = Content(alerts[i])
  PROVE  InOrder(alerts') = [L EXCEPT ![p] = e]
<1>1. DOMAIN L = 1..n
  BY DEF Lists
<1>2. Lists(alerts', [L EXCEPT ![p] = e], n)
  BY <1>1 DEF Lists
<1> QED
  BY <1>2, ListIsOne

LEMMA UpdateReplaces ==
  ASSUME RowsOK, NEW L, NEW n \in Nat, Lists(alerts, L, n),
         NEW p \in Nat \ {0}, NEW f \in Filters, UpdateUserAlert(p, f)
  PROVE  InOrder(alerts') = IF p \in DOMAIN L THEN [L EXCEPT ![p].filter = f] ELSE InOrder(alerts)
<1>1. /\ DOMAIN L = 1..n
      /\ \A i \in AlertIds :
           /\ alerts[i] \in Row /\ alerts[i].pos \in 0..n
           /\ i \in Stored <=> alerts[i].pos # 0
           /\ alerts[i].pos # 0 => L[alerts[i].pos] = Content(alerts[i])
  BY ListTypes
<1>2. \A i \in AlertIds :
        alerts'[i] = IF alerts[i].pos = p THEN [alerts[i] EXCEPT !.filter = f] ELSE alerts[i]
  BY <1>1 DEF UpdateUserAlert, At
<1>3. CASE p \in 1..n
  <2>1. PICK k \in AlertIds : alerts[k].pos = p
    BY <1>3 DEF Lists
  <2>2. L[p] = Content(alerts[k])
    BY <1>1, <1>3, <2>1
  <2> DEFINE e == [filter |-> f, dm |-> alerts[k].dm]
  <2>3. [L[p] EXCEPT !.filter = f] = e
    BY <2>2 DEF Content
  <2>4. \A i \in AlertIds : alerts[i].pos = p => Content(alerts[i]) = Content(alerts[k])
    BY <1>1, <1>3, <2>2
  <2>5. \A i \in AlertIds :
          /\ alerts'[i].pos = alerts[i].pos
          /\ alerts[i].pos = p => Content(alerts'[i]) = e
          /\ alerts[i].pos # p => Content(alerts'[i]) = Content(alerts[i])
    BY <1>1, <1>2, <2>4 DEF Row, Content
  <2>6. InOrder(alerts') = [L EXCEPT ![p] = e]
    BY <1>3, <2>5, ReplacedInPlace
  <2> QED
    BY <1>1, <1>3, <2>3, <2>6
<1>4. CASE p \notin 1..n
  <2>0. \A i \in AlertIds : alerts[i].pos # p
    BY <1>1, <1>4
  <2>1. \A i \in AlertIds : alerts'[i] = alerts[i]
    BY <1>2, <2>0
  <2>2. InOrder(alerts') = InOrder(alerts)
    BY <2>1 DEF InOrder
  <2> QED
    BY <1>1, <1>4, <2>2
<1> QED
  BY <1>3, <1>4

LEMMA SetDmReplaces ==
  ASSUME RowsOK, NEW L, NEW n \in Nat, Lists(alerts, L, n),
         NEW p \in Nat \ {0}, NEW on \in BOOLEAN, SetAlertDmEnabled(p, on)
  PROVE  InOrder(alerts') = IF p \in DOMAIN L THEN [L EXCEPT ![p].dm = on] ELSE InOrder(alerts)
<1>1. /\ DOMAIN L = 1..n
      /\ \A i \in AlertIds :
           /\ alerts[i] \in Row /\ alerts[i].pos \in 0..n
           /\ i \in Stored <=> alerts[i].pos # 0
           /\ alerts[i].pos # 0 => L[alerts[i].pos] = Content(alerts[i])
  BY ListTypes
<1>2. \A i \in AlertIds :
        alerts'[i] = IF alerts[i].pos = p THEN [alerts[i] EXCEPT !.dm = on] ELSE alerts[i]
  BY <1>1 DEF SetAlertDmEnabled, At
<1>3. CASE p \in 1..n
  <2>1. PICK k \in AlertIds : alerts[k].pos = p
    BY <1>3 DEF Lists
  <2>2. L[p] = Content(alerts[k])
    BY <1>1, <1>3, <2>1
  <2> DEFINE e == [filter |-> alerts[k].filter, dm |-> on]
  <2>3. [L[p] EXCEPT !.dm = on] = e
    BY <2>2 DEF Content
  <2>4. \A i \in AlertIds : alerts[i].pos = p => Content(alerts[i]) = Content(alerts[k])
    BY <1>1, <1>3, <2>2
  <2>5. \A i \in AlertIds :
          /\ alerts'[i].pos = alerts[i].pos
          /\ alerts[i].pos = p => Content(alerts'[i]) = e
          /\ alerts[i].pos # p => Content(alerts'[i]) = Content(alerts[i])
    BY <1>1, <1>2, <2>4 DEF Row, Content
  <2>6. InOrder(alerts') = [L EXCEPT ![p] = e]
    BY <1>3, <2>5, ReplacedInPlace
  <2> QED
    BY <1>1, <1>3, <2>3, <2>6
<1>4. CASE p \notin 1..n
  <2>0. \A i \in AlertIds : alerts[i].pos # p
    BY <1>1, <1>4
  <2>1. \A i \in AlertIds : alerts'[i] = alerts[i]
    BY <1>2, <2>0
  <2>2. InOrder(alerts') = InOrder(alerts)
    BY <2>1 DEF InOrder
  <2> QED
    BY <1>1, <1>4, <2>2
<1> QED
  BY <1>3, <1>4

(* What lies behind a deleted alert moves up by one.                       *)
LEMMA DeleteClosesUp ==
  ASSUME RowsOK, NEW L, NEW n \in Nat, Lists(alerts, L, n),
         NEW p \in 1..MaxAlerts, DeleteUserAlert(p)
  PROVE  InOrder(alerts') =
           IF p \in DOMAIN L THEN [q \in 1..(Len(L) - 1) |-> L[IF q < p THEN q ELSE q + 1]]
           ELSE InOrder(alerts)
<1>1. /\ Len(L) = n /\ DOMAIN L = 1..n
      /\ \A i \in AlertIds :
           /\ alerts[i] \in Row /\ alerts[i].pos \in 0..n
           /\ alerts[i].pos # 0 => L[alerts[i].pos] = Content(alerts[i])
  BY ListTypes
<1>2. \A i \in AlertIds :
        /\ alerts[i].pos = p => alerts'[i] = NoRow
        /\ alerts[i].pos > p => alerts'[i] = [alerts[i] EXCEPT !.pos = @ - 1]
        /\ alerts[i].pos < p => alerts'[i] = alerts[i]
  BY DeletePositions
<1>3. p \in Nat /\ p > 0
  BY AlertAssumption
<1>4. CASE p \in 1..n
  <2> DEFINE M == [q \in 1..(n - 1) |-> L[IF q < p THEN q ELSE q + 1]]
  <2>1. \A i \in AlertIds :
          /\ alerts[i].pos = p => alerts'[i].pos = 0
          /\ alerts[i].pos > p => alerts'[i].pos = alerts[i].pos - 1 /\ Content(alerts'[i]) = Content(alerts[i])
          /\ alerts[i].pos < p => alerts'[i] = alerts[i]
    <3>1. NoRow.pos = 0
      BY DEF NoRow
    <3>2. ASSUME NEW r \in Row
          PROVE  LET s == [r EXCEPT !.pos = @ - 1] IN s.pos = r.pos - 1 /\ Content(s) = Content(r)
      BY DEF Row, Content
    <3> QED
      BY <1>1, <1>2, <3>1, <3>2
  <2>2. \A i \in AlertIds : alerts'[i].pos # 0 =>
          alerts'[i].pos \in 1..(n - 1) /\ M[alerts'[i].pos] = Content(alerts'[i])
    <3>1. ASSUME NEW i \in AlertIds, alerts'[i].pos # 0
          PROVE  alerts'[i].pos \in 1..(n - 1) /\ M[alerts'[i].pos] = Content(alerts'[i])
      <4>1. alerts[i].pos \in 0..n /\ alerts[i].pos # p
        BY <1>1, <2>1, <3>1
      <4>2. CASE alerts[i].pos > p
        <5>1. alerts'[i].pos = alerts[i].pos - 1 /\ Content(alerts'[i]) = Content(alerts[i])
          BY <2>1, <4>2
        <5>2. alerts[i].pos - 1 \in 1..(n - 1) /\ ~(alerts[i].pos - 1 < p)
          BY <1>3, <4>1, <4>2
        <5>3. M[alerts[i].pos - 1] = L[(alerts[i].pos - 1) + 1]
          BY <5>2
        <5>4. (alerts[i].pos - 1) + 1 = alerts[i].pos /\ alerts[i].pos # 0
          BY <1>3, <4>1, <4>2
        <5> QED
          BY <1>1, <5>1, <5>2, <5>3, <5>4
      <4>3. CASE alerts[i].pos < p
        <5>1. alerts'[i] = alerts[i] /\ alerts[i].pos \in 1..(n - 1)
          BY <1>3, <1>4, <2>1, <3>1, <4>1, <4>3
        <5>2. M[alerts[i].pos] = L[alerts[i].pos]
          BY <4>3, <5>1
        <5> QED
          BY <1>1, <3>1, <5>1, <5>2
      <4> QED
        BY <1>3, <4>1, <4>2, <4>3
    <3> QED
      BY <3>1
  <2>3. ASSUME NEW q \in 1..(n - 1)
        PROVE  \E i \in AlertIds : alerts'[i].pos = q
    <3>0. q \in 1..n /\ q + 1 \in 1..n
      OBVIOUS
    <3>1. CASE q < p
      <4>1. PICK i \in AlertIds : alerts[i].pos = q
        BY <3>0 DEF Lists
      <4> QED
        BY <2>1, <3>1, <4>1
    <3>2. CASE q >= p
      <4>1. PICK i \in AlertIds : alerts[i].pos = q + 1
        BY <3>0 DEF Lists
      <4> QED
        BY <1>3, <2>1, <3>2, <4>1
    <3> QED
      BY <1>3, <3>1, <3>2
  <2>4. n - 1 \in Nat /\ M = [q \in 1..(n - 1) |-> M[q]]
    BY <1>4
  <2> HIDE DEF M
  <2>5. Lists(alerts', M, n - 1)
    BY <2>2, <2>3, <2>4 DEF Lists
  <2>6. InOrder(alerts') = M
    BY <2>5, ListIsOne
  <2> QED
    BY <1>1, <1>4, <2>6 DEF M
<1>5. CASE p \notin 1..n
  <2>0. \A i \in AlertIds : alerts[i].pos < p
    BY <1>1, <1>3, <1>5
  <2>1. \A i \in AlertIds : alerts'[i] = alerts[i]
    BY <1>2, <2>0
  <2>2. InOrder(alerts') = InOrder(alerts)
    BY <2>1 DEF InOrder
  <2> QED
    BY <1>1, <1>5, <2>2
<1> QED
  BY <1>4, <1>5

LEMMA NoRowsNoList ==
  ASSUME NEW rows, \A i \in AlertIds : rows[i].pos = 0
  PROVE  InOrder(rows) = <<>>
<1>1. Lists(rows, <<>>, 0)
  BY DEF Lists
<1> QED
  BY <1>1, ListIsOne

LEMMA ListInit == WizardInit => AlertsList!Init
<1> SUFFICES ASSUME WizardInit PROVE AlertsList!Init
  OBVIOUS
<1>1. AlertsInit /\ edit = 0
  BY DEF WizardInit
<1>2. CASE alerts = [i \in AlertIds |-> NoRow]
  <2>1. InOrder(alerts) = <<>>
    BY <1>2, NoRowsNoList DEF NoRow
  <2> QED
    BY <1>1, <2>1 DEF AlertsList!Init
<1>3. ASSUME NEW i \in AlertIds, NEW k \in SUBSET Keywords,
             alerts = [j \in AlertIds |->
                         IF j = i THEN [pos |-> 1, dm |-> TRUE,
                                        filter |-> [chosen |-> [NoFilter.chosen EXCEPT !["topics"] = {General}],
                                                    keywords |-> k]]
                         ELSE NoRow]
      PROVE  \E f \in Filters : InOrder(alerts) = <<AlertsList!New(f)>>
  <2> DEFINE f == alerts[i].filter
             e == AlertsList!New(f)
  <2>1. f \in Filters
    BY <1>1, InitRows DEF RowsOK, AlertsTypeOK, Row
  <2>2. alerts[i].pos = 1 /\ \A j \in AlertIds : j # i => alerts[j].pos = 0
    BY <1>3 DEF NoRow
  <2>3. Content(alerts[i]) = e
    BY <1>3 DEF Content, AlertsList!New
  <2> HIDE DEF f, e
  <2>4. Lists(alerts, <<e>>, 1)
    <3>1. <<e>> = [q \in 1..1 |-> <<e>>[q]] /\ <<e>>[1] = e
      OBVIOUS
    <3> QED
      BY <2>2, <2>3, <3>1 DEF Lists
  <2>5. InOrder(alerts) = <<e>>
    BY <2>4, ListIsOne
  <2> QED
    BY <2>1, <2>5 DEF e
<1> QED
  BY <1>1, <1>2, <1>3 DEF AlertsInit, AlertsList!Init

LEMMA ListStep ==
  WizardInv /\ [WizardNext]_wizardVars => [AlertsList!Next]_<<InOrder(alerts), edit>>
<1> DEFINE L == InOrder(alerts)
<1> SUFFICES ASSUME WizardInv, [WizardNext]_wizardVars
             PROVE  AlertsList!Next \/ UNCHANGED <<InOrder(alerts), edit>>
  OBVIOUS
<1>0. RowsOK /\ edit \in Nat /\ draft \in Filters /\ MaxAlerts \in Nat
  BY InvRows, EditIsPosition DEF WizardInv, WizardTypeOK
<1>1. PICK n \in Nat : Lists(alerts, L, n)
  BY <1>0, ListExists
<1>2. L \in Seq(Entries) /\ Len(L) = n /\ DOMAIN L = 1..n
  BY <1>0, <1>1, ListTypes
<1>3. UNCHANGED alerts => UNCHANGED InOrder(alerts)
  OBVIOUS
<1>4. CASE UNCHANGED wizardVars \/ WizardCommands
  BY <1>3, <1>4 DEF wizardVars, wizard, WizardCommands, CmdStart, CmdSubscribe
<1>5. CASE WizardTaps /\ ~HandleSubSourceDone
  BY <1>3, <1>5 DEF WizardTaps, HandleSubTopic, HandleSubOption, HandleSubDone,
     HandleSubSeniorityDone, HandleSubLocationDone, MoveOn
<1>6. CASE HandleSubSourceDone
  <2>1. edit' = 0
    BY <1>6 DEF HandleSubSourceDone
  <2>2. CASE Write
    <3>1. CASE edit # 0
      <4>1. UpdateUserAlert(edit, draft) /\ edit \in Nat \ {0}
        BY <1>0, <2>2, <3>1 DEF Write
      <4>2. InOrder(alerts') = IF edit \in DOMAIN L THEN [L EXCEPT ![edit].filter = draft] ELSE InOrder(alerts)
        BY <1>0, <1>1, <4>1, UpdateReplaces
      <4>3. AlertsList!Finish(draft)
        BY <2>1, <3>1, <4>2 DEF AlertsList!Finish
      <4> QED
        BY <1>0, <4>3 DEF AlertsList!Next
    <3>2. CASE edit = 0
      <4>1. PICK i \in AlertIds : CreateUserAlert(i, draft)
        BY <2>2, <3>2 DEF Write
      <4>2. InOrder(alerts') = Append(L, [filter |-> draft, dm |-> TRUE])
        BY <1>0, <1>1, <4>1, CreateAppends
      <4>3. AlertsList!Finish(draft)
        BY <2>1, <3>2, <4>2 DEF AlertsList!Finish, AlertsList!New
      <4> QED
        BY <1>0, <4>3 DEF AlertsList!Next
    <3> QED
      BY <3>1, <3>2
  <2>3. CASE UNCHANGED alerts
    BY <1>3, <2>1, <2>3 DEF AlertsList!Next, AlertsList!GiveUp
  <2> QED
    BY <1>6, <2>2, <2>3 DEF HandleSubSourceDone
<1>7. ASSUME NEW p \in 1..MaxAlerts, HandleDel(p) \/ HandleUnsub(p)
      PROVE  AlertsList!Next \/ UNCHANGED <<InOrder(alerts), edit>>
  <2>1. edit' = edit /\ (DeleteUserAlert(p) \/ UNCHANGED alerts)
    BY <1>7 DEF HandleDel, HandleUnsub, Delete, wizard
  <2>2. CASE DeleteUserAlert(p)
    <3>1. InOrder(alerts') =
            IF p \in DOMAIN L THEN [q \in 1..(Len(L) - 1) |-> L[IF q < p THEN q ELSE q + 1]]
            ELSE InOrder(alerts)
      BY <1>0, <1>1, <2>2, DeleteClosesUp
    <3> QED
      BY <2>1, <3>1 DEF AlertsList!Next, AlertsList!Remove
  <2> QED
    BY <1>3, <2>1, <2>2
<1>8. ASSUME NEW p \in 1..MaxAlerts, NEW on \in BOOLEAN, HandleDm(p, on)
      PROVE  AlertsList!Next \/ UNCHANGED <<InOrder(alerts), edit>>
  <2>1. edit' = edit /\ SetAlertDmEnabled(p, on)
    BY <1>8 DEF HandleDm, wizard
  <2>2. p \in Nat \ {0}
    BY <1>0
  <2>3. InOrder(alerts') = IF p \in DOMAIN L THEN [L EXCEPT ![p].dm = on] ELSE InOrder(alerts)
    BY <1>0, <1>1, <2>1, <2>2, SetDmReplaces
  <2> QED
    BY <2>1, <2>3 DEF AlertsList!Next, AlertsList!Switch
<1>9. ASSUME NEW p \in 1..MaxAlerts, HandleEdit(p)
      PROVE  AlertsList!Next
  <2>1. p \in DOMAIN L
    BY <1>0, <1>1, <1>2, <1>9, ListTypes DEF HandleEdit, At, Stored, Lists
  <2>2. AlertsList!Edit(p)
    BY <1>3, <1>9 DEF HandleEdit, AlertsList!Edit
  <2> QED
    BY <2>1, <2>2 DEF AlertsList!Next
<1>10. CASE HandleUnsubAllConfirm
  <2>1. \A i \in AlertIds : alerts'[i].pos = 0
    BY <1>10 DEF HandleUnsubAllConfirm, DeleteAllUserAlerts, NoRow
  <2>2. InOrder(alerts') = <<>>
    BY <2>1, NoRowsNoList
  <2> QED
    BY <1>10, <2>2 DEF HandleUnsubAllConfirm, wizard, AlertsList!Next, AlertsList!Clear
<1>11. CASE WizardRestart
  BY <1>3, <1>11 DEF WizardRestart, AlertsList!Next, AlertsList!GiveUp
<1> QED
  BY <1>4, <1>5, <1>6, <1>7, <1>8, <1>9, <1>10, <1>11 DEF WizardNext, CardTaps

(* For any number of alerts, options and faults, the handlers and their    *)
(* statements implement the numbered list the user sees.                   *)
THEOREM AlertsAreAList == WizardSpec => ImplementsAlertList
<1>1. WizardInv /\ [WizardNext]_wizardVars => [AlertsList!Next]_<<InOrder(alerts), edit>>
  BY ListStep
<1> QED
  BY <1>1, ListInit, WizardInvariant, PTL DEF WizardSpec, ImplementsAlertList, AlertsList!Spec

-----------------------------------------------------------------------------
(* The records: the invariant                                              *)

(* The flag: who is owed messages is reachable, and no refusal is pending. *)
LinkInv == expects => notify /\ ~blocked /\ dm # "refused"

(* The pages shown so far cover the saved jobs down to the end of the page *)
(* shown last; without a Next button there was nothing behind it.          *)
SavedTypes ==
  /\ saved \in Seq(SaveJobs) /\ page \in Nat /\ more \in BOOLEAN
  /\ goal \subseteq Range(saved)

Covered ==
  \A i \in 1..Len(saved) : i <= page * PerPage /\ saved[i] \in goal => saved[i] \in seen

SavedInv == SavedTypes /\ (page > 0 => Covered) /\ LeafingSkipsNothing

BlacklistInv == blacklist \in [Categories -> Seq(Values)] /\ BlacklistedOnce

RecordsInv == LinkInv /\ SavedInv /\ BlacklistInv

-----------------------------------------------------------------------------
(* Direct messages                                                         *)

LEMMA LinkKeeps == ASSUME LinkInv, LinkNext PROVE LinkInv'
  BY DEF LinkInv, LinkNext, Subscribe, UserBlocks, ChangeWanted, QueueDm, CheckDm, SendDm,
         DisableUser

-----------------------------------------------------------------------------
(* Saved jobs                                                              *)

(* A job saved in front of the others moves them back by one.              *)
LEMMA Prepended ==
  ASSUME SavedTypes, NEW j \in SaveJobs, saved' = <<j>> \o saved
  PROVE  /\ saved' \in Seq(SaveJobs)
         /\ Len(saved') = Len(saved) + 1
         /\ \A i \in 2..Len(saved') : saved'[i] = saved[i - 1]
         /\ Range(saved) \subseteq Range(saved')
<1>1. <<j>> \in Seq(SaveJobs) /\ Len(<<j>>) = 1 /\ saved \in Seq(SaveJobs)
  BY DEF SavedTypes
<1>2. /\ saved' \in Seq(SaveJobs)
      /\ Len(saved') = 1 + Len(saved)
      /\ \A i \in 1..(1 + Len(saved)) : saved'[i] = IF i <= 1 THEN <<j>>[i] ELSE saved[i - 1]
  BY <1>1, ConcatProperties
<1>3. Range(saved') = Range(<<j>>) \cup Range(saved)
  BY <1>1, RangeConcatenation
<1> QED
  BY <1>1, <1>2, <1>3, LenProperties

LEMMA SaveKeeps ==
  ASSUME SavedInv, NEW j \in SaveJobs, HandleSave(j)
  PROVE  SavedInv'
<1>1. /\ saved' \in Seq(SaveJobs)
      /\ Len(saved') = Len(saved) + 1
      /\ \A i \in 2..Len(saved') : saved'[i] = saved[i - 1]
      /\ Range(saved) \subseteq Range(saved')
  BY Prepended DEF SavedInv, HandleSave
<1>2. UNCHANGED <<page, more, seen, goal>> /\ j \notin goal /\ saved'[1] = j
  BY DEF HandleSave, SavedInv, SavedTypes
<1>3. SavedTypes'
  BY <1>1, <1>2 DEF SavedInv, SavedTypes
<1>4. ASSUME page > 0, NEW i \in 1..Len(saved'), i <= page * PerPage, saved'[i] \in goal
      PROVE  saved'[i] \in seen
  <2>1. Len(saved) \in Nat /\ page * PerPage \in Nat
    BY LenProperties, RecordsAssumption DEF SavedInv, SavedTypes
  <2>2. i # 1
    BY <1>2, <1>4
  <2>3. i - 1 \in 1..Len(saved) /\ saved'[i] = saved[i - 1] /\ i - 1 <= page * PerPage
    BY <1>1, <1>4, <2>1, <2>2
  <2> QED
    BY <1>4, <2>3 DEF SavedInv, Covered
<1>5. (page > 0 => Covered)'
  BY <1>2, <1>4 DEF Covered
<1>6. LeafingSkipsNothing'
  BY <1>2 DEF SavedInv, LeafingSkipsNothing
<1> QED
  BY <1>3, <1>5, <1>6 DEF SavedInv

LEMMA Multiples ==
  ASSUME NEW a \in Nat, NEW b \in Nat, NEW c \in Nat
  PROVE  /\ a * c \in Nat
         /\ (a + 1) * c = a * c + c
         /\ a <= b => a * c <= b * c
  OBVIOUS

(* Page p holds the saved jobs behind the first p - 1 pages, as far as     *)
(* they go, and there is a Next button exactly if some are left.           *)
LEMMA PageHolds ==
  ASSUME SavedTypes, NEW p \in Nat \ {0}
  PROVE  /\ \A i \in 1..Len(saved) :
              (p - 1) * PerPage < i /\ i <= p * PerPage => saved[i] \in PageRows(p)
         /\ ~HasMore(p) => Len(saved) <= p * PerPage
<1> DEFINE before == (p - 1) * PerPage
           end == p * PerPage
           last == IF end + 1 < Len(saved) THEN end + 1 ELSE Len(saved)
           rows == SubSeq(saved, before + 1, last)
<1>1. before \in Nat /\ end \in Nat /\ end = before + PerPage /\ PerPage \in Nat \ {0}
  <2>1. p - 1 \in Nat /\ p = (p - 1) + 1 /\ PerPage \in Nat \ {0}
    BY RecordsAssumption
  <2>2. before \in Nat /\ ((p - 1) + 1) * PerPage = before + PerPage
    BY <2>1, Multiples
  <2> QED
    BY <2>1, <2>2
<1>2. Len(saved) \in Nat /\ \A i \in 1..Len(saved) : saved[i] \in SaveJobs
  BY LenProperties DEF SavedTypes
<1>3. last \in Nat /\ last <= Len(saved) /\ GetSavedJobs(p) = rows
  BY <1>1, <1>2 DEF GetSavedJobs, Limited
<1>4. /\ rows \in Seq(SaveJobs)
      /\ Len(rows) = IF before + 1 <= last THEN last - before ELSE 0
      /\ \A k \in 1..(last - before) : rows[k] = saved[before + k]
  <2>1. \A i \in (before + 1)..last : saved[i] \in SaveJobs
    BY <1>1, <1>2, <1>3
  <2>2. before + 1 \in Int /\ last \in Int
    BY <1>1, <1>3
  <2>3. /\ rows \in Seq(SaveJobs)
        /\ Len(rows) = IF before + 1 <= last THEN last - (before + 1) + 1 ELSE 0
        /\ \A k \in 1..(last - (before + 1) + 1) : rows[k] = saved[before + 1 + k - 1]
    BY <2>1, <2>2, SubSeqProperties
  <2>4. last - (before + 1) + 1 = last - before
    BY <1>1, <1>3
  <2>5. \A k \in 1..(last - before) : before + 1 + k - 1 = before + k
    BY <1>1, <1>3
  <2> QED
    BY <2>3, <2>4, <2>5
<1>5. DOMAIN rows = 1..Len(rows)
  BY <1>4, LenProperties
<1> HIDE DEF before, end, last, rows
<1>6. ASSUME NEW i \in 1..Len(saved), before < i, i <= end
      PROVE  saved[i] \in PageRows(p)
  <2> DEFINE k == i - before
  <2>1. k \in 1..PerPage
    BY <1>1, <1>2, <1>6
  <2>2. i <= last
    BY <1>1, <1>2, <1>6 DEF last
  <2>3. k \in 1..(last - before) /\ before + k = i
    BY <1>1, <1>2, <1>3, <1>6, <2>2
  <2>4. k \in DOMAIN rows /\ rows[k] = saved[i]
    BY <1>1, <1>2, <1>3, <1>4, <1>5, <2>3
  <2> QED
    BY <1>3, <2>1, <2>4 DEF PageRows
<1>7. ASSUME ~HasMore(p)
      PROVE  Len(saved) <= end
  <2>1. Len(rows) <= PerPage
    BY <1>1, <1>3, <1>4, <1>7 DEF HasMore
  <2> SUFFICES ASSUME end < Len(saved) PROVE FALSE
    BY <1>1, <1>2
  <2>2. last >= end + 1
    BY <1>1, <1>2 DEF last
  <2>3. last - before >= PerPage + 1 /\ before + 1 <= last
    BY <1>1, <1>3, <2>2
  <2> QED
    BY <1>1, <1>3, <1>4, <2>1, <2>3
<1> QED
  BY <1>6, <1>7 DEF before, end

(* A page shown next to, or before, those that were: nothing is skipped.   *)
LEMMA ShowKeeps ==
  ASSUME SavedTypes, NEW p \in Nat \ {0}, NEW old, ShowSavedPage(p, old), UNCHANGED saved,
         goal' \subseteq Range(saved),
         \A i \in 1..Len(saved) : i <= (p - 1) * PerPage /\ saved[i] \in goal' => saved[i] \in old
  PROVE  SavedInv'
<1>1. page' = p /\ more' = HasMore(p) /\ seen' = old \cup PageRows(p)
  BY DEF ShowSavedPage
<1>2. SavedTypes'
  BY <1>1 DEF SavedTypes, HasMore
<1>3. Len(saved) \in Nat /\ (p - 1) * PerPage \in Nat
  BY LenProperties, Multiples, RecordsAssumption DEF SavedTypes
<1>4. \A i \in 1..Len(saved) : i <= p * PerPage /\ saved[i] \in goal' => saved[i] \in seen'
  BY <1>1, <1>3, PageHolds
<1>5. Covered'
  BY <1>1, <1>4 DEF Covered
<1>6. ASSUME ~more' PROVE goal' \subseteq seen'
  <2>1. Len(saved) <= p * PerPage
    BY <1>1, <1>6, PageHolds
  <2>2. \A i \in 1..Len(saved) : saved[i] \in goal' => saved[i] \in seen'
    BY <1>3, <1>4, <2>1, Multiples, RecordsAssumption
  <2>3. Range(saved) = {saved[i] : i \in 1..Len(saved)}
    BY RangeEquality DEF SavedTypes
  <2> QED
    BY <2>2, <2>3
<1> QED
  BY <1>2, <1>5, <1>6 DEF SavedInv, LeafingSkipsNothing

LEMMA CmdSavedKeeps == ASSUME SavedInv, CmdSaved PROVE SavedInv'
<1>1. 1 \in Nat \ {0} /\ (1 - 1) * PerPage = 0 /\ Len(saved) \in Nat
  BY RecordsAssumption, LenProperties DEF SavedInv, SavedTypes
<1>2. \A i \in 1..Len(saved) : ~(i <= (1 - 1) * PerPage)
  BY <1>1
<1> QED
  BY <1>1, <1>2, ShowKeeps DEF CmdSaved, SavedInv

LEMMA PageKeeps ==
  ASSUME SavedInv, NEW p \in Nat \ {0}, HandleSavedPage(p)
  PROVE  SavedInv'
<1>1. page \in Nat /\ page > 0 /\ p <= page + 1 /\ UNCHANGED <<saved, goal>>
  BY DEF HandleSavedPage, SavedInv, SavedTypes
<1>2. (p - 1) * PerPage <= page * PerPage
  <2>1. p - 1 \in Nat /\ p - 1 <= page /\ PerPage \in Nat
    BY <1>1, RecordsAssumption
  <2> QED
    BY <1>1, <2>1, Multiples
<1>3. \A i \in 1..Len(saved) :
        i <= (p - 1) * PerPage /\ saved[i] \in goal' => saved[i] \in seen
  <2>1. (p - 1) * PerPage \in Nat /\ page * PerPage \in Nat /\ Len(saved) \in Nat
    BY <1>1, Multiples, RecordsAssumption, LenProperties DEF SavedInv, SavedTypes
  <2> QED
    BY <1>1, <1>2, <2>1 DEF SavedInv, Covered
<1> QED
  BY <1>1, <1>3, ShowKeeps DEF HandleSavedPage, SavedInv, SavedTypes

LEMMA SavedKeeps == ASSUME SavedInv, SavedNext PROVE SavedInv'
<1>1. CASE \E p \in 1..(Cardinality(SaveJobs) + 1) : HandleSavedPage(p)
  BY <1>1, PageKeeps
<1> QED
  BY <1>1, SaveKeeps, CmdSavedKeeps DEF SavedNext

-----------------------------------------------------------------------------
(* Blacklist                                                               *)

Distinct(s) == \A i, k \in DOMAIN s : Lower[s[i]] = Lower[s[k]] => i = k

LEMMA AddKeepsDistinct ==
  ASSUME NEW s \in Seq(Values), NEW v \in Values, Distinct(s),
         \A i \in DOMAIN s : Lower[s[i]] # Lower[v]
  PROVE  Append(s, v) \in Seq(Values) /\ Distinct(Append(s, v))
<1>1. /\ Append(s, v) \in Seq(Values)
      /\ Len(Append(s, v)) = Len(s) + 1
      /\ \A i \in 1..Len(s) : Append(s, v)[i] = s[i]
      /\ Append(s, v)[Len(s) + 1] = v
  BY AppendProperties
<1>2. DOMAIN s = 1..Len(s) /\ DOMAIN Append(s, v) = 1..Len(Append(s, v)) /\ Len(s) \in Nat
  BY <1>1, LenProperties
<1> QED
  BY <1>1, <1>2 DEF Distinct

LEMMA DropKeepsDistinct ==
  ASSUME NEW s \in Seq(Values), NEW n \in DOMAIN s, Distinct(s)
  PROVE  LET t == SubSeq(s, 1, n - 1) \o SubSeq(s, n + 1, Len(s))
         IN t \in Seq(Values) /\ Distinct(t)
<1> DEFINE front == SubSeq(s, 1, n - 1)
           back == SubSeq(s, n + 1, Len(s))
           t == front \o back
<1>1. Len(s) \in Nat /\ DOMAIN s = 1..Len(s) /\ n \in 1..Len(s)
      /\ \A i \in 1..Len(s) : s[i] \in Values
  BY LenProperties
<1>2. front \in Seq(Values) /\ Len(front) = n - 1 /\ \A i \in 1..(n - 1) : front[i] = s[i]
  <2>1. \A i \in 1..(n - 1) : s[i] \in Values
    BY <1>1
  <2>2. /\ front \in Seq(Values)
        /\ Len(front) = IF 1 <= n - 1 THEN n - 1 - 1 + 1 ELSE 0
        /\ \A i \in 1..(n - 1 - 1 + 1) : front[i] = s[1 + i - 1]
    BY <1>1, <2>1, SubSeqProperties
  <2>3. n - 1 - 1 + 1 = n - 1 /\ \A i \in 1..(n - 1) : 1 + i - 1 = i
    BY <1>1
  <2> QED
    BY <1>1, <2>2, <2>3
<1>3. /\ back \in Seq(Values) /\ Len(back) = Len(s) - n
      /\ \A i \in 1..(Len(s) - n) : back[i] = s[n + i]
  <2>1. \A i \in (n + 1)..Len(s) : s[i] \in Values
    BY <1>1
  <2>2. /\ back \in Seq(Values)
        /\ Len(back) = IF n + 1 <= Len(s) THEN Len(s) - (n + 1) + 1 ELSE 0
        /\ \A i \in 1..(Len(s) - (n + 1) + 1) : back[i] = s[n + 1 + i - 1]
    BY <1>1, <2>1, SubSeqProperties
  <2>3. Len(s) - (n + 1) + 1 = Len(s) - n /\ \A i \in 1..(Len(s) - n) : n + 1 + i - 1 = n + i
    BY <1>1
  <2> QED
    BY <1>1, <2>2, <2>3
<1>4. /\ t \in Seq(Values)
      /\ Len(t) = Len(front) + Len(back)
      /\ \A i \in 1..(Len(front) + Len(back)) :
           t[i] = IF i <= Len(front) THEN front[i] ELSE back[i - Len(front)]
  BY <1>2, <1>3, ConcatProperties
<1>5. DOMAIN t = 1..(Len(s) - 1)
  BY <1>1, <1>2, <1>3, <1>4, LenProperties
<1> HIDE DEF front, back, t
<1>6. \A i \in 1..(Len(s) - 1) : t[i] = IF i < n THEN s[i] ELSE s[i + 1]
  <2> SUFFICES ASSUME NEW i \in 1..(Len(s) - 1)
               PROVE  t[i] = IF i < n THEN s[i] ELSE s[i + 1]
    OBVIOUS
  <2>1. CASE i < n
    BY <1>1, <1>2, <1>3, <1>4, <2>1
  <2>2. CASE i >= n
    <3>1. i - (n - 1) \in 1..(Len(s) - n) /\ n + (i - (n - 1)) = i + 1
      BY <1>1, <2>2
    <3>2. i \in 1..(Len(front) + Len(back)) /\ ~(i <= Len(front)) /\ Len(front) = n - 1
      BY <1>1, <1>2, <1>3, <2>2
    <3>3. t[i] = back[i - (n - 1)]
      BY <1>4, <3>2
    <3>4. back[i - (n - 1)] = s[i + 1]
      BY <1>3, <3>1
    <3> QED
      BY <1>1, <2>2, <3>3, <3>4
  <2> QED
    BY <1>1, <2>1, <2>2
<1>7. Distinct(t)
  BY <1>1, <1>5, <1>6 DEF Distinct
<1> QED
  BY <1>4, <1>7 DEF t, front, back

LEMMA BlacklistIs ==
  BlacklistInv <=> /\ blacklist \in [Categories -> Seq(Values)]
                   /\ \A c \in Categories : Distinct(blacklist[c])
  BY DEF BlacklistInv, BlacklistedOnce, Distinct

LEMMA OneListChanges ==
  ASSUME BlacklistInv, NEW c \in Categories, NEW s \in Seq(Values), Distinct(s),
         blacklist' = [blacklist EXCEPT ![c] = s]
  PROVE  BlacklistInv'
<1>1. blacklist' \in [Categories -> Seq(Values)]
  BY DEF BlacklistInv
<1>2. \A d \in Categories : blacklist'[d] = IF d = c THEN s ELSE blacklist[d]
  BY DEF BlacklistInv
<1>3. \A d \in Categories : Distinct(blacklist'[d])
  BY <1>2, BlacklistIs
<1> QED
  BY <1>1, <1>3 DEF BlacklistInv, BlacklistedOnce, Distinct

LEMMA BlacklistKeeps == ASSUME BlacklistInv, BlacklistNext PROVE BlacklistInv'
<1>1. ASSUME NEW c \in Categories, NEW v \in Values, AddToBlacklist(c, v)
      PROVE  BlacklistInv'
  <2>1. blacklist[c] \in Seq(Values) /\ Distinct(blacklist[c])
    BY BlacklistIs
  <2>2. /\ Append(blacklist[c], v) \in Seq(Values)
        /\ Distinct(Append(blacklist[c], v))
    BY <1>1, <2>1, AddKeepsDistinct DEF AddToBlacklist
  <2> QED
    BY <1>1, <2>2, OneListChanges DEF AddToBlacklist
<1>2. ASSUME NEW c \in Categories, NEW v \in Values, RemoveFromBlacklist(c, v)
      PROVE  BlacklistInv'
  <2>1. PICK n \in DOMAIN blacklist[c] :
          blacklist' = [blacklist EXCEPT ![c] = SubSeq(@, 1, n - 1) \o SubSeq(@, n + 1, Len(@))]
    BY <1>2 DEF RemoveFromBlacklist
  <2> DEFINE s == blacklist[c]
             t == SubSeq(s, 1, n - 1) \o SubSeq(s, n + 1, Len(s))
  <2>2. s \in Seq(Values) /\ Distinct(s)
    BY BlacklistIs
  <2>3. t \in Seq(Values) /\ Distinct(t)
    BY <2>2, DropKeepsDistinct
  <2>4. blacklist' = [blacklist EXCEPT ![c] = t]
    BY <2>1
  <2> QED
    BY <2>3, <2>4, OneListChanges
<1>3. CASE ClearBlacklist
  BY <1>3 DEF ClearBlacklist, BlacklistInv, BlacklistedOnce
<1> QED
  BY <1>1, <1>2, <1>3 DEF BlacklistNext

-----------------------------------------------------------------------------
(* The records together                                                    *)

LEMMA RecordsInitInv == ASSUME RecordsInit PROVE RecordsInv
<1>1. LinkInv
  BY DEF RecordsInit, LinkInv
<1>2. SavedInv
  <2>1. saved = <<>> /\ page = 0 /\ more = FALSE /\ goal = {}
    BY DEF RecordsInit
  <2>2. SavedTypes
    <3>1. saved \in Seq(SaveJobs)
      BY <2>1, EmptySeq
    <3> QED
      BY <2>1, <3>1 DEF SavedTypes
  <2> QED
    BY <2>1, <2>2 DEF SavedInv, LeafingSkipsNothing
<1>3. BlacklistInv
  BY DEF RecordsInit, BlacklistInv, BlacklistedOnce
<1> QED
  BY <1>1, <1>2, <1>3 DEF RecordsInv

LEMMA LinkStutters == ASSUME LinkInv, UNCHANGED linkVars PROVE LinkInv'
  BY DEF LinkInv, linkVars

LEMMA SavedStutters == ASSUME SavedInv, UNCHANGED savedVars PROVE SavedInv'
  BY DEF SavedInv, SavedTypes, Covered, LeafingSkipsNothing, savedVars

LEMMA BlacklistStutters == ASSUME BlacklistInv, UNCHANGED blacklist PROVE BlacklistInv'
  BY DEF BlacklistInv, BlacklistedOnce

LEMMA RecordsStepKeeps == RecordsInv /\ [RecordsNext]_recordsVars => RecordsInv'
<1> SUFFICES ASSUME RecordsInv, [RecordsNext]_recordsVars PROVE RecordsInv'
  OBVIOUS
<1>1. LinkNext \/ UNCHANGED linkVars
  BY DEF RecordsNext, recordsVars
<1>2. SavedNext \/ UNCHANGED savedVars
  BY DEF RecordsNext, recordsVars
<1>3. BlacklistNext \/ UNCHANGED blacklist
  BY DEF RecordsNext, recordsVars
<1> QED
  BY <1>1, <1>2, <1>3, LinkKeeps, LinkStutters, SavedKeeps, SavedStutters,
     BlacklistKeeps, BlacklistStutters DEF RecordsInv

LEMMA RecordsInvHolds == RecordsSpec => []RecordsInv
<1>1. RecordsInit => RecordsInv
  BY RecordsInitInv
<1> QED
  BY <1>1, RecordsStepKeeps, PTL DEF RecordsSpec

(* Who subscribed since he last blocked the bot is notified (cmd_subscribe *)
(* against deliver_subscriber_dm_records).                                 *)
THEOREM SubscribersAreNotified == RecordsSpec => []SubscribedIsNotified
<1>1. RecordsInv => SubscribedIsNotified
  BY DEF RecordsInv, LinkInv, SubscribedIsNotified
<1> QED
  BY <1>1, RecordsInvHolds, PTL

(* Leafing through the saved jobs skips none, whatever the page size and   *)
(* however many are saved meanwhile (_show_saved_page, get_saved_jobs).    *)
THEOREM NothingSkipped == RecordsSpec => []LeafingSkipsNothing
<1>1. RecordsInv => LeafingSkipsNothing
  BY DEF RecordsInv, SavedInv
<1> QED
  BY <1>1, RecordsInvHolds, PTL

(* One name stands once in a list, however it is spelt (cmd_blacklist).    *)
THEOREM NamesStandOnce == RecordsSpec => []BlacklistedOnce
<1>1. RecordsInv => BlacklistedOnce
  BY DEF RecordsInv, BlacklistInv
<1> QED
  BY <1>1, RecordsInvHolds, PTL

-----------------------------------------------------------------------------
(* The streak                                                              *)

(* Induction from the last day down to the first.                          *)
LEMMA Downwards ==
  ASSUME NEW N \in Nat, NEW S, N + 1 \in S, \A d \in 1..N : d + 1 \in S => d \in S
  PROVE  1..(N + 1) \subseteq S
<1> DEFINE R == OpToRel(<, Nat)
           T == {n \in 0..N : N + 1 - n \notin S}
<1>1. IsWellFoundedOn(R, Nat)
  BY NatLessThanWellFounded
<1>2. \A x, y \in Nat : y < x => <<y, x>> \in R
  BY DEF OpToRel
<1>3. T \subseteq Nat
  OBVIOUS
<1> HIDE DEF R
<1>4. T = {}
  <2> SUFFICES ASSUME T # {} PROVE FALSE
    OBVIOUS
  <2>1. PICK m \in T : \A n \in T : ~(<<n, m>> \in R)
    BY <1>1, <1>3, WFMin
  <2>2. m \in 1..N
    BY <2>1
  <2>3. m - 1 \in 0..N /\ m - 1 \in Nat /\ m \in Nat /\ m - 1 < m
    BY <2>2
  <2>5. m - 1 \notin T
    BY <1>2, <2>1, <2>3
  <2>4. N + 1 - (m - 1) = (N + 1 - m) + 1 /\ N + 1 - m \in 1..N
    BY <2>2
  <2> QED
    BY <2>1, <2>3, <2>4, <2>5
<1>5. ASSUME NEW d \in 1..(N + 1) PROVE d \in S
  <2>1. N + 1 - d \in 0..N /\ N + 1 - (N + 1 - d) = d
    OBVIOUS
  <2>2. N + 1 - d \notin T
    BY <1>4
  <2>3. N + 1 - (N + 1 - d) \in S
    BY <2>1, <2>2
  <2> QED
    BY <2>1, <2>3
<1> QED
  BY <1>5

IsLoop(loop, N, days, start, step) ==
  loop = [d \in 1..(N + 1) |->
            IF d = N + 1 THEN start
            ELSE IF d \in days THEN step[<<loop[d + 1], d>>] ELSE loop[d + 1]]

(* The loops of get_streak end: what they define is a function.            *)
LEMMA LoopExists ==
  ASSUME NEW N \in Nat, NEW days, NEW St, NEW start \in St,
         NEW step \in [St \X (1..N) -> St]
  PROVE  \E loop \in [1..(N + 1) -> St] : IsLoop(loop, N, days, start, step)
<1> DEFINE Def(g, m) ==
             /\ g \in [m..(N + 1) -> St]
             /\ g = [d \in m..(N + 1) |->
                       IF d = N + 1 THEN start
                       ELSE IF d \in days THEN step[<<g[d + 1], d>>] ELSE g[d + 1]]
           S == {m \in 1..(N + 1) : \E g : Def(g, m)}
<1>1. N + 1 \in S
  <2>1. Def([d \in (N + 1)..(N + 1) |-> start], N + 1)
    OBVIOUS
  <2>2. N + 1 \in 1..(N + 1)
    OBVIOUS
  <2> HIDE DEF Def
  <2> QED
    BY <2>1, <2>2, Zenon
<1>2. ASSUME NEW m \in 1..N, m + 1 \in S PROVE m \in S
  <2>1. PICK g : Def(g, m + 1)
    BY <1>2
  <2> DEFINE top == IF m \in days THEN step[<<g[m + 1], m>>] ELSE g[m + 1]
             h == [d \in m..(N + 1) |-> IF d = m THEN top ELSE g[d]]
  <2>2. top \in St
    <3>1. <<g[m + 1], m>> \in St \X (1..N)
      BY <2>1
    <3> QED
      BY <2>1, <3>1
  <2>3. h[m] = top /\ h[m + 1] = g[m + 1]
    OBVIOUS
  <2>4. ASSUME NEW d \in m..(N + 1)
        PROVE /\ h[d] \in St
              /\ h[d] = IF d = N + 1 THEN start
                        ELSE IF d \in days THEN step[<<h[d + 1], d>>] ELSE h[d + 1]
    <3>1. CASE d = m
      <4>0. m # N + 1
        OBVIOUS
      <4>1. top = IF m \in days THEN step[<<h[m + 1], m>>] ELSE h[m + 1]
        <5> HIDE DEF h
        <5> QED
          BY <2>3
      <4> HIDE DEF h, top
      <4> QED
        BY <2>2, <2>3, <3>1, <4>0, <4>1
    <3>2. CASE d # m
      <4>1. d \in (m + 1)..(N + 1) /\ h[d] = g[d]
        BY <3>2
      <4>2. d # N + 1 => h[d + 1] = g[d + 1]
        BY <3>2
      <4>3. g[d] \in St
            /\ g[d] = IF d = N + 1 THEN start
                      ELSE IF d \in days THEN step[<<g[d + 1], d>>] ELSE g[d + 1]
        BY <2>1, <4>1
      <4> HIDE DEF h, top
      <4> QED
        BY <4>1, <4>2, <4>3
    <3> QED
      BY <3>1, <3>2
  <2>5. Def(h, m)
    BY <2>4
  <2>6. m \in 1..(N + 1)
    OBVIOUS
  <2> HIDE DEF Def, h
  <2> QED
    BY <2>5, <2>6, Zenon
<1>3. 1 \in S
  <2>1. 1 \in 1..(N + 1)
    OBVIOUS
  <2> HIDE DEF S
  <2> QED
    BY <1>1, <1>2, <2>1, Downwards
<1> QED
  BY <1>3 DEF IsLoop

CountState == [count : Int, expected : Int, broken : BOOLEAN]
CountStart(day) == [count |-> 0, expected |-> day, broken |-> FALSE]

CountLoop(a, day, loop) ==
  loop = [d \in 1..(LastDay + 1) |->
            IF d = LastDay + 1 THEN CountStart(day)
            ELSE IF d \in Days(a) THEN CountStep(loop[d + 1], d) ELSE loop[d + 1]]

LEMMA CountUnrolls ==
  ASSUME NEW a, NEW day \in Int
  PROVE  \E loop : CountLoop(a, day, loop) /\ CountFrom(a, day) = loop[1].count
<1> DEFINE step == [p \in CountState \X (1..LastDay) |-> CountStep(p[1], p[2])]
           P(loop) == loop = [d \in 1..(LastDay + 1) |->
              IF d = LastDay + 1 THEN [count |-> 0, expected |-> day, broken |-> FALSE]
              ELSE IF d \in Days(a) THEN CountStep(loop[d + 1], d) ELSE loop[d + 1]]
<1>1. LastDay \in Nat /\ CountStart(day) \in CountState
  BY RecordsAssumption DEF CountState, CountStart
<1>2. ASSUME NEW c \in CountState, NEW d \in 1..LastDay
      PROVE CountStep(c, d) \in CountState
  <2>1. [count |-> c.count + 1, expected |-> c.expected - 1, broken |-> FALSE] \in CountState
    BY DEF CountState
  <2>2. [c EXCEPT !.broken = TRUE] \in CountState
    BY DEF CountState
  <2> QED
    BY <2>1, <2>2 DEF CountStep
<1>3. step \in [CountState \X (1..LastDay) -> CountState]
  BY <1>2
<1>4. \A c \in CountState, d \in 1..LastDay : step[<<c, d>>] = CountStep(c, d)
  OBVIOUS
<1>5. CountFrom(a, day) = (CHOOSE loop : P(loop))[1].count
  BY DEF NewestFirst, CountFrom
<1> HIDE DEF step
<1>6. PICK loop \in [1..(LastDay + 1) -> CountState] :
        IsLoop(loop, LastDay, Days(a), CountStart(day), step)
  BY <1>1, <1>3, LoopExists
<1>7. P(loop)
  <2>1. \A d \in 1..(LastDay + 1) : d # LastDay + 1 =>
          d + 1 \in 1..(LastDay + 1) /\ d \in 1..LastDay
    BY <1>1
  <2>2. \A d \in 1..(LastDay + 1) : d # LastDay + 1 =>
          step[<<loop[d + 1], d>>] = CountStep(loop[d + 1], d)
    BY <1>4, <2>1
  <2> QED
    BY <1>6, <2>2 DEF CountStart, IsLoop
<1>8. P(CHOOSE g : P(g))
  <2>1. \E g : P(g)
    BY <1>7
  <2> HIDE DEF P
  <2> QED
    BY <2>1
<1>9. CountLoop(a, day, CHOOSE g : P(g))
  BY <1>8 DEF CountLoop, CountStart
<1> QED
  BY <1>5, <1>9

(* The first loop, when no day lies behind the one it starts from: it      *)
(* counts the chain that ends there.                                       *)
LEMMA Counts ==
  ASSUME NEW a, NEW day \in 0..LastDay, Days(a) \subseteq 1..day
  PROVE  LET c == CountFrom(a, day)
         IN  /\ c \in 0..day
             /\ \A d \in (day - c + 1)..day : d \in Days(a)
             /\ day - c \notin Days(a)
<1>0. LastDay \in Nat /\ day \in Int
  BY RecordsAssumption
<1>1. PICK loop : CountLoop(a, day, loop) /\ CountFrom(a, day) = loop[1].count
  BY <1>0, CountUnrolls
<1> DEFINE Inv(d) ==
             /\ loop[d] \in CountState
             /\ loop[d].count \in 0..(IF d > day THEN 0 ELSE day + 1 - d)
             /\ loop[d].expected = day - loop[d].count
             /\ \A e \in (day - loop[d].count + 1)..day : e \in Days(a)
             /\ \/ ~loop[d].broken /\ loop[d].count = (IF d > day THEN 0 ELSE day + 1 - d)
                \/ day - loop[d].count \notin Days(a) /\ day - loop[d].count >= d
           S == {d \in 1..(LastDay + 1) : Inv(d)}
<1>2. LastDay + 1 \in S
  <2>1. loop[LastDay + 1] = CountStart(day)
    BY <1>0, <1>1 DEF CountLoop
  <2>2. /\ loop[LastDay + 1] \in CountState /\ loop[LastDay + 1].count = 0
        /\ loop[LastDay + 1].expected = day /\ loop[LastDay + 1].broken = FALSE
    BY <1>0, <2>1 DEF CountStart, CountState
  <2>3. Inv(LastDay + 1)
    BY <1>0, <2>2
  <2> QED
    BY <1>0, <2>3
<1>3. ASSUME NEW d \in 1..LastDay, d + 1 \in S PROVE d \in S
  <2>1. Inv(d + 1) /\ d \in 1..(LastDay + 1) /\ d # LastDay + 1
    BY <1>0, <1>3
  <2>2. loop[d] = IF d \in Days(a) THEN CountStep(loop[d + 1], d) ELSE loop[d + 1]
    BY <1>1, <2>1 DEF CountLoop
  <2> HIDE DEF S
  <2>3. Inv(d)
    <3>1. CASE d \notin Days(a)
      BY <1>0, <2>1, <2>2, <3>1
    <3>2. CASE d \in Days(a)
      <4>1. d <= day /\ loop[d] = CountStep(loop[d + 1], d)
        BY <2>2, <3>2
      <4>2. CASE loop[d + 1].broken \/ d > loop[d + 1].expected
        <5>1. loop[d] = loop[d + 1]
          BY <4>1, <4>2 DEF CountStep
        <5> QED
          BY <1>0, <2>1, <4>1, <4>2, <5>1 DEF CountState
      <4>3. CASE ~loop[d + 1].broken /\ d = loop[d + 1].expected
        <5>1. loop[d] = [count |-> loop[d + 1].count + 1,
                         expected |-> loop[d + 1].expected - 1, broken |-> FALSE]
          BY <2>1, <4>1, <4>3 DEF CountStep, CountState
        <5>2. /\ loop[d] \in CountState /\ ~loop[d].broken
              /\ loop[d].count = loop[d + 1].count + 1
              /\ loop[d].expected = loop[d + 1].expected - 1
          BY <2>1, <4>3, <5>1 DEF CountState
        <5>3. loop[d + 1].count = day - d
          BY <1>0, <2>1, <4>1, <4>3 DEF CountState
        <5> QED
          BY <1>0, <2>1, <3>2, <4>1, <4>3, <5>2, <5>3
      <4>4. CASE ~loop[d + 1].broken /\ d < loop[d + 1].expected
        <5>1. loop[d] = [loop[d + 1] EXCEPT !.broken = TRUE]
          BY <2>1, <4>1, <4>4 DEF CountStep, CountState
        <5>2. /\ loop[d] \in CountState /\ loop[d].broken
              /\ loop[d].count = loop[d + 1].count
              /\ loop[d].expected = loop[d + 1].expected
          BY <2>1, <4>4, <5>1 DEF CountState
        <5>3. loop[d + 1].count # day - d
          BY <1>0, <2>1, <4>1, <4>4 DEF CountState
        <5> QED
          BY <1>0, <2>1, <4>1, <4>4, <5>2, <5>3
      <4> QED
        BY <1>0, <2>1, <4>2, <4>3, <4>4 DEF CountState
    <3> QED
      BY <3>1, <3>2
  <2> QED
    BY <2>1, <2>3 DEF S
<1>4. 1 \in S
  <2>1. 1 \in 1..(LastDay + 1)
    BY <1>0
  <2> HIDE DEF S
  <2> QED
    BY <1>0, <1>2, <1>3, <2>1, Downwards
<1>5. Inv(1)
  BY <1>4
<1>6. loop[1].count \in 0..day
  BY <1>0, <1>5
<1> QED
  BY <1>0, <1>1, <1>5, <1>6

RunState == [last : Nat, run : Nat, longest : Nat]
RunStart == [last |-> 0, run |-> 0, longest |-> 0]

RunLoop(a, loop) ==
  loop = [d \in 1..(LastDay + 1) |->
            IF d = LastDay + 1 THEN RunStart
            ELSE IF d \in Days(a) THEN RunStep(loop[d + 1], d) ELSE loop[d + 1]]

LEMMA RunUnrolls ==
  ASSUME NEW a
  PROVE  \E loop : RunLoop(a, loop) /\ Longest(a) = loop[1].longest
<1> DEFINE step == [p \in RunState \X (1..LastDay) |-> RunStep(p[1], p[2])]
           P(loop) == loop = [d \in 1..(LastDay + 1) |->
              IF d = LastDay + 1 THEN [last |-> 0, run |-> 0, longest |-> 0]
              ELSE IF d \in Days(a) THEN RunStep(loop[d + 1], d) ELSE loop[d + 1]]
<1>1. LastDay \in Nat /\ RunStart \in RunState
  BY RecordsAssumption DEF RunState, RunStart
<1>2. ASSUME NEW c \in RunState, NEW d \in 1..LastDay
      PROVE RunStep(c, d) \in RunState
  BY DEF RunState, RunStep, Extended
<1>3. step \in [RunState \X (1..LastDay) -> RunState]
  BY <1>2
<1>4. \A c \in RunState, d \in 1..LastDay : step[<<c, d>>] = RunStep(c, d)
  OBVIOUS
<1>5. Longest(a) = (CHOOSE loop : P(loop))[1].longest
  BY DEF NewestFirst, Longest
<1> HIDE DEF step
<1>6. PICK loop \in [1..(LastDay + 1) -> RunState] :
        IsLoop(loop, LastDay, Days(a), RunStart, step)
  BY <1>1, <1>3, LoopExists
<1>7. P(loop)
  <2>1. \A d \in 1..(LastDay + 1) : d # LastDay + 1 =>
          d + 1 \in 1..(LastDay + 1) /\ d \in 1..LastDay
    BY <1>1
  <2>2. \A d \in 1..(LastDay + 1) : d # LastDay + 1 =>
          step[<<loop[d + 1], d>>] = RunStep(loop[d + 1], d)
    BY <1>4, <2>1
  <2> QED
    BY <1>6, <2>2 DEF RunStart, IsLoop
<1>8. P(CHOOSE g : P(g))
  <2>1. \E g : P(g)
    BY <1>7
  <2> HIDE DEF P
  <2> QED
    BY <2>1
<1>9. RunLoop(a, CHOOSE g : P(g))
  BY <1>8 DEF RunLoop, RunStart
<1> QED
  BY <1>5, <1>9

Chain(a, first, last) == \A e \in first..last : e \in Days(a)

(* The second loop: no chain is longer than what it returns, and one is as *)
(* long.                                                                   *)
LEMMA Runs ==
  ASSUME NEW a, Days(a) \subseteq 1..LastDay
  PROVE  /\ Longest(a) \in Nat
         /\ \A d, e \in Days(a) : d <= e /\ Chain(a, d, e) => e - d < Longest(a)
         /\ Days(a) # {} => \E d \in Days(a) : Chain(a, d, d + Longest(a) - 1)
<1>0. LastDay \in Nat
  BY RecordsAssumption
<1>1. PICK loop : RunLoop(a, loop) /\ Longest(a) = loop[1].longest
  BY RunUnrolls
<1> DEFINE None(d) == loop[d] = RunStart /\ \A e \in Days(a) : e < d
           Some(d) ==
             /\ loop[d].last \in Days(a) /\ loop[d].last >= d
             /\ \A e \in Days(a) : e >= d => e >= loop[d].last
             /\ loop[d].run >= 1 /\ loop[d].longest >= loop[d].run
             /\ Chain(a, loop[d].last, loop[d].last + loop[d].run - 1)
             /\ loop[d].last + loop[d].run \notin Days(a)
             /\ \E e \in Days(a) : Chain(a, e, e + loop[d].longest - 1)
             /\ \A e, f \in Days(a) : d <= e /\ e <= f /\ Chain(a, e, f) => f - e < loop[d].longest
           Inv(d) == loop[d] \in RunState /\ (None(d) \/ Some(d))
           S == {d \in 1..(LastDay + 1) : Inv(d)}
<1>2. LastDay + 1 \in S
  <2>1. loop[LastDay + 1] = RunStart
    BY <1>0, <1>1 DEF RunLoop
  <2>2. loop[LastDay + 1] \in RunState /\ None(LastDay + 1)
    BY <1>0, <2>1 DEF RunStart, RunState
  <2> QED
    BY <1>0, <2>2
<1>3. ASSUME NEW d \in 1..LastDay, d + 1 \in S PROVE d \in S
  <2>1. Inv(d + 1) /\ d \in 1..(LastDay + 1) /\ d # LastDay + 1 /\ d \in Nat
    BY <1>0, <1>3
  <2>2. loop[d] = IF d \in Days(a) THEN RunStep(loop[d + 1], d) ELSE loop[d + 1]
    BY <1>1, <2>1 DEF RunLoop
  <2> HIDE DEF S
  <2>0. Days(a) \subseteq Nat
    BY <1>0
  <2>3. Inv(d)
    <3>1. CASE d \notin Days(a)
      <4>1. loop[d] = loop[d + 1] /\ \A e \in Days(a) : e >= d <=> e >= d + 1
        BY <2>0, <2>1, <2>2, <3>1
      <4>2. None(d + 1) => None(d)
        BY <2>0, <2>1, <4>1, <3>1
      <4>3. Some(d + 1) => Some(d)
        BY <2>0, <2>1, <4>1, <3>1 DEF RunState
      <4> QED
        BY <2>1, <4>1, <4>2, <4>3
    <3>2. CASE d \in Days(a)
      <4> DEFINE r == loop[d].run
      <4>1. /\ loop[d] \in RunState /\ loop[d].last = d
            /\ r = IF d = loop[d + 1].last - 1 THEN loop[d + 1].run + 1 ELSE 1
            /\ loop[d].longest = IF r > loop[d + 1].longest THEN r ELSE loop[d + 1].longest
        BY <2>1, <2>2, <3>2 DEF RunState, RunStep, Extended
      <4>2. r >= 1 /\ Chain(a, d, d + r - 1) /\ d + r \notin Days(a)
        <5>1. CASE d + 1 \in Days(a)
          <6>1. Some(d + 1) /\ loop[d + 1].last = d + 1 /\ r = loop[d + 1].run + 1
            BY <2>0, <2>1, <4>1, <5>1 DEF RunState
          <6>2. d + r = d + 1 + loop[d + 1].run /\ d + 1 + loop[d + 1].run - 1 = d + r - 1
            BY <2>1, <6>1 DEF RunState
          <6>3. d + r \notin Days(a) /\ Chain(a, d + 1, d + r - 1)
            BY <6>1, <6>2
          <6>4. r \in Nat /\ r >= 1
            BY <2>1, <6>1 DEF RunState
          <6> HIDE DEF r
          <6>5. Chain(a, d, d + r - 1)
            BY <2>1, <3>2, <6>3, <6>4 DEF Chain
          <6> QED
            BY <6>3, <6>4, <6>5
        <5>2. CASE d + 1 \notin Days(a)
          <6>1. loop[d + 1].last # d + 1
            <7>1. CASE None(d + 1)
              BY <2>1, <7>1 DEF RunStart
            <7>2. CASE Some(d + 1)
              BY <5>2, <7>2
            <7> QED
              BY <2>1, <7>1, <7>2
          <6>2. r = 1
            BY <2>1, <4>1, <6>1 DEF RunState
          <6> QED
            BY <2>1, <3>2, <5>2, <6>2 DEF Chain
        <5> QED
          BY <5>1, <5>2
      <4>3. ASSUME NEW e \in Days(a), NEW f \in Days(a), d <= e, e <= f, Chain(a, e, f)
            PROVE f - e < loop[d].longest
        <5>1. CASE e = d
          <6>1. ~(f >= d + r)
            BY <2>0, <2>1, <4>1, <4>2, <4>3, <5>1 DEF Chain, RunState
          <6> QED
            BY <2>0, <2>1, <4>1, <5>1, <6>1 DEF RunState
        <5>2. CASE e # d
          <6>1. Some(d + 1) /\ e >= d + 1
            BY <2>0, <2>1, <4>3, <5>2
          <6>2. f - e < loop[d + 1].longest
            BY <4>3, <6>1
          <6> QED
            BY <2>0, <2>1, <4>1, <6>2 DEF RunState
        <5> QED
          BY <5>1, <5>2
      <4>4. \E e \in Days(a) : Chain(a, e, e + loop[d].longest - 1)
        <5>1. CASE loop[d].longest = r
          BY <3>2, <4>2, <5>1
        <5>2. CASE loop[d].longest # r
          <6>1. loop[d].longest = loop[d + 1].longest /\ loop[d + 1].longest # 0
            BY <2>1, <4>1, <4>2, <5>2 DEF RunState
          <6>2. Some(d + 1)
            BY <2>1, <6>1 DEF RunStart
          <6> QED
            BY <6>1, <6>2
        <5> QED
          BY <5>1, <5>2
      <4>5. loop[d].longest >= r
        BY <2>1, <4>1 DEF RunState
      <4> QED
        BY <2>0, <2>1, <3>2, <4>1, <4>2, <4>3, <4>4, <4>5
    <3> QED
      BY <3>1, <3>2
  <2> QED
    BY <2>1, <2>3 DEF S
<1>4. 1 \in S
  <2>1. 1 \in 1..(LastDay + 1)
    BY <1>0
  <2> HIDE DEF S
  <2> QED
    BY <1>0, <1>2, <1>3, <2>1, Downwards
<1>5. Inv(1)
  BY <1>4
<1> QED
  BY <1>0, <1>1, <1>5 DEF RunState, RunStart

(* What /streak shows as current, in terms of days.                        *)
Anchor(a, t) == IF t \in Days(a) THEN t ELSE t - 1

LEMMA CurrentIs ==
  ASSUME NEW a, NEW t \in 1..LastDay, Days(a) \subseteq 1..t
  PROVE  /\ Anchor(a, t) \in 0..LastDay
         /\ Current(a, t) \in 0..Anchor(a, t)
         /\ \A d \in (Anchor(a, t) - Current(a, t) + 1)..Anchor(a, t) : d \in Days(a)
         /\ Anchor(a, t) - Current(a, t) \notin Days(a)
<1>0. LastDay \in Nat
  BY RecordsAssumption
<1>1. Anchor(a, t) \in 0..LastDay /\ Days(a) \subseteq 1..Anchor(a, t)
  BY <1>0 DEF Anchor
<1>2. \A d \in Days(a) : d <= t
  BY <1>0
<1>3. Current(a, t) = CountFrom(a, Anchor(a, t))
  BY <1>2 DEF Current, Anchor
<1> QED
  BY <1>1, <1>3, Counts

AppliedInv == applied \in [SaveJobs -> 0..today] /\ today \in 1..LastDay

LEMMA AppliedDays ==
  ASSUME AppliedInv PROVE Days(applied) \subseteq 1..today
  BY DEF AppliedInv, Days

LEMMA AppliedHolds == RecordsSpec => []AppliedInv
<1>1. RecordsInit => AppliedInv
  BY RecordsAssumption DEF RecordsInit, AppliedInv
<1>2. ASSUME AppliedInv, [RecordsNext]_recordsVars PROVE AppliedInv'
  <2>1. CASE UNCHANGED appliedVars
    BY <1>2, <2>1 DEF AppliedInv, appliedVars
  <2>2. CASE Midnight
    BY <1>2, <2>2, RecordsAssumption DEF AppliedInv, Midnight
  <2>3. ASSUME NEW j \in SaveJobs, HandleApplied(j) PROVE AppliedInv'
    BY <1>2, <2>3 DEF AppliedInv, HandleApplied
  <2> QED
    BY <1>2, <2>1, <2>2, <2>3 DEF RecordsNext, AppliedNext, recordsVars
<1> QED
  BY <1>1, <1>2, PTL DEF RecordsSpec

(* The numbers of /streak are chains of days, for any number of jobs and   *)
(* days: what the two loops of get_streak compute is what its docstring    *)
(* says.                                                                   *)
THEOREM StreaksAreChains == RecordsSpec => []StreakIsAChain
<1>1. ASSUME AppliedInv PROVE StreakIsAChain
  <2> DEFINE D == Days(applied)
             k == Anchor(applied, today)
             c == Current(applied, today)
             C == {d \in 1..k : d..k \subseteq D}
  <2>0. LastDay \in Nat /\ today \in 1..LastDay /\ D \subseteq 1..today /\ D \subseteq 1..LastDay
    BY <1>1, AppliedDays, RecordsAssumption DEF AppliedInv
  <2>1. /\ k \in 0..LastDay /\ c \in 0..k
        /\ \A d \in (k - c + 1)..k : d \in D
        /\ k - c \notin D
    BY <2>0, CurrentIs
  <2>2. C = (k - c + 1)..k
    <3> HIDE DEF D, k, c
    <3> QED
      BY <2>0, <2>1
  <2>3. Cardinality((k - c + 1)..k) = c
    <3> HIDE DEF k, c
    <3>1. k \in Int /\ k - c + 1 \in Int /\ c \in Nat
      BY <2>0, <2>1
    <3>2. Cardinality((k - c + 1)..k) = IF k - c + 1 > k THEN 0 ELSE k - (k - c + 1) + 1
      BY <3>1, FS_Interval
    <3> QED
      BY <3>1, <3>2
  <2>4. c = Cardinality(C)
    BY <2>2, <2>3
  <2>5. /\ \A d, e \in D : d <= e /\ d..e \subseteq D => e - d < Longest(applied)
        /\ D # {} => \E d \in D : d..(d + Longest(applied) - 1) \subseteq D
    BY <2>0, Runs DEF Chain
  <2> QED
    BY <2>4, <2>5 DEF StreakIsAChain, Days, Anchor
<1> QED
  BY <1>1, AppliedHolds, PTL

(* A streak is lost only by a missed day, for any number of jobs and days. *)
THEOREM StreaksLastUntilAMissedDay == RecordsSpec => StreakLostByAMissedDay
<1>1. ASSUME AppliedInv, AppliedInv', [RecordsNext]_recordsVars
      PROVE [Current(applied', today') < Current(applied, today)
               => today' > today /\ \A j \in SaveJobs : applied[j] # today]_appliedVars
  <2> DEFINE D == Days(applied)
             E == Days(applied')
             k == Anchor(applied, today)
             c == Current(applied, today)
             m == Anchor(applied', today')
             n == Current(applied', today')
  <2>0. /\ LastDay \in Nat /\ today \in 1..LastDay /\ D \subseteq 1..today
        /\ today' \in 1..LastDay /\ E \subseteq 1..today'
    BY <1>1, RecordsAssumption DEF AppliedInv, Days
  <2>1. /\ k \in 0..LastDay /\ c \in 0..k
        /\ \A d \in (k - c + 1)..k : d \in D
        /\ k - c \notin D
    BY <2>0, CurrentIs
  <2>2. /\ m \in 0..LastDay /\ n \in 0..m
        /\ \A d \in (m - n + 1)..m : d \in E
        /\ m - n \notin E
    BY <2>0, CurrentIs
  <2>3. CASE Midnight
    <3>1. CASE today \in D
      <4>1. E = D /\ k = today /\ m = today
        BY <1>1, <2>0, <2>3, <3>1 DEF Midnight, Anchor
      <4>2. n >= c
        <5> HIDE DEF D, E, k, c, m, n
        <5> QED
          BY <2>0, <2>1, <2>2, <4>1
      <4> HIDE DEF n, c
      <4> QED
        BY <2>1, <2>2, <4>2 DEF n, c
    <3>2. CASE today \notin D
      <4>1. \A j \in SaveJobs : applied[j] # today
        BY <2>0, <3>2 DEF Days
      <4> QED
        BY <1>1, <2>0, <2>3, <4>1 DEF Midnight
    <3> QED
      BY <3>1, <3>2
  <2>4. ASSUME NEW j \in SaveJobs, HandleApplied(j) PROVE n >= c
    <3>1. today' = today /\ E = D \cup {today}
      BY <1>1, <2>0, <2>4 DEF HandleApplied, AppliedInv, Days
    <3>2. m = today /\ (k = today \/ k = today - 1)
      BY <3>1 DEF Anchor
    <3> HIDE DEF D, E, k, c, m, n
    <3> QED
      BY <2>0, <2>1, <2>2, <3>1, <3>2
  <2>5. c \in Int /\ n \in Int
    <3> HIDE DEF k, c, m, n
    <3> QED
      BY <2>0, <2>1, <2>2
  <2>6. CASE \E j \in SaveJobs : HandleApplied(j)
    <3>1. n >= c
      BY <2>4, <2>6
    <3> QED
      BY <2>5, <3>1
  <2>7. CASE UNCHANGED appliedVars
    BY <2>7
  <2> QED
    BY <1>1, <2>3, <2>6, <2>7 DEF RecordsNext, AppliedNext, recordsVars
<1> QED
  BY <1>1, AppliedHolds, PTL DEF RecordsSpec, StreakLostByAMissedDay

-----------------------------------------------------------------------------
(* Geography                                                               *)

(* EG and SA are the first countries that are looked for.                  *)
LEMMA FirstCountries ==
  /\ Len(CountryOrder) = 36
  /\ CountryOrder[1] = "EG" /\ CountryOrder[2] = "SA"
  /\ \A i \in 2..36 : CountryOrder[i] # "EG"
  /\ \A i \in 1..36 : CountryOrder[i] # ""
  BY DEF CountryOrder

LEMMA LeastNatural ==
  ASSUME NEW T \in SUBSET Nat, T # {}
  PROVE  \E x \in T : \A y \in T : x <= y
<1> DEFINE R == OpToRel(<, Nat)
<1>1. IsWellFoundedOn(R, Nat)
  BY NatLessThanWellFounded
<1>2. \A x, y \in Nat : <<y, x>> \in R <=> y < x
  BY DEF OpToRel
<1> HIDE DEF R
<1>3. PICK x \in T : \A y \in T : ~(<<y, x>> \in R)
  BY <1>1, WFMin
<1>4. \A y \in T : x <= y
  <2> SUFFICES ASSUME NEW y \in T PROVE x <= y
    OBVIOUS
  <2>1. x \in Nat /\ y \in Nat /\ ~(y < x)
    BY <1>2, <1>3
  <2> QED
    BY <2>1
<1> QED
  BY <1>4

(* detect_country on a text with these countries in it.                    *)
LEMMA FirstCountryIs ==
  ASSUME NEW found
  PROVE  LET c == FirstIn(CountryOrder, found, "")
         IN /\ c = "EG" <=> "EG" \in found
            /\ "SA" \in found => c \in {"EG", "SA"}
<1> DEFINE at == SelectInSeq(CountryOrder, LAMBDA x : x \in found)
           hits == {i \in 1..Len(CountryOrder) : CountryOrder[i] \in found}
           c == FirstIn(CountryOrder, found, "")
<1>1. at = IF hits # {} THEN Min(hits) ELSE 0
  BY DEF SelectInSeq
<1>2. c = IF at = 0 THEN "" ELSE CountryOrder[at]
  BY DEF FirstIn
<1>3. /\ hits = {i \in 1..36 : CountryOrder[i] \in found}
      /\ CountryOrder[1] = "EG" /\ CountryOrder[2] = "SA"
      /\ \A i \in 1..36 : CountryOrder[i] # ""
  BY FirstCountries
<1>3a. \A i : i \in hits <=> i \in 1..36 /\ CountryOrder[i] \in found
  BY <1>3, Zenon
<1>3b. 1 \in 1..36 /\ 2 \in 1..36 /\ 0 \notin 1..36
  OBVIOUS
<1> HIDE DEF at, hits, c
<1>4. ASSUME hits # {}
      PROVE  /\ at \in hits /\ at \in 1..36 /\ at # 0
             /\ \A i \in hits : at <= i
             /\ c = CountryOrder[at] /\ c \in found
  <2>1. hits \in SUBSET Nat
    <3>1. \A i \in 1..36 : i \in Nat
      OBVIOUS
    <3> QED
      BY <1>3a, <3>1, Zenon
  <2>2. \E x \in hits : \A y \in hits : x <= y
    BY <1>4, <2>1, LeastNatural
  <2>3. Min(hits) \in hits /\ \A y \in hits : Min(hits) <= y
    BY <2>2 DEF Min
  <2>4. at \in hits /\ \A i \in hits : at <= i
    BY <1>1, <1>4, <2>3
  <2>5. at \in 1..36 /\ CountryOrder[at] \in found
    BY <1>3a, <2>4, Zenon
  <2>6. at # 0
    BY <1>3b, <2>5, Zenon
  <2> QED
    BY <1>2, <2>4, <2>5, <2>6, Zenon
<1>5. CASE "EG" \in found
  <2>1. 1 \in hits
    BY <1>3, <1>3a, <1>3b, <1>5, Zenon
  <2>2. hits # {}
    BY <2>1, Zenon
  <2>3. at <= 1 /\ at \in 1..36
    BY <1>4, <2>1, <2>2, Zenon
  <2>4. at = 1
    BY <2>3
  <2>5. c = "EG"
    BY <1>3, <1>4, <2>2, <2>4, Zenon
  <2> QED
    BY <1>5, <2>5 DEF c
<1>6. CASE "EG" \notin found /\ hits = {}
  <2>1. c = ""
    BY <1>1, <1>2, <1>6, Zenon
  <2>2. "SA" \notin found
    BY <1>3, <1>3a, <1>3b, <1>6, Zenon
  <2> QED
    BY <1>6, <2>1, <2>2 DEF c
<1>7. CASE "EG" \notin found /\ hits # {}
  <2>1. c # "EG"
    BY <1>4, <1>7, Zenon
  <2>2. ASSUME "SA" \in found PROVE c = "SA"
    <3>1. 2 \in hits
      BY <1>3, <1>3a, <1>3b, <2>2, Zenon
    <3>2. 1 \notin hits
      BY <1>3, <1>3a, <1>7, Zenon
    <3>3. at <= 2 /\ at # 1 /\ at \in 1..36
      BY <1>4, <1>7, <3>1, <3>2, Zenon
    <3>4. at = 2
      BY <3>3
    <3> QED
      BY <1>3, <1>4, <1>7, <3>4, Zenon
  <2> QED
    BY <1>7, <2>1, <2>2 DEF c
<1> QED
  BY <1>5, <1>6, <1>7

(* The geographic topics come from the text the country comes from; the    *)
(* topics of keywords and the fallback are others.                         *)
LEMMA TopicsOfPlace ==
  ASSUME NEW o \in Offers
  PROVE  /\ "egypt" \in RouteTopics(o) <=> "EG" \in o.place
         /\ "saudi" \in RouteTopics(o) <=> "SA" \in o.place
         /\ GeoTopics(o) # {} => "EG" \in o.place \/ "SA" \in o.place
<1>1. DOMAIN PlaceOf = {"egypt", "saudi"} /\ PlaceOf["egypt"] = "EG" /\ PlaceOf["saudi"] = "SA"
  BY DEF PlaceOf
<1>2. /\ "egypt" \in GeoTopics(o) <=> "EG" \in o.place
      /\ "saudi" \in GeoTopics(o) <=> "SA" \in o.place
      /\ GeoTopics(o) \subseteq {"egypt", "saudi"}
  BY <1>1 DEF GeoTopics
<1>3. "egypt" \notin o.fields /\ "saudi" \notin o.fields
  <2>1. "egypt" \notin KeywordTopics /\ "saudi" \notin KeywordTopics
    BY DEF KeywordTopics
  <2> QED
    BY <2>1, OffersAssumption
<1>4. \A t \in {"egypt", "saudi"} : t \in RouteTopics(o) <=> t \in GeoTopics(o)
  BY <1>3 DEF RouteTopics
<1> QED
  BY <1>2, <1>4

Enriched ==
  /\ offer \in Offers
  /\ job.topics = RouteTopics(offer)
  /\ offer.country = "" => job.country = DetectCountry(offer)

RulesInv ==
  /\ stage \in {"none", "fetched", "enriched", "kept", "dropped", "queued", "unmatched"}
  /\ stage = "fetched" => offer \in Offers /\ job.country = offer.country
  /\ stage \in {"enriched", "kept", "queued", "unmatched"} => Enriched
  /\ stage \in {"kept", "queued", "unmatched"} => PassesGeoFilter(offer)
  /\ stage = "queued" => MatchesLocations(alert)

LEMMA RulesStepKeeps == RulesInv /\ [RulesNext]_rulesVars => RulesInv'
<1> SUFFICES ASSUME RulesInv, [RulesNext]_rulesVars PROVE RulesInv'
  OBVIOUS
<1>1. CASE Fetched
  BY <1>1 DEF Fetched, RulesInv
<1>2. CASE EnrichJob
  <2>1. /\ stage' = "enriched" /\ offer' = offer /\ offer \in Offers
        /\ job'.topics = RouteTopics(offer)
        /\ job'.country = IF job.country = "" THEN DetectCountry(offer) ELSE job.country
        /\ job.country = offer.country
    BY <1>2 DEF EnrichJob, RulesInv
  <2>2. Enriched'
    BY <2>1 DEF Enriched
  <2> QED
    BY <2>1, <2>2 DEF RulesInv
<1>3. CASE FilterJobs
  <2>1. stage' \in {"kept", "dropped"} /\ (stage' = "kept" => PassesGeoFilter(offer))
        /\ UNCHANGED <<offer, job, alert>> /\ Enriched
    BY <1>3 DEF FilterJobs, RulesInv
  <2>2. Enriched' /\ (stage' = "kept" => PassesGeoFilter(offer'))
    BY <2>1 DEF Enriched
  <2> QED
    BY <2>1, <2>2 DEF RulesInv
<1>4. CASE QueueForSubscriber
  <2>1. /\ stage' \in {"queued", "unmatched"} /\ UNCHANGED <<offer, job>>
        /\ Enriched /\ PassesGeoFilter(offer)
        /\ stage' = "queued" => JobMatchesAlert(alert')
    BY <1>4 DEF QueueForSubscriber, RulesInv
  <2>2. Enriched' /\ PassesGeoFilter(offer')
    BY <2>1 DEF Enriched
  <2>3. stage' = "queued" => MatchesLocations(alert)'
    BY <2>1 DEF JobMatchesAlert, MatchesLocations
  <2> QED
    BY <2>1, <2>2, <2>3 DEF RulesInv
<1>5. CASE UNCHANGED rulesVars
  BY <1>5 DEF RulesInv, Enriched, MatchesLocations, rulesVars
<1> QED
  BY <1>1, <1>2, <1>3, <1>4, <1>5 DEF RulesNext

LEMMA RulesImply == ASSUME RulesInv PROVE GeographyAgrees
<1> DEFINE onsite == offer.source \notin RemoteOnly /\ ~IsRemote(offer)
<1> SUFFICES ASSUME stage \in {"kept", "queued", "unmatched"}, offer.country = ""
             PROVE  /\ "egypt" \in job.topics <=> job.country = "EG"
                    /\ "saudi" \in job.topics => job.country \in {"EG", "SA"}
                    /\ onsite => job.country \in {"EG", "SA"}
                    /\ (onsite /\ stage = "queued" /\ alert.locations # {}) =>
                         job.country \in alert.locations
  BY DEF GeographyAgrees
<1>1. Enriched /\ PassesGeoFilter(offer)
  BY DEF RulesInv
<1>2. /\ job.country = "EG" <=> "EG" \in offer.place
      /\ "SA" \in offer.place => job.country \in {"EG", "SA"}
  BY <1>1, FirstCountryIs DEF Enriched, DetectCountry
<1>3. /\ "egypt" \in job.topics <=> "EG" \in offer.place
      /\ "saudi" \in job.topics <=> "SA" \in offer.place
      /\ GeoTopics(offer) # {} => "EG" \in offer.place \/ "SA" \in offer.place
  BY <1>1, TopicsOfPlace DEF Enriched
<1>4. onsite => GeoTopics(offer) # {}
  BY <1>1 DEF PassesGeoFilter
<1>5. (onsite /\ stage = "queued" /\ alert.locations # {}) => job.country \in alert.locations
  BY DEF RulesInv, MatchesLocations, IsRemote
<1> QED
  BY <1>2, <1>3, <1>4, <1>5

(* Topics, country and geographic filter agree on every job that is kept,  *)
(* and an on-site job is only sent to who asked for its country            *)
(* (enrich_job, passes_geo_filter, job_matches_alert).                     *)
THEOREM GeographyHolds == RulesSpec => []GeographyAgrees
<1>1. RulesInit => RulesInv
  BY DEF RulesInit, RulesInv
<1>2. RulesInv => GeographyAgrees
  BY RulesImply
<1> QED
  BY <1>1, <1>2, RulesStepKeeps, PTL DEF RulesSpec
=============================================================================
