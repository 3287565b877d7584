----------------------------- MODULE UserAlerts -----------------------------
(***************************************************************************)
(* The alerts of one subscriber: the rows of user_alerts                   *)
(* (postgres/migrations/005_user_alerts.sql) that carry the user's id, and *)
(* one operator per statement of core/db.py on them.  Every statement      *)
(* names the user, so users do not interfere and one stands for all.       *)
(*                                                                         *)
(* Handlers and keyboards name an alert by its 1-based position, never by  *)
(* its id; deleting one moves those behind it up.                          *)
(***************************************************************************)
EXTENDS Integers, FiniteSets

CONSTANTS
  AlertIds,     \* ids the SERIAL column may hand out
  MaxAlerts,    \* bound on the alerts stored at once
  Options,      \* Options[s]: what wizard step s offers
  Keywords,     \* keywords and min_salary, which no wizard step asks for
  General       \* the topic "general": every job

Steps == {"topics", "seniority", "locations", "sources"}

ASSUME AlertAssumption ==
  /\ MaxAlerts \in Nat \ {0}
  /\ DOMAIN Options = Steps /\ General \in Options["topics"]

VARIABLE alerts   \* alerts[i]: the row with id i

Selections == {c \in [Steps -> SUBSET UNION {Options[s] : s \in Steps}] :
                 \A s \in Steps : c[s] \subseteq Options[s]}
Filters == [chosen : Selections, keywords : SUBSET Keywords]
NoFilter == [chosen |-> [s \in Steps |-> {}], keywords |-> {}]

(* A position of 0 stands for "no such row".                               *)
Row == [pos : 0..MaxAlerts, filter : Filters, dm : BOOLEAN]
NoRow == [pos |-> 0, filter |-> NoFilter, dm |-> FALSE]

Stored == {i \in AlertIds : alerts[i].pos > 0}
At(p) == {i \in Stored : alerts[i].pos = p}
Behind(p) == {i \in Stored : alerts[i].pos > p}

(* COALESCE(MAX(position), 0) + 1                                          *)
IsNextPosition(p) ==
  /\ p \in 1..MaxAlerts
  /\ \A i \in Stored : alerts[i].pos < p
  /\ p > 1 => \E i \in Stored : alerts[i].pos = p - 1

CreateAtFirst(i, f) ==   \* mutant: the position is not computed from the rows
  /\ alerts[i].pos = 0
  /\ alerts' = [alerts EXCEPT ![i] = [pos |-> 1, filter |-> f, dm |-> TRUE]]

CreateUserAlert(i, f) ==
  /\ alerts[i].pos = 0
  /\ \E p \in 1..MaxAlerts :
       /\ IsNextPosition(p)
       /\ alerts' = [alerts EXCEPT ![i] = [pos |-> p, filter |-> f, dm |-> TRUE]]

(* A position nobody has any more updates nothing.                         *)
UpdateUserAlert(p, f) ==
  alerts' = [i \in AlertIds |-> IF i \in At(p) THEN [alerts[i] EXCEPT !.filter = f]
                                ELSE alerts[i]]

SetAlertDmEnabled(p, on) ==
  alerts' = [i \in AlertIds |-> IF i \in At(p) THEN [alerts[i] EXCEPT !.dm = on]
                                ELSE alerts[i]]

DeleteAndSwap(p) ==   \* mutant: the last alert takes the free position
  alerts' = [i \in AlertIds |->
               IF i \in At(p) THEN NoRow
               ELSE IF i \in Behind(p) /\ Behind(alerts[i].pos) = {}
                    THEN [alerts[i] EXCEPT !.pos = p]
                    ELSE alerts[i]]

DeleteUserAlert(p) ==
  alerts' = [i \in AlertIds |->
               IF i \in At(p) THEN NoRow
               ELSE IF i \in Behind(p) THEN [alerts[i] EXCEPT !.pos = @ - 1]
               ELSE alerts[i]]

(* The unique constraint is checked row by row.  With two rows to move, an *)
(* UPDATE that comes to the one further back first finds the position it   *)
(* needs still taken, and the whole transaction is rolled back.            *)
RepackCanFail(p) == At(p) # {} /\ \E i, j \in Behind(p) : i # j

DeleteAllUserAlerts ==
  alerts' = [i \in AlertIds |-> NoRow]

(* A new user, or one whose subscription migration 005 copied.             *)
AlertsInit ==
  \/ alerts = [i \in AlertIds |-> NoRow]
  \/ \E i \in AlertIds, k \in SUBSET Keywords :
       alerts = [j \in AlertIds |->
                   IF j = i THEN [pos |-> 1, dm |-> TRUE,
                                  filter |-> [chosen |-> [NoFilter.chosen EXCEPT !["topics"] = {General}],
                                              keywords |-> k]]
                   ELSE NoRow]

AlertsTypeOK == alerts \in [AlertIds -> Row]

(* Positions are 1, 2, ... without a gap and without a tie, whatever was   *)
(* created and deleted in between: the buttons and the "#n" of every       *)
(* message rely on it (delete_user_alert, core/db.py).                     *)
PositionsPacked ==
  /\ \A i, j \in Stored : alerts[i].pos = alerts[j].pos => i = j
  /\ \A i \in Stored : alerts[i].pos > 1 =>
       \E j \in Stored : alerts[j].pos = alerts[i].pos - 1
=============================================================================
