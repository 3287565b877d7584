------------------------------ MODULE AlertList ------------------------------
(***************************************************************************)
(* What the bot promises of a subscriber's alerts: a numbered list, no     *)
(* rows, no positions to re-pack, no keyboards, no errors.                 *)
(*                                                                         *)
(*   - a new alert comes last, with direct messages on;                    *)
(*   - a removed one makes those behind it move up, in their order, and    *)
(*     changes nothing else of them;                                       *)
(*   - an edit replaces what one alert looks for, once, and leaves its     *)
(*     direct messages as they are.                                        *)
(*                                                                         *)
(* An edit knows its alert by the number it had, so removing an alert in   *)
(* between makes it hit the next one, or none.                             *)
(***************************************************************************)
EXTENDS Naturals, Sequences

CONSTANT Filters

VARIABLES
  list,      \* list[p]: alert number p
  editing    \* the number under edit, 0 for a new alert

New(f) == [filter |-> f, dm |-> TRUE]

Init ==
  /\ list = <<>> \/ \E f \in Filters : list = <<New(f)>>
  /\ editing = 0

Edit(p) == editing' = p /\ UNCHANGED list

Finish(f) ==
  /\ editing' = 0
  /\ list' = IF editing = 0 THEN Append(list, New(f))
             ELSE IF editing \in DOMAIN list THEN [list EXCEPT ![editing].filter = f]
             ELSE list

GiveUp == editing' = 0 /\ UNCHANGED list

Switch(p, on) ==
  /\ UNCHANGED editing
  /\ list' = [list EXCEPT ![p].dm = on]

Remove(p) ==
  /\ UNCHANGED editing
  /\ list' = [q \in 1..(Len(list) - 1) |-> list[IF q < p THEN q ELSE q + 1]]

Clear == UNCHANGED editing /\ list' = <<>>

Next ==
  \/ GiveUp \/ Clear
  \/ \E p \in DOMAIN list : Edit(p) \/ Remove(p) \/ \E on \in BOOLEAN : Switch(p, on)
  \/ \E f \in Filters : Finish(f)

Spec == Init /\ [][Next]_<<list, editing>>
=============================================================================
