----------------------------- MODULE UserRecords -----------------------------
(***************************************************************************)
(* What the bot keeps of a user beside the alerts: the notify_dm flag of   *)
(* users, saved jobs and their pages, applications and the streak, and the *)
(* blacklist (core/db.py, bot/commands.py, bot/callbacks.py).              *)
(*                                                                         *)
(* The four parts share no table column, so each has its variables and a   *)
(* next-state relation of its own and RecordsNext interleaves them.        *)
(* Handlers run one at a time; the delivery worker of the first part and   *)
(* the calendar of the third run beside them.                              *)
(***************************************************************************)
EXTENDS Integers, SequencesExt

CONSTANTS
  SaveJobs,    \* jobs a user may save or apply to
  PerPage,     \* saved jobs on a page (5)
  LastDay,     \* bound on the calendar
  Values,      \* what /blacklist may be given
  Lower        \* Lower[v]: v.lower()

ASSUME RecordsAssumption ==
  PerPage \in Nat \ {0} /\ LastDay \in Nat \ {0} /\ DOMAIN Lower = Values

VARIABLES
  notify,    \* users.notify_dm
  blocked,   \* the user has blocked the bot
  dm,        \* a direct message on its way to the user
  wanted,    \* some alert with DMs on lets the job pass, and no blacklist entry stops it
  expects,   \* a /subscribe was answered since the user last blocked (history)
  saved,     \* the user's saved jobs, newest first
  page,      \* the page of saved jobs shown last, 0 before the first
  more,      \* that page has a Next button
  seen,      \* jobs shown since the user sent /saved (history)
  goal,      \* jobs that were saved when he did (history)
  applied,   \* applied[j]: the UTC day of the application, 0 without one
  today,     \* the UTC day
  blacklist  \* blacklist[c]: the entries of category c, in their order

linkVars == <<notify, blocked, dm, wanted, expects>>
savedVars == <<saved, page, more, seen, goal>>
appliedVars == <<applied, today>>
recordsVars == <<linkVars, savedVars, appliedVars, blacklist>>

Categories == {"companies", "keywords"}

RecordsInit ==
  /\ notify = TRUE /\ blocked = FALSE /\ dm = "none" /\ wanted = FALSE /\ expects = FALSE
  /\ saved = <<>> /\ page = 0 /\ more = FALSE /\ seen = {} /\ goal = {}
  /\ applied = [j \in SaveJobs |-> 0] /\ today = 1
  /\ blacklist = [c \in Categories |-> <<>>]

-----------------------------------------------------------------------------
(* Direct messages and users.notify_dm                                     *)

SubscribeKeepsMuted ==   \* mutant: the recovery of notify_dm is missing
  /\ ~blocked
  /\ expects' = (dm # "refused")
  /\ UNCHANGED <<notify, blocked, dm, wanted>>

(* Before the wizard starts, /subscribe turns DMs on again.                *)
Subscribe ==
  /\ ~blocked
  /\ notify' = TRUE
  /\ expects' = (dm # "refused")
  /\ UNCHANGED <<blocked, dm, wanted>>

UserBlocks ==
  /\ blocked' = ~blocked
  /\ expects' = (expects /\ blocked)
  /\ UNCHANGED <<notify, dm, wanted>>

(* The handlers of AlertWizard and /blacklist change what he wants.        *)
ChangeWanted ==
  /\ ~blocked
  /\ wanted' = ~wanted
  /\ UNCHANGED <<notify, blocked, dm, expects>>

QueueDm ==
  /\ dm = "none" /\ notify /\ wanted
  /\ dm' = "queued"
  /\ UNCHANGED <<notify, blocked, wanted, expects>>

(* Alerts and blacklist are read again before sending; notify_dm is not.   *)
CheckDm ==
  /\ dm = "queued"
  /\ dm' = IF wanted THEN "sending" ELSE "none"
  /\ UNCHANGED <<notify, blocked, wanted, expects>>

SendDm ==
  /\ dm = "sending"
  /\ dm' = IF blocked THEN "refused" ELSE "none"
  /\ UNCHANGED <<notify, blocked, wanted, expects>>

(* The permanent error is written down a moment after Telegram gave it.    *)
DisableUser ==
  /\ dm = "refused"
  /\ notify' = FALSE /\ dm' = "none"
  /\ UNCHANGED <<blocked, wanted, expects>>

LinkNext ==
  Subscribe \/ UserBlocks \/ ChangeWanted \/ QueueDm \/ CheckDm \/ SendDm \/ DisableUser

-----------------------------------------------------------------------------
(* Saved jobs                                                              *)

(* ON CONFLICT DO NOTHING: a second tap saves nothing.                     *)
HandleSave(j) ==
  /\ j \notin Range(saved)
  /\ saved' = <<j>> \o saved
  /\ UNCHANGED <<page, more, seen, goal>>

Limited(from, to) == SubSeq(saved, from, IF to < Len(saved) THEN to ELSE Len(saved))

SavedFromPageZero(p) ==   \* mutant: the offset is counted from page 0
  Limited(p * PerPage + 1, p * PerPage + PerPage + 1)

(* LIMIT per_page + 1 OFFSET (page - 1) * per_page                         *)
GetSavedJobs(p) == Limited((p - 1) * PerPage + 1, p * PerPage + 1)

(* saved[:per_page]                                                        *)
PageRows(p) == {GetSavedJobs(p)[i] : i \in DOMAIN GetSavedJobs(p) \cap 1..PerPage}

HasMore(p) == Len(GetSavedJobs(p)) > PerPage

ShowSavedPage(p, before) ==
  /\ page' = p
  /\ more' = HasMore(p)
  /\ seen' = before \cup PageRows(p)

CmdSaved ==
  /\ ShowSavedPage(1, {})
  /\ goal' = Range(saved)
  /\ UNCHANGED saved

(* Next of the page shown last, or any Prev and Next above it.             *)
HandleSavedPage(p) ==
  /\ page > 0 /\ p <= page + (IF more THEN 1 ELSE 0)
  /\ ShowSavedPage(p, seen)
  /\ UNCHANGED <<saved, goal>>

SavedNext ==
  \/ \E j \in SaveJobs : HandleSave(j)
  \/ CmdSaved
  \/ \E p \in 1..(Cardinality(SaveJobs) + 1) : HandleSavedPage(p)

-----------------------------------------------------------------------------
(* Applications                                                            *)

HandleApplied(j) ==
  /\ applied[j] = 0
  /\ applied' = [applied EXCEPT ![j] = today]
  /\ UNCHANGED today

Midnight ==
  /\ today < LastDay
  /\ today' = today + 1
  /\ UNCHANGED applied

(* get_streak: DISTINCT days of applications, and its loops over them, the *)
(* newest day first; in the first loop expected is the next day to find,   *)
(* and a day before it breaks off.                                         *)
Days(a) == {a[j] : j \in SaveJobs} \ {0}

NewestFirst(days, start, Step(_, _)) ==
  LET loop[d \in 1..(LastDay + 1)] ==
        IF d = LastDay + 1 THEN start
        ELSE IF d \in days THEN Step(loop[d + 1], d) ELSE loop[d + 1]
  IN loop[1]

CountStep(acc, d) ==
  IF acc.broken \/ d > acc.expected THEN acc
  ELSE IF d = acc.expected
       THEN [count |-> acc.count + 1, expected |-> acc.expected - 1, broken |-> FALSE]
  ELSE [acc EXCEPT !.broken = TRUE]

CountFrom(a, day) ==
  NewestFirst(Days(a), [count |-> 0, expected |-> day, broken |-> FALSE], CountStep).count

CurrentFromToday(a, t) == CountFrom(a, t)   \* mutant: a day without an application so far ends it

(* days[0] == today                                                        *)
Current(a, t) ==
  CountFrom(a, IF t \in Days(a) /\ \A d \in Days(a) : d <= t THEN t ELSE t - 1)

Extended(acc, d, run) ==
  [last |-> d, run |-> run, longest |-> IF run > acc.longest THEN run ELSE acc.longest]

KeepRunStep(acc, d) ==   \* mutant: a gap does not start a new run
  Extended(acc, d, IF d = acc.last - 1 \/ acc.run = 0 THEN acc.run + 1 ELSE acc.run)

RunStep(acc, d) == Extended(acc, d, IF d = acc.last - 1 THEN acc.run + 1 ELSE 1)

Longest(a) ==
  NewestFirst(Days(a), [last |-> 0, run |-> 0, longest |-> 0], RunStep).longest

AppliedNext == Midnight \/ \E j \in SaveJobs : HandleApplied(j)

-----------------------------------------------------------------------------
(* Blacklist                                                               *)

AddCaseSensitive(c, v) ==   \* mutant: entries are compared as they are written
  /\ v \notin Range(blacklist[c])
  /\ blacklist' = [blacklist EXCEPT ![c] = Append(@, v)]

AddToBlacklist(c, v) ==
  /\ \A i \in DOMAIN blacklist[c] : Lower[blacklist[c][i]] # Lower[v]
  /\ blacklist' = [blacklist EXCEPT ![c] = Append(@, v)]

(* The first entry that reads like v is dropped.                           *)
RemoveFromBlacklist(c, v) ==
  \E i \in DOMAIN blacklist[c] :
    /\ Lower[blacklist[c][i]] = Lower[v]
    /\ \A k \in 1..(i - 1) : Lower[blacklist[c][k]] # Lower[v]
    /\ blacklist' = [blacklist EXCEPT ![c] = SubSeq(@, 1, i - 1) \o SubSeq(@, i + 1, Len(@))]

ClearBlacklist == blacklist' = [c \in Categories |-> <<>>]

BlacklistNext ==
  \/ \E c \in Categories, v \in Values : AddToBlacklist(c, v) \/ RemoveFromBlacklist(c, v)
  \/ ClearBlacklist

-----------------------------------------------------------------------------
RecordsNext ==
  \/ LinkNext /\ UNCHANGED <<savedVars, appliedVars, blacklist>>
  \/ SavedNext /\ UNCHANGED <<linkVars, appliedVars, blacklist>>
  \/ AppliedNext /\ UNCHANGED <<linkVars, savedVars, blacklist>>
  \/ BlacklistNext /\ UNCHANGED <<linkVars, savedVars, appliedVars>>

RecordsSpec == RecordsInit /\ [][RecordsNext]_recordsVars

(* A user who sent /subscribe since he last blocked the bot is sent direct *)
(* messages again ("recovery if they were once blocked", cmd_subscribe),   *)
(* unless a refusal from before the command was still to be written down.  *)
SubscribedIsNotified == expects => notify

(* Who leafs through the saved jobs from /saved to the page without a Next *)
(* button has been shown every job that was saved when he began, although  *)
(* jobs saved meanwhile move the others to later pages (_show_saved_page). *)
LeafingSkipsNothing == page > 0 /\ ~more => goal \subseteq seen

(* The numbers /streak shows: the longest chain of days with an            *)
(* application that ends today or, before today's first, yesterday, and    *)
(* the longest chain of all (get_streak's docstring).                      *)
StreakIsAChain ==
  LET days == {applied[j] : j \in SaveJobs} \ {0}
      Chain(first, last) == first..last \subseteq days
      anchor == IF today \in days THEN today ELSE today - 1
  IN /\ Current(applied, today) =
          Cardinality({d \in 1..anchor : Chain(d, anchor)})
     /\ \A d, e \in days : d <= e /\ Chain(d, e) => e - d < Longest(applied)
     /\ days # {} => \E d \in days : Chain(d, d + Longest(applied) - 1)

(* A streak is only lost by a whole day without an application, and an     *)
(* application never shortens it.                                          *)
StreakLostByAMissedDay ==
  [][Current(applied', today') < Current(applied, today)
       => today' > today /\ \A j \in SaveJobs : applied[j] # today]_appliedVars

(* No two entries of a list differ only in case, so that one /blacklist    *)
(* remove unblocks the name (cmd_blacklist).                               *)
BlacklistedOnce ==
  \A c \in Categories : \A i, k \in DOMAIN blacklist[c] :
    Lower[blacklist[c][i]] = Lower[blacklist[c][k]] => i = k
=============================================================================
