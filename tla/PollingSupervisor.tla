-------------------------- MODULE PollingSupervisor --------------------------
(***************************************************************************)
(* The supervisor of Telegram polling (bot/polling.py) with the start and  *)
(* stop primitives and the error streak of bot/app.py.                     *)
(*                                                                         *)
(* run() is a coroutine; at every await other coroutines move: stop(), the *)
(* cancellation by server.py's lifespan, and the pollers themselves, whose *)
(* callbacks write the one module-level streak whichever Application they  *)
(* belong to.  python-telegram-bot is external: an instance polls, dies,   *)
(* or goes on polling although it was given up.                            *)
(***************************************************************************)
EXTENDS Integers, FiniteSets

CONSTANTS
  Apps,              \* Application objects alive at once
  NoApp,             \* None
  StartupRetries,    \* TELEGRAM_POLL_STARTUP_RETRIES
  RecoveryAttempts,  \* TELEGRAM_POLL_RECOVERY_ATTEMPTS
  MaxStray           \* bound on given-up instances that go on polling

ASSUME SupervisorAssumption ==
  /\ NoApp \notin Apps
  /\ StartupRetries \in Nat \ {0} /\ RecoveryAttempts \in Nat /\ MaxStray \in Nat

VARIABLES
  pc,        \* where run() is
  mode,      \* "startup" or "recovery"
  attempt,   \* the attempt of that loop
  inst,      \* inst[a]: what the Application does
  app,       \* self._app
  fresh,     \* the local app of _start_once
  closing,   \* the local app of run()'s _teardown
  closing2,  \* the local app of stop()'s _teardown
  stopping,  \* self._stopping
  cancelled, \* the lifespan has cancelled run()
  streak,    \* _error_streak_started_at: none, recent, or longer ago than the threshold
  began,     \* the instance whose error began the streak, NoApp for one
             \* that had been given up (history)
  aged,      \* the streak grew old since the last start began (history)
  excused,   \* instances whose stop failed or timed out, or was cancelled (history)
  up         \* Telegram can be reached

local == <<fresh, closing, closing2>>
flags == <<stopping, cancelled>>
network == <<streak, began, aged, up>>
supervisorVars == <<pc, mode, attempt, inst, app, local, flags, network, excused>>

Polling == {a \in Apps : inst[a] = "polling"}
Free == {a \in Apps : inst[a] = "free"}

SupervisorInit ==
  /\ pc = "start" /\ mode = "startup" /\ attempt = 1
  /\ inst = [a \in Apps |-> "free"] /\ app = NoApp
  /\ fresh = NoApp /\ closing = NoApp /\ closing2 = NoApp
  /\ stopping = FALSE /\ cancelled = FALSE
  /\ streak = "none" /\ began = NoApp /\ aged = FALSE
  /\ excused = {} /\ up \in BOOLEAN

-----------------------------------------------------------------------------
(* Starting                                                                *)

BeginKeepsStreak ==   \* mutant: reset_polling_state is not called
  /\ \E a \in Free : fresh' = a /\ inst' = [inst EXCEPT ![a] = "starting"]
  /\ aged' = FALSE /\ UNCHANGED <<streak, began>>
  /\ pc' = "starting"

(* _start_once up to the await of _start_fn.                               *)
BeginStart ==
  /\ \E a \in Free : fresh' = a /\ inst' = [inst EXCEPT ![a] = "starting"]
  /\ streak' = "none" /\ began' = NoApp /\ aged' = FALSE
  /\ pc' = "starting"

StartOnce ==
  /\ pc = "start" /\ ~stopping
  /\ BeginStart
  /\ UNCHANGED <<mode, attempt, app, closing, closing2, flags, up, excused>>

(* The loop of _start_with_retries is left when the supervisor stops.      *)
StartNoMore ==
  /\ pc = "start" /\ stopping
  /\ pc' = "fatal"
  /\ UNCHANGED <<mode, attempt, inst, app, local, flags, network, excused>>

StartSucceeds ==
  /\ pc = "starting" /\ up
  /\ inst' = [inst EXCEPT ![fresh] = "polling"]
  /\ app' = fresh /\ fresh' = NoApp
  /\ pc' = "watch"
  /\ UNCHANGED <<mode, attempt, closing, closing2, flags, network, excused>>

Limit == IF mode = "startup" THEN StartupRetries ELSE RecoveryAttempts

(* start_polling unwinds what it started.  The recovery loop looks at      *)
(* _stopping before its backoff, the startup loop after it.                *)
StartFails ==
  /\ pc = "starting" /\ ~up
  /\ inst' = [inst EXCEPT ![fresh] = "free"] /\ fresh' = NoApp
  /\ \/ attempt >= Limit /\ pc' = "fatal" /\ UNCHANGED attempt
     \/ /\ attempt < Limit /\ attempt' = attempt + 1
        /\ pc' = IF mode = "recovery" /\ stopping THEN "fatal" ELSE "backoff"
  /\ UNCHANGED <<mode, app, closing, closing2, flags, network, excused>>

(* After the sleep the recovery loop starts without looking again.         *)
BackoffEnds ==
  /\ pc = "backoff"
  /\ \/ mode = "startup" /\ pc' = "start" /\ UNCHANGED <<inst, fresh, streak, began, aged>>
     \/ mode = "recovery" /\ BeginStart
  /\ UNCHANGED <<mode, attempt, app, closing, closing2, flags, up, excused>>

-----------------------------------------------------------------------------
(* Supervising                                                             *)

Dead == app = NoApp \/ inst[app] = "dead"
Stuck == streak = "old"

ForgetApp(next) ==   \* mutant: the slot is emptied without stopping the instance
  /\ closing' = NoApp /\ app' = NoApp
  /\ pc' = next

(* _teardown up to its await: the slot is emptied first.                   *)
EnterTeardown(next) ==
  /\ closing' = app /\ app' = NoApp
  /\ pc' = next

CheckStreakOnly ==   \* mutant: a watchdog that only counts errors
  /\ pc = "watch" /\ ~stopping /\ Stuck
  /\ EnterTeardown("recover")
  /\ mode' = "recovery" /\ attempt' = 1
  /\ UNCHANGED <<inst, fresh, closing2, flags, network, excused>>

Check ==
  /\ pc = "watch" /\ ~stopping /\ (Dead \/ Stuck)
  /\ EnterTeardown("recover")
  /\ mode' = "recovery" /\ attempt' = 1
  /\ UNCHANGED <<inst, fresh, closing2, flags, network, excused>>

WatchStops ==
  /\ pc = "watch" /\ stopping
  /\ EnterTeardown("finally")
  /\ UNCHANGED <<mode, attempt, inst, fresh, closing2, flags, network, excused>>

(* A stop that times out or raises gives the instance up as it is.         *)
GiveUp(a) ==
  \/ inst' = [inst EXCEPT ![a] = "free"] /\ UNCHANGED excused
  \/ /\ inst[a] = "polling" /\ Cardinality(excused) < MaxStray
     /\ excused' = excused \cup {a} /\ UNCHANGED inst

AfterTeardown ==
  pc' = IF pc = "finally" THEN "ended"
        ELSE IF stopping \/ RecoveryAttempts = 0 THEN "fatal" ELSE "backoff"

TeardownEnds ==
  /\ pc \in {"recover", "finally"}
  /\ \/ closing = NoApp /\ UNCHANGED <<inst, excused>>
     \/ closing # NoApp /\ GiveUp(closing)
  /\ closing' = NoApp
  /\ AfterTeardown
  /\ UNCHANGED <<mode, attempt, app, fresh, closing2, flags, network>>

FatalAlways ==   \* mutant: _fatal does not look at _stopping
  /\ pc = "fatal"
  /\ pc' = "exited"
  /\ UNCHANGED <<mode, attempt, inst, app, local, flags, network, excused>>

FatalReturns ==   \* mutant: run() ends, and the process lives on without a poller
  /\ pc = "fatal"
  /\ EnterTeardown("finally")
  /\ UNCHANGED <<mode, attempt, inst, fresh, closing2, flags, network, excused>>

(* os._exit leaves no finally; while stopping, run() returns through it.   *)
Fatal ==
  /\ pc = "fatal"
  /\ pc' = IF stopping THEN "finally" ELSE "exited"
  /\ closing' = IF stopping THEN app ELSE closing
  /\ app' = IF stopping THEN NoApp ELSE app
  /\ UNCHANGED <<mode, attempt, inst, fresh, closing2, flags, network, excused>>

-----------------------------------------------------------------------------
(* Cancelling and stopping                                                 *)

CancelIsAFailure ==   \* mutant: _start_once catches BaseException
  /\ ~cancelled /\ pc \notin {"fatal", "ended", "exited"}
  /\ cancelled' = TRUE
  /\ \/ /\ fresh # NoApp /\ inst' = [inst EXCEPT ![fresh] = "free"]
        /\ fresh' = NoApp /\ pc' = "backoff" /\ UNCHANGED <<closing, app, excused>>
     \/ /\ fresh = NoApp /\ UNCHANGED <<fresh, inst, excused>>
        /\ EnterTeardown("finally")
  /\ UNCHANGED <<mode, attempt, closing2, stopping, network>>

(* CancelledError passes every "except Exception": what was being started  *)
(* or stopped is dropped as it is, and only self._app is torn down by the  *)
(* finally clause of run().                                                *)
Cancel ==
  /\ ~cancelled /\ pc \notin {"fatal", "ended", "exited"}
  /\ cancelled' = TRUE
  /\ \/ fresh # NoApp /\ inst' = [inst EXCEPT ![fresh] = "free"] /\ UNCHANGED excused
     \/ /\ fresh # NoApp /\ up /\ Cardinality(excused) < MaxStray
        /\ inst' = [inst EXCEPT ![fresh] = "polling"]
        /\ excused' = excused \cup {fresh}
     \/ closing # NoApp /\ GiveUp(closing)
     \/ fresh = NoApp /\ closing = NoApp /\ UNCHANGED <<inst, excused>>
  /\ fresh' = NoApp /\ EnterTeardown("finally")
  /\ UNCHANGED <<mode, attempt, closing2, stopping, network>>

(* stop(): the flag, then a teardown beside run()'s own.                   *)
Stop ==
  /\ ~stopping /\ pc # "exited"
  /\ stopping' = TRUE
  /\ closing2' = app /\ app' = NoApp
  /\ UNCHANGED <<pc, mode, attempt, inst, fresh, closing, cancelled, network, excused>>

StopEnds ==
  /\ closing2 # NoApp /\ pc # "exited"
  /\ GiveUp(closing2)
  /\ closing2' = NoApp
  /\ UNCHANGED <<pc, mode, attempt, app, fresh, closing, flags, network>>

-----------------------------------------------------------------------------
(* Pollers and network                                                     *)

(* Two pollers conflict: Telegram ends the request of one of them.         *)
PollError ==
  /\ pc # "exited"
  /\ (~up \/ Cardinality(Polling) > 1) /\ streak = "none"
  /\ \E a \in Polling : began' = IF a \in excused THEN NoApp ELSE a
  /\ streak' = "recent"
  /\ UNCHANGED <<pc, mode, attempt, inst, app, local, flags, aged, up, excused>>

PollSuccess ==
  /\ pc # "exited"
  /\ Polling # {} /\ up /\ streak # "none"
  /\ streak' = "none" /\ began' = NoApp
  /\ UNCHANGED <<pc, mode, attempt, inst, app, local, flags, aged, up, excused>>

(* 300 seconds since the first error.  A start resets the streak and is    *)
(* over sooner: the timeouts of its requests add up to less.               *)
ThresholdPasses ==
  /\ streak = "recent" /\ pc # "starting"
  /\ streak' = "old" /\ aged' = TRUE
  /\ UNCHANGED <<pc, mode, attempt, inst, app, local, flags, began, up, excused>>

UpdaterDies ==
  /\ app # NoApp /\ inst[app] = "polling"
  /\ inst' = [inst EXCEPT ![app] = "dead"]
  /\ UNCHANGED <<pc, mode, attempt, app, local, flags, network, excused>>

StrayEnds ==
  /\ \E a \in excused : inst' = [inst EXCEPT ![a] = "free"] /\ excused' = excused \ {a}
  /\ UNCHANGED <<pc, mode, attempt, app, local, flags, network>>

Network ==
  /\ up' = ~up
  /\ UNCHANGED <<pc, mode, attempt, inst, app, local, flags, streak, began, aged, excused>>

(* restart: unless-stopped                                                 *)
ContainerRestart ==
  /\ pc = "exited"
  /\ pc' = "start" /\ mode' = "startup" /\ attempt' = 1
  /\ inst' = [a \in Apps |-> "free"] /\ app' = NoApp
  /\ fresh' = NoApp /\ closing' = NoApp /\ closing2' = NoApp
  /\ stopping' = FALSE /\ cancelled' = FALSE
  /\ streak' = "none" /\ began' = NoApp /\ aged' = FALSE /\ excused' = {}
  /\ UNCHANGED up

RunSteps ==
  \/ StartOnce \/ StartNoMore \/ StartSucceeds \/ StartFails \/ BackoffEnds
  \/ Check \/ WatchStops \/ TeardownEnds \/ Fatal

SupervisorNext ==
  \/ RunSteps \/ Cancel \/ Stop \/ StopEnds
  \/ PollError \/ PollSuccess \/ ThresholdPasses \/ UpdaterDies \/ StrayEnds
  \/ Network \/ ContainerRestart

(* The event loop comes back to run() and stop(), a sleep ends, a stop has *)
(* its timeout, a start the timeouts of its requests; time passes, a poll  *)
(* is answered or fails, and Docker restarts the container.                *)
SupervisorFairness ==
  /\ WF_supervisorVars(RunSteps) /\ WF_supervisorVars(StopEnds)
  /\ WF_supervisorVars(ThresholdPasses) /\ WF_supervisorVars(ContainerRestart)
  /\ WF_supervisorVars(PollError) /\ WF_supervisorVars(PollSuccess)

SupervisorSpec ==
  SupervisorInit /\ [][SupervisorNext]_supervisorVars /\ SupervisorFairness

-----------------------------------------------------------------------------
(* Types, and what each place of run() owns.                               *)
SupervisorTypeOK ==
  /\ pc \in {"start", "starting", "backoff", "watch", "recover", "finally",
             "fatal", "ended", "exited"}
  /\ mode \in {"startup", "recovery"}
  /\ attempt \in 1..(StartupRetries + RecoveryAttempts + 1)
  /\ inst \in [Apps -> {"free", "starting", "polling", "dead"}]
  /\ {app, fresh, closing, closing2} \subseteq Apps \cup {NoApp}
  /\ stopping \in BOOLEAN /\ cancelled \in BOOLEAN
  /\ streak \in {"none", "recent", "old"} /\ aged \in BOOLEAN
  /\ began \in Apps \cup {NoApp}
  /\ excused \subseteq Apps /\ up \in BOOLEAN

(* Nobody polls behind the supervisor's back: an instance that polls is    *)
(* the current one, is being stopped, or was given up because its stop     *)
(* failed, timed out or was cancelled ("full teardown + fresh Application",*)
(* bot/polling.py).                                                        *)
NoStrayPoller ==
  pc # "exited" => Polling \subseteq {app, closing, closing2} \cup excused

(* What its predecessors left behind is not held against a fresh instance: *)
(* while its updater runs it is only torn down for a streak that grew past *)
(* the threshold since its start began, and whose first error was its own  *)
(* (reset_polling_state).  The one streak of the module cannot tell an     *)
(* instance that was given up and polls on beside it: the first error may  *)
(* be that one's, and only that one's.                                     *)
FreshGetsItsThreshold ==
  [][pc = "watch" /\ pc' = "recover" /\ ~Dead
       => aged /\ began \in {app, NoApp}]_supervisorVars

(* A dead updater and a streak past the threshold are followed by a poller *)
(* without one, by the exit that restarts the container, or by a shutdown. *)
LostPollerIsReplaced ==
  (pc = "watch" /\ (Dead \/ Stuck))
    ~> (pc \in {"exited", "ended"} \/ (app # NoApp /\ inst[app] = "polling" /\ ~Stuck))

(* Once Telegram can be reached for good, the bot polls again and again,   *)
(* or it was shut down: no path through recovery, exit and restart stays   *)
(* without a poller.                                                       *)
BotComesBack ==
  <>[]up => (<>(stopping \/ cancelled) \/ []<>(app # NoApp /\ inst[app] = "polling"))
=============================================================================
