---------------------------- MODULE ServerProofs ----------------------------
(***************************************************************************)
(* Safety of the server process: of the supervisor under the lifespan, for *)
(* any number of Applications, attempts and abandoned pollers, and of the  *)
(* connection pool its threads share, for any number of threads, pools and *)
(* connections.                                                            *)
(***************************************************************************)
EXTENDS ServerLifecycle, ConnectionPool, FiniteSetTheorems, TLAPS

(* What each place of run() and stop() may hold: _teardown empties the     *)
(* slot before its await, so no two places ever fill it again.             *)
Places ==
  /\ pc = "starting" => fresh \in Apps
  /\ fresh # NoApp => pc = "starting"
  /\ closing # NoApp => pc \in {"recover", "finally"}
  /\ app # NoApp => pc = "watch"
  /\ closing2 # NoApp => stopping

Owned == Polling \subseteq {app, closing, closing2} \cup excused

(* While an instance starts or is watched, the streak is younger than its  *)
(* start, and its own or that of an instance that had been given up.       *)
StreakIsKnown ==
  /\ streak = "old" => aged
  /\ pc \in {"starting", "watch"} /\ ~stopping /\ streak # "none" => began \in {app, NoApp}

SupervisorInv == SupervisorTypeOK /\ Places /\ Owned /\ StreakIsKnown

(* How far the shutdown is says what is over.                              *)
Order ==
  /\ phase # "up" => pc \in {"finally", "ended"}
  /\ phase \notin {"up", "supervisor"} => pc = "ended"
  /\ phase \in {"delivery", "stop", "down"} => fetch = "over"
  /\ phase \in {"stop", "down"} => delivery = "over"

TasksOK ==
  /\ phase \in Phases
  /\ fetch \in {"working", "asleep", "over"}
  /\ delivery \in {"opening", "working", "asleep", "over"}

ServerInv == SupervisorInv /\ TasksOK /\ Order

-----------------------------------------------------------------------------
(* The supervisor                                                          *)

LEMMA SupervisorInitInv == ASSUME SupervisorInit PROVE SupervisorInv
<1>1. attempt \in 1..(StartupRetries + RecoveryAttempts + 1)
  BY SupervisorAssumption DEF SupervisorInit
<1>2. inst \in [Apps -> {"free", "starting", "polling", "dead"}] /\ Polling = {}
  BY DEF SupervisorInit, Polling
<1>3. SupervisorTypeOK
  BY <1>1, <1>2 DEF SupervisorInit, SupervisorTypeOK
<1>4. Places /\ StreakIsKnown /\ Owned
  BY <1>2 DEF SupervisorInit, Places, StreakIsKnown, Owned
<1> QED
  BY <1>3, <1>4 DEF SupervisorInv

(* A start resets the streak and touches only an Application nobody uses.  *)
LEMMA BeginStartKeeps ==
  ASSUME SupervisorInv, BeginStart, app = NoApp, closing = NoApp,
         UNCHANGED <<mode, attempt, app, closing, closing2, flags, up, excused>>
  PROVE  SupervisorInv'
<1>1. PICK a \in Free : fresh' = a /\ inst' = [inst EXCEPT ![a] = "starting"]
  BY DEF BeginStart
<1>2. a \in Apps /\ inst[a] = "free"
  BY DEF Free
<1>3. SupervisorTypeOK'
  BY <1>1, <1>2 DEF SupervisorInv, SupervisorTypeOK, BeginStart, flags
<1>4. Places' /\ StreakIsKnown'
  BY <1>1, <1>2 DEF SupervisorInv, Places, StreakIsKnown, BeginStart, flags
<1>5. Owned'
  BY <1>1, <1>2 DEF SupervisorInv, SupervisorTypeOK, Owned, Polling
<1> QED
  BY <1>3, <1>4, <1>5 DEF SupervisorInv

LEMMA StartOnceKeeps == ASSUME SupervisorInv, StartOnce PROVE SupervisorInv'
<1>1. app = NoApp /\ closing = NoApp
  BY DEF SupervisorInv, Places, StartOnce
<1> QED
  BY <1>1, BeginStartKeeps DEF StartOnce

LEMMA StartNoMoreKeeps == ASSUME SupervisorInv, StartNoMore PROVE SupervisorInv'
  BY DEF SupervisorInv, SupervisorTypeOK, Places, Owned, StreakIsKnown, Polling,
         StartNoMore, local, flags, network

LEMMA StartSucceedsKeeps == ASSUME SupervisorInv, StartSucceeds PROVE SupervisorInv'
<1>1. fresh \in Apps /\ app = NoApp /\ closing = NoApp
  BY DEF SupervisorInv, Places, StartSucceeds
<1>2. SupervisorTypeOK' /\ Places' /\ StreakIsKnown'
  BY <1>1 DEF SupervisorInv, SupervisorTypeOK, Places, StreakIsKnown, StartSucceeds, flags, network
<1>3. Owned'
  BY <1>1 DEF SupervisorInv, SupervisorTypeOK, Owned, Polling, StartSucceeds
<1> QED
  BY <1>2, <1>3 DEF SupervisorInv

LEMMA StartFailsKeeps == ASSUME SupervisorInv, StartFails PROVE SupervisorInv'
<1>1. fresh \in Apps /\ app = NoApp /\ closing = NoApp
  BY DEF SupervisorInv, Places, StartFails
<1>2. attempt' \in 1..(StartupRetries + RecoveryAttempts + 1)
  BY SupervisorAssumption DEF SupervisorInv, SupervisorTypeOK, StartFails, Limit
<1>3. SupervisorTypeOK' /\ Places' /\ StreakIsKnown'
  BY <1>1, <1>2 DEF SupervisorInv, SupervisorTypeOK, Places, StreakIsKnown, StartFails, flags, network
<1>4. Owned'
  BY <1>1 DEF SupervisorInv, SupervisorTypeOK, Owned, Polling, StartFails
<1> QED
  BY <1>3, <1>4 DEF SupervisorInv

LEMMA BackoffEndsKeeps == ASSUME SupervisorInv, BackoffEnds PROVE SupervisorInv'
<1>1. app = NoApp /\ closing = NoApp
  BY DEF SupervisorInv, Places, BackoffEnds
<1>2. CASE BeginStart
  BY <1>1, <1>2, BeginStartKeeps DEF BackoffEnds
<1>3. CASE pc' = "start" /\ UNCHANGED <<inst, fresh, streak, began, aged>>
  BY <1>3 DEF SupervisorInv, SupervisorTypeOK, Places, Owned, StreakIsKnown, Polling,
              BackoffEnds, flags
<1> QED
  BY <1>2, <1>3 DEF BackoffEnds

(* The slot's Application moves to the local of the teardown.              *)
LEMMA CheckKeeps == ASSUME SupervisorInv, Check PROVE SupervisorInv'
<1>1. closing = NoApp
  BY DEF SupervisorInv, Places, Check
<1>2. SupervisorTypeOK' /\ Places' /\ StreakIsKnown'
  BY <1>1, SupervisorAssumption
  DEF SupervisorInv, SupervisorTypeOK, Places, StreakIsKnown, Check, EnterTeardown, flags, network
<1>3. Owned'
  BY <1>1 DEF SupervisorInv, Owned, Polling, Check, EnterTeardown
<1> QED
  BY <1>2, <1>3 DEF SupervisorInv

LEMMA WatchStopsKeeps == ASSUME SupervisorInv, WatchStops PROVE SupervisorInv'
<1>1. closing = NoApp
  BY DEF SupervisorInv, Places, WatchStops
<1>2. SupervisorTypeOK' /\ Places' /\ StreakIsKnown'
  BY <1>1
  DEF SupervisorInv, SupervisorTypeOK, Places, StreakIsKnown, WatchStops, EnterTeardown, flags, network
<1>3. Owned'
  BY <1>1 DEF SupervisorInv, Owned, Polling, WatchStops, EnterTeardown
<1> QED
  BY <1>2, <1>3 DEF SupervisorInv

(* After a stop the instance is free, or excused, or did not poll.         *)
LEMMA GivenUp ==
  ASSUME SupervisorInv, NEW a \in Apps, GiveUp(a)
  PROVE  /\ inst' \in [Apps -> {"free", "starting", "polling", "dead"}]
         /\ excused' \subseteq Apps /\ excused \subseteq excused'
         /\ Polling' \subseteq Polling
         /\ a \in Polling' => a \in excused'
  BY DEF SupervisorInv, SupervisorTypeOK, GiveUp, Polling

LEMMA TeardownEndsKeeps == ASSUME SupervisorInv, TeardownEnds PROVE SupervisorInv'
<1>1. fresh = NoApp /\ app = NoApp /\ closing \in Apps \cup {NoApp}
  BY DEF SupervisorInv, SupervisorTypeOK, Places, TeardownEnds
<1>2. /\ inst' \in [Apps -> {"free", "starting", "polling", "dead"}]
      /\ excused' \subseteq Apps /\ excused \subseteq excused'
      /\ Polling' \subseteq Polling
      /\ closing \in Polling' => closing \in excused'
  <2>1. CASE closing # NoApp /\ GiveUp(closing)
    BY <1>1, <2>1, GivenUp
  <2>2. CASE closing = NoApp /\ UNCHANGED <<inst, excused>>
    BY <2>2, SupervisorAssumption DEF SupervisorInv, SupervisorTypeOK, Polling
  <2> QED
    BY <2>1, <2>2 DEF TeardownEnds
<1>3. SupervisorTypeOK' /\ Places' /\ StreakIsKnown'
  BY <1>1, <1>2 DEF SupervisorInv, SupervisorTypeOK, Places, StreakIsKnown, TeardownEnds,
                    AfterTeardown, flags, network
<1>4. Owned'
  BY <1>2 DEF SupervisorInv, Owned, TeardownEnds
<1> QED
  BY <1>3, <1>4 DEF SupervisorInv

LEMMA FatalKeeps == ASSUME SupervisorInv, Fatal PROVE SupervisorInv'
<1>1. closing = NoApp /\ app = NoApp /\ fresh = NoApp
  BY DEF SupervisorInv, Places, Fatal
<1> QED
  BY <1>1 DEF SupervisorInv, SupervisorTypeOK, Places, Owned, StreakIsKnown, Polling, Fatal,
              flags, network

LEMMA RunStepsKeep == ASSUME SupervisorInv, RunSteps PROVE SupervisorInv'
  BY StartOnceKeeps, StartNoMoreKeeps, StartSucceedsKeeps, StartFailsKeeps, BackoffEndsKeeps,
     CheckKeeps, WatchStopsKeeps, TeardownEndsKeeps, FatalKeeps
  DEF RunSteps

(* Wherever the cancellation hits, what run() had in hand is freed or      *)
(* excused, and the slot is emptied once more.                             *)
LEMMA CancelKeeps == ASSUME SupervisorInv, Cancel PROVE SupervisorInv'
<1>1. /\ fresh \in Apps \cup {NoApp} /\ closing \in Apps \cup {NoApp}
      /\ fresh # NoApp => closing = NoApp
      /\ fresh # NoApp \/ closing # NoApp => app = NoApp
  BY DEF SupervisorInv, SupervisorTypeOK, Places
<1>2. /\ inst' \in [Apps -> {"free", "starting", "polling", "dead"}]
      /\ excused' \subseteq Apps /\ excused \subseteq excused'
      /\ Polling' \subseteq Polling \cup excused'
      /\ closing \in Polling' => closing \in excused'
  <2>1. CASE fresh # NoApp /\ inst' = [inst EXCEPT ![fresh] = "free"] /\ UNCHANGED excused
    BY <1>1, <2>1, SupervisorAssumption DEF SupervisorInv, SupervisorTypeOK, Polling
  <2>2. CASE /\ fresh # NoApp
             /\ inst' = [inst EXCEPT ![fresh] = "polling"]
             /\ excused' = excused \cup {fresh}
    BY <1>1, <2>2, SupervisorAssumption DEF SupervisorInv, SupervisorTypeOK, Polling
  <2>3. CASE closing # NoApp /\ GiveUp(closing)
    BY <1>1, <2>3, GivenUp
  <2>4. CASE fresh = NoApp /\ closing = NoApp /\ UNCHANGED <<inst, excused>>
    BY <2>4, SupervisorAssumption DEF SupervisorInv, SupervisorTypeOK, Polling
  <2> QED
    BY <2>1, <2>2, <2>3, <2>4 DEF Cancel
<1>3. SupervisorTypeOK' /\ Places' /\ StreakIsKnown'
  BY <1>1, <1>2, SupervisorAssumption
  DEF SupervisorInv, SupervisorTypeOK, Places, StreakIsKnown, Cancel, EnterTeardown, network
<1>4. Owned'
  BY <1>2 DEF SupervisorInv, Owned, Cancel, EnterTeardown
<1> QED
  BY <1>3, <1>4 DEF SupervisorInv

LEMMA StopKeeps == ASSUME SupervisorInv, Stop PROVE SupervisorInv'
<1>1. closing2 = NoApp
  BY DEF SupervisorInv, Places, Stop
<1>2. SupervisorTypeOK' /\ Places' /\ StreakIsKnown'
  BY <1>1 DEF SupervisorInv, SupervisorTypeOK, Places, StreakIsKnown, Stop, network
<1>3. Owned'
  BY <1>1 DEF SupervisorInv, Owned, Polling, Stop
<1> QED
  BY <1>2, <1>3 DEF SupervisorInv

LEMMA StopEndsKeeps == ASSUME SupervisorInv, StopEnds PROVE SupervisorInv'
<1>1. closing2 \in Apps /\ GiveUp(closing2)
  BY DEF SupervisorInv, SupervisorTypeOK, StopEnds
<1>2. SupervisorTypeOK' /\ Places' /\ StreakIsKnown'
  BY <1>1, GivenUp DEF SupervisorInv, SupervisorTypeOK, Places, StreakIsKnown, StopEnds, flags, network
<1>3. Owned'
  BY <1>1, GivenUp DEF SupervisorInv, Owned, StopEnds
<1> QED
  BY <1>2, <1>3 DEF SupervisorInv

Surroundings ==
  PollError \/ PollSuccess \/ ThresholdPasses \/ UpdaterDies \/ StrayEnds \/ Network

LEMMA SurroundingsKeep == ASSUME SupervisorInv, Surroundings PROVE SupervisorInv'
<1>1. CASE PollError \/ PollSuccess \/ ThresholdPasses \/ Network
  <2>1. UNCHANGED <<pc, mode, attempt, inst, app, local, flags, excused>>
    BY <1>1 DEF PollError, PollSuccess, ThresholdPasses, Network
  <2>2. /\ streak' \in {"none", "recent", "old"} /\ aged' \in BOOLEAN /\ up' \in BOOLEAN
        /\ began' \in Apps \cup {NoApp}
    BY <1>1 DEF SupervisorInv, SupervisorTypeOK, Polling, PollError, PollSuccess,
                ThresholdPasses, Network
  <2>3. SupervisorTypeOK'
    BY <2>1, <2>2 DEF SupervisorInv, SupervisorTypeOK, local, flags
  <2>4. Places' /\ Owned'
    BY <2>1 DEF SupervisorInv, Places, Owned, Polling, local, flags
  <2>5. StreakIsKnown'
    <3>1. CASE PollError
      <4>1. PICK a \in Polling : began' = IF a \in excused THEN NoApp ELSE a
        BY <3>1 DEF PollError
      <4>2. ASSUME pc \in {"starting", "watch"}, ~stopping PROVE closing = NoApp /\ closing2 = NoApp
        BY <4>2 DEF SupervisorInv, Places
      <4>3. a \in Apps /\ a \in {app, closing, closing2} \cup excused
        BY DEF SupervisorInv, Owned, Polling
      <4>4. pc \in {"starting", "watch"} /\ ~stopping => began' \in {app, NoApp}
        BY <4>1, <4>2, <4>3, SupervisorAssumption
      <4> QED
        BY <2>1, <3>1, <4>4 DEF PollError, StreakIsKnown, flags
    <3>2. CASE PollSuccess \/ ThresholdPasses \/ Network
      BY <2>1, <3>2 DEF SupervisorInv, StreakIsKnown, PollSuccess, ThresholdPasses, Network, flags
    <3> QED
      BY <1>1, <3>1, <3>2
  <2> QED
    BY <2>3, <2>4, <2>5 DEF SupervisorInv
<1>2. CASE UpdaterDies
  BY <1>2 DEF SupervisorInv, SupervisorTypeOK, Places, Owned, StreakIsKnown, Polling, UpdaterDies,
              local, flags, network
<1>3. CASE StrayEnds
  <2>1. PICK a \in excused : inst' = [inst EXCEPT ![a] = "free"] /\ excused' = excused \ {a}
    BY <1>3 DEF StrayEnds
  <2>2. a \in Apps
    BY DEF SupervisorInv, SupervisorTypeOK
  <2> QED
    BY <1>3, <2>1, <2>2 DEF SupervisorInv, SupervisorTypeOK, Places, Owned, StreakIsKnown, Polling,
                            StrayEnds, local, flags, network
<1> QED
  BY <1>1, <1>2, <1>3 DEF Surroundings

LEMMA ContainerRestartKeeps == ASSUME SupervisorInv, ContainerRestart PROVE SupervisorInv'
<1>1. attempt' \in 1..(StartupRetries + RecoveryAttempts + 1)
  BY SupervisorAssumption DEF ContainerRestart
<1>2. inst' \in [Apps -> {"free", "starting", "polling", "dead"}] /\ Polling' = {}
  BY DEF ContainerRestart, Polling
<1>3. SupervisorTypeOK'
  BY <1>1, <1>2 DEF SupervisorInv, SupervisorTypeOK, ContainerRestart
<1>4. Places' /\ StreakIsKnown' /\ Owned'
  BY <1>2 DEF ContainerRestart, Places, StreakIsKnown, Owned
<1> QED
  BY <1>3, <1>4 DEF SupervisorInv

LEMMA SupervisorStutters == ASSUME SupervisorInv, UNCHANGED supervisorVars PROVE SupervisorInv'
  BY DEF SupervisorInv, SupervisorTypeOK, Places, Owned, StreakIsKnown, Polling,
         supervisorVars, local, flags, network

-----------------------------------------------------------------------------
(* The lifespan                                                            *)

(* While run() is in its finally clause or over, it starts nothing.        *)
LEMMA OnlyEnding ==
  ASSUME SupervisorInv, pc \in {"finally", "ended"}, RunSteps \/ StopEnds \/ Surroundings
  PROVE  /\ pc' \in {pc, "ended"}
         /\ Polling' \subseteq Polling
<1>1. CASE RunSteps
  <2>1. TeardownEnds /\ pc = "finally"
    BY <1>1 DEF RunSteps, StartOnce, StartNoMore, StartSucceeds, StartFails, BackoffEnds,
                Check, WatchStops, TeardownEnds, Fatal
  <2>2. pc' = "ended"
    BY <2>1 DEF TeardownEnds, AfterTeardown
  <2>3. CASE closing # NoApp /\ GiveUp(closing)
    BY <2>2, <2>3, GivenUp DEF SupervisorInv, SupervisorTypeOK
  <2>4. CASE UNCHANGED inst
    BY <2>2, <2>4 DEF Polling
  <2> QED
    BY <2>1, <2>3, <2>4 DEF TeardownEnds
<1>2. CASE StopEnds
  BY <1>2, GivenUp DEF SupervisorInv, SupervisorTypeOK, StopEnds
<1>3. CASE Surroundings
  <2>1. pc' = pc
    BY <1>3 DEF Surroundings, PollError, PollSuccess, ThresholdPasses, UpdaterDies,
                StrayEnds, Network
  <2>2. CASE UNCHANGED inst
    BY <2>1, <2>2 DEF Polling
  <2>3. CASE UpdaterDies \/ StrayEnds
    BY <2>1, <2>3 DEF SupervisorInv, SupervisorTypeOK, Polling, UpdaterDies, StrayEnds
  <2> QED
    BY <1>3, <2>2, <2>3 DEF Surroundings, PollError, PollSuccess, ThresholdPasses, Network
<1> QED
  BY <1>1, <1>2, <1>3

LEMMA SupervisionIs == Supervision => RunSteps \/ StopEnds \/ Surroundings
  BY DEF Supervision, Supervise, Surroundings

LEMMA ServerInitInv == ASSUME ServerInit PROVE ServerInv
  BY SupervisorInitInv DEF ServerInit, ServerInv, TasksOK, Order, Phases

(* A tick of a loop leaves the supervisor alone and revives no loop that   *)
(* is over.                                                                *)
LEMMA LoopsKeep == ASSUME ServerInv, Loops PROVE ServerInv'
<1>1. UNCHANGED <<supervisorVars, phase>>
  BY DEF Loops, FetchRunEnds, FetchTick, DeliveryOpens, DeliveryCycleEnds, DeliveryTick
<1>2. SupervisorInv'
  BY <1>1, SupervisorStutters DEF ServerInv
<1>3. /\ fetch' \in {"working", "asleep", "over"} /\ (fetch = "over" => fetch' = "over")
      /\ delivery' \in {"opening", "working", "asleep", "over"}
      /\ delivery = "over" => delivery' = "over"
  BY DEF ServerInv, TasksOK, Loops, FetchRunEnds, FetchTick, DeliveryOpens,
         DeliveryCycleEnds, DeliveryTick
<1>4. TasksOK' /\ Order'
  BY <1>1, <1>3 DEF ServerInv, TasksOK, Order, supervisorVars
<1> QED
  BY <1>2, <1>4 DEF ServerInv

LEMMA LifespanKeeps == ASSUME ServerInv, Lifespan PROVE ServerInv'
<1>1. CASE BeginShutdown
  <2>1. SupervisorInv'
    BY <1>1, CancelKeeps, SupervisorStutters DEF ServerInv, BeginShutdown
  <2>2. pc' \in {"finally", "ended"}
    BY <1>1 DEF BeginShutdown, Cancel, EnterTeardown, supervisorVars
  <2>3. TasksOK' /\ Order'
    BY <1>1, <2>2 DEF ServerInv, TasksOK, Order, Phases, BeginShutdown, tasks
  <2> QED
    BY <2>1, <2>3 DEF ServerInv
<1>2. CASE SupervisorAwaited \/ CancelFetch \/ CancelDelivery \/ ShutdownEnds
  <2>1. UNCHANGED supervisorVars
    BY <1>2 DEF SupervisorAwaited, CancelFetch, CancelDelivery, ShutdownEnds
  <2>2. SupervisorInv'
    BY <2>1, SupervisorStutters DEF ServerInv
  <2>3. TasksOK' /\ Order'
    BY <1>2, <2>1 DEF ServerInv, TasksOK, Order, Phases, SupervisorAwaited, CancelFetch,
                      CancelDelivery, ShutdownEnds, tasks, supervisorVars
  <2> QED
    BY <2>2, <2>3 DEF ServerInv
<1>3. CASE StopSupervisor \/ StopAlone
  <2>1. Stop /\ UNCHANGED <<phase, tasks>>
    BY <1>3 DEF StopSupervisor, StopAlone
  <2>2. SupervisorInv'
    BY <2>1, StopKeeps DEF ServerInv
  <2>3. TasksOK' /\ Order'
    BY <2>1 DEF ServerInv, TasksOK, Order, Stop, tasks
  <2> QED
    BY <2>2, <2>3 DEF ServerInv
<1> QED
  BY <1>1, <1>2, <1>3 DEF Lifespan

LEMMA SupervisionKeeps == ASSUME ServerInv, Supervision PROVE ServerInv'
<1>1. UNCHANGED <<phase, tasks>>
  BY DEF Supervision, Supervise
<1>2. SupervisorInv'
  BY SupervisionIs, RunStepsKeep, StopEndsKeeps, SurroundingsKeep DEF ServerInv
<1>3. phase # "up" => pc' \in {pc, "ended"}
  BY SupervisionIs, OnlyEnding DEF ServerInv, Order
<1>4. TasksOK' /\ Order'
  BY <1>1, <1>3 DEF ServerInv, TasksOK, Order, tasks
<1> QED
  BY <1>2, <1>4 DEF ServerInv

LEMMA ServerRestartKeeps == ASSUME ServerInv, ServerRestart PROVE ServerInv'
<1>1. SupervisorInv'
  BY ContainerRestartKeeps DEF ServerInv, ServerRestart
<1>2. TasksOK' /\ Order'
  BY DEF ServerRestart, TasksOK, Order, Phases
<1> QED
  BY <1>1, <1>2 DEF ServerInv

LEMMA ServerStepKeeps == ServerInv /\ [ServerNext]_serverVars => ServerInv'
<1> SUFFICES ASSUME ServerInv, [ServerNext]_serverVars PROVE ServerInv'
  OBVIOUS
<1>1. CASE UNCHANGED serverVars
  <2>1. SupervisorInv'
    BY <1>1, SupervisorStutters DEF ServerInv, serverVars
  <2>2. TasksOK' /\ Order'
    BY <1>1 DEF ServerInv, TasksOK, Order, serverVars, supervisorVars, tasks
  <2> QED
    BY <2>1, <2>2 DEF ServerInv
<1> QED
  BY <1>1, LoopsKeep, LifespanKeeps, SupervisionKeeps, ServerRestartKeeps DEF ServerNext

LEMMA ServerInvHolds == ServerSpec => []ServerInv
<1>1. ServerInit => ServerInv
  BY ServerInitInv
<1> QED
  BY <1>1, ServerStepKeeps, PTL DEF ServerSpec

-----------------------------------------------------------------------------
(* The lifespan's and the tasks' types, and that at its end nothing of the *)
(* process is left running (lifespan, server.py).                          *)
THEOREM ServerTypes == ServerSpec => []ServerTypeOK
<1>1. ServerInv => ServerTypeOK
  BY DEF ServerInv, SupervisorInv, Places, TasksOK, Order, ServerTypeOK
<1> QED
  BY <1>1, ServerInvHolds, PTL

(* Nobody polls behind the supervisor's back, wherever cancellation, stop  *)
(* and recovery meet (_teardown, bot/polling.py).                          *)
THEOREM NobodyStrays == ServerSpec => []NoStrayPoller
<1>1. ServerInv => NoStrayPoller
  BY DEF ServerInv, SupervisorInv, Owned, NoStrayPoller
<1> QED
  BY <1>1, ServerInvHolds, PTL

(* Once the shutdown has begun nothing starts to poll and nothing exits    *)
(* the process (lifespan, server.py).                                      *)
THEOREM NothingStartsInShutdown == ServerSpec => ShutdownStartsNothing
<1>1. ASSUME ServerInv, ServerNext, phase # "up"
      PROVE  Polling' \subseteq Polling \cup excused' /\ pc' # "exited"
  <2>1. pc \in {"finally", "ended"}
    BY <1>1 DEF ServerInv, Order
  <2>2. CASE Supervision
    BY <2>1, <2>2, <1>1, SupervisionIs, OnlyEnding DEF ServerInv
  <2>3. CASE Loops \/ Lifespan
    BY <2>1, <2>3, <1>1 DEF Loops, FetchRunEnds, FetchTick, DeliveryOpens, DeliveryCycleEnds,
         DeliveryTick, Lifespan, BeginShutdown, SupervisorAwaited, CancelFetch, CancelDelivery,
         StopSupervisor, StopAlone, ShutdownEnds, Stop, supervisorVars, Polling
  <2> QED
    BY <1>1, <2>1, <2>2, <2>3 DEF ServerNext, ServerRestart, ContainerRestart
<1>2. ServerInv /\ [ServerNext]_serverVars
        => [phase # "up" => /\ Polling' \subseteq Polling \cup excused'
                            /\ pc' # "exited"]_serverVars
  BY <1>1
<1> QED
  BY <1>2, ServerInvHolds, PTL DEF ServerSpec, ShutdownStartsNothing

(* A running instance is torn down for a streak only when the streak began *)
(* after its start, by an error of its own or of an instance that had been *)
(* given up and still polls, and lasted for the threshold                  *)
(* (reset_polling_state, bot/app.py).                                      *)
THEOREM FreshKeepsItsThreshold == ServerSpec => FreshGetsItsThreshold
<1>1. ASSUME ServerInv, ServerNext, pc = "watch", pc' = "recover", ~Dead
      PROVE  aged /\ began \in {app, NoApp}
  <2>1. Check
    <3>1. Supervision
      BY <1>1 DEF ServerNext, Loops, FetchRunEnds, FetchTick, DeliveryOpens, DeliveryCycleEnds,
         DeliveryTick, Lifespan, BeginShutdown, SupervisorAwaited, CancelFetch, CancelDelivery,
         StopSupervisor, StopAlone, ShutdownEnds, Cancel, EnterTeardown, Stop, ServerRestart,
         ContainerRestart, supervisorVars
    <3>2. RunSteps
      BY <1>1, <3>1, SupervisionIs DEF StopEnds, Surroundings, PollError, PollSuccess,
         ThresholdPasses, UpdaterDies, StrayEnds, Network
    <3> QED
      BY <1>1, <3>2 DEF RunSteps, StartOnce, StartNoMore, StartSucceeds, StartFails, BackoffEnds,
         WatchStops, EnterTeardown, TeardownEnds, Fatal
  <2> QED
    BY <1>1, <2>1 DEF ServerInv, SupervisorInv, StreakIsKnown, Check, Stuck
<1>2. ServerInv /\ [ServerNext]_serverVars
        => [pc = "watch" /\ pc' = "recover" /\ ~Dead
              => aged /\ began \in {app, NoApp}]_supervisorVars
  BY <1>1 DEF serverVars
<1> QED
  BY <1>2, ServerInvHolds, PTL DEF ServerSpec, FreshGetsItsThreshold

-----------------------------------------------------------------------------
(* The connection pool                                                     *)
(*                                                                         *)
(* NothingLeaks needs what the steps between the check and the use rely    *)
(* on: the pool a thread holds was built, the global is a pool that was    *)
(* built, and a pool that is yet to be built has lent nothing.             *)

Holding(p) == {t \in Threads : mine[t] = p /\ at[t] \in {"borrowed", "returning"}}

KnownPools ==
  /\ pool \in built \cup {NoPool}
  /\ \A t \in Threads : at[t] \in {"asking", "borrowed", "returning"} => mine[t] \in built
  /\ \A p \in Pools \ built : used[p] = {}

OneOpen == built \ closed \subseteq {pool}

Lent == \A p \in Pools \ closed : used[p] = Holding(p)

Bounded == \A p \in Pools : IsFiniteSet(used[p]) /\ Cardinality(used[p]) <= MaxConn

PoolInv == PoolTypeOK /\ KnownPools /\ OneOpen /\ Lent /\ Bounded

-----------------------------------------------------------------------------
LEMMA PoolInitInv == PoolInit => PoolInv
<1> SUFFICES ASSUME PoolInit PROVE PoolInv
  OBVIOUS
<1>1. PoolTypeOK
  BY DEF PoolInit, PoolTypeOK
<1>2. KnownPools /\ OneOpen
  BY DEF PoolInit, KnownPools, OneOpen
<1>3. Lent
  BY DEF PoolInit, Lent, Holding
<1>4. Bounded
  BY FS_EmptySet, PoolAssumption DEF PoolInit, Bounded
<1> QED
  BY <1>1, <1>2, <1>3, <1>4 DEF PoolInv

(* Steps that lend nothing and take nothing back: who holds what is the    *)
(* same as before.                                                         *)
LEMMA NothingLent ==
  ASSUME PoolInv, UNCHANGED used, closed \subseteq closed',
         \A p \in Pools \ closed' : Holding(p)' = Holding(p)
  PROVE  (Lent /\ Bounded)'
  BY DEF PoolInv, Lent, Bounded

(* A thread that moves between two places where it holds no connection.    *)
LEMMA EmptyHanded ==
  ASSUME PoolInv, NEW t \in Threads, NEW place, Move(t, place),
         at[t] \notin {"borrowed", "returning"}, place \notin {"borrowed", "returning"},
         \A u \in Threads \ {t} : mine'[u] = mine[u]
  PROVE  \A p \in Pools : Holding(p)' = Holding(p)
<1>1. at'[t] = place /\ \A u \in Threads \ {t} : at'[u] = at[u]
  BY DEF PoolInv, PoolTypeOK, Move
<1> QED
  BY <1>1 DEF Holding

LEMMA LookKeeps ==
  ASSUME PoolInv, NEW t \in Threads, LookForPool(t)
  PROVE  PoolInv'
<1>1. (PoolTypeOK /\ KnownPools /\ OneOpen)'
  BY DEF PoolInv, PoolTypeOK, KnownPools, OneOpen, LookForPool, Move
<1>2. \A p \in Pools : Holding(p)' = Holding(p)
  BY EmptyHanded DEF LookForPool
<1> QED
  BY <1>1, <1>2, NothingLent DEF PoolInv, LookForPool

(* At most one pool is open because the lock is taken and the global is    *)
(* looked at again before one is built.                                    *)
LEMMA BuildKeeps ==
  ASSUME PoolInv, NEW t \in Threads, BuildPool(t)
  PROVE  PoolInv'
<1>1. PoolTypeOK'
  BY DEF PoolInv, PoolTypeOK, BuildPool, Move
<1>2. KnownPools'
  BY DEF PoolInv, PoolTypeOK, KnownPools, BuildPool, Move
<1>3. OneOpen'
  BY PoolAssumption DEF PoolInv, PoolTypeOK, OneOpen, BuildPool
<1>4. \A p \in Pools : Holding(p)' = Holding(p)
  <2>1. Move(t, "found") \/ Move(t, "idle")
    BY DEF BuildPool
  <2> QED
    BY <2>1, EmptyHanded DEF BuildPool
<1> QED
  BY <1>1, <1>2, <1>3, <1>4, NothingLent DEF PoolInv, BuildPool

LEMMA ReturnKeeps ==
  ASSUME PoolInv, NEW t \in Threads, ReturnPool(t)
  PROVE  PoolInv'
<1>1. PoolTypeOK'
  BY DEF PoolInv, PoolTypeOK, ReturnPool, Move
<1>2. KnownPools' /\ OneOpen'
  BY PoolAssumption DEF PoolInv, PoolTypeOK, KnownPools, OneOpen, ReturnPool, Move
<1>3. \A p \in Pools : Holding(p)' = Holding(p)
  <2>1. \A u \in Threads \ {t} : mine'[u] = mine[u]
    BY DEF PoolInv, PoolTypeOK, ReturnPool
  <2>2. Move(t, "idle") \/ Move(t, "asking")
    BY DEF ReturnPool
  <2> QED
    BY <2>1, <2>2, EmptyHanded DEF ReturnPool
<1> QED
  BY <1>1, <1>2, <1>3, NothingLent DEF PoolInv, ReturnPool

LEMMA GetKeeps ==
  ASSUME PoolInv, NEW t \in Threads, GetConn(t)
  PROVE  PoolInv'
<1>1. CASE Move(t, "idle") /\ UNCHANGED used
  <2>1. (PoolTypeOK /\ KnownPools /\ OneOpen)'
    BY <1>1 DEF PoolInv, PoolTypeOK, KnownPools, OneOpen, GetConn, Move
  <2>2. \A p \in Pools : Holding(p)' = Holding(p)
    BY <1>1, EmptyHanded DEF GetConn
  <2> QED
    BY <1>1, <2>1, <2>2, NothingLent DEF PoolInv, GetConn
<1>2. CASE /\ mine[t] \notin closed /\ Cardinality(used[mine[t]]) < MaxConn
           /\ used' = [used EXCEPT ![mine[t]] = @ \cup {t}]
           /\ Move(t, "borrowed")
  <2> DEFINE m == mine[t]
  <2>1. m \in built /\ m \in Pools /\ m \notin closed
    BY <1>2 DEF PoolInv, PoolTypeOK, KnownPools, GetConn
  <2>2. /\ used'[m] = used[m] \cup {t}
        /\ \A p \in Pools \ {m} : used'[p] = used[p]
        /\ at'[t] = "borrowed" /\ \A u \in Threads \ {t} : at'[u] = at[u]
        /\ UNCHANGED <<pool, built, closed, mine>>
    BY <1>2, <2>1 DEF PoolInv, PoolTypeOK, GetConn, Move
  <2>3. PoolTypeOK'
    BY <1>2, <2>1 DEF PoolInv, PoolTypeOK, GetConn, Move
  <2>4. KnownPools' /\ OneOpen'
    BY <2>1, <2>2 DEF PoolInv, KnownPools, OneOpen
  <2>5. Lent'
    <3>1. Holding(m)' = Holding(m) \cup {t}
      BY <2>2 DEF Holding
    <3>2. \A p \in Pools \ {m} : Holding(p)' = Holding(p)
      BY <2>2 DEF Holding
    <3> QED
      BY <2>1, <2>2, <3>1, <3>2 DEF PoolInv, Lent
  <2>6. Bounded'
    <3>1. IsFiniteSet(used[m]) /\ Cardinality(used[m]) < MaxConn
      BY <1>2, <2>1 DEF PoolInv, Bounded
    <3>2. /\ IsFiniteSet(used[m] \cup {t})
          /\ Cardinality(used[m]) \in Nat
          /\ Cardinality(used[m] \cup {t}) \in {Cardinality(used[m]), Cardinality(used[m]) + 1}
      BY <3>1, FS_AddElement, FS_CardinalityType
    <3>3. Cardinality(used[m] \cup {t}) <= MaxConn
      BY <3>1, <3>2, PoolAssumption
    <3> QED
      BY <2>2, <3>2, <3>3 DEF PoolInv, Bounded
  <2> QED
    BY <2>3, <2>4, <2>5, <2>6 DEF PoolInv
<1> QED
  BY <1>1, <1>2 DEF GetConn

LEMMA EndStatementKeeps ==
  ASSUME PoolInv, NEW t \in Threads, EndStatement(t)
  PROVE  PoolInv'
<1>1. (PoolTypeOK /\ KnownPools /\ OneOpen)'
  BY DEF PoolInv, PoolTypeOK, KnownPools, OneOpen, EndStatement, Move
<1>2. \A p \in Pools : Holding(p)' = Holding(p)
  <2>1. at'[t] = "returning" /\ \A u \in Threads \ {t} : at'[u] = at[u]
    BY DEF PoolInv, PoolTypeOK, EndStatement, Move
  <2> QED
    BY <2>1 DEF Holding, EndStatement
<1> QED
  BY <1>1, <1>2, NothingLent DEF PoolInv, EndStatement

LEMMA PutKeeps ==
  ASSUME PoolInv, NEW t \in Threads, PutConn(t)
  PROVE  PoolInv'
<1> DEFINE m == mine[t]
<1>1. m \in built /\ m \in Pools /\ at[t] = "returning"
  BY DEF PoolInv, PoolTypeOK, KnownPools, PutConn
<1>2. /\ at'[t] = "idle" /\ \A u \in Threads \ {t} : at'[u] = at[u]
      /\ UNCHANGED <<pool, built, closed, mine>>
      /\ \A p \in Pools \ {m} : used'[p] = used[p]
      /\ m \in closed => used'[m] = used[m]
      /\ m \notin closed => used'[m] = used[m] \ {t}
  BY <1>1 DEF PoolInv, PoolTypeOK, PutConn, Move
<1>3. PoolTypeOK'
  BY <1>1 DEF PoolInv, PoolTypeOK, PutConn, Move
<1>4. KnownPools' /\ OneOpen'
  BY <1>1, <1>2 DEF PoolInv, KnownPools, OneOpen
<1>5. Lent'
  <2>1. Holding(m)' = Holding(m) \ {t}
    BY <1>2 DEF Holding
  <2>2. \A p \in Pools \ {m} : Holding(p)' = Holding(p)
    BY <1>2 DEF Holding
  <2> QED
    BY <1>1, <1>2, <2>1, <2>2 DEF PoolInv, Lent
<1>6. Bounded'
  <2>1. IsFiniteSet(used[m]) /\ Cardinality(used[m]) <= MaxConn
    BY <1>1 DEF PoolInv, Bounded
  <2>2. /\ IsFiniteSet(used[m] \ {t}) /\ Cardinality(used[m]) \in Nat
        /\ Cardinality(used[m] \ {t}) \in {Cardinality(used[m]), Cardinality(used[m]) - 1}
    BY <2>1, FS_RemoveElement, FS_CardinalityType
  <2>3. Cardinality(used[m] \ {t}) <= MaxConn
    BY <2>1, <2>2, PoolAssumption
  <2> QED
    BY <1>1, <1>2, <2>1, <2>2, <2>3 DEF PoolInv, Bounded
<1> QED
  BY <1>3, <1>4, <1>5, <1>6 DEF PoolInv

LEMMA CloseKeeps ==
  ASSUME PoolInv, CloseAll \/ ForgetPool
  PROVE  PoolInv'
<1>1. (PoolTypeOK /\ KnownPools /\ OneOpen)'
  BY DEF PoolInv, PoolTypeOK, KnownPools, OneOpen, CloseAll, ForgetPool
<1>2. \A p \in Pools : Holding(p)' = Holding(p)
  BY DEF Holding, CloseAll, ForgetPool
<1> QED
  BY <1>1, <1>2, NothingLent DEF PoolInv, CloseAll, ForgetPool

LEMMA PoolStepInv == PoolInv /\ [PoolNext]_poolVars => PoolInv'
<1> SUFFICES ASSUME PoolInv, [PoolNext]_poolVars PROVE PoolInv'
  OBVIOUS
<1>1. CASE UNCHANGED poolVars
  BY <1>1 DEF poolVars, PoolInv, PoolTypeOK, KnownPools, OneOpen, Lent, Holding, Bounded
<1> QED
  BY <1>1, LookKeeps, BuildKeeps, ReturnKeeps, GetKeeps, EndStatementKeeps, PutKeeps, CloseKeeps
     DEF PoolNext, ThreadStep

(* At most one pool is open, it is the one the next statement finds, and   *)
(* each connection it has lent is held by one thread that gives it back:   *)
(* for any number of threads, and whenever close_pool runs beside them.    *)
THEOREM PoolNeverLeaks == PoolSpec => []NothingLeaks
<1>1. PoolInv => NothingLeaks
  BY DEF PoolInv, PoolTypeOK, OneOpen, Lent, Holding, Bounded, NothingLeaks
<1> QED
  BY <1>1, PoolInitInv, PoolStepInv, PTL DEF PoolSpec
=============================================================================
