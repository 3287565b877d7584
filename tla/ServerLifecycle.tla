--------------------------- MODULE ServerLifecycle ---------------------------
(***************************************************************************)
(* The process of server.py: the polling supervisor, the ingestion loop    *)
(* and the delivery loop as tasks of one event loop, and the lifespan that *)
(* starts them and, at shutdown, cancels and awaits them one after the     *)
(* other, stops the supervisor and closes the connection pool.             *)
(* The runs and cycles inside the loops are the modules Ingestion and      *)
(* DeliveryCycle; here a loop is working, asleep or over.                  *)
(***************************************************************************)
EXTENDS PollingSupervisor

VARIABLES
  phase,     \* what the lifespan waits for
  fetch,     \* the task of _job_fetch_loop
  delivery   \* the task of _delivery_loop

tasks == <<fetch, delivery>>
serverVars == <<supervisorVars, phase, tasks>>

Phases == {"up", "supervisor", "fetch", "delivery", "stop", "down"}

ServerInit ==
  /\ SupervisorInit
  /\ phase = "up" /\ fetch = "working" /\ delivery = "opening"

Alive == pc # "exited" /\ phase # "down"

-----------------------------------------------------------------------------
(* The loops                                                               *)

FetchRunEscapes ==   \* mutant: an exception of the run ends the loop
  /\ Alive /\ fetch = "working"
  /\ fetch' \in {"asleep", "over"}
  /\ UNCHANGED <<supervisorVars, phase, delivery>>

(* A run that raises is logged and retried at the next interval.           *)
FetchRunEnds ==
  /\ Alive /\ fetch = "working"
  /\ fetch' = "asleep"
  /\ UNCHANGED <<supervisorVars, phase, delivery>>

FetchTick ==
  /\ Alive /\ fetch = "asleep"
  /\ fetch' = "working"
  /\ UNCHANGED <<supervisorVars, phase, delivery>>

(* "async with bot" calls get_me outside of every try.                     *)
DeliveryOpens ==
  /\ Alive /\ delivery = "opening"
  /\ delivery' = IF up THEN "working" ELSE "over"
  /\ UNCHANGED <<supervisorVars, phase, fetch>>

DeliveryCycleEnds ==
  /\ Alive /\ delivery = "working"
  /\ delivery' = "asleep"
  /\ UNCHANGED <<supervisorVars, phase, fetch>>

DeliveryTick ==
  /\ Alive /\ delivery = "asleep"
  /\ delivery' = "working"
  /\ UNCHANGED <<supervisorVars, phase, fetch>>

Loops == FetchRunEnds \/ FetchTick \/ DeliveryOpens \/ DeliveryCycleEnds \/ DeliveryTick

-----------------------------------------------------------------------------
(* The lifespan                                                            *)

(* A task that is done already is neither cancelled nor awaited.           *)
BeginShutdown ==
  /\ phase = "up" /\ pc # "exited"
  /\ \/ Cancel
     \/ pc = "ended" /\ UNCHANGED supervisorVars
  /\ phase' = "supervisor"
  /\ UNCHANGED tasks

SupervisorAwaited ==
  /\ phase = "supervisor" /\ pc = "ended"
  /\ phase' = "fetch"
  /\ UNCHANGED <<supervisorVars, tasks>>

CancelFetchLater ==   \* mutant: the ingestion task is not cancelled
  /\ phase = "fetch"
  /\ phase' = "delivery"
  /\ UNCHANGED <<supervisorVars, tasks>>

CancelFetch ==
  /\ phase = "fetch"
  /\ phase' = "delivery" /\ fetch' = "over"
  /\ UNCHANGED <<supervisorVars, delivery>>

CancelDelivery ==
  /\ phase = "delivery"
  /\ phase' = "stop" /\ delivery' = "over"
  /\ UNCHANGED <<supervisorVars, fetch>>

StopSupervisor ==
  /\ phase = "stop"
  /\ Stop
  /\ UNCHANGED <<phase, tasks>>

(* stop() beside a run() that nobody cancelled: no caller in src does it,  *)
(* but the class allows it and tests/test_polling_supervisor.py does.      *)
StopAlone ==
  /\ phase = "up"
  /\ Stop
  /\ UNCHANGED <<phase, tasks>>

(* The pool is closed and the process ends.                                *)
ShutdownEnds ==
  /\ phase = "stop" /\ stopping /\ closing2 = NoApp
  /\ phase' = "down"
  /\ UNCHANGED <<supervisorVars, tasks>>

Lifespan ==
  \/ BeginShutdown \/ SupervisorAwaited \/ CancelFetch \/ CancelDelivery
  \/ StopSupervisor \/ StopAlone \/ ShutdownEnds

Supervise(step) ==
  /\ phase # "down"
  /\ step
  /\ UNCHANGED <<phase, tasks>>

Supervision ==
  \/ Supervise(RunSteps) \/ Supervise(StopEnds)
  \/ Supervise(PollError) \/ Supervise(PollSuccess) \/ Supervise(ThresholdPasses)
  \/ Supervise(UpdaterDies) \/ Supervise(StrayEnds) \/ Supervise(Network)

ServerRestart ==
  /\ ContainerRestart
  /\ phase' = "up" /\ fetch' = "working" /\ delivery' = "opening"

ServerNext == Loops \/ Lifespan \/ Supervision \/ ServerRestart

(* Beside the supervisor's (SupervisorFairness): sleeps and runs end, and  *)
(* the lifespan goes on when what it waits for is done.                    *)
ServerFairness ==
  /\ WF_serverVars(Supervise(RunSteps)) /\ WF_serverVars(Supervise(StopEnds))
  /\ WF_serverVars(Supervise(PollError)) /\ WF_serverVars(Supervise(PollSuccess))
  /\ WF_serverVars(Supervise(ThresholdPasses)) /\ WF_serverVars(ServerRestart)
  /\ WF_serverVars(FetchRunEnds) /\ WF_serverVars(FetchTick)
  /\ WF_serverVars(DeliveryOpens) /\ WF_serverVars(DeliveryCycleEnds)
  /\ WF_serverVars(DeliveryTick)
  /\ WF_serverVars(SupervisorAwaited) /\ WF_serverVars(CancelFetch)
  /\ WF_serverVars(CancelDelivery) /\ WF_serverVars(StopSupervisor)
  /\ WF_serverVars(ShutdownEnds)

ServerSpec == ServerInit /\ [][ServerNext]_serverVars /\ ServerFairness

-----------------------------------------------------------------------------
(* Types of the lifespan and of the tasks; at its end everything is over.  *)
ServerTypeOK ==
  /\ SupervisorTypeOK
  /\ phase \in Phases
  /\ fetch \in {"working", "asleep", "over"}
  /\ delivery \in {"opening", "working", "asleep", "over"}
  /\ phase = "down" => pc = "ended" /\ fetch = "over" /\ delivery = "over" /\ app = NoApp

(* Once the shutdown has begun nothing starts to poll, except an instance  *)
(* that was being started when the cancellation hit it, and the process is *)
(* not exited as if it had crashed (lifespan: "so the deliberate updater   *)
(* stop isn't treated as a crash").                                        *)
ShutdownStartsNothing ==
  [][phase # "up" => /\ Polling' \subseteq Polling \cup excused'
                     /\ pc' # "exited"]_serverVars

(* A shutdown ends, wherever the supervisor was when it was cancelled: the *)
(* lifespan waits for nobody who waits for ever.  So does a stop() beside  *)
(* a run() that nobody cancelled: run() returns, also out of a start, a    *)
(* backoff or a failed recovery, with nothing polling but what was given   *)
(* up, and is not restarted as if it had crashed (stop(): "guards against  *)
(* deliberate-stop-as-crash").                                             *)
ShutdownTerminates ==
  /\ (phase # "up") ~> (phase = "down")
  /\ stopping ~> (pc = "ended" /\ Polling \subseteq excused)

(* Ingestion runs again and again, whatever a run raises and however often *)
(* the supervisor restarts the process, until the shutdown ("will retry    *)
(* next interval", _job_fetch_loop).                                       *)
IngestionKeepsRunning == <>(phase # "up") \/ []<>(fetch = "working")
=============================================================================
