----------------------------- MODULE Ingestion -----------------------------
(***************************************************************************)
(* How deliveries come to be queued: main() of main.py with                *)
(* enqueue_job_deliveries, and backfill_unsent_jobs, both of               *)
(* core/delivery_queue.py, as transactions on the tables jobs and          *)
(* job_deliveries.                                                         *)
(*                                                                         *)
(* A runner is a process that executes them: the backend, whose lock keeps *)
(* its own runs apart, and beside it the `bot` service of the Compose file *)
(* or the backfill script, which no lock keeps apart from the backend.     *)
(* A run is lost as a whole when it meets a database error or dies: the    *)
(* fetch loop logs the exception and starts over at the next interval.     *)
(***************************************************************************)
EXTENDS DeliveryQueue

CONSTANTS
  Jobs,          \* unique_ids of the jobs sources may offer
  JobOf,         \* the job of each row
  Topicless,     \* the one group row ('' recipient) of a job without topics
  LookAlike,     \* <<new, stored>>: same company, titles similar enough
  Runners,
  MaxStarts,     \* bound on runs in a behaviour
  MaxBackfills,  \* bound on those that are backfills
  MaxFaults      \* bound on runs lost half-way

ASSUME IngestionAssumption ==
  /\ JobOf \in [Rows -> Jobs]
  /\ Topicless \subseteq GroupRows
  /\ LookAlike \subseteq Jobs \X Jobs
  /\ MaxStarts \in Nat /\ MaxBackfills \in Nat /\ MaxFaults \in Nat

VARIABLES
  jobs,      \* the table jobs
  recent,    \* those with created_at in the last seven days
  run,       \* local state of each runner
  inserter,  \* per job, the mode and number of the run that stored it (history)
  origin,    \* per row, the mode of the run that queued it (history)
  overlap,   \* pairs of runs that were under way together (history)
  lost,      \* jobs whose run was lost before it queued them (history)
  starts, backfills, faults

history == <<inserter, origin, overlap, lost>>
bounds == <<starts, backfills, faults>>
vars == <<row, jobs, recent, run, history, bounds>>

-----------------------------------------------------------------------------
Modes == {"live", "seed", "backfill"}
NoRun == [mode |-> "none", number |-> 0]

Pcs == {"idle", "fetch", "dedup", "fuzzy", "insert", "build", "group", "dm",
        "group_gaps", "dm_gaps"}

Locals == [pc     : Pcs,
           mode   : Modes \cup {"none"},
           number : 0..MaxStarts,
           batch  : SUBSET Jobs,     \* the list the pipeline hands on
           dms    : SUBSET DmRows]   \* dm_rows

Idle == [pc |-> "idle", mode |-> "none", number |-> 0, batch |-> {}, dms |-> {}]

Init ==
  /\ QueueInit
  /\ jobs = {} /\ recent = {}
  /\ run = [r \in Runners |-> Idle]
  /\ inserter = [j \in Jobs |-> NoRun]
  /\ origin = [d \in Rows |-> "none"]
  /\ overlap = {} /\ lost = {}
  /\ starts = 0 /\ backfills = 0 /\ faults = 0

At(r, pc) == run[r].pc = pc
Become(r, local) == run' = [run EXCEPT ![r] = local]

(* The batch is handed to the next stage.                                  *)
HandOn(r, batch, pc) ==
  Become(r, [run[r] EXCEPT !.batch = batch, !.pc = pc])

RowsOf(kind, S) == {d \in kind : JobOf[d] \in S}
WithoutRows(kind) ==
  {j \in jobs : \A d \in RowsOf(kind, {j}) : row[d].status = "absent"}

(* jobs.sent_at IS NULL: mark_job_sent has no caller, and the statements   *)
(* of the delivery path leave the column alone.                            *)
Unsent == jobs

Unwanted(r) == Topicless \cup (IF run[r].mode = "seed" THEN Rows ELSE {})

(* The rows one INSERT of the run creates, and who created them.           *)
Store(r, S) ==
  /\ Insert(S, Unwanted(r))
  /\ origin' = [d \in Rows |-> IF d \in S /\ row[d].status = "absent"
                               THEN run[r].mode ELSE origin[d]]

-----------------------------------------------------------------------------
(* An ingestion run.                                                       *)

Active == {r \in Runners : ~At(r, "idle")}

StartRun(r, mode) ==
  /\ At(r, "idle")
  /\ starts < MaxStarts
  /\ mode = "backfill" => backfills < MaxBackfills
  /\ starts' = starts + 1
  /\ backfills' = IF mode = "backfill" THEN backfills + 1 ELSE backfills
  /\ overlap' = overlap \cup {<<run[q].number, starts'>> : q \in Active}
  /\ Become(r, [Idle EXCEPT !.mode = mode, !.number = starts',
                  !.pc = IF mode = "backfill" THEN "group_gaps" ELSE "fetch"])
  /\ UNCHANGED <<row, jobs, recent, inserter, origin, lost, faults>>

(* Whatever the sources offer and enrichment and the filter let through.   *)
Fetch(r) ==
  /\ At(r, "fetch")
  /\ \E offered \in SUBSET Jobs : HandOn(r, offered, "dedup")
  /\ UNCHANGED <<row, jobs, recent, history, bounds>>

(* SELECT unique_id FROM jobs, then deduplicate_batch.                     *)
Dedup(r) ==
  /\ At(r, "dedup")
  /\ HandOn(r, run[r].batch \ jobs, "fuzzy")
  /\ UNCHANGED <<row, jobs, recent, history, bounds>>

Similar(j, stored) == \E k \in stored : <<j, k>> \in LookAlike

FuzzyDedupUnstored(r) ==   \* mutant: an empty table ends the stage early
  /\ At(r, "fuzzy")
  /\ IF recent = {} THEN HandOn(r, run[r].batch, "build")
     ELSE HandOn(r, {j \in run[r].batch : ~Similar(j, recent)}, "insert")
  /\ UNCHANGED <<row, jobs, recent, history, bounds>>

FuzzyDedupWithin(r) ==   \* mutant: compares the batch, not the table
  /\ At(r, "fuzzy")
  /\ HandOn(r, {j \in run[r].batch : ~Similar(j, run[r].batch \ {j})}, "insert")
  /\ UNCHANGED <<row, jobs, recent, history, bounds>>

(* fuzzy_dedup_batch compares with what is stored, never within the batch. *)
FuzzyDedup(r) ==
  /\ At(r, "fuzzy")
  /\ HandOn(r, {j \in run[r].batch : ~Similar(j, recent)}, "insert")
  /\ UNCHANGED <<row, jobs, recent, history, bounds>>

InsertJobsAll(r) ==   \* mutant: RETURNING is ignored
  /\ At(r, "insert")
  /\ jobs' = jobs \cup run[r].batch
  /\ recent' = recent \cup run[r].batch
  /\ inserter' = [j \in Jobs |-> IF j \in run[r].batch \ jobs
       THEN [mode |-> run[r].mode, number |-> run[r].number] ELSE inserter[j]]
  /\ HandOn(r, run[r].batch, "build")
  /\ UNCHANGED <<row, origin, overlap, lost, bounds>>

(* insert_jobs_batch: ON CONFLICT DO NOTHING, and only what was inserted   *)
(* is returned.  With nothing inserted there is nothing to queue.          *)
InsertJobs(r) ==
  LET inserted == run[r].batch \ jobs
  IN /\ At(r, "insert")
     /\ jobs' = jobs \cup inserted
     /\ recent' = recent \cup inserted
     /\ inserter' = [j \in Jobs |-> IF j \in inserted
          THEN [mode |-> run[r].mode, number |-> run[r].number]
          ELSE inserter[j]]
     /\ IF inserted = {} THEN Become(r, Idle) ELSE HandOn(r, inserted, "build")
     /\ UNCHANGED <<row, origin, overlap, lost, bounds>>

-----------------------------------------------------------------------------
(* enqueue_job_deliveries; a backfill shares its second half.              *)

BuildDmsEndsEarly(r) ==   \* mutant: no subscriber, so nothing to queue
  /\ At(r, "build")
  /\ \E S \in SUBSET RowsOf(DmRows, run[r].batch) :
       IF S = {} THEN Become(r, Idle)
       ELSE Become(r, [run[r] EXCEPT !.dms = S,
              !.pc = IF run[r].mode = "backfill" THEN "dm" ELSE "group"])
  /\ UNCHANGED <<row, jobs, recent, history, bounds>>

(* build_subscriber_dm_deliveries: the users with DMs on, their alerts and *)
(* their blacklists are read, and may let any of the rows through.         *)
BuildDms(r) ==
  /\ At(r, "build")
  /\ \E S \in SUBSET RowsOf(DmRows, run[r].batch) :
       Become(r, [run[r] EXCEPT !.dms = S,
         !.pc = IF run[r].mode = "backfill" THEN "dm" ELSE "group"])
  /\ UNCHANGED <<row, jobs, recent, history, bounds>>

InsertGroup(r) ==
  /\ At(r, "group")
  /\ Store(r, RowsOf(GroupRows, run[r].batch))
  /\ Become(r, [run[r] EXCEPT
       !.pc = IF run[r].mode = "backfill" THEN "dm_gaps" ELSE "dm"])
  /\ UNCHANGED <<jobs, recent, inserter, overlap, lost, bounds>>

InsertDmsLive(r) ==   \* mutant: is_seed is not passed on
  /\ At(r, "dm")
  /\ Insert(run[r].dms, {})
  /\ origin' = [d \in Rows |-> IF d \in run[r].dms /\ row[d].status = "absent"
                               THEN run[r].mode ELSE origin[d]]
  /\ Become(r, Idle)
  /\ UNCHANGED <<jobs, recent, inserter, overlap, lost, bounds>>

InsertDms(r) ==
  /\ At(r, "dm")
  /\ Store(r, run[r].dms)
  /\ Become(r, Idle)
  /\ UNCHANGED <<jobs, recent, inserter, overlap, lost, bounds>>

(* backfill_unsent_jobs: first the jobs without a group row,               *)
FindGroupGaps(r) ==
  /\ At(r, "group_gaps")
  /\ HandOn(r, Unsent \cap WithoutRows(GroupRows), "group")
  /\ UNCHANGED <<row, jobs, recent, history, bounds>>

(* then the jobs without a DM row.                                         *)
FindDmGaps(r) ==
  /\ At(r, "dm_gaps")
  /\ HandOn(r, Unsent \cap WithoutRows(DmRows), "build")
  /\ UNCHANGED <<row, jobs, recent, history, bounds>>

(* The run dies or meets a database error between two of its transactions. *)
QueuesGroup(r) == run[r].mode # "backfill" /\ run[r].pc \in {"build", "group"}

Abandon(r) ==
  /\ ~At(r, "idle")
  /\ faults < MaxFaults
  /\ faults' = faults + 1
  /\ lost' = IF QueuesGroup(r) THEN lost \cup run[r].batch ELSE lost
  /\ Become(r, Idle)
  /\ UNCHANGED <<row, jobs, recent, inserter, origin, overlap, starts, backfills>>

-----------------------------------------------------------------------------
(* The rest of the system, as ingestion sees it.                           *)

(* created_at falls out of the seven days.                                 *)
Age(j) ==
  /\ j \in recent
  /\ recent' = recent \ {j}
  /\ UNCHANGED <<row, jobs, run, history, bounds>>

(* A delivery cycle claims a row, and marks it sent.                       *)
Deliver(d) ==
  /\ \/ d \in Due(Rows) /\ Claim({d})
     \/ row[d].status = "processing" /\ MarkSent(d, TRUE)
  /\ UNCHANGED <<jobs, recent, run, history, bounds>>

-----------------------------------------------------------------------------
RunStep(r) ==
  \/ Fetch(r) \/ Dedup(r) \/ FuzzyDedup(r) \/ InsertJobs(r) \/ BuildDms(r)
  \/ InsertGroup(r) \/ InsertDms(r) \/ FindGroupGaps(r) \/ FindDmGaps(r)

Next ==
  \/ \E r \in Runners : RunStep(r) \/ Abandon(r)
  \/ \E r \in Runners, mode \in Modes : StartRun(r, mode)
  \/ \E j \in Jobs : Age(j)
  \/ \E d \in Rows : Deliver(d)

Spec == Init /\ [][Next]_vars

(* A run that is not lost takes its next step.                             *)
FairSpec == Spec /\ \A r \in Runners : WF_vars(RunStep(r))

-----------------------------------------------------------------------------
(* Every variable has its type; recent jobs are stored ones, and a run     *)
(* that queues deliveries has their jobs in the table (the foreign key).   *)
TypeOK ==
  /\ QueueTypeOK
  /\ jobs \subseteq Jobs /\ recent \subseteq jobs
  /\ run \in [Runners -> Locals]
  /\ inserter \in [Jobs -> [mode : Modes \cup {"none"}, number : 0..MaxStarts]]
  /\ origin \in [Rows -> Modes \cup {"none"}]
  /\ overlap \subseteq (0..MaxStarts) \X (0..MaxStarts)
  /\ lost \subseteq jobs
  /\ starts \in 0..MaxStarts /\ backfills \in 0..MaxBackfills
  /\ faults \in 0..MaxFaults
  /\ \A r \in Runners : run[r].pc \in {"build", "group", "dm", "dm_gaps"} =>
                          run[r].batch \subseteq jobs

(* Every stored job has its topic rows, or the run that stored it is about *)
(* to queue them, or that run was lost: racing runs never leave a job to   *)
(* each other, and no early return skips the topics (main.py:88-107).      *)
Queued(j) == \A d \in RowsOf(GroupRows, {j}) : row[d].status # "absent"

OnItsWay(j) == \E r \in Runners : /\ QueuesGroup(r) /\ j \in run[r].batch
                                  /\ run[r].number = inserter[j].number

NoJobForgotten == \A j \in jobs : Queued(j) \/ OnItsWay(j) \/ j \in lost

(* A row is born skipped exactly when the run that STORED ITS JOB was a    *)
(* seed run or the job has no topic, whichever runs raced for it, and a    *)
(* skipped row is never picked up; backfilled rows are the exception.      *)
RowsFollowTheirJob ==
  \A d \in Rows : origin[d] \in {"live", "seed"} =>
    /\ origin[d] = inserter[JobOf[d]].mode
    /\ row[d].status = "skipped" <=>
         (d \in Topicless \/ inserter[JobOf[d]].mode = "seed")

(* Two recent look-alikes were stored by one run, or by two runs that were *)
(* under way together: runs one after the other post a job only once.      *)
LookalikesShareRun ==
  \A j, k \in recent :
    (<<j, k>> \in LookAlike /\ inserter[k].number < inserter[j].number) =>
      <<inserter[k].number, inserter[j].number>> \in overlap

(* A delivered row is never queued again, however many runs and backfills  *)
(* come across its job (the unique constraint of migration 007).           *)
SentStaysSent ==
  [][\A d \in Rows : row[d].status = "sent" => row'[d].status = "sent"]_vars

-----------------------------------------------------------------------------
(* Statements of the documentation, checked against the code.              *)

(* docs/CONFIGURATION.md:138, "all inserted jobs are now enqueued in the   *)
(* durable delivery queue".                                                *)
InsertedAreQueued == \A j \in Jobs : j \in jobs ~> Queued(j)

(* core/delivery_queue.py:589-590, "Sent jobs are intentionally not        *)
(* requeued": a backfill queues nothing for a job that was delivered to    *)
(* all its topics.                                                         *)
SentToTopics(j) == /\ RowsOf(GroupRows, {j}) # {}
                   /\ \A d \in RowsOf(GroupRows, {j}) : row[d].status = "sent"

SentNotRequeued ==
  [][\A d \in DmRows : SentToTopics(JobOf[d]) /\ origin'[d] = "backfill"
                         => origin[d] = "backfill"]_vars
=============================================================================
