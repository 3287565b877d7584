--------------------------- MODULE IngestionProofs ---------------------------
(***************************************************************************)
(* Theorems about Ingestion, for every set of jobs, rows and runners, every*)
(* similarity relation, and any number of runs, backfills and lost runs.   *)
(***************************************************************************)
EXTENDS Ingestion, DeliveryQueueProofs

-----------------------------------------------------------------------------
(* The inductive invariant.                                                *)

(* What one runner's state says of the tables: it knows of every run that  *)
(* started after it, what it is about to queue it stored itself, and what  *)
(* it is about to store resembles only what overlapping runs stored.       *)
Numbered(l) ==
  l.pc # "idle" =>
    /\ l.number \in 1..starts /\ l.mode \in Modes
    /\ \A n \in (l.number + 1)..starts : <<l.number, n>> \in overlap

Staged(l) ==
  /\ l.pc \in {"fetch", "dedup", "fuzzy", "insert"} => l.mode # "backfill"
  /\ l.pc \in {"group_gaps", "dm_gaps"} => l.mode = "backfill"

Owned(l) ==
  /\ l.pc \in {"build", "group", "dm", "dm_gaps"} => l.batch \subseteq jobs
  /\ l.pc \in {"build", "group", "dm"} /\ l.mode # "backfill" =>
       \A j \in l.batch : inserter[j] = [mode |-> l.mode, number |-> l.number]
  /\ l.pc = "dm" \/ (l.pc = "group" /\ l.mode # "backfill") =>
       \A d \in l.dms : JobOf[d] \in l.batch

Apart(l) ==
  l.pc = "insert" =>
    \A j \in l.batch, k \in recent :
      <<j, k>> \in LookAlike /\ inserter[k].number < l.number =>
        <<inserter[k].number, l.number>> \in overlap

RunInv(l) == l \in Locals /\ Numbered(l) /\ Staged(l) /\ Owned(l) /\ Apart(l)

(* A row that was queued is in the table, and so is its job.               *)
OriginsStored ==
  \A d \in Rows : origin[d] # "none" =>
                    row[d].status # "absent" /\ JobOf[d] \in jobs

NumbersStarted == \A j \in jobs : inserter[j].number <= starts

IngestionInv ==
  /\ TypeOK
  /\ \A r \in Runners : RunInv(run[r])
  /\ OriginsStored
  /\ NumbersStarted
  /\ NoJobForgotten
  /\ RowsFollowTheirJob
  /\ LookalikesShareRun

-----------------------------------------------------------------------------
(* Lemmas about the steps.                                                 *)

LEMMA InsertStatus ==
  ASSUME NEW S, NEW unwanted, Insert(S, unwanted)
  PROVE  \A d \in Rows :
           IF d \in S /\ row[d].status = "absent"
           THEN row'[d].status = IF d \in unwanted THEN "skipped" ELSE "pending"
           ELSE row'[d] = row[d]
<1> DEFINE st(d) == IF d \in unwanted THEN "skipped" ELSE "pending"
           re(d) == IF d \in unwanted THEN "not_wanted" ELSE "none"
           new(d) == [Absent EXCEPT !.status = st(d), !.reason = re(d)]
<1>1. row' = [d \in Rows |-> IF d \in S /\ row[d].status = "absent"
                             THEN new(d) ELSE row[d]]
  BY DEF Insert
<1>2. \A d : new(d).status = st(d)
  BY DEF Absent
<1> HIDE DEF new
<1> QED
  BY <1>1, <1>2

(* One runner moves, the others stay.                                      *)
LEMMA OneRun ==
  ASSUME IngestionInv, NEW r \in Runners, NEW local \in Locals,
         Become(r, local)
  PROVE  /\ run' \in [Runners -> Locals]
         /\ run'[r] = local
         /\ \A q \in Runners \ {r} : run'[q] = run[q]
  BY DEF IngestionInv, TypeOK, Become

(* A stage that only hands its list on.                                    *)
LEMMA QuietStep ==
  ASSUME IngestionInv, NEW r \in Runners, NEW local, RunInv(local),
         Become(r, local), UNCHANGED <<row, jobs, recent, history, bounds>>,
         QueuesGroup(r) => /\ local.pc \in {"build", "group"}
                           /\ local.batch = run[r].batch
                           /\ local.mode = run[r].mode
                           /\ local.number = run[r].number
  PROVE  IngestionInv'
<1>1. local \in Locals
  BY DEF RunInv
<1>2. /\ run' \in [Runners -> Locals]
      /\ run'[r] = local
      /\ \A q \in Runners \ {r} : run'[q] = run[q]
  BY <1>1, OneRun
<1>3. ASSUME NEW q \in Runners PROVE RunInv(run[q])'
  BY <1>2, <1>3 DEF IngestionInv, RunInv, Numbered, Staged, Owned, Apart,
                    history, bounds
<1>4. TypeOK'
  BY <1>2, <1>3 DEF IngestionInv, TypeOK, QueueTypeOK, RunInv, Owned,
                    history, bounds
<1>5. NoJobForgotten'
  <2> SUFFICES ASSUME NEW j \in jobs, ~Queued(j), j \notin lost
               PROVE  OnItsWay(j)'
    BY DEF IngestionInv, NoJobForgotten, Queued, history
  <2>1. PICK q \in Runners : /\ QueuesGroup(q) /\ j \in run[q].batch
                             /\ run[q].number = inserter[j].number
    BY DEF IngestionInv, NoJobForgotten, OnItsWay
  <2>2. CASE q = r
    BY <1>2, <2>1, <2>2 DEF OnItsWay, QueuesGroup, history
  <2>3. CASE q # r
    BY <1>2, <2>1, <2>3 DEF OnItsWay, QueuesGroup, history
  <2> QED
    BY <2>2, <2>3
<1>6. OriginsStored' /\ NumbersStarted' /\ RowsFollowTheirJob'
      /\ LookalikesShareRun'
  BY DEF IngestionInv, OriginsStored, NumbersStarted, RowsFollowTheirJob,
         LookalikesShareRun, history, bounds
<1> QED
  BY <1>2, <1>3, <1>4, <1>5, <1>6 DEF IngestionInv

(* The stages of a run that only hand their list on.                       *)
LEMMA HandOnStep ==
  ASSUME IngestionInv, NEW r \in Runners, NEW batch \in SUBSET Jobs, NEW pc,
         HandOn(r, batch, pc), ~QueuesGroup(r), ~At(r, "idle"),
         UNCHANGED <<row, jobs, recent, history, bounds>>,
         \/ pc \in {"dedup", "fuzzy"} /\ run[r].mode # "backfill"
         \/ /\ pc = "insert" /\ run[r].mode # "backfill"
            /\ \A j \in batch, k \in recent : <<j, k>> \notin LookAlike
         \/ /\ pc \in {"group", "build"} /\ run[r].mode = "backfill"
            /\ batch \subseteq jobs
  PROVE  IngestionInv'
<1> DEFINE local == [run[r] EXCEPT !.batch = batch, !.pc = pc]
<1>1. RunInv(run[r]) /\ run[r] \in Locals
  BY DEF IngestionInv, RunInv
<1>2. /\ local \in Locals /\ local.batch = batch /\ local.pc = pc
      /\ local.mode = run[r].mode /\ local.number = run[r].number
      /\ local.dms = run[r].dms
  BY <1>1 DEF Locals, Pcs
<1>3. Become(r, local)
  BY DEF HandOn
<1> HIDE DEF local
<1>4. RunInv(local)
  BY <1>1, <1>2 DEF RunInv, Numbered, Staged, Owned, Apart, At
<1> QED
  BY <1>3, <1>4, QuietStep

LEMMA QuietStages ==
  ASSUME IngestionInv, NEW r \in Runners,
         Fetch(r) \/ Dedup(r) \/ FuzzyDedup(r) \/ FindGroupGaps(r) \/ FindDmGaps(r)
  PROVE  IngestionInv'
<1>1. /\ run[r] \in Locals /\ Staged(run[r])
      /\ jobs \subseteq Jobs
  BY DEF IngestionInv, RunInv, TypeOK
<1>2. CASE Fetch(r)
  <2>1. PICK offered \in SUBSET Jobs : HandOn(r, offered, "dedup")
    BY <1>2 DEF Fetch
  <2> QED
    BY <1>1, <1>2, <2>1, HandOnStep DEF Fetch, At, Staged, QueuesGroup
<1>3. CASE Dedup(r)
  <2>1. run[r].batch \ jobs \in SUBSET Jobs
    BY <1>1 DEF Locals
  <2> QED
    BY <1>1, <1>3, <2>1, HandOnStep DEF Dedup, At, Staged, QueuesGroup
<1>4. CASE FuzzyDedup(r)
  <2> DEFINE kept == {j \in run[r].batch : ~Similar(j, recent)}
  <2>1. kept \in SUBSET Jobs
    BY <1>1 DEF Locals
  <2>2. \A j \in kept, k \in recent : <<j, k>> \notin LookAlike
    BY DEF Similar
  <2>3. HandOn(r, kept, "insert")
    BY <1>4 DEF FuzzyDedup
  <2> HIDE DEF kept
  <2> QED
    BY <1>1, <1>4, <2>1, <2>2, <2>3, HandOnStep
    DEF FuzzyDedup, At, Staged, QueuesGroup
<1>5. CASE FindGroupGaps(r)
  <2> DEFINE gaps == Unsent \cap WithoutRows(GroupRows)
  <2>1. gaps \in SUBSET Jobs /\ gaps \subseteq jobs
    BY <1>1 DEF Unsent
  <2>2. HandOn(r, gaps, "group")
    BY <1>5 DEF FindGroupGaps
  <2> HIDE DEF gaps
  <2> QED
    BY <1>1, <1>5, <2>1, <2>2, HandOnStep
    DEF FindGroupGaps, At, Staged, QueuesGroup
<1>6. CASE FindDmGaps(r)
  <2> DEFINE gaps == Unsent \cap WithoutRows(DmRows)
  <2>1. gaps \in SUBSET Jobs /\ gaps \subseteq jobs
    BY <1>1 DEF Unsent
  <2>2. HandOn(r, gaps, "build")
    BY <1>6 DEF FindDmGaps
  <2> HIDE DEF gaps
  <2> QED
    BY <1>1, <1>6, <2>1, <2>2, HandOnStep
    DEF FindDmGaps, At, Staged, QueuesGroup
<1> QED
  BY <1>2, <1>3, <1>4, <1>5, <1>6

LEMMA BuildDmsStep ==
  ASSUME IngestionInv, NEW r \in Runners, BuildDms(r)
  PROVE  IngestionInv'
<1>1. PICK S \in SUBSET RowsOf(DmRows, run[r].batch) :
        Become(r, [run[r] EXCEPT !.dms = S,
          !.pc = IF run[r].mode = "backfill" THEN "dm" ELSE "group"])
  BY DEF BuildDms
<1> DEFINE pc == IF run[r].mode = "backfill" THEN "dm" ELSE "group"
           local == [run[r] EXCEPT !.dms = S, !.pc = pc]
<1>2. RunInv(run[r]) /\ run[r] \in Locals /\ run[r].pc = "build"
  BY DEF IngestionInv, RunInv, BuildDms, At
<1>3. S \subseteq DmRows /\ \A d \in S : JobOf[d] \in run[r].batch
  BY DEF RowsOf
<1>4. pc \in {"dm", "group"}
  OBVIOUS
<1>5. pc = "group" <=> run[r].mode # "backfill"
  OBVIOUS
<1>6. Become(r, local)
  BY <1>1
<1> HIDE DEF pc
<1>7. /\ local \in Locals /\ local.batch = run[r].batch /\ local.pc = pc
      /\ local.mode = run[r].mode /\ local.number = run[r].number
      /\ local.dms = S
  BY <1>2, <1>3, <1>4 DEF Locals, Pcs
<1> HIDE DEF local
<1>8. RunInv(local)
  BY <1>2, <1>3, <1>4, <1>7 DEF RunInv, Numbered, Staged, Owned, Apart
<1>9. UNCHANGED <<row, jobs, recent, history, bounds>>
  BY DEF BuildDms
<1> QED
  BY <1>2, <1>4, <1>5, <1>6, <1>7, <1>8, <1>9, QuietStep DEF QueuesGroup

(* A new run is younger than every other, and all that are under way are   *)
(* recorded as overlapping it.                                             *)
LEMMA StartStep ==
  ASSUME IngestionInv, NEW r \in Runners, NEW mode \in Modes, StartRun(r, mode)
  PROVE  IngestionInv'
<1> DEFINE pc == IF mode = "backfill" THEN "group_gaps" ELSE "fetch"
           local == [Idle EXCEPT !.mode = mode, !.number = starts + 1, !.pc = pc]
<1>1. /\ starts \in 0..MaxStarts /\ starts' = starts + 1 /\ starts' \in 0..MaxStarts
      /\ starts \in Nat /\ backfills' \in 0..MaxBackfills
  BY IngestionAssumption DEF IngestionInv, TypeOK, StartRun
<1>2. local \in Locals /\ local.pc = pc /\ local.mode = mode
      /\ local.number = starts' /\ local.batch = {} /\ local.dms = {}
  <2>1. pc \in Pcs
    BY DEF Pcs
  <2> HIDE DEF pc
  <2> QED
    BY <1>1, <2>1 DEF Idle, Locals
<1>3. Become(r, local)
  BY DEF StartRun
<1>4. pc \notin {"idle", "build", "group", "dm", "dm_gaps", "insert"}
      /\ (pc = "fetch" => mode # "backfill")
      /\ (pc # "fetch" => mode = "backfill" /\ pc = "group_gaps")
  OBVIOUS
<1> HIDE DEF pc, local
<1>5. /\ run' \in [Runners -> Locals]
      /\ run'[r] = local
      /\ \A q \in Runners \ {r} : run'[q] = run[q]
  BY <1>2, <1>3, OneRun
<1>6. UNCHANGED <<row, jobs, recent, inserter, origin, lost, faults>>
  BY DEF StartRun
<1>7. overlap' = overlap \cup {<<run[q].number, starts'>> : q \in Active}
  BY DEF StartRun
<1>8. \A q \in Runners : run[q] \in Locals /\ RunInv(run[q])
  BY DEF IngestionInv, RunInv
<1>9. ASSUME NEW q \in Runners PROVE RunInv(run[q])'
  <2>1. CASE q = r
    <3>1. ~ \E n \in (local.number + 1)..starts' : TRUE
      BY <1>1, <1>2
    <3>2. Numbered(run[q])'
      BY <1>1, <1>2, <1>5, <2>1, <3>1 DEF Numbered
    <3> QED
      BY <1>2, <1>4, <1>5, <2>1, <3>2 DEF RunInv, Staged, Owned, Apart
  <2>2. CASE q # r
    <3>1. run'[q] = run[q]
      BY <1>5, <2>2
    <3>2. ASSUME run[q].pc # "idle", NEW n \in (run[q].number + 1)..starts'
          PROVE  <<run[q].number, n>> \in overlap'
      <4>1. q \in Active
        BY <3>2 DEF Active, At
      <4>2. n \in (run[q].number + 1)..starts \/ n = starts'
        BY <1>1, <1>8, <3>2 DEF Locals
      <4> QED
        BY <1>7, <1>8, <3>2, <4>1, <4>2 DEF RunInv, Numbered
    <3>3. Numbered(run[q])'
      BY <1>1, <1>8, <3>1, <3>2 DEF RunInv, Numbered
    <3> QED
      BY <1>6, <1>7, <1>8, <3>1, <3>3 DEF RunInv, Staged, Owned, Apart
  <2> QED
    BY <2>1, <2>2
<1>10. overlap' \subseteq (0..MaxStarts) \X (0..MaxStarts)
  <2>1. \A q \in Runners : run[q].number \in 0..MaxStarts
    BY <1>8 DEF Locals
  <2>2. overlap \subseteq (0..MaxStarts) \X (0..MaxStarts)
    BY DEF IngestionInv, TypeOK
  <2> QED
    BY <1>1, <1>7, <2>1, <2>2 DEF Active
<1>11. TypeOK'
  <2>1. \A q \in Runners : run'[q].pc \in {"build", "group", "dm", "dm_gaps"}
                             => run'[q].batch \subseteq jobs'
    BY <1>9 DEF RunInv, Owned
  <2> QED
    BY <1>1, <1>5, <1>6, <1>10, <2>1 DEF IngestionInv, TypeOK, QueueTypeOK
<1>12. NoJobForgotten'
  <2> SUFFICES ASSUME NEW j \in jobs, ~Queued(j), j \notin lost
               PROVE  OnItsWay(j)'
    BY <1>6 DEF IngestionInv, NoJobForgotten, Queued
  <2>1. PICK q \in Runners : /\ QueuesGroup(q) /\ j \in run[q].batch
                             /\ run[q].number = inserter[j].number
    BY DEF IngestionInv, NoJobForgotten, OnItsWay
  <2>2. q # r
    BY <2>1 DEF QueuesGroup, StartRun, At
  <2> QED
    BY <1>5, <1>6, <2>1, <2>2 DEF OnItsWay, QueuesGroup
<1>13. OriginsStored' /\ RowsFollowTheirJob'
  BY <1>6 DEF IngestionInv, OriginsStored, RowsFollowTheirJob
<1>14. NumbersStarted'
  <2>1. \A j \in jobs : inserter[j].number \in Nat
    BY DEF IngestionInv, TypeOK
  <2> QED
    BY <1>1, <1>6, <2>1 DEF IngestionInv, NumbersStarted
<1>15. LookalikesShareRun'
  BY <1>6, <1>7 DEF IngestionInv, LookalikesShareRun
<1> QED
  BY <1>5, <1>9, <1>11, <1>12, <1>13, <1>14, <1>15 DEF IngestionInv

(* Storing a batch: what another run stored meanwhile is not touched, and  *)
(* whoever is about to store a look-alike overlaps this run.               *)
LEMMA InsertJobsStep ==
  ASSUME IngestionInv, NEW r \in Runners, InsertJobs(r)
  PROVE  IngestionInv'
<1> DEFINE inserted == run[r].batch \ jobs
           me == [mode |-> run[r].mode, number |-> run[r].number]
           local == IF inserted = {} THEN Idle
                    ELSE [run[r] EXCEPT !.batch = inserted, !.pc = "build"]
<1>1. /\ jobs' = jobs \cup inserted /\ recent' = recent \cup inserted
      /\ inserter' = [j \in Jobs |-> IF j \in inserted THEN me ELSE inserter[j]]
      /\ Become(r, local)
      /\ UNCHANGED <<row, origin, overlap, lost, bounds>>
      /\ run[r].pc = "insert"
  BY DEF InsertJobs, HandOn, At
<1>2. \A q \in Runners : run[q] \in Locals /\ RunInv(run[q])
  BY DEF IngestionInv, RunInv
<1>3. /\ inserted \subseteq Jobs /\ inserted \cap jobs = {}
      /\ inserted \subseteq run[r].batch
      /\ jobs \subseteq Jobs /\ recent \subseteq jobs
  BY <1>2 DEF Locals, IngestionInv, TypeOK
<1>4. /\ run[r].number \in 1..starts /\ run[r].mode \in {"live", "seed"}
      /\ starts \in Nat /\ starts \in 0..MaxStarts
  BY <1>1, <1>2 DEF RunInv, Numbered, Staged, Modes, IngestionInv, TypeOK
<1>5. /\ me \in [mode : Modes \cup {"none"}, number : 0..MaxStarts]
      /\ me.mode = run[r].mode /\ me.number = run[r].number
  BY <1>4, IngestionAssumption DEF Modes
<1>6. /\ \A j \in inserted : inserter'[j] = me
      /\ \A j \in Jobs \ inserted : inserter'[j] = inserter[j]
      /\ inserter' \in [Jobs -> [mode : Modes \cup {"none"}, number : 0..MaxStarts]]
  BY <1>1, <1>3, <1>5 DEF IngestionInv, TypeOK
<1>7. /\ local \in Locals
      /\ \/ local = Idle /\ inserted = {}
         \/ /\ local.pc = "build" /\ local.batch = inserted
            /\ local.mode = run[r].mode /\ local.number = run[r].number
  <2>1. CASE inserted = {}
    BY <2>1, IngestionAssumption DEF Idle, Locals, Pcs
  <2>2. CASE inserted # {}
    BY <1>2, <1>3, <2>2 DEF Locals, Pcs
  <2> QED
    BY <2>1, <2>2
<1> HIDE DEF local
<1>8. /\ run' \in [Runners -> Locals]
      /\ run'[r] = local
      /\ \A q \in Runners \ {r} : run'[q] = run[q]
  BY <1>1, <1>7, OneRun
<1> HIDE DEF inserted, me
<1>9. ASSUME NEW q \in Runners PROVE RunInv(run[q])'
  <2>1. CASE q = r
    <3>1. CASE local = Idle
      BY <1>7, <1>8, <2>1, <3>1 DEF RunInv, Numbered, Staged, Owned, Apart, Idle
    <3>2. CASE local # Idle
      <4>1. Numbered(run[q])' /\ Staged(run[q])' /\ Apart(run[q])'
        BY <1>1, <1>2, <1>4, <1>7, <1>8, <2>1, <3>2
        DEF RunInv, Numbered, Staged, Apart, bounds
      <4>2. me = [mode |-> run[r].mode, number |-> run[r].number]
        BY DEF me
      <4>3. Owned(run[q])'
        BY <1>1, <1>6, <1>7, <1>8, <2>1, <3>2, <4>2 DEF Owned
      <4> QED
        BY <1>7, <1>8, <2>1, <4>1, <4>3 DEF RunInv
    <3> QED
      BY <3>1, <3>2
  <2>2. CASE q # r
    <3>1. run'[q] = run[q]
      BY <1>8, <2>2
    <3>2. Numbered(run[q])' /\ Staged(run[q])'
      BY <1>1, <1>2, <3>1 DEF RunInv, Numbered, Staged, bounds
    <3>3. Owned(run[q])'
      <4>1. \A j \in jobs : inserter'[j] = inserter[j]
        BY <1>3, <1>6
      <4> QED
        BY <1>1, <1>2, <3>1, <4>1 DEF RunInv, Owned
    <3>4. ASSUME run[q].pc = "insert", NEW j \in run[q].batch, NEW k \in recent',
                 <<j, k>> \in LookAlike, inserter'[k].number < run[q].number
          PROVE  <<inserter'[k].number, run[q].number>> \in overlap
      <4>1. run[q].number \in 1..starts
        BY <1>2, <3>4 DEF RunInv, Numbered
      <4>2. CASE k \in inserted
        <5>1. inserter'[k].number = run[r].number
          BY <1>5, <1>6, <4>2
        <5>2. run[q].number \in (run[r].number + 1)..starts
          BY <1>4, <3>4, <4>1, <5>1
        <5> QED
          BY <1>1, <1>2, <5>1, <5>2 DEF RunInv, Numbered
      <4>3. CASE k \notin inserted
        <5>1. k \in recent /\ inserter'[k] = inserter[k]
          BY <1>1, <1>3, <1>6, <3>4, <4>3
        <5> QED
          BY <1>2, <3>4, <5>1 DEF RunInv, Apart
      <4> QED
        BY <4>2, <4>3
    <3>5. Apart(run[q])'
      BY <1>1, <3>1, <3>4 DEF Apart
    <3> QED
      BY <1>2, <3>1, <3>2, <3>3, <3>5 DEF RunInv
  <2> QED
    BY <2>1, <2>2
<1>10. TypeOK'
  <2>1. \A q \in Runners : run'[q].pc \in {"build", "group", "dm", "dm_gaps"}
                             => run'[q].batch \subseteq jobs'
    BY <1>9 DEF RunInv, Owned
  <2> QED
    BY <1>1, <1>3, <1>6, <1>8, <2>1
    DEF IngestionInv, TypeOK, QueueTypeOK, bounds
<1>11. NoJobForgotten'
  <2> SUFFICES ASSUME NEW j \in jobs', ~Queued(j), j \notin lost
               PROVE  OnItsWay(j)'
    BY <1>1 DEF NoJobForgotten, Queued
  <2>1. CASE j \in inserted
    BY <1>5, <1>6, <1>7, <1>8, <2>1, <1>4 DEF OnItsWay, QueuesGroup
  <2>2. CASE j \notin inserted
    <3>1. j \in jobs /\ inserter'[j] = inserter[j]
      BY <1>1, <1>3, <1>6, <2>2
    <3>2. PICK q \in Runners : /\ QueuesGroup(q) /\ j \in run[q].batch
                               /\ run[q].number = inserter[j].number
      BY <3>1 DEF IngestionInv, NoJobForgotten, OnItsWay
    <3>3. q # r
      BY <1>1, <3>2 DEF QueuesGroup
    <3> QED
      BY <1>8, <3>1, <3>2, <3>3 DEF OnItsWay, QueuesGroup
  <2> QED
    BY <2>1, <2>2
<1>12. OriginsStored' /\ RowsFollowTheirJob'
  <2>1. ASSUME NEW d \in Rows, origin[d] # "none"
        PROVE  JobOf[d] \in jobs' /\ inserter'[JobOf[d]] = inserter[JobOf[d]]
    BY <1>1, <1>3, <1>6, <2>1 DEF IngestionInv, OriginsStored
  <2> QED
    BY <1>1, <2>1 DEF IngestionInv, OriginsStored, RowsFollowTheirJob
<1>13. NumbersStarted'
  BY <1>1, <1>3, <1>4, <1>5, <1>6 DEF IngestionInv, NumbersStarted, bounds
<1>14. LookalikesShareRun'
  <2> SUFFICES ASSUME NEW j \in recent', NEW k \in recent',
                      <<j, k>> \in LookAlike,
                      inserter'[k].number < inserter'[j].number
               PROVE  <<inserter'[k].number, inserter'[j].number>> \in overlap
    BY <1>1 DEF LookalikesShareRun
  <2>1. \A i \in recent' \ inserted : i \in recent /\ i \in jobs
                                      /\ inserter'[i] = inserter[i]
    BY <1>1, <1>3, <1>6
  <2>2. CASE j \in inserted /\ k \in inserted
    BY <1>4, <1>5, <1>6, <2>2
  <2>3. CASE j \in inserted /\ k \notin inserted
    BY <1>1, <1>2, <1>3, <1>5, <1>6, <2>1, <2>3 DEF RunInv, Apart
  <2>4. CASE j \notin inserted /\ k \in inserted
    <3>1. /\ inserter'[k].number = run[r].number /\ inserter'[j] = inserter[j]
          /\ inserter[j].number <= starts /\ inserter[j].number \in Nat
      BY <1>3, <1>5, <1>6, <2>1, <2>4 DEF IngestionInv, NumbersStarted, TypeOK
    <3>2. inserter[j].number \in (run[r].number + 1)..starts
      BY <1>4, <3>1
    <3> QED
      BY <1>1, <1>2, <3>1, <3>2 DEF RunInv, Numbered
  <2>5. CASE j \notin inserted /\ k \notin inserted
    BY <2>1, <2>5 DEF IngestionInv, LookalikesShareRun
  <2> QED
    BY <2>2, <2>3, <2>4, <2>5
<1> QED
  BY <1>8, <1>9, <1>10, <1>11, <1>12, <1>13, <1>14 DEF IngestionInv

(* One INSERT of delivery rows: group rows of the whole batch, or dm_rows. *)
(* Rows of other runs that were there first are left alone.                *)
LEMMA StoreStep ==
  ASSUME IngestionInv, NEW r \in Runners, NEW S \in SUBSET Rows, Store(r, S),
         run[r].pc \in {"group", "dm"},
         \A d \in S : JobOf[d] \in run[r].batch,
         UNCHANGED <<jobs, recent, inserter, overlap, lost, bounds>>,
         NEW local, RunInv(local), Become(r, local), ~QueuesGroup(r)',
         QueuesGroup(r) => S = RowsOf(GroupRows, run[r].batch)
  PROVE  IngestionInv'
<1>1. /\ run' \in [Runners -> Locals]
      /\ run'[r] = local
      /\ \A q \in Runners \ {r} : run'[q] = run[q]
  BY OneRun DEF RunInv
<1>2. /\ QueueTypeOK'
      /\ \A d \in Rows :
           IF d \in S /\ row[d].status = "absent"
           THEN row'[d].status = IF d \in Unwanted(r) THEN "skipped" ELSE "pending"
           ELSE row'[d] = row[d]
  BY InsertType, InsertStatus DEF Store, IngestionInv, TypeOK
<1>3. /\ run[r].mode \in Modes /\ RunInv(run[r]) /\ run[r].batch \subseteq jobs
  BY DEF IngestionInv, RunInv, Numbered, Owned
<1>4. /\ origin' \in [Rows -> Modes \cup {"none"}]
      /\ \A d \in Rows : origin'[d] = IF d \in S /\ row[d].status = "absent"
                                      THEN run[r].mode ELSE origin[d]
  BY <1>3 DEF Store, IngestionInv, TypeOK
<1>5. ASSUME NEW q \in Runners PROVE RunInv(run[q])'
  BY <1>1 DEF IngestionInv, RunInv, Numbered, Staged, Owned, Apart, bounds
<1>6. TypeOK'
  <2>1. \A q \in Runners : run'[q].pc \in {"build", "group", "dm", "dm_gaps"}
                             => run'[q].batch \subseteq jobs'
    BY <1>5 DEF RunInv, Owned
  <2> QED
    BY <1>1, <1>2, <1>4, <2>1 DEF IngestionInv, TypeOK, bounds
<1>7. NoJobForgotten'
  <2> SUFFICES ASSUME NEW j \in jobs, ~Queued(j)', j \notin lost
               PROVE  OnItsWay(j)'
    BY DEF NoJobForgotten
  <2>1. ~Queued(j)
    BY <1>2 DEF Queued, RowsOf, Rows
  <2>2. PICK q \in Runners : /\ QueuesGroup(q) /\ j \in run[q].batch
                             /\ run[q].number = inserter[j].number
    BY <2>1 DEF IngestionInv, NoJobForgotten, OnItsWay
  <2>3. CASE q = r
    <3>1. S = RowsOf(GroupRows, run[r].batch)
      BY <2>2, <2>3
    <3>2. \A d \in RowsOf(GroupRows, {j}) : d \in S /\ d \in Rows
      BY <2>2, <2>3, <3>1 DEF RowsOf, Rows
    <3>3. Queued(j)'
      BY <1>2, <3>2 DEF Queued
    <3> QED
      BY <3>3
  <2>4. CASE q # r
    BY <1>1, <2>2, <2>4 DEF OnItsWay, QueuesGroup
  <2> QED
    BY <2>3, <2>4
<1>8. OriginsStored'
  BY <1>2, <1>3, <1>4 DEF IngestionInv, OriginsStored
<1>9. RowsFollowTheirJob'
  <2> SUFFICES ASSUME NEW d \in Rows, origin'[d] \in {"live", "seed"}
               PROVE  /\ origin'[d] = inserter[JobOf[d]].mode
                      /\ row'[d].status = "skipped" <=>
                           (d \in Topicless \/ inserter[JobOf[d]].mode = "seed")
    BY DEF RowsFollowTheirJob
  <2>1. CASE d \in S /\ row[d].status = "absent"
    <3>1. origin'[d] = run[r].mode /\ run[r].mode \in {"live", "seed"}
      BY <1>4, <2>1
    <3>2. inserter[JobOf[d]] = [mode |-> run[r].mode, number |-> run[r].number]
      BY <1>3, <2>1, <3>1 DEF RunInv, Owned
    <3>3. d \in Unwanted(r) <=> d \in Topicless \/ run[r].mode = "seed"
      BY DEF Unwanted
    <3> QED
      BY <1>2, <2>1, <3>1, <3>2, <3>3
  <2>2. CASE ~(d \in S /\ row[d].status = "absent")
    BY <1>2, <1>4, <2>2 DEF IngestionInv, RowsFollowTheirJob
  <2> QED
    BY <2>1, <2>2
<1>10. NumbersStarted' /\ LookalikesShareRun'
  BY DEF IngestionInv, NumbersStarted, LookalikesShareRun, bounds
<1> QED
  BY <1>1, <1>5, <1>6, <1>7, <1>8, <1>9, <1>10 DEF IngestionInv

LEMMA InsertGroupStep ==
  ASSUME IngestionInv, NEW r \in Runners, InsertGroup(r)
  PROVE  IngestionInv'
<1> DEFINE pc == IF run[r].mode = "backfill" THEN "dm_gaps" ELSE "dm"
           local == [run[r] EXCEPT !.pc = pc]
           S == RowsOf(GroupRows, run[r].batch)
<1>1. RunInv(run[r]) /\ run[r] \in Locals /\ run[r].pc = "group"
  BY DEF IngestionInv, RunInv, InsertGroup, At
<1>2. S \subseteq Rows
      /\ \A d \in S : JobOf[d] \in run[r].batch
  BY DEF RowsOf, Rows
<1>3. Store(r, S) /\ Become(r, local)
      /\ UNCHANGED <<jobs, recent, inserter, overlap, lost, bounds>>
  BY DEF InsertGroup
<1>4. pc \in {"dm", "dm_gaps"} /\ (pc = "dm" <=> run[r].mode # "backfill")
  OBVIOUS
<1> HIDE DEF pc
<1>5. /\ local \in Locals /\ local.batch = run[r].batch /\ local.pc = pc
      /\ local.mode = run[r].mode /\ local.number = run[r].number
      /\ local.dms = run[r].dms
  BY <1>1, <1>4 DEF Locals, Pcs
<1> HIDE DEF local
<1>6. RunInv(local)
  BY <1>1, <1>4, <1>5 DEF RunInv, Numbered, Staged, Owned, Apart
<1>7. ~QueuesGroup(r)'
  BY <1>3, <1>4, <1>5, OneRun DEF QueuesGroup
<1>8. QueuesGroup(r) => S = RowsOf(GroupRows, run[r].batch)
  OBVIOUS
<1> HIDE DEF S
<1> QED
  BY <1>1, <1>2, <1>3, <1>6, <1>7, <1>8, StoreStep

LEMMA IdleRun == Idle \in Locals /\ (IngestionInv => RunInv(Idle))
<1>1. Idle \in Locals
  BY IngestionAssumption DEF Idle, Locals, Pcs
<1> QED
  BY <1>1 DEF Idle, RunInv, Numbered, Staged, Owned, Apart

LEMMA InsertDmsStep ==
  ASSUME IngestionInv, NEW r \in Runners, InsertDms(r)
  PROVE  IngestionInv'
<1>1. RunInv(run[r]) /\ run[r] \in Locals /\ run[r].pc = "dm"
  BY DEF IngestionInv, RunInv, InsertDms, At
<1>2. /\ run[r].dms \subseteq Rows
      /\ \A d \in run[r].dms : JobOf[d] \in run[r].batch
  BY <1>1 DEF RunInv, Owned, Locals, Rows
<1>3. Store(r, run[r].dms) /\ Become(r, Idle)
      /\ UNCHANGED <<jobs, recent, inserter, overlap, lost, bounds>>
  BY DEF InsertDms
<1>4. ~QueuesGroup(r)' /\ ~QueuesGroup(r)
  BY <1>1, <1>3, IdleRun, OneRun DEF QueuesGroup, Idle
<1> QED
  BY <1>1, <1>2, <1>3, <1>4, IdleRun, StoreStep

(* A run that is lost before it queued its batch leaves it to nobody.      *)
LEMMA AbandonStep ==
  ASSUME IngestionInv, NEW r \in Runners, Abandon(r)
  PROVE  IngestionInv'
<1>1. /\ run' \in [Runners -> Locals]
      /\ run'[r] = Idle
      /\ \A q \in Runners \ {r} : run'[q] = run[q]
  BY OneRun, IdleRun DEF Abandon
<1>2. /\ UNCHANGED <<row, jobs, recent, inserter, origin, overlap, starts, backfills>>
      /\ faults' = faults + 1 /\ faults < MaxFaults
      /\ lost' = IF QueuesGroup(r) THEN lost \cup run[r].batch ELSE lost
  BY DEF Abandon
<1>3. QueuesGroup(r) => run[r].batch \subseteq jobs
  BY DEF QueuesGroup, IngestionInv, RunInv, Owned
<1>4. ASSUME NEW q \in Runners PROVE RunInv(run[q])'
  <2>1. CASE q = r
    BY <1>1, <2>1, IdleRun DEF RunInv, Numbered, Staged, Owned, Apart, Idle
  <2>2. CASE q # r
    BY <1>1, <1>2, <2>2
    DEF IngestionInv, RunInv, Numbered, Staged, Owned, Apart
  <2> QED
    BY <2>1, <2>2
<1>5. TypeOK'
  <2>1. \A q \in Runners : run'[q].pc \in {"build", "group", "dm", "dm_gaps"}
                             => run'[q].batch \subseteq jobs'
    BY <1>4 DEF RunInv, Owned
  <2>2. faults' \in 0..MaxFaults
    BY <1>2, IngestionAssumption DEF IngestionInv, TypeOK
  <2> QED
    BY <1>1, <1>2, <1>3, <2>1, <2>2 DEF IngestionInv, TypeOK, QueueTypeOK
<1>6. NoJobForgotten'
  <2> SUFFICES ASSUME NEW j \in jobs, ~Queued(j), j \notin lost'
               PROVE  OnItsWay(j)'
    BY <1>2 DEF NoJobForgotten, Queued
  <2>1. PICK q \in Runners : /\ QueuesGroup(q) /\ j \in run[q].batch
                             /\ run[q].number = inserter[j].number
    BY <1>2 DEF IngestionInv, NoJobForgotten, OnItsWay
  <2>2. q # r
    BY <1>2, <2>1
  <2> QED
    BY <1>1, <1>2, <2>1, <2>2 DEF OnItsWay, QueuesGroup
<1>7. OriginsStored' /\ NumbersStarted' /\ RowsFollowTheirJob'
      /\ LookalikesShareRun'
  BY <1>2 DEF IngestionInv, OriginsStored, NumbersStarted, RowsFollowTheirJob,
              LookalikesShareRun
<1> QED
  BY <1>1, <1>4, <1>5, <1>6, <1>7 DEF IngestionInv

LEMMA AgeStep ==
  ASSUME IngestionInv, NEW j \in Jobs, Age(j)
  PROVE  IngestionInv'
<1>1. /\ recent' = recent \ {j}
      /\ UNCHANGED <<row, jobs, run, history, bounds>>
  BY DEF Age
<1>2. ASSUME NEW q \in Runners PROVE RunInv(run[q])'
  BY <1>1 DEF IngestionInv, RunInv, Numbered, Staged, Owned, Apart,
              history, bounds
<1>3. TypeOK'
  BY <1>1 DEF IngestionInv, TypeOK, QueueTypeOK, history, bounds
<1>4. NoJobForgotten'
  BY <1>1 DEF IngestionInv, NoJobForgotten, Queued, OnItsWay, QueuesGroup, history
<1>5. OriginsStored' /\ NumbersStarted' /\ RowsFollowTheirJob'
      /\ LookalikesShareRun'
  BY <1>1 DEF IngestionInv, OriginsStored, NumbersStarted, RowsFollowTheirJob,
              LookalikesShareRun, history, bounds
<1> QED
  BY <1>2, <1>3, <1>4, <1>5 DEF IngestionInv

(* A delivery touches pending and processing rows only.                    *)
LEMMA DeliverRow ==
  ASSUME QueueTypeOK, NEW d \in Rows,
         \/ d \in Due(Rows) /\ Claim({d})
         \/ row[d].status = "processing" /\ MarkSent(d, TRUE)
  PROVE  /\ QueueTypeOK'
         /\ \A e \in Rows : \/ row'[e] = row[e]
                            \/ /\ row[e].status \in {"pending", "processing"}
                               /\ row'[e].status \in {"processing", "sent"}
<1>1. CASE d \in Due(Rows) /\ Claim({d})
  <2>1. {d} \in SUBSET Due(Rows)
    BY <1>1
  <2> QED
    BY <1>1, <2>1, ClaimType
<1>2. CASE row[d].status = "processing" /\ MarkSent(d, TRUE)
  BY <1>2, MarkSentType
<1> QED
  BY <1>1, <1>2

LEMMA DeliverStep ==
  ASSUME IngestionInv, NEW d \in Rows, Deliver(d)
  PROVE  IngestionInv'
<1>1. /\ QueueTypeOK'
      /\ \A e \in Rows : \/ row'[e] = row[e]
                         \/ /\ row[e].status \in {"pending", "processing"}
                            /\ row'[e].status \in {"processing", "sent"}
  BY DeliverRow DEF Deliver, IngestionInv, TypeOK
<1>2. UNCHANGED <<jobs, recent, run, history, bounds>>
  BY DEF Deliver
<1>3. \A e \in Rows : /\ row'[e].status = "absent" <=> row[e].status = "absent"
                      /\ row'[e].status = "skipped" <=> row[e].status = "skipped"
  BY <1>1
<1>4. ASSUME NEW q \in Runners PROVE RunInv(run[q])'
  BY <1>2 DEF IngestionInv, RunInv, Numbered, Staged, Owned, Apart,
              history, bounds
<1>5. TypeOK'
  BY <1>1, <1>2 DEF IngestionInv, TypeOK, history, bounds
<1>6. NoJobForgotten'
  <2>1. \A j \in jobs : Queued(j) => Queued(j)'
    BY <1>3 DEF Queued, RowsOf, Rows
  <2> QED
    BY <1>2, <2>1
    DEF IngestionInv, NoJobForgotten, OnItsWay, QueuesGroup, history
<1>7. OriginsStored' /\ NumbersStarted' /\ RowsFollowTheirJob'
      /\ LookalikesShareRun'
  BY <1>2, <1>3 DEF IngestionInv, OriginsStored, NumbersStarted,
                    RowsFollowTheirJob, LookalikesShareRun, history, bounds
<1> QED
  BY <1>2, <1>4, <1>5, <1>6, <1>7 DEF IngestionInv

LEMMA StutterStep ==
  ASSUME IngestionInv, UNCHANGED vars
  PROVE  IngestionInv'
<1>1. ASSUME NEW q \in Runners PROVE RunInv(run[q])'
  BY DEF IngestionInv, RunInv, Numbered, Staged, Owned, Apart,
         vars, history, bounds
<1>2. TypeOK'
  BY DEF IngestionInv, TypeOK, QueueTypeOK, vars, history, bounds
<1>3. NoJobForgotten'
  BY DEF IngestionInv, NoJobForgotten, Queued, OnItsWay, QueuesGroup,
         vars, history
<1>4. OriginsStored' /\ NumbersStarted' /\ RowsFollowTheirJob'
      /\ LookalikesShareRun'
  BY DEF IngestionInv, OriginsStored, NumbersStarted, RowsFollowTheirJob,
         LookalikesShareRun, vars, history, bounds
<1> QED
  BY <1>1, <1>2, <1>3, <1>4 DEF IngestionInv

-----------------------------------------------------------------------------
(* The theorems.                                                           *)

LEMMA InitInv == Init => IngestionInv
<1> SUFFICES ASSUME Init PROVE IngestionInv
  OBVIOUS
<1>1. QueueTypeOK
  BY QueueAssumption
  DEF Init, QueueInit, QueueTypeOK, Absent, Row, Statuses, Reasons, AgeCap
<1>2. \A r \in Runners : run[r] = Idle /\ RunInv(run[r])
  BY IdleRun DEF Init, RunInv, Numbered, Staged, Owned, Apart, Idle
<1>3. TypeOK
  BY <1>1, <1>2, IdleRun, IngestionAssumption
  DEF Init, TypeOK, NoRun, Idle
<1>4. OriginsStored /\ NumbersStarted /\ NoJobForgotten
      /\ RowsFollowTheirJob /\ LookalikesShareRun
  BY DEF Init, OriginsStored, NumbersStarted, NoJobForgotten,
         RowsFollowTheirJob, LookalikesShareRun
<1> QED
  BY <1>2, <1>3, <1>4 DEF IngestionInv

LEMMA Inductive == Spec => []IngestionInv
<1>1. IngestionInv /\ [Next]_vars => IngestionInv'
  <2> SUFFICES ASSUME IngestionInv, [Next]_vars PROVE IngestionInv'
    OBVIOUS
  <2>1. CASE \E r \in Runners : RunStep(r)
    BY <2>1, QuietStages, BuildDmsStep, InsertJobsStep, InsertGroupStep,
       InsertDmsStep DEF RunStep
  <2>2. CASE \E r \in Runners : Abandon(r)
    BY <2>2, AbandonStep
  <2>3. CASE \E r \in Runners, mode \in Modes : StartRun(r, mode)
    BY <2>3, StartStep
  <2>4. CASE \E j \in Jobs : Age(j)
    BY <2>4, AgeStep
  <2>5. CASE \E d \in Rows : Deliver(d)
    BY <2>5, DeliverStep
  <2>6. CASE UNCHANGED vars
    BY <2>6, StutterStep
  <2> QED
    BY <2>1, <2>2, <2>3, <2>4, <2>5, <2>6 DEF Next
<1> QED
  BY <1>1, InitInv, PTL DEF Spec

(* Every variable of the ingestion pipeline keeps its type, and a run only *)
(* queues deliveries of jobs that are in the table (main.py:88-107).       *)
THEOREM IngestionTypeCorrect == Spec => []TypeOK
<1>1. IngestionInv => TypeOK
  BY DEF IngestionInv
<1> QED
  BY <1>1, Inductive, PTL

(* However many runs race, a stored job is queued, on its way in the run   *)
(* that stored it, or was lost with that run (insert_jobs_batch returns    *)
(* each job to exactly one run).                                           *)
THEOREM NoJobForgottenHolds == Spec => []NoJobForgotten
<1>1. IngestionInv => NoJobForgotten
  BY DEF IngestionInv
<1> QED
  BY <1>1, Inductive, PTL

(* A row that no backfill queued is live or skipped as the run that stored *)
(* its job decided (build_group_topic_deliveries,                          *)
(* build_subscriber_dm_deliveries).                                        *)
THEOREM RowsFollowTheirJobHolds == Spec => []RowsFollowTheirJob
<1>1. IngestionInv => RowsFollowTheirJob
  BY DEF IngestionInv
<1> QED
  BY <1>1, Inductive, PTL

(* Two recent look-alikes were stored by one run or by overlapping runs    *)
(* (fuzzy_dedup_batch).                                                    *)
THEOREM LookalikesShareRunHolds == Spec => []LookalikesShareRun
<1>1. IngestionInv => LookalikesShareRun
  BY DEF IngestionInv
<1> QED
  BY <1>1, Inductive, PTL

(* What is sent is never queued again, by no run and no backfill (ON       *)
(* CONFLICT DO NOTHING in _insert_delivery_rows).                          *)
THEOREM SentStaysSentHolds == Spec => SentStaysSent
<1> DEFINE Kept == \A d \in Rows : row[d].status = "sent" => row'[d].status = "sent"
<1>1. IngestionInv /\ [Next]_vars => [Kept]_vars
  <2> SUFFICES ASSUME IngestionInv, Next PROVE Kept
    OBVIOUS
  <2>1. CASE \E r \in Runners : InsertGroup(r) \/ InsertDms(r)
    BY <2>1, InsertStatus DEF InsertGroup, InsertDms, Store
  <2>2. CASE \E d \in Rows : Deliver(d)
    <3>1. PICK d \in Rows : Deliver(d)
      BY <2>2
    <3> QED
      BY <3>1, DeliverRow DEF Deliver, IngestionInv, TypeOK
  <2>3. CASE UNCHANGED row
    BY <2>3
  <2> QED
    BY <2>1, <2>2, <2>3
    DEF Next, RunStep, Fetch, Dedup, FuzzyDedup, InsertJobs, BuildDms,
        FindGroupGaps, FindDmGaps, Abandon, StartRun, Age
<1> QED
  BY <1>1, Inductive, PTL DEF Spec, SentStaysSent
=============================================================================
