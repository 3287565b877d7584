------------------------- MODULE DeliverySingleProofs -------------------------
(***************************************************************************)
(* What holds with one worker, which is how the Compose stack runs, for    *)
(* DM rows as well: nobody else takes, settles or gives back the rows of   *)
(* its batch, because leases are recovered between batches only.           *)
(***************************************************************************)
EXTENDS DeliveryCycleProofs, WellFoundedInduction

OneWorker == \E w : Workers = {w}

(* A claimed record: its row is in processing under the record's number,   *)
(* and nothing was shown under it.                                         *)
Fresh(r) ==
  /\ row[r.id].status = "processing" /\ row[r.id].attempts = r.attempt
  /\ posts[r.id][r.attempt] = 0

BatchOK(local) ==
  /\ \A r \in local.todo : Fresh(r)
  /\ \A r, s \in HeldBy(local) : r.id = s.id => r = s
  /\ local.cur \notin local.todo

(* The record in hand.  Only bookkeeping after the mark finds it sent, and *)
(* a failure of that bookkeeping counts as retryable.                      *)
SentInHand(local) ==
  /\ local.cur.id \in GroupRows
  /\ local.pc \in {"aggregate", "fail", "write_failure"}
  /\ local.pc # "aggregate" => local.retry
  /\ row[local.cur.id].status = "sent" /\ row[local.cur.id].acked
  /\ posts[local.cur.id][local.cur.attempt] > 0

(* Nothing was shown yet for the record in hand.                           *)
Unshown(local) ==
  \/ local.pc \in {"release", "check", "skip"}
  \/ local.pc = "send" /\ local.cur.id \in DmRows

HandOK(local) ==
  /\ local.acked => local.cur # NoRecord /\ posts[local.cur.id][local.cur.attempt] > 0
  /\ local.cur # NoRecord =>
       /\ row[local.cur.id].attempts = local.cur.attempt
       /\ row[local.cur.id].status = "processing" \/ SentInHand(local)
       /\ Unshown(local) => posts[local.cur.id][local.cur.attempt] = 0
       /\ local.pc = "write_failure" => local.seen = local.cur.attempt

(* What recovery read is still so when it writes.                          *)
StaleOK(local) ==
  /\ local.pc # "recover" => local.stale = {}
  /\ \A s \in local.stale : row[s[1]].status = "processing" /\ row[s[1]].attempts = s[2]

LocalOK(local) == BatchOK(local) /\ HandOK(local) /\ StaleOK(local)

(* The table against what Telegram has shown.                              *)
RowOK(d) ==
  /\ row[d].status = "absent" => row[d].attempts = 0 /\ ~row[d].acked
  /\ \A k \in 1..MaxAttempts : posts[d][k] > 0 => k <= row[d].attempts
  /\ d \in DmRows => \A k \in 1..MaxAttempts : posts[d][k] <= 1
  /\ replays = 0 /\ row[d].status = "pending" => row[d].attempts < MaxAttempts

SingleInv ==
  /\ OneWorker /\ TypeInv
  /\ \A w \in Workers : LocalOK(worker[w])
  /\ \A d \in Rows : RowOK(d)

-----------------------------------------------------------------------------
(* The worker's state is the only one.                                     *)
LEMMA Only ==
  ASSUME SingleInv, NEW w \in Workers
  PROVE  /\ Workers = {w} /\ TypeInv /\ LocalOK(worker[w]) /\ worker[w] \in Locals
         /\ \A d \in Rows : RowOK(d)
  BY DEF SingleInv, OneWorker, TypeInv, TypeOK

LEMMA Becomes ==
  ASSUME TypeInv, NEW w \in Workers, NEW local, Become(w, local)
  PROVE  worker'[w] = local
  BY DEF TypeInv, TypeOK, Become

(* Every record of a batch names a row and a claim of it.                  *)
LEMMA HeldTypes ==
  ASSUME TypeInv, NEW w \in Workers, NEW r \in HeldBy(worker[w])
  PROVE  r \in Records /\ r.id \in Rows /\ r.attempt \in 1..MaxAttempts /\ r # NoRecord
<1>1. r \in Records
  BY DEF TypeInv, Shape, Locals, HeldBy
<1> QED
  BY <1>1, NoRecordAssumption DEF Records

LEMMA RowTypes ==
  ASSUME TypeInv, NEW d \in Rows
  PROVE  /\ row[d] \in Row /\ row[d].attempts \in 0..MaxAttempts /\ row[d].attempts \in Int
         /\ \A k \in 1..MaxAttempts : posts[d][k] \in Nat
<1>1. row[d] \in Row /\ posts[d] \in [1..MaxAttempts -> Nat]
  BY DEF TypeInv, TypeOK, QueueTypeOK
<1> QED
  BY <1>1, QueueAssumption DEF Row

(* Together the parts are the invariant.                                   *)
LEMMA Whole ==
  ASSUME SingleInv, TypeInv', NEW w \in Workers, LocalOK(worker[w])', \A d \in Rows : RowOK(d)'
  PROVE  SingleInv'
<1>1. Workers = {w}
  BY Only
<1> QED
  BY <1>1 DEF SingleInv, OneWorker

(* A step of the worker that writes nothing, keeps what it holds or drops  *)
(* it, and does not come to recovery.                                      *)
LEMMA QuietKeeps ==
  ASSUME SingleInv, TypeInv', NEW w \in Workers, UNCHANGED <<row, posts, replays>>,
         worker'[w].todo \subseteq worker[w].todo,
         HeldBy(worker'[w]) \subseteq HeldBy(worker[w]),
         worker'[w].cur \notin worker'[w].todo,
         worker'[w].stale \subseteq worker[w].stale,
         worker'[w].pc # "recover" => worker'[w].stale = {},
         HandOK(worker[w])'
  PROVE  SingleInv'
<1>1. BatchOK(worker[w])'
  BY Only DEF BatchOK, LocalOK, Fresh, HeldBy
<1>2. StaleOK(worker[w])'
  BY Only DEF StaleOK, LocalOK
<1>3. \A d \in Rows : RowOK(d)'
  BY Only DEF RowOK
<1> QED
  BY <1>1, <1>2, <1>3, Whole DEF LocalOK

(* A step of the worker that writes one row of its batch and forgets it.   *)
LEMMA DoneKeeps ==
  ASSUME SingleInv, TypeInv', NEW w \in Workers, NEW r \in HeldBy(worker[w]),
         UNCHANGED <<posts, replays>>,
         \A e \in Rows \ {r.id} : row'[e] = row[e],
         row'[r.id].status \notin {"absent"},
         \/ row'[r.id].attempts = r.attempt
         \/ posts[r.id][r.attempt] = 0 /\ row'[r.id].attempts = r.attempt - 1,
         replays = 0 /\ row'[r.id].status = "pending" => row'[r.id].attempts < MaxAttempts,
         worker'[w].todo = worker[w].todo \ {r},
         worker'[w].cur = NoRecord, worker'[w].acked = FALSE,
         worker'[w].stale = worker[w].stale,
         worker[w].pc # "recover", worker'[w].pc # "recover"
  PROVE  SingleInv'
<1>0. /\ TypeInv /\ LocalOK(worker[w]) /\ worker[w] \in Locals
      /\ NoRecord \notin worker'[w].todo
  BY Only, NoRecordAssumption DEF Locals
<1>1. r.id \in Rows /\ r.attempt \in 1..MaxAttempts /\ r \in Records
  BY <1>0, HeldTypes
<1>2. \A q \in worker'[w].todo : q \in HeldBy(worker[w]) /\ q.id # r.id /\ q.id \in Rows
  <2> SUFFICES ASSUME NEW q \in worker'[w].todo
               PROVE  q \in HeldBy(worker[w]) /\ q.id # r.id /\ q.id \in Rows
    OBVIOUS
  <2>1. q \in HeldBy(worker[w]) /\ q # r
    BY DEF HeldBy
  <2> QED
    BY <1>0, <2>1, HeldTypes DEF LocalOK, BatchOK
<1>3. BatchOK(worker[w])'
  <2>1. \A q \in worker'[w].todo : Fresh(q)'
    BY <1>0, <1>2 DEF LocalOK, BatchOK, Fresh
  <2>2. HeldBy(worker[w])' \subseteq HeldBy(worker[w])
    BY DEF HeldBy
  <2> QED
    BY <1>0, <2>1, <2>2 DEF LocalOK, BatchOK
<1>4. HandOK(worker[w])' /\ StaleOK(worker[w])'
  BY <1>0 DEF HandOK, StaleOK, LocalOK
<1>5. ASSUME NEW d \in Rows PROVE RowOK(d)'
  <2>0. RowOK(d)
    BY Only
  <2>1. CASE d # r.id
    BY <2>0, <2>1 DEF RowOK
  <2>2. CASE d = r.id
    <3>1. row[d].attempts = r.attempt
      BY <1>0, <2>2 DEF LocalOK, BatchOK, HandOK, Fresh, HeldBy
    <3>2. \A k \in 1..MaxAttempts : posts[d][k] > 0 => k <= row'[d].attempts
      BY <1>0, <1>1, <2>0, <2>2, <3>1, RowTypes DEF RowOK
    <3> QED
      BY <2>0, <2>2, <3>2 DEF RowOK
  <2> QED
    BY <2>1, <2>2
<1> QED
  BY <1>3, <1>4, <1>5, Whole DEF LocalOK

(* A send that may have been shown.                                        *)
LEMMA PostKeeps ==
  ASSUME SingleInv, TypeInv', NEW w \in Workers, worker[w].pc = "send", Post(w),
         UNCHANGED <<row, replays>>,
         worker'[w].todo = worker[w].todo, worker'[w].cur = worker[w].cur,
         worker'[w].stale = worker[w].stale,
         worker'[w].pc \in {"send", "fail", "mark_sent"},
         worker'[w].pc = "send" => OnGroup(w)
  PROVE  SingleInv'
<1> DEFINE d == CurRow(w)
           n == Cur(w).attempt
<1>0. /\ TypeInv /\ LocalOK(worker[w]) /\ worker[w].pc \in HandPcs
      /\ worker[w].cur # NoRecord
  BY Only DEF HandPcs, TypeInv, Shape
<1>1. /\ posts'[d][n] = posts[d][n] + 1
      /\ \A e \in Rows, k \in 1..MaxAttempts : e # d \/ k # n => posts'[e][k] = posts[e][k]
      /\ d \in Rows /\ n \in 1..MaxAttempts /\ (~OnGroup(w) => d \in DmRows)
      /\ posts[d][n] \in Nat
  BY <1>0, PostType, InHand, RowTypes
<1>2. /\ row[d].status = "processing" /\ row[d].attempts = n
      /\ d \in DmRows => posts[d][n] = 0
      /\ OnGroup(w) => d \notin DmRows
  BY <1>0, QueueAssumption DEF LocalOK, HandOK, SentInHand, Unshown, CurRow, Cur, OnGroup
<1>3. \A q \in worker[w].todo : q.id \in Rows /\ q.id # d /\ q.attempt \in 1..MaxAttempts
  <2> SUFFICES ASSUME NEW q \in worker[w].todo
               PROVE  q.id \in Rows /\ q.id # d /\ q.attempt \in 1..MaxAttempts
    OBVIOUS
  <2>1. q \in HeldBy(worker[w]) /\ worker[w].cur \in HeldBy(worker[w]) /\ q # worker[w].cur
    BY <1>0 DEF HeldBy, LocalOK, BatchOK
  <2> QED
    BY <1>0, <2>1, HeldTypes DEF LocalOK, BatchOK, CurRow, Cur
<1>4. BatchOK(worker[w])'
  <2>1. \A q \in worker'[w].todo : Fresh(q)'
    BY <1>0, <1>1, <1>3 DEF LocalOK, BatchOK, Fresh
  <2> QED
    BY <1>0, <2>1 DEF LocalOK, BatchOK, HeldBy
<1>5. HandOK(worker[w])'
  BY <1>0, <1>1, <1>2 DEF HandOK, Unshown, CurRow, Cur, OnGroup
<1>6. StaleOK(worker[w])'
  BY <1>0 DEF LocalOK, StaleOK
<1>7. ASSUME NEW e \in Rows PROVE RowOK(e)'
  <2>1. RowOK(e)
    BY Only
  <2>2. \A k \in 1..MaxAttempts : posts'[e][k] > 0 => k <= row[e].attempts
    BY <1>1, <1>2, <2>1 DEF RowOK
  <2>3. e \in DmRows => \A k \in 1..MaxAttempts : posts'[e][k] <= 1
    BY <1>1, <1>2, <2>1 DEF RowOK
  <2> QED
    BY <2>1, <2>2, <2>3 DEF RowOK
<1> QED
  BY <1>4, <1>5, <1>6, <1>7, Whole DEF LocalOK

(* Rows that nobody holds and recovery did not read.                       *)
LEMMA ElsewhereKeeps ==
  ASSUME SingleInv, TypeInv', UNCHANGED <<worker, posts>>,
         \A d \in Rows :
           \/ /\ row'[d].status = row[d].status /\ row'[d].attempts = row[d].attempts
              /\ row'[d].acked = row[d].acked
           \/ row[d].status \notin {"processing", "sent"} /\ row'[d].attempts = row[d].attempts
              /\ row'[d].status # "absent",
         \A d \in Rows : RowOK(d)'
  PROVE  SingleInv'
<1> SUFFICES ASSUME NEW w \in Workers PROVE LocalOK(worker[w])'
  BY DEF SingleInv, OneWorker
<1>0. TypeInv /\ LocalOK(worker[w]) /\ worker[w] \in Locals
  BY Only
<1>1. \A r \in HeldBy(worker[w]) : r.id \in Rows
  BY <1>0, HeldTypes
<1>2. BatchOK(worker[w])'
  <2>1. \A r \in worker[w].todo : Fresh(r)'
    BY <1>0, <1>1 DEF LocalOK, BatchOK, Fresh, HeldBy
  <2> QED
    BY <1>0, <2>1 DEF LocalOK, BatchOK, HeldBy
<1>3. HandOK(worker[w])'
  BY <1>0, <1>1 DEF LocalOK, HandOK, SentInHand, Unshown, HeldBy
<1>4. StaleOK(worker[w])'
  BY <1>0 DEF LocalOK, StaleOK, Locals
<1> QED
  BY <1>2, <1>3, <1>4 DEF LocalOK

-----------------------------------------------------------------------------
(* The cycle                                                               *)

LEMMA Empty ==
  ASSUME SingleInv, NEW w \in Workers, worker[w].pc \notin HandPcs
  PROVE  worker[w].cur = NoRecord /\ worker[w].acked = FALSE
  BY Only DEF TypeInv, Shape, LocalOK, HandOK, Locals

LEMMA StartCycleKeeps ==
  ASSUME SingleInv, TypeInv', NEW w \in Workers, StartCycle(w)
  PROVE  SingleInv'
<1> DEFINE st == {<<d, row[d].attempts>> : d \in Expired}
           l  == [Idle EXCEPT !.pc = "recover", !.stale = st]
<1>1. worker'[w] = l /\ UNCHANGED <<row, posts, replays>>
  BY Only, Becomes DEF StartCycle, environment
<1>2. /\ l.pc = "recover" /\ l.stale = st /\ l.todo = {} /\ l.cur = NoRecord
      /\ l.acked = FALSE
  BY DEF Idle
<1>3. \A s \in st : row[s[1]].status = "processing" /\ row[s[1]].attempts = s[2]
  BY DEF Expired
<1> HIDE DEF l, st
<1>4. BatchOK(worker[w])' /\ HandOK(worker[w])' /\ StaleOK(worker[w])'
  BY <1>1, <1>2, <1>3 DEF BatchOK, HandOK, StaleOK, HeldBy
<1>5. \A d \in Rows : RowOK(d)'
  BY <1>1, Only DEF RowOK
<1> QED
  BY <1>4, <1>5, Whole DEF LocalOK

LEMMA RecoverNextKeeps ==
  ASSUME SingleInv, TypeInv', NEW w \in Workers, RecoverNext(w)
  PROVE  SingleInv'
<1>0. TypeInv /\ QueueTypeOK /\ LocalOK(worker[w]) /\ worker[w] \in Locals
  BY Only DEF TypeInv, TypeOK
<1>1. PICK s \in worker[w].stale :
        /\ RecoverStale(s[1], s[2])
        /\ Become(w, [worker[w] EXCEPT !.stale = @ \ {s}])
  BY DEF RecoverNext
<1>2. /\ s[1] \in Rows /\ s[2] \in 0..MaxAttempts /\ s = <<s[1], s[2]>>
      /\ worker[w].pc = "recover" /\ UNCHANGED <<posts, replays>>
      /\ row[s[1]].status = "processing" /\ row[s[1]].attempts = s[2]
  BY <1>0 DEF Locals, RecoverNext, At, environment, LocalOK, StaleOK
<1>3. /\ worker'[w].pc = "recover" /\ worker'[w].todo = {} /\ worker'[w].cur = NoRecord
      /\ worker'[w].acked = FALSE /\ worker'[w].stale = worker[w].stale \ {s}
  <2>1. worker[w].acked = FALSE
    BY <1>2, Empty DEF HandPcs
  <2>2. worker'[w] = [worker[w] EXCEPT !.stale = @ \ {s}]
    BY <1>0, <1>1, Becomes
  <2> QED
    BY <1>0, <1>1, <1>2, <2>1, <2>2, RecoverStep DEF Locals
<1>4. /\ row'[s[1]].status = IF s[2] < MaxAttempts THEN "pending" ELSE "dead_letter"
      /\ row'[s[1]].attempts = row[s[1]].attempts
      /\ row'[s[1]].acked = row[s[1]].acked
      /\ \A e \in Rows \ {s[1]} : row'[e] = row[e]
  BY <1>0, <1>1, <1>2, RecoverStaleType
<1>5. BatchOK(worker[w])' /\ HandOK(worker[w])'
  BY <1>3 DEF BatchOK, HandOK, HeldBy
<1>6. StaleOK(worker[w])'
  <2> SUFFICES ASSUME NEW t \in worker[w].stale, t # s
               PROVE  row'[t[1]].status = "processing" /\ row'[t[1]].attempts = t[2]
    BY <1>3 DEF StaleOK
  <2>1. /\ t[1] \in Rows /\ t = <<t[1], t[2]>>
        /\ row[t[1]].status = "processing" /\ row[t[1]].attempts = t[2]
    BY <1>0 DEF Locals, LocalOK, StaleOK
  <2>2. t[1] # s[1]
    BY <1>2, <2>1
  <2> QED
    BY <1>4, <2>1, <2>2
<1>7. ASSUME NEW d \in Rows PROVE RowOK(d)'
  <2>1. RowOK(d) /\ row[d].attempts \in 0..MaxAttempts
    BY <1>0, Only, RowTypes
  <2>2. CASE d # s[1]
    BY <1>2, <1>4, <2>1, <2>2 DEF RowOK
  <2>3. CASE d = s[1]
    BY <1>2, <1>4, <2>1, <2>3, QueueAssumption DEF RowOK
  <2> QED
    BY <2>2, <2>3
<1> QED
  BY <1>5, <1>6, <1>7, Whole DEF LocalOK

(* A batch of either kind; nothing was shown under a number nobody took.   *)
LEMMA BatchKeeps ==
  ASSUME SingleInv, TypeInv', NEW w \in Workers, NEW kind \in {GroupRows, DmRows},
         NEW S \in Batches(kind, BatchSize), Claim(S), UNCHANGED <<posts, replays>>,
         worker'[w].todo = Claimed(S), worker'[w].cur = NoRecord,
         worker'[w].acked = FALSE, worker'[w].pc # "recover", worker'[w].stale = {}
  PROVE  SingleInv'
<1>0. /\ TypeInv /\ QueueTypeOK /\ S \in SUBSET Due(kind) /\ kind \in SUBSET Rows
      /\ Claimed(S) \in SUBSET Records /\ \A r \in Claimed(S) : r.id \in kind
  BY Only, ClaimedRecords DEF TypeInv, TypeOK, Rows
<1>1. /\ \A d \in S : /\ row'[d].status = "processing"
                      /\ row'[d].attempts = row[d].attempts + 1
                      /\ row[d].status = "pending"
      /\ \A d \in Rows \ S : row'[d] = row[d]
  BY <1>0, ClaimType
<1>2. \A r \in Claimed(S) : r.id \in S /\ r.attempt = row[r.id].attempts + 1
  BY DEF Claimed
<1>3. \A r \in Claimed(S) : Fresh(r)'
  <2> SUFFICES ASSUME NEW r \in Claimed(S) PROVE posts[r.id][r.attempt] = 0
    BY <1>1, <1>2 DEF Fresh
  <2>1. r.id \in Rows /\ r.attempt \in 1..MaxAttempts
    BY <1>0 DEF Records
  <2>2. RowOK(r.id) /\ posts[r.id][r.attempt] \in Nat /\ row[r.id].attempts \in Int
    BY <1>0, <2>1, Only, RowTypes
  <2>3. ~(r.attempt <= row[r.id].attempts)
    BY <1>2, <2>2
  <2> QED
    BY <2>1, <2>2, <2>3 DEF RowOK
<1>4. BatchOK(worker[w])'
  <2>1. \A r, s \in Claimed(S) : r.id = s.id => r = s
    BY DEF Claimed
  <2>2. NoRecord \notin Claimed(S)
    BY <1>0, NoRecordAssumption
  <2> QED
    BY <1>3, <2>1, <2>2 DEF BatchOK, HeldBy
<1>5. HandOK(worker[w])' /\ StaleOK(worker[w])'
  BY DEF HandOK, StaleOK
<1>6. ASSUME NEW d \in Rows PROVE RowOK(d)'
  <2>1. RowOK(d) /\ row[d].attempts \in Int
    BY <1>0, Only, RowTypes
  <2>2. CASE d \in S
    <3>1. \A k \in 1..MaxAttempts : posts[d][k] > 0 => k <= row'[d].attempts
      BY <1>1, <2>1, <2>2 DEF RowOK
    <3> QED
      BY <1>1, <2>1, <2>2, <3>1 DEF RowOK
  <2>3. CASE d \notin S
    BY <1>1, <2>1, <2>3 DEF RowOK
  <2> QED
    BY <2>2, <2>3
<1> QED
  BY <1>4, <1>5, <1>6, Whole DEF LocalOK

(* The cycle ends, or is cut short: the batch is left as it is.            *)
LEMMA IdleKeeps ==
  ASSUME SingleInv, TypeInv', NEW w \in Workers, Become(w, Idle),
         UNCHANGED <<row, posts, replays>>
  PROVE  SingleInv'
<1>1. worker'[w] = Idle
  BY Only, Becomes
<1>2. /\ Idle.pc = "idle" /\ Idle.todo = {} /\ Idle.cur = NoRecord
      /\ Idle.stale = {} /\ Idle.acked = FALSE
  BY DEF Idle
<1>3. HandOK(worker[w])'
  BY <1>1, <1>2 DEF HandOK
<1> QED
  BY <1>1, <1>2, <1>3, QuietKeeps DEF HeldBy

LEMMA CycleKeeps ==
  ASSUME SingleInv, TypeInv', NEW w \in Workers,
         CycleStep(w) \/ EndCycle(w) \/ Abandon(w)
  PROVE  SingleInv'
<1>0. TypeInv /\ LocalOK(worker[w]) /\ worker[w] \in Locals
  BY Only
<1>1. CASE ClaimGroup(w)
  <2>1. PICK S \in Batches(GroupRows, BatchSize) :
          /\ Claim(S)
          /\ Become(w, [worker[w] EXCEPT !.pc = "group", !.todo = Claimed(S),
                          !.busy = (S # {}), !.counts = Idle.counts])
    BY <1>1 DEF ClaimGroup
  <2>2. /\ worker[w].pc \notin HandPcs /\ worker[w].stale = {}
        /\ UNCHANGED <<posts, replays>>
    BY <1>0, <1>1 DEF ClaimGroup, AtLoopHead, At, HandPcs, environment, LocalOK, StaleOK
  <2>3. worker'[w] = [worker[w] EXCEPT !.pc = "group", !.todo = Claimed(S),
                        !.busy = (S # {}), !.counts = Idle.counts]
    BY <1>0, <2>1, Becomes
  <2>4. /\ worker'[w].todo = Claimed(S) /\ worker'[w].cur = NoRecord
        /\ worker'[w].acked = FALSE /\ worker'[w].pc = "group" /\ worker'[w].stale = {}
    BY <1>0, <2>2, <2>3, Empty DEF Locals
  <2> QED
    BY <2>1, <2>2, <2>4, BatchKeeps
<1>2. CASE ClaimDm(w)
  <2>1. PICK S \in Batches(DmRows, BatchSize) :
          /\ Claim(S)
          /\ IF S = {} /\ ~worker[w].busy
             THEN Become(w, Idle)
             ELSE Become(w, [worker[w] EXCEPT !.pc = "dm", !.todo = Claimed(S),
                               !.busy = FALSE])
    BY <1>2 DEF ClaimDm
  <2>2. /\ worker[w].pc \notin HandPcs /\ worker[w].stale = {}
        /\ UNCHANGED <<posts, replays>>
    BY <1>0, <1>2 DEF ClaimDm, At, HandPcs, environment, LocalOK, StaleOK
  <2>3. /\ worker'[w].todo = Claimed(S) /\ worker'[w].cur = NoRecord
        /\ worker'[w].acked = FALSE /\ worker'[w].pc # "recover" /\ worker'[w].stale = {}
    <3>1. CASE S = {} /\ ~worker[w].busy
      <4>1. worker'[w] = Idle /\ Claimed(S) = {}
        BY <1>0, <2>1, <3>1, Becomes DEF Claimed
      <4> QED
        BY <4>1 DEF Idle
    <3>2. CASE ~(S = {} /\ ~worker[w].busy)
      <4>1. worker'[w] = [worker[w] EXCEPT !.pc = "dm", !.todo = Claimed(S), !.busy = FALSE]
        BY <1>0, <2>1, <3>2, Becomes
      <4> QED
        BY <1>0, <2>2, <4>1, Empty DEF Locals
    <3> QED
      BY <3>1, <3>2
  <2> QED
    BY <2>1, <2>2, <2>3, BatchKeeps
<1>3. CASE EndCycle(w) \/ Abandon(w)
  BY <1>3, IdleKeeps DEF EndCycle, Abandon, environment
<1> QED
  BY <1>1, <1>2, <1>3, StartCycleKeeps, RecoverNextKeeps DEF CycleStep

-----------------------------------------------------------------------------
(* The record in hand                                                      *)

(* The worker goes on with the record in hand and writes nothing.          *)
LEMMA InHandKeeps ==
  ASSUME SingleInv, TypeInv', NEW w \in Workers, worker[w].pc \in HandPcs,
         UNCHANGED <<row, posts, replays>>, Keeps(w),
         worker'[w].pc \in HandPcs,
         worker'[w].cur = worker[w].cur, worker'[w].acked = worker[w].acked,
         Unshown(worker'[w]) => Unshown(worker[w]),
         worker'[w].pc = "write_failure" => worker'[w].seen = row[CurRow(w)].attempts,
         SentInHand(worker[w]) =>
           worker'[w].pc \in {"fail", "write_failure"} /\ worker'[w].retry
  PROVE  SingleInv'
<1>0. LocalOK(worker[w]) /\ worker[w].cur # NoRecord
  BY Only DEF TypeInv, Shape
<1>1. Unshown(worker[w])' <=> Unshown(worker'[w])
  BY DEF Unshown
<1>2. /\ row[CurRow(w)].attempts = worker[w].cur.attempt
      /\ row[CurRow(w)].status = "processing" \/ SentInHand(worker[w])
  BY <1>0 DEF LocalOK, HandOK, CurRow, Cur
<1>3. SentInHand(worker[w]) => SentInHand(worker[w])'
  BY DEF SentInHand
<1>4. HandOK(worker[w])'
  BY <1>0, <1>1, <1>2, <1>3 DEF LocalOK, HandOK, CurRow, Cur
<1>5. /\ HeldBy(worker'[w]) = HeldBy(worker[w]) /\ worker'[w].cur \notin worker'[w].todo
      /\ worker'[w].stale = {} /\ worker[w].stale = {}
  BY <1>0 DEF HeldBy, Keeps, LocalOK, BatchOK, StaleOK, HandPcs
<1> QED
  BY <1>4, <1>5, QuietKeeps DEF Keeps

(* An except clause takes the record over before anything was marked.      *)
LEMMA FailKeeps ==
  ASSUME SingleInv, TypeInv', NEW w \in Workers, worker[w].pc \in HandPcs,
         NEW retryable \in BOOLEAN, Fail(w, retryable),
         worker[w].pc \in {"aggregate", "fail", "write_failure"} => retryable,
         UNCHANGED <<row, posts, replays>>
  PROVE  SingleInv'
<1>1. /\ Keeps(w) /\ worker'[w].pc = "fail" /\ worker'[w].cur = worker[w].cur
      /\ worker'[w].acked = worker[w].acked
  BY Only, FailStep
<1>2. worker'[w].retry = retryable
  <2>1. /\ worker'[w] = [worker[w] EXCEPT !.pc = "fail", !.retry = retryable]
        /\ worker[w] \in Locals
    BY Only, Becomes DEF Fail
  <2> QED
    BY <2>1, Zenon DEF Locals
<1> QED
  BY <1>1, <1>2, InHandKeeps DEF Unshown, SentInHand, HandPcs

(* The row in hand is written and the record is done with.                 *)
LEMMA SettledKeeps ==
  ASSUME SingleInv, TypeInv', NEW w \in Workers, worker[w].pc \in HandPcs,
         UNCHANGED <<posts, replays>>, Keeps(w),
         worker'[w].cur = NoRecord, worker'[w].acked = FALSE,
         worker'[w].pc # "recover",
         \A e \in Rows \ {CurRow(w)} : row'[e] = row[e],
         row'[CurRow(w)].status # "absent",
         \/ row'[CurRow(w)].attempts = row[CurRow(w)].attempts
         \/ /\ posts[CurRow(w)][Cur(w).attempt] = 0
            /\ row'[CurRow(w)].attempts = row[CurRow(w)].attempts - 1,
         replays = 0 /\ row'[CurRow(w)].status = "pending" =>
           row'[CurRow(w)].attempts < MaxAttempts
  PROVE  SingleInv'
<1>0. LocalOK(worker[w]) /\ worker[w].cur # NoRecord /\ worker[w].pc # "recover"
  BY Only DEF TypeInv, Shape, HandPcs
<1>1. worker[w].cur \in HeldBy(worker[w]) /\ worker'[w].todo = worker[w].todo \ {worker[w].cur}
  BY <1>0 DEF HeldBy, Keeps, LocalOK, BatchOK
<1>2. row[CurRow(w)].attempts = worker[w].cur.attempt
  BY <1>0 DEF LocalOK, HandOK, CurRow, Cur
<1> QED
  BY <1>0, <1>1, <1>2, DoneKeeps DEF Keeps, CurRow, Cur

(* What is known of the row in hand.                                       *)
LEMMA HandRow ==
  ASSUME SingleInv, NEW w \in Workers, worker[w].pc \in HandPcs
  PROVE  /\ TypeInv /\ QueueTypeOK /\ worker[w] \in Locals /\ worker[w].cur # NoRecord
         /\ CurRow(w) \in Rows /\ Cur(w).attempt \in 1..MaxAttempts
         /\ row[CurRow(w)].attempts = Cur(w).attempt
         /\ row[CurRow(w)].status = "processing" \/ SentInHand(worker[w])
         /\ worker[w].acked \in BOOLEAN /\ worker[w].retry \in BOOLEAN
         /\ worker[w].seen \in 0..MaxAttempts
         /\ worker[w].acked => posts[CurRow(w)][Cur(w).attempt] > 0
<1>1. TypeInv /\ LocalOK(worker[w]) /\ worker[w] \in Locals
  BY Only
<1>2. QueueTypeOK /\ worker[w].cur # NoRecord
  BY <1>1 DEF TypeInv, TypeOK, Shape
<1> QED
  BY <1>1, <1>2, InHand DEF LocalOK, HandOK, CurRow, Cur, Locals

LEMMA GroupKeeps ==
  ASSUME SingleInv, TypeInv', NEW w \in Workers, GroupStep(w)
  PROVE  SingleInv'
<1>0. TypeInv /\ QueueTypeOK /\ LocalOK(worker[w]) /\ worker[w] \in Locals
  BY Only DEF TypeInv, TypeOK
<1>1. CASE SkipUnconfigured(w)
  <2>1. PICK r \in worker[w].todo :
          /\ MarkSkipped(r.id)
          /\ Become(w, [worker[w] EXCEPT !.todo = @ \ {r}])
    BY <1>1 DEF SkipUnconfigured
  <2>2. /\ worker[w].pc = "group" /\ UNCHANGED <<posts, replays>>
        /\ r \in HeldBy(worker[w]) /\ r.id \in Rows
    BY <1>0, <1>1, DropStep, <2>1, HeldTypes DEF SkipUnconfigured, At, environment, HeldBy
  <2>3. /\ worker'[w].pc = "group" /\ worker'[w].cur = NoRecord
        /\ worker'[w].todo = worker[w].todo \ {r}
        /\ worker'[w].stale = worker[w].stale
        /\ worker'[w].acked = worker[w].acked /\ worker[w].acked = FALSE
    BY <1>0, <2>1, <2>2, DropStep, Empty DEF HandPcs
  <2>4. /\ row'[r.id].status = "skipped" /\ row'[r.id].attempts = row[r.id].attempts
        /\ \A e \in Rows \ {r.id} : row'[e] = row[e]
    BY <1>0, <2>1, <2>2, MarkSkippedType
  <2>5. row[r.id].attempts = r.attempt
    BY <1>0 DEF LocalOK, BatchOK, Fresh
  <2> QED
    BY <2>2, <2>3, <2>4, <2>5, DoneKeeps
<1>2. CASE TakeGroup(w)
  <2>1. PICK r \in worker[w].todo :
          Become(w, [worker[w] EXCEPT !.pc = "send", !.todo = @ \ {r},
                                      !.cur = r, !.tries = 1])
    BY <1>2 DEF TakeGroup
  <2>2. /\ worker[w].pc = "group" /\ UNCHANGED <<row, posts, replays>>
        /\ worker[w].stale = {} /\ r # NoRecord /\ r \in HeldBy(worker[w])
    BY <1>0, <1>2, NoRecordAssumption
    DEF TakeGroup, At, environment, LocalOK, StaleOK, Locals, HeldBy
  <2>3. /\ r.id \in GroupRows /\ worker'[w].pc = "send" /\ worker'[w].cur = r
        /\ worker'[w].todo = worker[w].todo \ {r}
        /\ worker'[w].stale = worker[w].stale
        /\ worker'[w].acked = worker[w].acked /\ worker[w].acked = FALSE
    BY <1>0, <2>1, <2>2, TakeGroupStep, Empty DEF HandPcs
  <2>4. HandOK(worker[w])'
    BY <1>0, <2>2, <2>3, QueueAssumption DEF HandOK, Unshown, LocalOK, BatchOK, Fresh
  <2>5. HeldBy(worker'[w]) \subseteq HeldBy(worker[w])
    BY <2>2, <2>3 DEF HeldBy
  <2> QED
    BY <2>2, <2>3, <2>4, <2>5, QuietKeeps
<1>3. CASE GroupFlooded(w)
  <2>1. /\ worker[w].pc = "send" /\ UNCHANGED <<row, posts, replays>>
        /\ worker[w].pc \in HandPcs
    BY <1>3 DEF GroupFlooded, At, environment, HandPcs
  <2>2. /\ Keeps(w) /\ worker'[w].cur = worker[w].cur /\ worker'[w].acked = worker[w].acked
        /\ worker'[w].pc \in {"send", "mark_sent"}
    BY <1>0, <1>3, <2>1, TryAgainStep, GoStep DEF GroupFlooded, HandPcs
  <2> QED
    BY <2>1, <2>2, InHandKeeps DEF Unshown, SentInHand, HandPcs
<1>4. CASE GroupUnanswered(w)
  <2>1. /\ worker[w].pc = "send" /\ UNCHANGED <<row, replays>>
        /\ worker[w].pc \in HandPcs /\ OnGroup(w)
    BY <1>4 DEF GroupUnanswered, At, environment, HandPcs
  <2>2. /\ Keeps(w) /\ worker'[w].cur = worker[w].cur
        /\ worker'[w].acked = worker[w].acked /\ worker'[w].pc \in {"send", "fail"}
    BY <1>0, <1>4, <2>1, TryAgainStep, FailStep DEF GroupUnanswered
  <2>3. CASE UNCHANGED posts
    BY <2>1, <2>2, <2>3, InHandKeeps DEF Unshown, SentInHand, HandPcs
  <2>4. CASE Post(w)
    BY <2>1, <2>2, <2>4, PostKeeps DEF Keeps
  <2> QED
    BY <1>4, <2>3, <2>4 DEF GroupUnanswered
<1>5. CASE GroupRefused(w)
  <2>1. worker[w].pc = "send" /\ UNCHANGED <<row, posts, replays>> /\ worker[w].pc \in HandPcs
    BY <1>5 DEF GroupRefused, At, environment, HandPcs
  <2> QED
    BY <1>5, <2>1, FailKeeps DEF GroupRefused
<1>6. CASE MarkSentGroup(w)
  <2> DEFINE d == CurRow(w)
  <2>1. /\ worker[w].pc = "mark_sent" /\ UNCHANGED <<posts, replays>>
        /\ worker[w].pc \in HandPcs /\ d \in GroupRows
    BY <1>6 DEF MarkSentGroup, At, environment, HandPcs, OnGroup
  <2>2. /\ d \in Rows /\ Cur(w).attempt \in 1..MaxAttempts /\ worker[w].cur # NoRecord
        /\ worker[w].acked \in BOOLEAN /\ row[d].attempts = Cur(w).attempt
        /\ worker[w].acked => posts[d][Cur(w).attempt] > 0
    BY <2>1, HandRow
  <2>3. /\ row'[d].status = "sent" /\ row'[d].attempts = row[d].attempts
        /\ row'[d].acked = worker[w].acked
        /\ \A e \in Rows \ {d} : row'[e] = row[e]
    BY <1>0, <1>6, <2>2, MarkSentType DEF MarkSentGroup
  <2>4. CASE ~worker[w].acked
    <3>1. NextRecord(w)
      BY <1>6, <2>4 DEF MarkSentGroup
    <3>2. /\ Keeps(w) /\ worker'[w].cur = NoRecord /\ worker'[w].acked = FALSE
          /\ worker'[w].pc # "recover"
      BY <1>0, <2>1, <3>1, NextRecordStep
    <3> QED
      BY <2>1, <2>3, <3>2, SettledKeeps
  <2>5. CASE worker[w].acked
    <3>1. Go(w, "aggregate")
      BY <1>6, <2>5 DEF MarkSentGroup
    <3>2. /\ Keeps(w) /\ worker'[w].pc = "aggregate" /\ worker'[w].cur = worker[w].cur
          /\ worker'[w].acked = worker[w].acked
      BY <1>0, <2>1, <3>1, GoStep DEF HandPcs
    <3>3. /\ worker[w].cur \in HeldBy(worker[w]) /\ worker[w].cur \notin worker[w].todo
          /\ worker[w].stale = {} /\ HeldBy(worker'[w]) = HeldBy(worker[w])
      BY <1>0, <2>1, <2>2, <3>2 DEF HeldBy, LocalOK, BatchOK, StaleOK, Keeps
    <3>4. ASSUME NEW q \in worker[w].todo PROVE Fresh(q)' /\ q.id # d
      <4>1. q \in HeldBy(worker[w]) /\ q.id \in Rows
        BY <1>0, HeldTypes DEF HeldBy
      <4>2. q.id # d
        BY <1>0, <3>3, <4>1 DEF LocalOK, BatchOK, CurRow, Cur
      <4> QED
        BY <1>0, <2>1, <2>3, <4>1, <4>2 DEF LocalOK, BatchOK, Fresh
    <3>5. BatchOK(worker[w])' /\ StaleOK(worker[w])'
      BY <1>0, <3>2, <3>3, <3>4 DEF LocalOK, BatchOK, StaleOK, Keeps
    <3>6. SentInHand(worker[w])'
      BY <2>1, <2>2, <2>3, <2>5, <3>2 DEF SentInHand, CurRow, Cur
    <3>7. HandOK(worker[w])'
      BY <2>1, <2>2, <2>3, <3>2, <3>6 DEF HandOK, Unshown, CurRow, Cur
    <3>8. ASSUME NEW e \in Rows PROVE RowOK(e)'
      <4>1. RowOK(e)
        BY Only
      <4> QED
        BY <2>1, <2>3, <4>1 DEF RowOK
    <3> QED
      BY <3>5, <3>7, <3>8, Whole DEF LocalOK
  <2> QED
    BY <2>4, <2>5
<1>7. CASE Aggregate(w)
  <2>1. /\ worker[w].pc = "aggregate" /\ UNCHANGED <<row, posts, replays>>
        /\ worker[w].pc \in HandPcs /\ NextRecord(w)
    BY <1>7 DEF Aggregate, At, environment, HandPcs
  <2>2. /\ Keeps(w) /\ worker'[w].cur = NoRecord /\ worker'[w].acked = FALSE
        /\ worker'[w].pc # "recover"
    BY <1>0, <2>1, NextRecordStep
  <2>3. HandOK(worker[w])' /\ worker[w].stale = {}
    BY <1>0, <2>1, <2>2 DEF HandOK, LocalOK, StaleOK
  <2>4. /\ HeldBy(worker'[w]) \subseteq HeldBy(worker[w])
        /\ worker'[w].cur \notin worker'[w].todo
    BY <1>0, <2>2, NoRecordAssumption DEF HeldBy, Keeps, Locals
  <2> QED
    BY <2>1, <2>2, <2>3, <2>4, QuietKeeps DEF Keeps
<1> QED
  BY <1>1, <1>2, <1>3, <1>4, <1>5, <1>6, <1>7 DEF GroupStep

(* A released record gives its number back.                               *)
LEMMA Refunded ==
  ASSUME QueueTypeOK, NEW d \in Rows, row[d].attempts > 0, ReleaseToPending(d)
  PROVE  row'[d].attempts = row[d].attempts - 1
<1>1. row \in [Rows -> Row] /\ row[d] \in Row
  BY DEF QueueTypeOK
<1> DEFINE n == row[d].attempts - 1
<1>2. row' = [row EXCEPT ![d] = [@ EXCEPT !.status = "pending", !.age = 0,
                                          !.wait = 0, !.attempts = n]]
  BY DEF ReleaseToPending
<1> HIDE DEF n
<1>3. row'[d].attempts = n
  BY <1>1, <1>2 DEF Row
<1> QED
  BY <1>3 DEF n

LEMMA DmKeeps ==
  ASSUME SingleInv, TypeInv', NEW w \in Workers, DmStep(w)
  PROVE  SingleInv'
<1>0. TypeInv /\ QueueTypeOK /\ LocalOK(worker[w]) /\ worker[w] \in Locals
  BY Only DEF TypeInv, TypeOK
<1>1. CASE TakeDm(w)
  <2>1. /\ worker[w].pc = "dm" /\ UNCHANGED <<row, posts, replays>>
        /\ worker[w].stale = {} /\ worker[w].acked = FALSE
    BY <1>0, <1>1, Empty DEF TakeDm, At, environment, LocalOK, StaleOK, HandPcs
  <2>2. PICK r \in worker[w].todo :
          /\ worker'[w].pc \in {"release", "check"} /\ worker'[w].cur = r
          /\ worker'[w].todo = worker[w].todo \ {r}
    BY <1>0, <1>1, TakeDmTyped
  <2>3. /\ worker'[w].stale = worker[w].stale /\ worker'[w].acked = worker[w].acked
        /\ r # NoRecord /\ r \in HeldBy(worker[w])
    BY <1>0, <1>1, <2>2, TakeDmTyped, NoRecordAssumption DEF HeldBy, Locals
  <2>4. HandOK(worker[w])'
    BY <1>0, <2>1, <2>2, <2>3 DEF HandOK, LocalOK, BatchOK, Fresh
  <2>5. HeldBy(worker'[w]) \subseteq HeldBy(worker[w])
    BY <2>2, <2>3 DEF HeldBy
  <2> QED
    BY <2>1, <2>2, <2>3, <2>4, <2>5, QuietKeeps
<1>2. CASE ReleaseDm(w)
  <2> DEFINE d == CurRow(w)
  <2>1. /\ worker[w].pc = "release" /\ UNCHANGED <<posts, replays>>
        /\ worker[w].pc \in HandPcs /\ ReleaseToPending(d)
    BY <1>2 DEF ReleaseDm, At, environment, HandPcs
  <2>2. /\ d \in Rows /\ row[d].attempts = Cur(w).attempt /\ row[d].attempts \in 1..MaxAttempts
        /\ posts[d][Cur(w).attempt] = 0 /\ worker[w].acked = FALSE
    <3>1. /\ d \in Rows /\ row[d].attempts = Cur(w).attempt /\ Cur(w).attempt \in 1..MaxAttempts
          /\ worker[w].acked \in BOOLEAN /\ worker[w].cur # NoRecord
          /\ worker[w].acked => posts[d][Cur(w).attempt] > 0
      BY <2>1, HandRow
    <3>2. posts[d][Cur(w).attempt] = 0
      BY <1>0, <2>1, <3>1 DEF LocalOK, HandOK, Unshown, CurRow, Cur
    <3> QED
      BY <3>1, <3>2
  <2>3. /\ Keeps(w) /\ worker'[w].pc = "dm" /\ worker'[w].cur = NoRecord
        /\ worker'[w].acked = FALSE
    BY <1>0, <1>2, <2>2, ReleaseDmStep
  <2>4. /\ row'[d].status = "pending" /\ \A e \in Rows \ {d} : row'[e] = row[e]
    BY <1>0, <2>1, <2>2, ReleaseType
  <2>5. row'[d].attempts = row[d].attempts - 1
    BY <1>0, <2>1, <2>2, Refunded
  <2>6. row'[d].attempts < MaxAttempts
    BY <2>2, <2>5, QueueAssumption
  <2> QED
    BY <2>1, <2>2, <2>3, <2>4, <2>5, <2>6, SettledKeeps
<1>3. CASE CheckDm(w)
  <2>1. /\ worker[w].pc = "check" /\ UNCHANGED <<row, posts, replays>>
        /\ worker[w].pc \in HandPcs /\ CurRow(w) \in DmRows
    BY <1>0, <1>3 DEF CheckDm, At, environment, HandPcs, TypeInv, Shape, CurRow, Cur
  <2>2. /\ Keeps(w) /\ worker'[w].cur = worker[w].cur /\ worker'[w].acked = worker[w].acked
        /\ worker'[w].pc \in {"send", "skip"}
    BY <1>0, <1>3, <2>1, GoStep DEF CheckDm, HandPcs
  <2> QED
    BY <2>1, <2>2, InHandKeeps DEF Unshown, SentInHand, HandPcs
<1>4. CASE SkipDm(w)
  <2>1. /\ worker[w].pc = "skip" /\ UNCHANGED <<posts, replays>>
        /\ worker[w].pc \in HandPcs /\ MarkSkipped(CurRow(w)) /\ NextRecord(w)
    BY <1>4 DEF SkipDm, At, environment, HandPcs
  <2>2. /\ Keeps(w) /\ worker'[w].cur = NoRecord /\ worker'[w].acked = FALSE
        /\ worker'[w].pc # "recover" /\ CurRow(w) \in Rows
    BY <1>0, <2>1, NextRecordStep, HandRow
  <2> QED
    BY <1>0, <2>1, <2>2, MarkSkippedType, SettledKeeps
<1>5. CASE MarkSentDm(w)
  <2>1. /\ worker[w].pc = "mark_sent" /\ UNCHANGED <<posts, replays>>
        /\ worker[w].pc \in HandPcs /\ MarkSent(CurRow(w), worker[w].acked)
    BY <1>5 DEF MarkSentDm, At, environment, HandPcs
  <2>2. /\ Keeps(w) /\ worker'[w].cur = NoRecord /\ worker'[w].acked = FALSE
        /\ worker'[w].pc = "dm" /\ CurRow(w) \in Rows /\ worker[w].acked \in BOOLEAN
    BY <1>0, <1>5, <2>1, MarkSentDmStep, HandRow
  <2> QED
    BY <1>0, <2>1, <2>2, MarkSentType, SettledKeeps
<1>6. CASE DmUnanswered(w)
  <2>1. /\ worker[w].pc = "send" /\ UNCHANGED <<row, replays>>
        /\ worker[w].pc \in HandPcs /\ Fail(w, TRUE)
    BY <1>6 DEF DmUnanswered, At, environment, HandPcs
  <2>2. CASE UNCHANGED posts
    BY <2>1, <2>2, FailKeeps
  <2>3. CASE Post(w)
    BY <1>0, <2>1, <2>3, FailStep, PostKeeps DEF Keeps
  <2> QED
    BY <1>6, <2>2, <2>3 DEF DmUnanswered
<1>7. CASE DmRefused(w)
  <2>1. /\ worker[w].pc = "send" /\ UNCHANGED <<row, posts, replays>>
        /\ worker[w].pc \in HandPcs /\ CurRow(w) \in DmRows
    BY <1>0, <1>7, InHand DEF DmRefused, At, environment, HandPcs
  <2>2. CASE Go(w, "disable")
    <3>1. /\ Keeps(w) /\ worker'[w].cur = worker[w].cur
          /\ worker'[w].acked = worker[w].acked /\ worker'[w].pc = "disable"
      BY <1>0, <2>1, <2>2, GoStep DEF HandPcs
    <3> QED
      BY <2>1, <3>1, InHandKeeps DEF Unshown, SentInHand, HandPcs
  <2>3. CASE \E retryable \in BOOLEAN : Fail(w, retryable)
    BY <2>1, <2>3, FailKeeps
  <2> QED
    BY <1>7, <2>2, <2>3 DEF DmRefused
<1>8. CASE DisableUser(w)
  <2>1. /\ worker[w].pc = "disable" /\ UNCHANGED <<row, posts, replays>>
        /\ worker[w].pc \in HandPcs /\ Fail(w, FALSE)
    BY <1>8 DEF DisableUser, At, HandPcs
  <2> QED
    BY <2>1, FailKeeps
<1> QED
  BY <1>1, <1>2, <1>3, <1>4, <1>5, <1>6, <1>7, <1>8 DEF DmStep

(* Steps both kinds share, and a caught database error.                    *)
LEMMA SharedKeeps ==
  ASSUME SingleInv, TypeInv', NEW w \in Workers,
         SendOk(w) \/ ReadAttempts(w) \/ WriteFailure(w) \/ CaughtFault(w)
  PROVE  SingleInv'
<1>0. TypeInv /\ QueueTypeOK /\ LocalOK(worker[w]) /\ worker[w] \in Locals
  BY Only DEF TypeInv, TypeOK
<1>1. CASE SendOk(w)
  <2>1. worker[w].pc = "send" /\ Post(w) /\ UNCHANGED <<row, replays>>
    BY <1>1 DEF SendOk, At, environment
  <2> QED
    BY <1>0, <1>1, <2>1, AnsweredStep, PostKeeps DEF SendOk, Keeps
<1>2. CASE ReadAttempts(w)
  <2>1. /\ worker[w].pc = "fail" /\ UNCHANGED <<row, posts, replays>>
        /\ worker[w].pc \in HandPcs
    BY <1>2 DEF ReadAttempts, At, environment, HandPcs
  <2>2. /\ Keeps(w) /\ worker'[w].cur = worker[w].cur /\ worker'[w].acked = worker[w].acked
        /\ worker'[w].pc = "write_failure" /\ worker'[w].seen = row[CurRow(w)].attempts
    BY <1>0, <1>2, ReadStep
  <2>3. worker'[w].retry = worker[w].retry
    <3> DEFINE n == row[CurRow(w)].attempts
    <3>1. worker'[w] = [worker[w] EXCEPT !.pc = "write_failure", !.seen = n]
      BY <1>0, <1>2, Becomes DEF ReadAttempts
    <3> HIDE DEF n
    <3> QED
      BY <1>0, <3>1, Zenon DEF Locals
  <2> QED
    BY <2>1, <2>2, <2>3, InHandKeeps DEF Unshown, SentInHand, HandPcs
<1>3. CASE WriteFailure(w)
  <2> DEFINE d == CurRow(w)
  <2>1. /\ worker[w].pc = "write_failure" /\ UNCHANGED <<posts, replays>>
        /\ worker[w].pc \in HandPcs /\ NextRecord(w)
        /\ MarkFailed(d, worker[w].seen, worker[w].retry)
    BY <1>3 DEF WriteFailure, At, environment, HandPcs
  <2>2. /\ d \in Rows /\ worker[w].seen \in 0..MaxAttempts /\ worker[w].retry \in BOOLEAN
        /\ worker[w].seen = row[d].attempts
    <3>1. worker[w].cur # NoRecord
      BY <2>1, HandRow
    <3> QED
      BY <1>0, <2>1, <3>1, HandRow DEF LocalOK, HandOK, CurRow, Cur
  <2>3. /\ Keeps(w) /\ worker'[w].cur = NoRecord /\ worker'[w].acked = FALSE
        /\ worker'[w].pc # "recover"
    BY <1>0, <2>1, NextRecordStep
  <2>4. /\ row'[d].status \in {"pending", "dead_letter"} /\ row'[d].attempts = row[d].attempts
        /\ \A e \in Rows \ {d} : row'[e] = row[e]
    BY <1>0, <2>1, <2>2, MarkFailedType
  <2>5. row'[d].status = "pending" => row'[d].attempts < MaxAttempts
    <3>1. CASE worker[w].retry /\ worker[w].seen < MaxAttempts
      BY <2>2, <2>4, <3>1
    <3>2. CASE ~(worker[w].retry /\ worker[w].seen < MaxAttempts)
      <4>1. row \in [Rows -> Row]
        BY <1>0 DEF QueueTypeOK
      <4>2. row'[d].status = "dead_letter"
        BY <2>1, <2>2, <3>2, <4>1 DEF MarkFailed, Row
      <4> QED
        BY <4>2
    <3> QED
      BY <3>1, <3>2
  <2> QED
    BY <2>1, <2>3, <2>4, <2>5, SettledKeeps
<1>4. CASE CaughtFault(w)
  <2>1. /\ worker[w].pc \in HandPcs /\ Fail(w, TRUE) /\ UNCHANGED <<row, posts, replays>>
    BY <1>4 DEF CaughtFault, HandPcs
  <2> QED
    BY <2>1, FailKeeps
<1> QED
  BY <1>1, <1>2, <1>3, <1>4

-----------------------------------------------------------------------------
(* The producer, users, replays and the clock.                             *)
LEMMA AroundKeeps ==
  ASSUME SingleInv, TypeInv',
         \/ \E d \in Rows : Enqueue(d) \/ Replay(d)
         \/ \E u \in Users : Resubscribe(u)
         \/ TimePasses
         \/ UNCHANGED vars
  PROVE  SingleInv'
<1>0. TypeInv /\ QueueTypeOK /\ \A d \in Rows : RowOK(d)
  BY DEF SingleInv, TypeInv, TypeOK
<1>1. ASSUME NEW d \in Rows, Enqueue(d) PROVE SingleInv'
  <2>1. /\ UNCHANGED <<worker, posts, replays>> /\ row[d].status = "absent"
        /\ \A e \in Rows : \/ row'[e] = row[e]
                            \/ /\ e \in {d} /\ row[e].status = "absent"
                               /\ row'[e].status \in {"pending", "skipped"}
                               /\ row'[e].attempts = 0 /\ row'[e].acked = FALSE
    BY <1>0, <1>1, InsertType DEF Enqueue, environment
  <2>2. ASSUME NEW e \in Rows PROVE RowOK(e)'
    <3>1. CASE row'[e] = row[e]
      BY <1>0, <2>1, <3>1 DEF RowOK
    <3>2. CASE row[e].status = "absent" /\ row'[e].status \in {"pending", "skipped"}
               /\ row'[e].attempts = 0
      BY <1>0, <2>1, <3>2, QueueAssumption DEF RowOK
    <3> QED
      BY <2>1, <3>1, <3>2
  <2>3. ASSUME NEW e \in Rows
        PROVE  \/ /\ row'[e].status = row[e].status /\ row'[e].attempts = row[e].attempts
                  /\ row'[e].acked = row[e].acked
               \/ /\ row[e].status \notin {"processing", "sent"}
                  /\ row'[e].attempts = row[e].attempts /\ row'[e].status # "absent"
    BY <1>0, <2>1 DEF RowOK
  <2> QED
    BY <2>1, <2>2, <2>3, ElsewhereKeeps
<1>2. ASSUME NEW d \in Rows, Replay(d) PROVE SingleInv'
  <2>1. /\ UNCHANGED <<worker, posts>> /\ row[d].status = "dead_letter"
        /\ replays' = replays + 1 /\ replays \in Nat
        /\ row'[d].status = "pending" /\ row'[d].attempts = row[d].attempts
        /\ \A e \in Rows \ {d} : row'[e] = row[e]
    <3>1. /\ UNCHANGED <<worker, posts>> /\ ReplayDeadLetter(d) /\ replays' = replays + 1
          /\ replays \in Nat
      BY <1>0, <1>2, CycleAssumption DEF Replay, TypeInv, TypeOK
    <3>2. row[d].status = "dead_letter"
      BY <3>1 DEF ReplayDeadLetter
    <3> QED
      BY <1>0, <3>1, <3>2, ReplayType
  <2>2. replays' # 0
    BY <2>1
  <2>3. ASSUME NEW e \in Rows PROVE RowOK(e)'
    BY <1>0, <2>1, <2>2 DEF RowOK
  <2>4. ASSUME NEW e \in Rows
        PROVE  \/ /\ row'[e].status = row[e].status /\ row'[e].attempts = row[e].attempts
                  /\ row'[e].acked = row[e].acked
               \/ /\ row[e].status \notin {"processing", "sent"}
                  /\ row'[e].attempts = row[e].attempts /\ row'[e].status # "absent"
    BY <2>1
  <2> QED
    BY <2>1, <2>3, <2>4, ElsewhereKeeps
<1>3. CASE UNCHANGED <<row, worker, posts, replays>>
  BY <1>0, <1>3, ElsewhereKeeps DEF RowOK
<1>4. CASE TimePasses
  <2>1. /\ UNCHANGED <<worker, posts, replays>>
        /\ \A e \in Rows : /\ row'[e].status = row[e].status
                            /\ row'[e].attempts = row[e].attempts
                            /\ row'[e].acked = row[e].acked
    BY <1>0, <1>4, TickType DEF TimePasses, environment
  <2>2. ASSUME NEW e \in Rows PROVE RowOK(e)'
    BY <1>0, <2>1 DEF RowOK
  <2> QED
    BY <2>1, <2>2, ElsewhereKeeps
<1> QED
  BY <1>1, <1>2, <1>3, <1>4 DEF Resubscribe, vars

LEMMA SingleStep == SingleInv /\ [Next]_vars => SingleInv'
<1> SUFFICES ASSUME SingleInv, [Next]_vars PROVE SingleInv'
  OBVIOUS
<1>1. TypeInv'
  BY NextType DEF SingleInv
<1> QED
  BY <1>1, CycleKeeps, GroupKeeps, DmKeeps, SharedKeeps, AroundKeeps
  DEF Next, WorkerStep

LEMMA SingleInit == OneWorker /\ Init => SingleInv
<1> SUFFICES ASSUME OneWorker, Init PROVE SingleInv
  OBVIOUS
<1>1. TypeInv
  BY InitType
<1>2. ASSUME NEW w \in Workers PROVE LocalOK(worker[w])
  <2>1. /\ worker[w].todo = {} /\ worker[w].cur = NoRecord /\ worker[w].stale = {}
        /\ worker[w].acked = FALSE
    BY DEF Init, Idle
  <2> QED
    BY <2>1 DEF LocalOK, BatchOK, HandOK, StaleOK, HeldBy
<1>3. ASSUME NEW d \in Rows PROVE RowOK(d)
  <2>1. /\ row[d].status = "absent" /\ row[d].attempts = 0 /\ ~row[d].acked
        /\ \A k \in 1..MaxAttempts : posts[d][k] = 0
    BY DEF Init, QueueInit, Absent
  <2> QED
    BY <2>1 DEF RowOK
<1> QED
  BY <1>1, <1>2, <1>3 DEF SingleInv

-----------------------------------------------------------------------------
(* The theorems                                                            *)

LEMMA SingleAlways == OneWorker /\ Spec => []SingleInv
  BY SingleInit, SingleStep, PTL DEF Spec

(* Every record in the worker's hands is its row's current claim, however  *)
(* many rows, faults and replays there are: the mark_* statements, which   *)
(* check nothing, are safe because recover_stale_deliveries runs between   *)
(* batches only (run_delivery_cycle).                                      *)
THEOREM HeldAreProcessing == OneWorker /\ Spec => []HeldIsProcessing
<1>1. SingleInv => HeldIsProcessing
  <2> SUFFICES ASSUME SingleInv, NEW w \in Workers, NEW r \in Held(w)
               PROVE  /\ row[r.id].attempts = r.attempt
                      /\ \/ row[r.id].status = "processing"
                         \/ /\ r = Cur(w) /\ r.id \in GroupRows
                            /\ Bookkeeping(w)
                            /\ row[r.id].status = "sent" /\ row[r.id].acked
    BY DEF HeldIsProcessing
  <2>1. LocalOK(worker[w])
    BY Only
  <2>2. CASE r \in worker[w].todo
    BY <2>1, <2>2 DEF LocalOK, BatchOK, Fresh
  <2>3. CASE r = worker[w].cur /\ r # NoRecord
    BY <2>1, <2>3 DEF LocalOK, HandOK, SentInHand, Cur, Bookkeeping
  <2> QED
    BY <2>2, <2>3 DEF Held, HeldBy
<1> QED
  BY <1>1, SingleAlways, PTL

(* A claim of a DM row shows at most one message: a record the rate limit  *)
(* gives back was not shown under its number, which the next claim reuses  *)
(* (release_delivery_to_pending).                                          *)
THEOREM DmShownOnce == OneWorker /\ Spec => []OneDmPerClaim
<1>1. SingleInv => OneDmPerClaim
  BY DEF SingleInv, RowOK, OneDmPerClaim, Rows
<1> QED
  BY <1>1, SingleAlways, PTL

(* Nothing is shown for a row that is settled or back in the queue: the    *)
(* row of the record being sent is in processing.                          *)
THEOREM NothingShownLate == OneWorker /\ Spec => ShownOnlyWhileProcessing
<1>1. ASSUME SingleInv, Next, NEW d \in Rows, posts'[d] # posts[d]
      PROVE  row[d].status = "processing"
  <2>1. PICK w \in Workers : worker[w].pc = "send" /\ Post(w)
    BY <1>1
    DEF Next, WorkerStep, CycleStep, GroupStep, DmStep, StartCycle, RecoverNext,
        ClaimGroup, ClaimDm, EndCycle, SkipUnconfigured, TakeGroup, GroupFlooded,
        GroupUnanswered, GroupRefused, MarkSentGroup, Aggregate, TakeDm, ReleaseDm,
        CheckDm, SkipDm, MarkSentDm, DmUnanswered, DmRefused, DisableUser, SendOk,
        ReadAttempts, WriteFailure, CaughtFault, Abandon, Enqueue, Resubscribe,
        Replay, TimePasses, At
  <2>2. worker[w].pc \in HandPcs
    BY <2>1 DEF HandPcs
  <2>3. TypeInv /\ row[CurRow(w)].status = "processing"
    BY <2>1, <2>2, <1>1, HandRow DEF SentInHand
  <2>4. d = CurRow(w)
    <3> SUFFICES ASSUME d # CurRow(w) PROVE FALSE
      OBVIOUS
    <3>1. posts \in [Rows -> [1..MaxAttempts -> Nat]]
      BY <2>3 DEF TypeInv, TypeOK
    <3>2. posts'[d] = posts[d]
      BY <2>1, <3>1 DEF Post
    <3> QED
      BY <1>1, <3>2
  <2> QED
    BY <2>3, <2>4
<1>2. SingleInv /\ [Next]_vars
        => [\A d \in Rows : posts'[d] # posts[d] => row[d].status = "processing"]_vars
  BY <1>1
<1> QED
  BY <1>2, SingleAlways, PTL DEF Spec, ShownOnlyWhileProcessing

(* Without replays no row waits in pending with no attempt left: the claim *)
(* statement counts, mark_delivery_failed and recover_stale_deliveries     *)
(* compare the count of that very claim.                                   *)
THEOREM NoneStranded == OneWorker /\ MaxReplays = 0 /\ Spec => []PendingCanBeClaimed
<1>1. SingleInv /\ MaxReplays = 0 => PendingCanBeClaimed
  <2> SUFFICES ASSUME SingleInv, MaxReplays = 0 PROVE PendingCanBeClaimed
    OBVIOUS
  <2>1. replays = 0
    BY DEF SingleInv, TypeInv, TypeOK
  <2> QED
    BY <2>1 DEF SingleInv, RowOK, PendingCanBeClaimed
<1>2. (MaxReplays = 0) => (MaxReplays = 0)'
  OBVIOUS
<1> DEFINE NoReplays == MaxReplays = 0
<1>3. NoReplays /\ [Next]_vars => NoReplays'
  OBVIOUS
<1>4. SingleInv /\ NoReplays => PendingCanBeClaimed
  BY <1>1
<1> HIDE DEF NoReplays
<1>5. OneWorker /\ NoReplays /\ Spec => []PendingCanBeClaimed
  BY <1>3, <1>4, SingleAlways, PTL DEF Spec
<1> QED
  BY <1>5 DEF NoReplays

-----------------------------------------------------------------------------
(* The refinement of RowLifecycle                                          *)

LStatus   == [d \in Rows |-> row[d].status]
LAttempts == [d \in Rows |-> row[d].attempts]
LAcked    == [d \in Rows |-> row[d].acked]
LShown    == [d \in Rows |-> LastShown(d)]

(* A claim number is 1 to MaxAttempts, so the last one shown exists.       *)
LEMMA LastOne ==
  ASSUME NEW T \in SUBSET (1..MaxAttempts), T # {}
  PROVE  \E x \in T : \A y \in T : y <= x
<1> DEFINE R == OpToRel(<, Nat)
           left(k) == MaxAttempts - k
           L == {left(k) : k \in T}
<1>0. MaxAttempts \in Nat
  BY QueueAssumption
<1>1. IsWellFoundedOn(R, Nat)
  BY NatLessThanWellFounded
<1>2. \A x, y \in Nat : <<y, x>> \in R <=> y < x
  BY DEF OpToRel
<1>3. \A k \in T : left(k) \in Nat
  BY <1>0
<1>4. L \in SUBSET Nat /\ L # {}
  BY <1>3
<1> HIDE DEF R, L, left
<1>5. PICK m \in L : \A n \in L : ~(<<n, m>> \in R)
  BY <1>1, <1>4, WFMin
<1>6. PICK x \in T : m = left(x)
  BY <1>5 DEF L
<1>7. ASSUME NEW y \in T PROVE y <= x
  <2>1. left(y) \in L /\ left(y) \in Nat /\ m \in Nat
    BY <1>3, <1>4, <1>5 DEF L
  <2>2. ~(left(y) < left(x))
    BY <1>2, <1>5, <1>6, <2>1
  <2> QED
    BY <1>0, <2>2 DEF left
<1> QED
  BY <1>7

(* A row's last shown claim against its current one.                       *)
LEMMA LastFacts ==
  ASSUME TypeInv, NEW d \in Rows, NEW a \in 0..MaxAttempts,
         \A k \in 1..MaxAttempts : posts[d][k] > 0 => k <= a
  PROVE  /\ a > 0 /\ posts[d][a] > 0 => LastShown(d) = a
         /\ a > 0 /\ posts[d][a] = 0 => LastShown(d) < a
<1>0. MaxAttempts \in Nat
  BY QueueAssumption
<1>1. Shown(d) \in SUBSET (1..MaxAttempts) /\ \A k \in Shown(d) : k <= a
  BY DEF Shown
<1>2. ASSUME a > 0, posts[d][a] > 0 PROVE LastShown(d) = a
  <2>1. a \in Shown(d)
    BY <1>0, <1>2 DEF Shown
  <2>2. \A k \in Shown(d) : (\A j \in Shown(d) : j <= k) <=> k = a
    BY <1>0, <1>1, <2>1
  <2> QED
    BY <2>1, <2>2 DEF LastShown
<1>3. ASSUME a > 0, posts[d][a] = 0 PROVE LastShown(d) < a
  <2>1. CASE Shown(d) = {}
    BY <1>3, <2>1 DEF LastShown
  <2>2. CASE Shown(d) # {}
    <3>1. LastShown(d) \in Shown(d)
      BY <1>1, <2>2, LastOne DEF LastShown
    <3>2. a \notin Shown(d)
      BY <1>3 DEF Shown
    <3> QED
      BY <1>0, <1>1, <3>1, <3>2
  <2> QED
    BY <2>1, <2>2
<1> QED
  BY <1>2, <1>3

(* What LastFacts says of the invariant.                                   *)
LEMMA LastHeld ==
  ASSUME SingleInv, NEW d \in Rows
  PROVE  /\ row[d].attempts > 0 /\ posts[d][row[d].attempts] > 0
              => LastShown(d) = row[d].attempts
         /\ row[d].attempts > 0 /\ posts[d][row[d].attempts] = 0
              => LastShown(d) < row[d].attempts
  BY LastFacts, RowTypes DEF SingleInv, RowOK

(* Steps that leave alone what the abstraction sees.                       *)
LEMMA Stutters ==
  ASSUME \A d \in Rows : /\ row'[d].status = row[d].status
                         /\ row'[d].attempts = row[d].attempts
                         /\ row'[d].acked = row[d].acked,
         UNCHANGED posts
  PROVE  UNCHANGED Lifecycle!life
<1>1. LStatus' = LStatus /\ LAttempts' = LAttempts /\ LAcked' = LAcked
  BY DEF LStatus, LAttempts, LAcked
<1>2. LShown' = LShown
  BY DEF LShown, LastShown, Shown
<1> QED
  BY <1>1, <1>2 DEF Lifecycle!life, LStatus, LAttempts, LAcked, LShown

(* One row moves and no message is shown.                                  *)
Moves(d) ==
  /\ \A e \in Rows \ {d} : /\ row'[e].status = row[e].status
                           /\ row'[e].attempts = row[e].attempts
                           /\ row'[e].acked = row[e].acked
  /\ UNCHANGED posts

LEMMA OneMoves ==
  ASSUME NEW d \in Rows, Moves(d)
  PROVE  /\ LStatus' = [LStatus EXCEPT ![d] = row'[d].status]
         /\ LAttempts' = [LAttempts EXCEPT ![d] = row'[d].attempts]
         /\ LAcked' = [LAcked EXCEPT ![d] = row'[d].acked]
         /\ LShown' = LShown
         /\ row'[d].attempts = row[d].attempts => LAttempts' = LAttempts
         /\ row'[d].acked = row[d].acked => LAcked' = LAcked
<1>1. /\ LStatus' = [LStatus EXCEPT ![d] = row'[d].status]
      /\ LAttempts' = [LAttempts EXCEPT ![d] = row'[d].attempts]
      /\ LAcked' = [LAcked EXCEPT ![d] = row'[d].acked]
  BY DEF Moves, LStatus, LAttempts, LAcked
<1>2. LShown' = LShown
  BY DEF Moves, LShown, LastShown, Shown
<1>3. row'[d].attempts = row[d].attempts => LAttempts' = LAttempts
  BY DEF Moves, LAttempts
<1>4. row'[d].acked = row[d].acked => LAcked' = LAcked
  BY DEF Moves, LAcked
<1> QED
  BY <1>1, <1>2, <1>3, <1>4

(* The ways a row may move, in terms of the table.                         *)
Kept(d) == row'[d].attempts = row[d].attempts /\ row'[d].acked = row[d].acked

Moved(d) ==
  \/ /\ row[d].status = "absent" /\ row'[d].status = "pending" /\ Kept(d)
  \/ /\ row[d].status = "processing" /\ row'[d].status = "sent"
     /\ row'[d].attempts = row[d].attempts /\ row'[d].acked \in BOOLEAN
     /\ row'[d].acked => LastShown(d) = row[d].attempts
  \/ /\ row[d].status = "processing" /\ row'[d].status \in {"skipped", "dead_letter"}
     /\ Kept(d)
  \/ /\ row[d].status = "processing" /\ row'[d].status = "pending"
     /\ row[d].attempts < MaxAttempts /\ Kept(d)
  \/ /\ d \in DmRows /\ row[d].status = "processing" /\ row'[d].status = "pending"
     /\ LastShown(d) < row[d].attempts
     /\ row'[d].attempts = row[d].attempts - 1 /\ row'[d].acked = row[d].acked
  \/ /\ d \in GroupRows /\ row[d].status = "sent" /\ row[d].acked
     /\ LastShown(d) = row[d].attempts
     /\ row'[d].status = IF row[d].attempts < MaxAttempts THEN "pending" ELSE "dead_letter"
     /\ Kept(d)
  \/ /\ row[d].status = "dead_letter" /\ row'[d].status = "pending" /\ Kept(d)

LEMMA MoveRefines ==
  ASSUME NEW d \in Rows, Moves(d), Moved(d)
  PROVE  Lifecycle!Next
<1> DEFINE s == row'[d].status
           n == row'[d].attempts
           k == row'[d].acked
<1>1. /\ LStatus' = [LStatus EXCEPT ![d] = s]
      /\ LAttempts' = [LAttempts EXCEPT ![d] = n]
      /\ LAcked' = [LAcked EXCEPT ![d] = k]
      /\ LShown' = LShown
      /\ n = row[d].attempts => LAttempts' = LAttempts
      /\ k = row[d].acked => LAcked' = LAcked
  BY OneMoves
<1>2. /\ LStatus[d] = row[d].status /\ LAttempts[d] = row[d].attempts
      /\ LAcked[d] = row[d].acked /\ LShown[d] = LastShown(d)
  BY DEF LStatus, LAttempts, LAcked, LShown
<1>3. d \in Lifecycle!Rows
  BY DEF Lifecycle!Rows, Rows
<1>4. \/ Lifecycle!Queue(d) \/ Lifecycle!Send(d) \/ Lifecycle!Refuse(d)
      \/ Lifecycle!Retry(d) \/ Lifecycle!Defer(d) \/ Lifecycle!Reopen(d)
      \/ Lifecycle!Replay(d)
  BY <1>1, <1>2
  DEF Moved, Kept, Lifecycle!Queue, Lifecycle!Send, Lifecycle!Refuse, Lifecycle!Retry,
      Lifecycle!Defer, Lifecycle!Reopen, Lifecycle!Replay, Lifecycle!Become,
      LStatus, LAttempts, LAcked, LShown
<1> QED
  BY <1>3, <1>4 DEF Lifecycle!Next

(* A batch is claimed.                                                     *)
LEMMA BatchRefines ==
  ASSUME TypeInv, NEW kind \in {GroupRows, DmRows},
         NEW S \in Batches(kind, BatchSize), Claim(S), UNCHANGED posts
  PROVE  Lifecycle!Next
<1>0. QueueTypeOK /\ S \in SUBSET Due(kind) /\ kind \in SUBSET Rows /\ S \in SUBSET Rows
  BY DEF TypeInv, TypeOK, Batches, Rows, Due
<1>1. /\ \A d \in S : /\ row'[d].status = "processing"
                      /\ row'[d].attempts = row[d].attempts + 1
                      /\ row[d].status = "pending" /\ row[d].attempts < MaxAttempts
                      /\ row'[d].acked = row[d].acked
      /\ \A d \in Rows \ S : row'[d] = row[d]
  <2>1. /\ \A d \in S : /\ row'[d].status = "processing"
                        /\ row'[d].attempts = row[d].attempts + 1
                        /\ row[d].status = "pending"
        /\ \A d \in Rows \ S : row'[d] = row[d]
    BY <1>0, ClaimType
  <2>2. ASSUME NEW d \in S PROVE row[d].attempts < MaxAttempts /\ row'[d].acked = row[d].acked
    <3>1. d \in Rows /\ row[d] \in Row /\ row[d].attempts < MaxAttempts
      BY <1>0 DEF Due, QueueTypeOK
    <3> DEFINE n == row[d].attempts + 1
    <3>2. row'[d] = [row[d] EXCEPT !.status = "processing", !.age = 0, !.attempts = n]
      BY <3>1 DEF Claim
    <3> HIDE DEF n
    <3>3. row'[d].acked = row[d].acked
      BY <3>1, <3>2 DEF Row
    <3> QED
      BY <3>1, <3>3
  <2> QED
    BY <2>1, <2>2
<1>2. /\ LStatus' = [d \in Rows |-> IF d \in S THEN "processing" ELSE LStatus[d]]
      /\ LAttempts' = [d \in Rows |-> IF d \in S THEN LAttempts[d] + 1 ELSE LAttempts[d]]
      /\ LAcked' = LAcked
  BY <1>0, <1>1 DEF LStatus, LAttempts, LAcked
<1>3. LShown' = LShown
  BY DEF LShown, LastShown, Shown
<1>4. \A d \in S : LStatus[d] = "pending" /\ LAttempts[d] < MaxAttempts
  BY <1>0, <1>1 DEF LStatus, LAttempts
<1>5. Lifecycle!ClaimBatch(S)
  BY <1>2, <1>3, <1>4
  DEF Lifecycle!ClaimBatch, Lifecycle!Rows, Rows, LStatus, LAttempts, LAcked, LShown
<1> QED
  BY <1>0, <1>5 DEF Lifecycle!Next, Lifecycle!Rows, Rows

(* A message is shown for the record being sent.                           *)
LEMMA ShowRefines ==
  ASSUME SingleInv, SingleInv', NEW w \in Workers, worker[w].pc = "send", Post(w),
         UNCHANGED row
  PROVE  Lifecycle!Next
<1> SUFFICES ASSUME NEW d, NEW n, d = CurRow(w), n = Cur(w).attempt
             PROVE  Lifecycle!Next
  OBVIOUS
<1>0. worker[w].pc \in HandPcs
  BY DEF HandPcs
<1>1. /\ TypeInv /\ d \in Rows /\ n \in 1..MaxAttempts /\ row[d].attempts = n
      /\ row[d].status = "processing"
  BY <1>0, HandRow DEF SentInHand
<1>2. /\ posts'[d][n] = posts[d][n] + 1
      /\ posts[d][n] \in Nat
  BY <1>0, <1>1, PostType, RowTypes
<1>3. \A e \in Rows \ {d} : posts'[e] = posts[e]
  <2>1. posts \in [Rows -> [1..MaxAttempts -> Nat]]
    BY <1>1 DEF TypeInv, TypeOK
  <2> QED
    BY <1>1, <2>1 DEF Post
<1>4. LastShown(d)' = n
  <2>1. \A k \in Shown(d)' : k \in 1..MaxAttempts /\ k <= n
    BY <1>1 DEF SingleInv, RowOK, Shown
  <2>2. n \in Shown(d)'
    BY <1>1, <1>2 DEF Shown
  <2>3. \A k \in Shown(d)' : (\A j \in Shown(d)' : j <= k) <=> k = n
    BY <1>1, <2>1, <2>2
  <2> QED
    BY <2>2, <2>3 DEF LastShown
<1>5. ASSUME NEW e \in Rows \ {d} PROVE LastShown(e)' = LastShown(e)
  <2>1. Shown(e)' = Shown(e)
    BY <1>3 DEF Shown
  <2> QED
    BY <2>1 DEF LastShown
<1>6. LShown' = [LShown EXCEPT ![d] = LAttempts[d]]
  BY <1>1, <1>4, <1>5 DEF LShown, LAttempts
<1>7. LStatus' = LStatus /\ LAttempts' = LAttempts /\ LAcked' = LAcked
      /\ LStatus[d] = "processing"
  BY <1>1 DEF LStatus, LAttempts, LAcked
<1>8. Lifecycle!Show(d)
  BY <1>6, <1>7 DEF Lifecycle!Show, LStatus, LAttempts, LAcked, LShown
<1> QED
  BY <1>1, <1>8 DEF Lifecycle!Next, Lifecycle!Rows, Rows

LEMMA CycleRefines ==
  ASSUME SingleInv, NEW w \in Workers, CycleStep(w)
  PROVE  Lifecycle!Next \/ UNCHANGED Lifecycle!life
<1>0. TypeInv /\ QueueTypeOK /\ LocalOK(worker[w]) /\ worker[w] \in Locals
  BY Only DEF TypeInv, TypeOK
<1>1. CASE StartCycle(w)
  BY <1>1, Stutters DEF StartCycle
<1>2. CASE RecoverNext(w)
  <2>1. PICK s \in worker[w].stale : RecoverStale(s[1], s[2])
    BY <1>2 DEF RecoverNext
  <2>2. /\ s[1] \in Rows /\ s[2] \in 0..MaxAttempts /\ UNCHANGED posts
        /\ row[s[1]].status = "processing" /\ row[s[1]].attempts = s[2]
    BY <1>0, <1>2 DEF Locals, RecoverNext, LocalOK, StaleOK
  <2>3. /\ row'[s[1]].status = IF s[2] < MaxAttempts THEN "pending" ELSE "dead_letter"
        /\ row'[s[1]].attempts = row[s[1]].attempts
        /\ row'[s[1]].acked = row[s[1]].acked
        /\ \A e \in Rows \ {s[1]} : row'[e] = row[e]
    BY <1>0, <2>1, <2>2, RecoverStaleType
  <2>4. Moves(s[1]) /\ Moved(s[1])
    BY <2>2, <2>3 DEF Moves, Moved, Kept
  <2> QED
    BY <2>2, <2>4, MoveRefines
<1>3. CASE ClaimGroup(w)
  BY <1>0, <1>3, BatchRefines DEF ClaimGroup
<1>4. CASE ClaimDm(w)
  BY <1>0, <1>4, BatchRefines DEF ClaimDm
<1> QED
  BY <1>1, <1>2, <1>3, <1>4 DEF CycleStep

LEMMA HandRefines ==
  ASSUME SingleInv, SingleInv', NEW w \in Workers,
         GroupStep(w) \/ DmStep(w) \/ SendOk(w) \/ ReadAttempts(w) \/ WriteFailure(w)
  PROVE  Lifecycle!Next \/ UNCHANGED Lifecycle!life
<1>0. TypeInv /\ QueueTypeOK /\ LocalOK(worker[w]) /\ worker[w] \in Locals
  BY Only DEF TypeInv, TypeOK
<1>1. CASE UNCHANGED <<row, posts>>
  BY <1>1, Stutters
<1>2. CASE worker[w].pc = "send" /\ Post(w) /\ UNCHANGED row
  BY <1>2, ShowRefines
<1>3. CASE SkipUnconfigured(w)
  <2>1. PICK r \in worker[w].todo : MarkSkipped(r.id)
    BY <1>3 DEF SkipUnconfigured
  <2>2. /\ r.id \in Rows /\ row[r.id].status = "processing" /\ UNCHANGED posts
    BY <1>0, <1>3, HeldTypes DEF HeldBy, LocalOK, BatchOK, Fresh, SkipUnconfigured
  <2>3. Moves(r.id) /\ Moved(r.id)
    BY <1>0, <2>1, <2>2, MarkSkippedType DEF Moves, Moved, Kept
  <2> QED
    BY <2>2, <2>3, MoveRefines
<1>4. CASE /\ worker[w].pc = "mark_sent" /\ MarkSent(CurRow(w), worker[w].acked)
           /\ UNCHANGED posts
  <2> DEFINE d == CurRow(w)
  <2>1. worker[w].pc \in HandPcs
    BY <1>4 DEF HandPcs
  <2>2. /\ d \in Rows /\ row[d].status = "processing" /\ worker[w].acked \in BOOLEAN
        /\ Cur(w).attempt \in 1..MaxAttempts /\ row[d].attempts = Cur(w).attempt
        /\ worker[w].acked => posts[d][Cur(w).attempt] > 0
    BY <1>4, <2>1, HandRow DEF SentInHand
  <2>3. worker[w].acked => LastShown(d) = row[d].attempts
    BY <2>2, LastHeld
  <2>4. /\ row'[d].status = "sent" /\ row'[d].attempts = row[d].attempts
        /\ row'[d].acked = worker[w].acked
        /\ \A e \in Rows \ {d} : row'[e] = row[e]
    BY <1>0, <1>4, <2>2, MarkSentType
  <2>5. Moves(d) /\ Moved(d)
    BY <1>4, <2>2, <2>3, <2>4 DEF Moves, Moved
  <2> QED
    BY <2>2, <2>5, MoveRefines
<1>5. CASE ReleaseDm(w)
  <2> DEFINE d == CurRow(w)
  <2>1. /\ worker[w].pc = "release" /\ worker[w].pc \in HandPcs
        /\ ReleaseToPending(d) /\ UNCHANGED posts
    BY <1>5 DEF ReleaseDm, At, HandPcs
  <2>2. /\ d \in Rows /\ d \in DmRows /\ row[d].status = "processing"
        /\ row[d].attempts = Cur(w).attempt /\ Cur(w).attempt \in 1..MaxAttempts
        /\ worker[w].cur # NoRecord
    BY <1>0, <2>1, HandRow DEF SentInHand, TypeInv, Shape, CurRow, Cur
  <2>3. posts[d][row[d].attempts] = 0
    BY <1>0, <2>1, <2>2 DEF LocalOK, HandOK, Unshown, CurRow, Cur
  <2>4. LastShown(d) < row[d].attempts
    BY <2>2, <2>3, LastHeld
  <2>5. /\ row'[d].status = "pending" /\ row'[d].acked = row[d].acked
        /\ \A e \in Rows \ {d} : row'[e] = row[e]
    BY <1>0, <2>1, <2>2, ReleaseType
  <2>6. row'[d].attempts = row[d].attempts - 1
    BY <1>0, <2>1, <2>2, Refunded
  <2>7. Moves(d) /\ Moved(d)
    BY <2>1, <2>2, <2>4, <2>5, <2>6 DEF Moves, Moved
  <2> QED
    BY <2>2, <2>7, MoveRefines
<1>6. CASE SkipDm(w)
  <2> DEFINE d == CurRow(w)
  <2>1. /\ worker[w].pc = "skip" /\ worker[w].pc \in HandPcs
        /\ MarkSkipped(d) /\ UNCHANGED posts
    BY <1>6 DEF SkipDm, At, HandPcs
  <2>2. d \in Rows /\ row[d].status = "processing"
    BY <2>1, HandRow DEF SentInHand
  <2>3. Moves(d) /\ Moved(d)
    BY <1>0, <2>1, <2>2, MarkSkippedType DEF Moves, Moved, Kept
  <2> QED
    BY <2>2, <2>3, MoveRefines
<1>7. CASE WriteFailure(w)
  <2> DEFINE d == CurRow(w)
  <2>1. /\ worker[w].pc = "write_failure" /\ worker[w].pc \in HandPcs
        /\ MarkFailed(d, worker[w].seen, worker[w].retry) /\ UNCHANGED posts
    BY <1>7 DEF WriteFailure, At, HandPcs
  <2>2. /\ d \in Rows /\ worker[w].seen \in 0..MaxAttempts /\ worker[w].retry \in BOOLEAN
        /\ worker[w].seen = row[d].attempts
        /\ row[d].attempts = Cur(w).attempt /\ Cur(w).attempt \in 1..MaxAttempts
        /\ row[d].status = "processing" \/ SentInHand(worker[w])
    <3>1. worker[w].cur # NoRecord
      BY <2>1, HandRow
    <3> QED
      BY <1>0, <2>1, <3>1, HandRow DEF LocalOK, HandOK, CurRow, Cur
  <2>3. /\ row'[d].attempts = row[d].attempts /\ row'[d].acked = row[d].acked
        /\ \A e \in Rows \ {d} : row'[e] = row[e]
    BY <1>0, <2>1, <2>2, MarkFailedType
  <2>4. /\ worker[w].retry /\ worker[w].seen < MaxAttempts => row'[d].status = "pending"
        /\ ~(worker[w].retry /\ worker[w].seen < MaxAttempts) => row'[d].status = "dead_letter"
    <3>1. row \in [Rows -> Row] /\ row[d] \in Row
      BY <1>0, <2>2 DEF QueueTypeOK
    <3>2. CASE worker[w].retry /\ worker[w].seen < MaxAttempts
      <4> DEFINE b == Backoff(worker[w].seen)
      <4>1. row' = [row EXCEPT ![d] = [@ EXCEPT !.status = "pending", !.age = 0,
                                                !.wait = b]]
        BY <2>1, <3>2 DEF MarkFailed
      <4> HIDE DEF b, d
      <4>2. row'[d].status = "pending"
        BY <2>2, <3>1, <4>1 DEF Row
      <4> QED
        BY <3>2, <4>2
    <3>3. CASE ~(worker[w].retry /\ worker[w].seen < MaxAttempts)
      BY <2>1, <2>2, <3>1, <3>3 DEF MarkFailed, Row
    <3> QED
      BY <3>2, <3>3
  <2>5. SentInHand(worker[w]) =>
          /\ d \in GroupRows /\ worker[w].retry /\ row[d].status = "sent" /\ row[d].acked
          /\ LastShown(d) = row[d].attempts
    BY <2>1, <2>2, LastHeld DEF SentInHand, CurRow, Cur
  <2>6. Moves(d)
    BY <2>1, <2>3 DEF Moves
  <2>7. Moved(d)
    BY <2>2, <2>3, <2>4, <2>5 DEF Moved, Kept
  <2> QED
    BY <2>2, <2>6, <2>7, MoveRefines
<1> QED
  BY <1>1, <1>2, <1>3, <1>4, <1>5, <1>6, <1>7
  DEF GroupStep, DmStep, TakeGroup, GroupFlooded, GroupUnanswered, GroupRefused,
      MarkSentGroup, Aggregate, TakeDm, CheckDm, MarkSentDm, DmUnanswered, DmRefused,
      DisableUser, SendOk, ReadAttempts, At

LEMMA AroundRefines ==
  ASSUME SingleInv,
         \/ \E d \in Rows : Enqueue(d) \/ Replay(d)
         \/ TimePasses
  PROVE  Lifecycle!Next \/ UNCHANGED Lifecycle!life
<1>0. TypeInv /\ QueueTypeOK /\ \A d \in Rows : RowOK(d)
  BY DEF SingleInv, TypeInv, TypeOK
<1>1. ASSUME NEW d \in Rows, Enqueue(d) PROVE Lifecycle!Next
  <2>1. UNCHANGED posts /\ row[d].status = "absent" /\ Insert({d}, {})
    BY <1>1 DEF Enqueue
  <2>2. \A e \in Rows \ {d} : row'[e] = row[e]
    BY <2>1 DEF Insert, QueueTypeOK
  <2>3. row'[d].status = "pending" /\ row'[d].attempts = 0 /\ row'[d].acked = FALSE
    BY <2>1 DEF Insert, Absent
  <2>4. row[d].attempts = 0 /\ row[d].acked = FALSE
    BY <1>0, <2>1, RowTypes DEF RowOK, Row
  <2>5. Moves(d) /\ Moved(d)
    BY <2>1, <2>2, <2>3, <2>4 DEF Moves, Moved, Kept
  <2> QED
    BY <2>5, MoveRefines
<1>2. ASSUME NEW d \in Rows, Replay(d) PROVE Lifecycle!Next
  <2>1. UNCHANGED posts /\ row[d].status = "dead_letter" /\ ReplayDeadLetter(d)
    BY <1>2 DEF Replay, ReplayDeadLetter
  <2>2. Moves(d) /\ Moved(d)
    BY <1>0, <2>1, ReplayType DEF Moves, Moved, Kept
  <2> QED
    BY <2>2, MoveRefines
<1>3. CASE TimePasses
  BY <1>0, <1>3, TickType, Stutters DEF TimePasses
<1> QED
  BY <1>1, <1>2, <1>3

LEMMA StepRefines ==
  SingleInv /\ SingleInv' /\ [Next]_vars => [Lifecycle!Next]_(Lifecycle!life)
<1> SUFFICES ASSUME SingleInv, SingleInv', [Next]_vars
             PROVE  Lifecycle!Next \/ UNCHANGED Lifecycle!life
  OBVIOUS
<1>1. CASE UNCHANGED <<row, posts>>
  BY <1>1, Stutters
<1> QED
  BY <1>1, CycleRefines, HandRefines, AroundRefines
  DEF Next, WorkerStep, EndCycle, CaughtFault, Abandon, Resubscribe, vars

LEMMA InitRefines == Init => Lifecycle!Init
<1> SUFFICES ASSUME Init PROVE Lifecycle!Init
  OBVIOUS
<1>1. /\ LStatus = [d \in Rows |-> "absent"] /\ LAttempts = [d \in Rows |-> 0]
      /\ LAcked = [d \in Rows |-> FALSE]
  BY DEF Init, QueueInit, Absent, LStatus, LAttempts, LAcked
<1>2. LShown = [d \in Rows |-> 0]
  BY DEF Init, LShown, LastShown, Shown
<1> QED
  BY <1>1, <1>2
  DEF Lifecycle!Init, Lifecycle!Rows, Rows, LStatus, LAttempts, LAcked, LShown

(* With one worker the table, the workers, their crashes and the clock     *)
(* together implement the lifecycle RowLifecycle promises of each row.     *)
THEOREM LifecycleImplemented == OneWorker /\ Spec => ImplementsLifecycle
  BY InitRefines, StepRefines, SingleAlways, PTL
  DEF Spec, ImplementsLifecycle, Lifecycle!Spec

-----------------------------------------------------------------------------
(* The rate limit                                                          *)

InWindow(d) == row[d].status = "sent" /\ row[d].age < Window

Budgeted(local) ==
  local.pc \in {"check", "send", "mark_sent"} /\ local.cur.id \in DmRows =>
    /\ local.counts[Recipient[local.cur.id]] # Uncounted
    /\ local.counts[Recipient[local.cur.id]] < DmLimit

(* A count in use covers the window, and a message is only sent below the  *)
(* limit: between the count and the mark nobody else sends, and time can   *)
(* only take messages out of the window.                                   *)
WindowInv ==
  /\ SingleInv
  /\ \A u \in Users : SentInWindow(u) <= DmLimit
  /\ \A w \in Workers : \A u \in Users :
       worker[w].counts[u] # Uncounted => SentInWindow(u) <= worker[w].counts[u]
  /\ \A w \in Workers : Budgeted(worker[w])

LEMMA WindowIs ==
  ASSUME NEW u
  PROVE  /\ SentInWindow(u) = Cardinality({d \in DmRows : Recipient[d] = u /\ InWindow(d)})
         /\ IsFiniteSet({d \in DmRows : Recipient[d] = u /\ InWindow(d)})
<1>1. IsFiniteSet(DmRows)
      /\ {d \in DmRows : Recipient[d] = u /\ InWindow(d)} \subseteq DmRows
  BY QueueAssumption
<1>2. IsFiniteSet({d \in DmRows : Recipient[d] = u /\ InWindow(d)})
  BY <1>1, FS_Subset
<1>3. {d \in DmRows : Recipient[d] = u /\ InWindow(d)}
        = {d \in DmRows : Recipient[d] = u /\ row[d].status = "sent" /\ row[d].age < Window}
  BY DEF InWindow
<1> QED
  BY <1>2, <1>3 DEF SentInWindow

(* No row enters a window: the counts do not grow.                         *)
LEMMA Shrinks ==
  ASSUME NEW u, \A d \in DmRows : Recipient[d] = u => (InWindow(d)' => InWindow(d))
  PROVE  SentInWindow(u)' <= SentInWindow(u) /\ SentInWindow(u)' \in Nat /\ SentInWindow(u) \in Nat
<1> DEFINE S == {d \in DmRows : Recipient[d] = u /\ InWindow(d)}
           T == {d \in DmRows : Recipient[d] = u /\ InWindow(d)'}
<1>1. T \subseteq S
  OBVIOUS
<1>2. SentInWindow(u) = Cardinality(S) /\ IsFiniteSet(S)
  BY WindowIs
<1>3. SentInWindow(u)' = Cardinality(T)
  <2>1. {d \in DmRows : Recipient[d] = u /\ InWindow(d)'}
          = {d \in DmRows : Recipient[d] = u /\ row'[d].status = "sent" /\ row'[d].age < Window}
    BY DEF InWindow
  <2> QED
    BY <2>1 DEF SentInWindow
<1> HIDE DEF S, T
<1> QED
  BY <1>1, <1>2, <1>3, FS_Subset, FS_CardinalityType

(* A step that puts no row into a window and keeps the counts or drops     *)
(* them all.                                                               *)
LEMMA BudgetKept ==
  ASSUME WindowInv, SingleInv', NEW w \in Workers,
         \A d \in DmRows : InWindow(d)' => InWindow(d),
         worker'[w].counts \in {worker[w].counts, Idle.counts},
         Budgeted(worker'[w])
  PROVE  WindowInv'
<1>1. Workers = {w} /\ TypeInv /\ worker[w] \in Locals
  BY Only DEF WindowInv
<1>2. \A u \in Users : /\ SentInWindow(u)' <= SentInWindow(u)
                       /\ SentInWindow(u)' \in Nat /\ SentInWindow(u) \in Nat
  BY Shrinks
<1>3. ASSUME NEW u \in Users, worker'[w].counts[u] # Uncounted
      PROVE  SentInWindow(u)' <= worker'[w].counts[u]
  <2>1. worker'[w].counts = worker[w].counts
    BY <1>3 DEF Idle
  <2>2. worker[w].counts[u] \in Int
    BY <1>1 DEF Locals
  <2> QED
    BY <1>2, <1>3, <2>1, <2>2 DEF WindowInv
<1>4. \A u \in Users : SentInWindow(u)' <= DmLimit
  BY <1>2, CycleAssumption DEF WindowInv
<1>5. Budgeted(worker[w])'
  BY DEF Budgeted
<1> QED
  BY <1>1, <1>3, <1>4, <1>5 DEF WindowInv

(* Only MarkSentDm puts a DM row into a window.                            *)
LEMMA NoneEnters ==
  ASSUME SingleInv, [Next]_vars, \A w \in Workers : ~MarkSentDm(w)
  PROVE  \A d \in DmRows : InWindow(d)' => InWindow(d)
<1> SUFFICES ASSUME NEW d \in DmRows, InWindow(d)', row'[d] # row[d]
             PROVE  InWindow(d)
  BY DEF InWindow
<1>0. TypeInv /\ QueueTypeOK /\ d \in Rows /\ row'[d].status = "sent" /\ row'[d].age < Window
  BY DEF SingleInv, TypeInv, TypeOK, InWindow, Rows
<1>1. ASSUME NEW w \in Workers, CycleStep(w) PROVE FALSE
  <2>0. LocalOK(worker[w]) /\ worker[w] \in Locals
    BY Only
  <2>1. CASE StartCycle(w)
    BY <1>0, <2>1 DEF StartCycle
  <2>2. CASE RecoverNext(w)
    <3>1. PICK s \in worker[w].stale : RecoverStale(s[1], s[2])
      BY <2>2 DEF RecoverNext
    <3>2. s[1] \in Rows /\ s[2] \in 0..MaxAttempts
      BY <2>0 DEF Locals
    <3> QED
      BY <1>0, <3>1, <3>2, RecoverStaleType
  <2>3. CASE ClaimGroup(w) \/ ClaimDm(w)
    <3>1. PICK kind \in {GroupRows, DmRows} : \E S \in Batches(kind, BatchSize) : Claim(S)
      BY <2>3 DEF ClaimGroup, ClaimDm
    <3>2. PICK S \in Batches(kind, BatchSize) : Claim(S)
      BY <3>1
    <3>3. S \in SUBSET Due(kind) /\ kind \in SUBSET Rows
      BY DEF Batches, Rows
    <3> QED
      BY <1>0, <3>2, <3>3, ClaimType
  <2> QED
    BY <1>1, <2>1, <2>2, <2>3 DEF CycleStep
<1>2. ASSUME NEW w \in Workers, GroupStep(w) PROVE FALSE
  <2>1. CASE SkipUnconfigured(w)
    <3>1. PICK r \in worker[w].todo : MarkSkipped(r.id)
      BY <2>1 DEF SkipUnconfigured
    <3>2. r.id \in Rows
      BY <1>0, HeldTypes DEF HeldBy
    <3> QED
      BY <1>0, <3>1, <3>2, MarkSkippedType
  <2>2. CASE MarkSentGroup(w)
    <3>1. /\ worker[w].pc = "mark_sent" /\ worker[w].pc \in HandPcs
          /\ CurRow(w) \in GroupRows /\ MarkSent(CurRow(w), worker[w].acked)
      BY <2>2 DEF MarkSentGroup, At, HandPcs, OnGroup
    <3>2. CurRow(w) \in Rows /\ worker[w].acked \in BOOLEAN
      BY <3>1, HandRow
    <3>3. d # CurRow(w)
      BY <3>1, QueueAssumption
    <3> QED
      BY <1>0, <3>1, <3>2, <3>3, MarkSentType
  <2> QED
    BY <1>2, <2>1, <2>2
    DEF GroupStep, TakeGroup, GroupFlooded, GroupUnanswered, GroupRefused, Aggregate
<1>3. ASSUME NEW w \in Workers, DmStep(w) \/ WriteFailure(w) PROVE FALSE
  <2>1. CASE \/ worker[w].pc = "release" /\ ReleaseToPending(CurRow(w))
             \/ worker[w].pc = "skip" /\ MarkSkipped(CurRow(w))
             \/ /\ worker[w].pc = "write_failure"
                /\ MarkFailed(CurRow(w), worker[w].seen, worker[w].retry)
    <3>1. worker[w].pc \in HandPcs
      BY <2>1 DEF HandPcs
    <3>2. /\ CurRow(w) \in Rows /\ worker[w].seen \in 0..MaxAttempts
          /\ worker[w].retry \in BOOLEAN
      BY <3>1, HandRow
    <3> QED
      BY <1>0, <2>1, <3>2, ReleaseType, MarkSkippedType, MarkFailedType
  <2> QED
    BY <1>3, <2>1
    DEF DmStep, TakeDm, ReleaseDm, CheckDm, SkipDm, DmUnanswered, DmRefused,
        DisableUser, WriteFailure, At
<1>4. ASSUME NEW w \in Workers,
             \/ SendOk(w) \/ ReadAttempts(w) \/ EndCycle(w) \/ CaughtFault(w)
             \/ Abandon(w)
      PROVE  FALSE
  BY <1>4 DEF SendOk, ReadAttempts, EndCycle, CaughtFault, Abandon
<1>5. ASSUME NEW e \in Rows, Enqueue(e) \/ Replay(e) PROVE FALSE
  <2>1. Insert({e}, {}) \/ ReplayDeadLetter(e)
    BY <1>5 DEF Enqueue, Replay
  <2> QED
    BY <1>0, <2>1, InsertType, ReplayType
<1>6. CASE TimePasses
  <2>1. row'[d] = [row[d] EXCEPT !.wait = IF @ > 0 THEN @ - 1 ELSE 0,
                      !.age = IF @ < AgeLimit(row[d]) THEN @ + 1 ELSE @]
    BY <1>0, <1>6 DEF TimePasses, Tick
  <2>2. row[d].status = "sent" /\ row[d] \in Row /\ row[d].age \in Int
    BY <1>0, <1>6, TickType, QueueAssumption DEF TimePasses, QueueTypeOK, Row, AgeCap
  <2>3. row'[d].age = IF row[d].age < Window THEN row[d].age + 1 ELSE row[d].age
    <3> DEFINE a == IF row[d].age < AgeLimit(row[d]) THEN row[d].age + 1 ELSE row[d].age
               v == IF row[d].wait > 0 THEN row[d].wait - 1 ELSE 0
    <3>1. row'[d] = [row[d] EXCEPT !.wait = v, !.age = a]
      BY <2>1
    <3>2. a = IF row[d].age < Window THEN row[d].age + 1 ELSE row[d].age
      BY <2>2 DEF AgeLimit
    <3> HIDE DEF a, v
    <3>3. row'[d].age = a
      BY <2>2, <3>1 DEF Row
    <3> QED
      BY <3>2, <3>3
  <2> QED
    BY <1>0, <2>2, <2>3, QueueAssumption DEF InWindow
<1>7. CASE \/ \E u \in Users : Resubscribe(u)
           \/ UNCHANGED vars
  BY <1>0, <1>7 DEF Resubscribe, vars
<1> QED
  BY <1>1, <1>2, <1>3, <1>4, <1>5, <1>6, <1>7 DEF Next, WorkerStep

(* What a step of the worker does to its counts and to the record in hand. *)
LEMMA CycleBudget ==
  ASSUME TypeInv, NEW w \in Workers, CycleStep(w) \/ EndCycle(w) \/ Abandon(w)
  PROVE  /\ worker'[w].counts \in {worker[w].counts, Idle.counts}
         /\ Budgeted(worker'[w])
<1>0. worker[w] \in Locals
  BY DEF TypeInv, TypeOK
<1>1. CASE EndCycle(w) \/ Abandon(w) \/ Become(w, Idle)
  <2>1. worker'[w] = Idle /\ Idle.pc = "idle"
    BY <1>1, Becomes DEF EndCycle, Abandon, Idle
  <2> QED
    BY <2>1 DEF Budgeted
<1>2. CASE StartCycle(w)
  <2> DEFINE st == {<<d, row[d].attempts>> : d \in Expired}
  <2>1. worker'[w] = [Idle EXCEPT !.pc = "recover", !.stale = st]
    BY <1>2, Becomes DEF StartCycle
  <2>2. worker'[w].pc = "recover" /\ worker'[w].counts = Idle.counts
    BY <2>1 DEF Idle
  <2> QED
    BY <2>2 DEF Budgeted
<1>3. CASE RecoverNext(w)
  <2>1. PICK s : worker'[w] = [worker[w] EXCEPT !.stale = @ \ {s}]
    BY <1>3, Becomes DEF RecoverNext
  <2>2. worker'[w].pc = "recover" /\ worker'[w].counts = worker[w].counts
    BY <1>0, <1>3, <2>1 DEF RecoverNext, At, Locals
  <2> QED
    BY <2>2 DEF Budgeted
<1>4. CASE ClaimGroup(w)
  <2>1. PICK S : worker'[w] = [worker[w] EXCEPT !.pc = "group", !.todo = Claimed(S),
                                 !.busy = (S # {}), !.counts = Idle.counts]
    BY <1>4, Becomes DEF ClaimGroup
  <2>2. worker'[w].pc = "group" /\ worker'[w].counts = Idle.counts
    BY <1>0, <2>1 DEF Locals
  <2> QED
    BY <2>2 DEF Budgeted
<1>5. CASE ClaimDm(w) /\ ~Become(w, Idle)
  <2>1. PICK S : worker'[w] = [worker[w] EXCEPT !.pc = "dm", !.todo = Claimed(S),
                                 !.busy = FALSE]
    BY <1>5, Becomes DEF ClaimDm
  <2>2. worker'[w].pc = "dm" /\ worker'[w].counts = worker[w].counts
    BY <1>0, <2>1 DEF Locals
  <2> QED
    BY <2>2 DEF Budgeted
<1> QED
  BY <1>1, <1>2, <1>3, <1>4, <1>5 DEF CycleStep

LEMMA FailBudget ==
  ASSUME TypeInv, NEW w \in Workers, NEW retryable, Fail(w, retryable)
  PROVE  worker'[w].counts = worker[w].counts /\ Budgeted(worker'[w])
<1>1. /\ worker'[w] = [worker[w] EXCEPT !.pc = "fail", !.retry = retryable]
      /\ worker[w] \in Locals
  BY Becomes DEF Fail, TypeInv, TypeOK
<1>2. worker'[w].pc = "fail" /\ worker'[w].counts = worker[w].counts
  BY <1>1 DEF Locals
<1> QED
  BY <1>2 DEF Budgeted

LEMMA GoBudget ==
  ASSUME TypeInv, NEW w \in Workers, NEW pc, Go(w, pc)
  PROVE  /\ worker'[w].counts = worker[w].counts /\ worker'[w].pc = pc
         /\ worker'[w].cur = worker[w].cur
<1>1. worker'[w] = [worker[w] EXCEPT !.pc = pc] /\ worker[w] \in Locals
  BY Becomes DEF Go, TypeInv, TypeOK
<1> QED
  BY <1>1 DEF Locals

LEMMA NextBudget ==
  ASSUME TypeInv, NEW w \in Workers, NextRecord(w)
  PROVE  worker'[w].counts = worker[w].counts /\ Budgeted(worker'[w])
<1> DEFINE p == IF OnGroup(w) THEN "group" ELSE "dm"
<1>1. /\ worker'[w] = [worker[w] EXCEPT !.pc = p, !.cur = NoRecord, !.tries = 0,
                         !.acked = FALSE, !.retry = FALSE, !.seen = 0]
      /\ worker[w] \in Locals /\ p \in {"group", "dm"}
  BY Becomes DEF NextRecord, TypeInv, TypeOK
<1> HIDE DEF p
<1>2. worker'[w].pc \in {"group", "dm"} /\ worker'[w].counts = worker[w].counts
  BY <1>1 DEF Locals
<1> QED
  BY <1>2 DEF Budgeted

LEMMA TryBudget ==
  ASSUME TypeInv, NEW w \in Workers, OnGroup(w),
         Become(w, [worker[w] EXCEPT !.tries = @ + 1])
  PROVE  worker'[w].counts = worker[w].counts /\ Budgeted(worker'[w])
<1> DEFINE n == worker[w].tries + 1
<1>1. worker'[w] = [worker[w] EXCEPT !.tries = n] /\ worker[w] \in Locals
  BY Becomes DEF TypeInv, TypeOK
<1> HIDE DEF n
<1>2. worker'[w].cur = worker[w].cur /\ worker'[w].counts = worker[w].counts
  BY <1>1 DEF Locals
<1> QED
  BY <1>2, QueueAssumption DEF Budgeted, OnGroup, CurRow, Cur

LEMMA HandBudget ==
  ASSUME WindowInv, NEW w \in Workers,
         \/ GroupStep(w) \/ DmStep(w) \/ SendOk(w) \/ ReadAttempts(w)
         \/ WriteFailure(w) \/ CaughtFault(w),
         ~TakeDm(w), ~MarkSentDm(w)
  PROVE  worker'[w].counts = worker[w].counts /\ Budgeted(worker'[w])
<1>0. TypeInv /\ worker[w] \in Locals /\ Budgeted(worker[w])
  BY Only DEF WindowInv
<1>1. CASE NextRecord(w) \/ \E retryable : Fail(w, retryable)
  BY <1>0, <1>1, NextBudget, FailBudget
<1>2. CASE OnGroup(w) /\ Become(w, [worker[w] EXCEPT !.tries = @ + 1])
  BY <1>0, <1>2, TryBudget
<1>3. CASE \E pc \in {"aggregate", "skip", "disable"} : Go(w, pc)
  BY <1>0, <1>3, GoBudget DEF Budgeted
<1>4. CASE OnGroup(w) /\ Go(w, "mark_sent")
  <2>1. worker'[w].counts = worker[w].counts /\ worker'[w].cur = worker[w].cur
    BY <1>0, <1>4, GoBudget
  <2> QED
    BY <1>4, <2>1, QueueAssumption DEF Budgeted, OnGroup, CurRow, Cur
<1>5. CASE worker[w].pc = "check" /\ Go(w, "send")
  <2>1. worker'[w].counts = worker[w].counts /\ worker'[w].cur = worker[w].cur
    BY <1>0, <1>5, GoBudget
  <2> QED
    BY <1>0, <1>5, <2>1 DEF Budgeted
<1>6. CASE SkipUnconfigured(w)
  <2>1. PICK r : worker'[w] = [worker[w] EXCEPT !.todo = @ \ {r}]
    BY <1>0, <1>6, Becomes DEF SkipUnconfigured
  <2>2. worker'[w].pc = "group" /\ worker'[w].counts = worker[w].counts
    BY <1>0, <1>6, <2>1 DEF SkipUnconfigured, At, Locals
  <2> QED
    BY <2>2 DEF Budgeted
<1>7. CASE TakeGroup(w)
  <2>1. PICK r \in worker[w].todo :
          worker'[w] = [worker[w] EXCEPT !.pc = "send", !.todo = @ \ {r},
                                         !.cur = r, !.tries = 1]
    BY <1>0, <1>7, Becomes DEF TakeGroup
  <2>2. worker'[w].cur = r /\ worker'[w].counts = worker[w].counts
    BY <1>0, <2>1 DEF Locals
  <2>3. r.id \notin DmRows
    BY <1>0, <1>7, QueueAssumption DEF TakeGroup, At, TypeInv, Shape, HeldBy, HandPcs
  <2> QED
    BY <2>2, <2>3 DEF Budgeted
<1>8. CASE ReleaseDm(w)
  <2> DEFINE dd == worker[w].deferred \cup {CurRow(w)}
  <2>1. worker'[w] = [worker[w] EXCEPT !.pc = "dm", !.cur = NoRecord, !.deferred = dd]
    BY <1>0, <1>8, Becomes DEF ReleaseDm
  <2> HIDE DEF dd
  <2>2. worker'[w].pc = "dm" /\ worker'[w].counts = worker[w].counts
    BY <1>0, <2>1 DEF Locals
  <2> QED
    BY <2>2 DEF Budgeted
<1>9. CASE SendOk(w)
  <2>1. worker'[w] = [worker[w] EXCEPT !.pc = "mark_sent", !.acked = TRUE]
    BY <1>0, <1>9, Becomes DEF SendOk
  <2>2. /\ worker'[w].cur = worker[w].cur /\ worker'[w].counts = worker[w].counts
        /\ worker[w].pc = "send"
    BY <1>0, <1>9, <2>1 DEF SendOk, At, Locals
  <2> QED
    BY <1>0, <2>2 DEF Budgeted
<1>10. CASE ReadAttempts(w)
  <2> DEFINE n == row[CurRow(w)].attempts
  <2>1. worker'[w] = [worker[w] EXCEPT !.pc = "write_failure", !.seen = n]
    BY <1>0, <1>10, Becomes DEF ReadAttempts
  <2> HIDE DEF n
  <2>2. worker'[w].pc = "write_failure" /\ worker'[w].counts = worker[w].counts
    BY <1>0, <2>1 DEF Locals
  <2> QED
    BY <2>2 DEF Budgeted
<1> QED
  BY <1>1, <1>2, <1>3, <1>4, <1>5, <1>6, <1>7, <1>8, <1>9, <1>10
  DEF GroupStep, DmStep, GroupFlooded, GroupUnanswered, GroupRefused, MarkSentGroup,
      Aggregate, CheckDm, SkipDm, DmUnanswered, DmRefused, DisableUser, WriteFailure,
      CaughtFault, At

(* A record is taken: counted now, or already in this batch.               *)
LEMMA TakeBudget ==
  ASSUME WindowInv, SingleInv', NEW w \in Workers, TakeDm(w)
  PROVE  WindowInv'
<1>0. /\ Workers = {w} /\ TypeInv /\ worker[w] \in Locals
      /\ worker[w].pc = "dm" /\ UNCHANGED row
  BY Only DEF WindowInv, TakeDm, At
<1> DEFINE u(r) == Recipient[r.id]
           n(r) == IF worker[w].counts[u(r)] = Uncounted
                   THEN SentInWindow(u(r)) ELSE worker[w].counts[u(r)]
           c(r) == [worker[w].counts EXCEPT ![u(r)] = n(r)]
           pc(r) == IF n(r) >= DmLimit THEN "release" ELSE "check"
<1>1. PICK r \in worker[w].todo :
        Become(w, [worker[w] EXCEPT !.todo = @ \ {r}, !.cur = r,
                     !.counts = c(r), !.pc = pc(r)])
  BY DEF TakeDm
<1>2. r.id \in DmRows /\ u(r) \in Users /\ worker[w].counts \in [Users -> Int]
  BY <1>0 DEF TypeInv, Shape, HeldBy, Users, Locals
<1>3. /\ SentInWindow(u(r)) \in Nat /\ worker[w].counts[u(r)] \in Int
      /\ DmLimit \in Nat
  BY <1>2, SentInWindowType, CycleAssumption
<1>4. n(r) \in Int /\ n(r) # Uncounted /\ SentInWindow(u(r)) <= n(r)
  BY <1>2, <1>3 DEF WindowInv, Uncounted
<1>5. pc(r) = "release" \/ (pc(r) = "check" /\ n(r) < DmLimit)
  BY <1>3, <1>4
<1>6. \A v \in Users : SentInWindow(v)' = SentInWindow(v)
  BY <1>0 DEF SentInWindow
<1> HIDE DEF n, pc, u
<1>7. c(r)[u(r)] = n(r) /\ \A v \in Users : v # u(r) => c(r)[v] = worker[w].counts[v]
  BY <1>2
<1> HIDE DEF c
<1>8. worker'[w].cur = r /\ worker'[w].counts = c(r) /\ worker'[w].pc = pc(r)
  BY <1>0, <1>1, Becomes DEF Locals
<1>9. \A v \in Users : worker'[w].counts[v] # Uncounted
                        => SentInWindow(v)' <= worker'[w].counts[v]
  BY <1>4, <1>6, <1>7, <1>8 DEF WindowInv
<1>10. Budgeted(worker[w])'
  BY <1>4, <1>5, <1>7, <1>8 DEF Budgeted, u
<1>11. \A v \in Users : SentInWindow(v)' <= DmLimit
  BY <1>6 DEF WindowInv
<1> QED
  BY <1>0, <1>9, <1>10, <1>11 DEF WindowInv

(* A message is marked sent: one more in the window, one more counted.     *)
LEMMA MarkBudget ==
  ASSUME WindowInv, SingleInv', NEW w \in Workers, MarkSentDm(w)
  PROVE  WindowInv'
<1> SUFFICES ASSUME NEW d, d = CurRow(w) PROVE WindowInv'
  OBVIOUS
<1>0. /\ Workers = {w} /\ SingleInv /\ TypeInv /\ QueueTypeOK /\ worker[w] \in Locals
      /\ worker[w].pc = "mark_sent" /\ worker[w].pc \in HandPcs /\ d \in DmRows
      /\ MarkSent(d, worker[w].acked) /\ worker[w].acked \in BOOLEAN /\ d \in Rows
  BY Only, HandRow, InHand DEF WindowInv, MarkSentDm, At, HandPcs, TypeInv, TypeOK
<1> DEFINE u == Recipient[d]
           n == worker[w].counts[u] + 1
           c == [worker[w].counts EXCEPT ![u] = n]
<1>1. u \in Users /\ worker[w].counts \in [Users -> Int] /\ worker[w].counts[u] \in Int
  BY <1>0 DEF Users, Locals
<1>2. worker[w].counts[u] # Uncounted /\ worker[w].counts[u] < DmLimit
  BY <1>0 DEF WindowInv, Budgeted, CurRow, Cur
<1>3. Become(w, [worker[w] EXCEPT !.pc = "dm", !.cur = NoRecord, !.acked = FALSE,
                   !.counts = c])
  BY DEF MarkSentDm
<1>4. \A e \in Rows \ {d} : row'[e] = row[e]
  BY <1>0, MarkSentType
<1>5. /\ SentInWindow(u)' <= SentInWindow(u) + 1
      /\ SentInWindow(u)' \in Nat /\ SentInWindow(u) \in Nat
  <2> DEFINE S == {e \in DmRows : Recipient[e] = u /\ InWindow(e)}
             T == {e \in DmRows : /\ Recipient[e] = u
                                  /\ row'[e].status = "sent" /\ row'[e].age < Window}
  <2>1. SentInWindow(u) = Cardinality(S) /\ IsFiniteSet(S)
    BY WindowIs
  <2>2. SentInWindow(u)' = Cardinality(T)
    BY DEF SentInWindow
  <2>3. T \subseteq S \cup {d}
    BY <1>4 DEF InWindow, Rows
  <2> HIDE DEF S, T
  <2>4. /\ IsFiniteSet(S \cup {d})
        /\ \/ Cardinality(S \cup {d}) = Cardinality(S)
           \/ Cardinality(S \cup {d}) = Cardinality(S) + 1
    BY <2>1, FS_AddElement
  <2>5. /\ IsFiniteSet(T) /\ Cardinality(T) <= Cardinality(S \cup {d})
        /\ Cardinality(T) \in Nat /\ Cardinality(S) \in Nat
    BY <2>1, <2>3, <2>4, FS_Subset, FS_CardinalityType
  <2> QED
    BY <2>1, <2>2, <2>4, <2>5
<1>6. ASSUME NEW v \in Users, v # u
      PROVE  SentInWindow(v)' <= SentInWindow(v) /\ SentInWindow(v)' \in Nat /\ SentInWindow(v) \in Nat
  <2>1. \A e \in DmRows : Recipient[e] = v => (InWindow(e)' => InWindow(e))
    BY <1>4, <1>6 DEF InWindow, Rows
  <2> QED
    BY <2>1, Shrinks
<1>7. SentInWindow(u) <= worker[w].counts[u]
  BY <1>0, <1>1, <1>2 DEF WindowInv
<1> HIDE DEF u, n
<1>8. c[u] = n /\ \A v \in Users : v # u => c[v] = worker[w].counts[v]
  BY <1>1
<1> HIDE DEF c
<1>9. worker'[w].counts = c /\ worker'[w].pc = "dm"
  BY <1>0, <1>3, Becomes DEF Locals
<1>10. ASSUME NEW v \in Users
       PROVE  /\ worker'[w].counts[v] # Uncounted => SentInWindow(v)' <= worker'[w].counts[v]
              /\ SentInWindow(v)' <= DmLimit
  <2>0. DmLimit \in Nat /\ worker[w].counts[v] \in Int
    BY <1>1, CycleAssumption
  <2>1. CASE v = u
    BY <1>1, <1>2, <1>5, <1>7, <1>8, <1>9, <2>0, <2>1 DEF n
  <2>2. CASE v # u
    BY <1>0, <1>6, <1>8, <1>9, <2>0, <2>2 DEF WindowInv
  <2> QED
    BY <2>1, <2>2
<1>11. Budgeted(worker[w])'
  BY <1>9 DEF Budgeted
<1> QED
  BY <1>0, <1>10, <1>11 DEF WindowInv

LEMMA WindowStep == WindowInv /\ [Next]_vars => WindowInv'
<1> SUFFICES ASSUME WindowInv, [Next]_vars PROVE WindowInv'
  OBVIOUS
<1>0. SingleInv /\ SingleInv' /\ TypeInv
  BY SingleStep DEF WindowInv, SingleInv
<1>1. CASE \E w \in Workers : MarkSentDm(w)
  BY <1>0, <1>1, MarkBudget
<1>2. CASE \E w \in Workers : TakeDm(w)
  BY <1>0, <1>2, TakeBudget
<1>3. CASE \A w \in Workers : ~MarkSentDm(w) /\ ~TakeDm(w)
  <2>1. \A d \in DmRows : InWindow(d)' => InWindow(d)
    BY <1>0, <1>3, NoneEnters
  <2>2. PICK w \in Workers : TRUE
    BY CycleAssumption
  <2>3. ASSUME NEW v \in Workers,
               WorkerStep(v) \/ EndCycle(v) \/ CaughtFault(v) \/ Abandon(v)
        PROVE  WindowInv'
    <3>1. /\ worker'[v].counts \in {worker[v].counts, Idle.counts}
          /\ Budgeted(worker'[v])
      BY <1>0, <1>3, <2>3, CycleBudget, HandBudget DEF WorkerStep
    <3> QED
      BY <1>0, <2>1, <3>1, BudgetKept
  <2>4. CASE UNCHANGED worker
    BY <1>0, <2>1, <2>2, <2>4, BudgetKept DEF WindowInv
  <2> QED
    BY <2>3, <2>4 DEF Next, Enqueue, Replay, Resubscribe, TimePasses, vars
<1> QED
  BY <1>1, <1>2, <1>3

LEMMA WindowInit == OneWorker /\ Init => WindowInv
<1> SUFFICES ASSUME OneWorker, Init PROVE WindowInv
  OBVIOUS
<1>1. ASSUME NEW u \in Users PROVE SentInWindow(u) = 0
  <2>1. {d \in DmRows : Recipient[d] = u /\ InWindow(d)} = {}
    BY DEF Init, QueueInit, Absent, InWindow, Rows
  <2> QED
    BY <2>1, WindowIs, FS_EmptySet
<1>2. \A w \in Workers : /\ worker[w].pc = "idle"
                         /\ \A u \in Users : worker[w].counts[u] = Uncounted
  BY DEF Init, Idle
<1> QED
  BY <1>1, <1>2, SingleInit, CycleAssumption DEF WindowInv, Budgeted

(* A subscriber never has more than DmLimit messages marked sent inside a  *)
(* window, whatever the number of rows, of users and of faults, although   *)
(* get_pending_dm_count_for_user is asked once per batch and the window    *)
(* moves (deliver_subscriber_dm_records).                                  *)
THEOREM WindowKept == OneWorker /\ Spec => []WindowRespected
<1>1. WindowInv => WindowRespected
  BY DEF WindowInv, WindowRespected
<1> QED
  BY <1>1, WindowInit, WindowStep, PTL DEF Spec
=============================================================================
