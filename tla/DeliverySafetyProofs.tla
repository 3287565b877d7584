------------------------ MODULE DeliverySafetyProofs ------------------------
(***************************************************************************)
(* Why several workers on one table are safe for topic messages although   *)
(* no mark_* statement checks who holds a row: the claim number.  A row's  *)
(* attempts never decreases, each claim takes the next number, so a record *)
(* is held once, a claim's messages are counted once, and a worker's copy  *)
(* of attempts is never ahead of the row's.                                *)
(***************************************************************************)
EXTENDS DeliveryCycleProofs

(* What a worker holds and has read, against the table.                    *)
ClaimsCounted(local) ==
  /\ \A r \in HeldBy(local) :
       r.id \in GroupRows => r.attempt <= row[r.id].attempts
  /\ local.cur \notin local.todo

ReadsOld(local) ==
  /\ \A s \in local.stale : s[1] \in GroupRows => s[2] <= row[s[1]].attempts
  /\ local.pc = "write_failure" /\ local.cur.id \in GroupRows =>
       local.seen <= row[local.cur.id].attempts

(* What it holds, against what Telegram has shown.                         *)
PostsCounted(local) ==
  /\ \A r \in local.todo : r.id \in GroupRows => posts[r.id][r.attempt] = 0
  /\ local.pc = "send" /\ local.cur.id \in GroupRows =>
       posts[local.cur.id][local.cur.attempt] < local.tries

AnswersShown(local) ==
  local.acked =>
    /\ local.pc \in {"mark_sent", "aggregate", "fail", "write_failure"}
    /\ posts[local.cur.id][local.cur.attempt] > 0

BornUnclaimed ==
  \A d \in GroupRows : row[d].status = "absent" => row[d].attempts = 0

PostsClaimed ==
  \A d \in GroupRows, k \in 1..MaxAttempts :
    posts[d][k] > 0 => k <= row[d].attempts

SafeInv ==
  /\ TypeInv
  /\ \A w \in Workers : /\ ClaimsCounted(worker[w]) /\ ReadsOld(worker[w])
                        /\ PostsCounted(worker[w]) /\ AnswersShown(worker[w])
  /\ BornUnclaimed
  /\ PostsClaimed
  /\ OneWorkerPerClaim
  /\ CopiesPerClaim
  /\ NoEarlyGiveUp
  /\ AckedWasShown

-----------------------------------------------------------------------------
Grow == \A d \in GroupRows : row[d].attempts <= row'[d].attempts
RowPart == Grow /\ BornUnclaimed' /\ NoEarlyGiveUp' /\ AckedWasShown'

(* A group row has a number of attempts, now and after the step.           *)
LEMMA AttemptsType ==
  ASSUME QueueTypeOK, NEW d \in Rows
  PROVE  row[d].attempts \in 0..MaxAttempts /\ row[d].attempts \in Int
  BY QueueAssumption DEF QueueTypeOK, Row

LEMMA PostsNat ==
  ASSUME TypeOK, NEW d \in Rows, NEW k \in 1..MaxAttempts
  PROVE  posts[d][k] \in Nat
<1>1. posts[d] \in [1..MaxAttempts -> Nat]
  BY DEF TypeOK
<1> QED
  BY <1>1

(* A worker that stands still keeps its part of the invariant while the    *)
(* attempts of topic rows only grow and nothing is shown.                  *)
LEMMA StillSafe ==
  ASSUME TypeInv, TypeInv', NEW w \in Workers, worker'[w] = worker[w], Grow,
         ClaimsCounted(worker[w]), ReadsOld(worker[w])
  PROVE  ClaimsCounted(worker[w])' /\ ReadsOld(worker[w])'
<1>1. /\ \A r \in HeldBy(worker[w]) : r.id \in GroupRows =>
           /\ r.attempt \in Int
           /\ row[r.id].attempts \in Int /\ row'[r.id].attempts \in Int
  <2>1. \A r \in HeldBy(worker[w]) : r \in Records
    BY DEF TypeInv, Shape, Locals, HeldBy
  <2> QED
    BY <2>1, AttemptsType DEF Records, TypeInv, TypeOK, Rows, QueueTypeOK, Row
<1>2. \A s \in worker[w].stale : /\ s[1] \in Rows /\ s[2] \in 0..MaxAttempts
  BY DEF TypeInv, Shape, Locals
<1>3. ClaimsCounted(worker[w])'
  BY <1>1 DEF ClaimsCounted, Grow, HeldBy
<1>4. \A d \in GroupRows : row[d].attempts \in Int /\ row'[d].attempts \in Int
  BY QueueAssumption DEF TypeInv, TypeOK, QueueTypeOK, Row, Rows
<1>5. worker[w].seen \in 0..MaxAttempts
  BY DEF TypeInv, Shape, Locals
<1>6. ReadsOld(worker[w])'
  BY <1>2, <1>4, <1>5, QueueAssumption DEF ReadsOld, Grow
<1> QED
  BY <1>3, <1>6

(* One row changes.                                                        *)
LEMMA OneRowPart ==
  ASSUME SafeInv, TypeInv', NEW d \in Rows, UNCHANGED posts,
         \A e \in Rows \ {d} : row'[e] = row[e],
         d \in GroupRows => row[d].attempts <= row'[d].attempts,
         d \in GroupRows /\ Exhausted(d)' => row'[d].attempts = MaxAttempts,
         row'[d].status # "absent",
         row'[d].acked => row[d].acked \/ Shown(d) # {}
  PROVE  RowPart
<1>1. Grow
  BY AttemptsType DEF Grow, SafeInv, TypeInv, TypeOK, Rows
<1>2. NoEarlyGiveUp'
  <2> SUFFICES ASSUME NEW e \in GroupRows, Exhausted(e)'
               PROVE  row'[e].attempts = MaxAttempts
    BY DEF NoEarlyGiveUp
  <2>1. CASE e # d
    <3>1. row'[e] = row[e]
      BY <2>1 DEF Rows
    <3> QED
      BY <3>1 DEF SafeInv, NoEarlyGiveUp, Exhausted
  <2> QED
    BY <2>1
<1>3. AckedWasShown'
  BY DEF AckedWasShown, SafeInv, Shown
<1>4. BornUnclaimed'
  BY DEF BornUnclaimed, SafeInv, Rows
<1> QED
  BY <1>1, <1>2, <1>3, <1>4 DEF RowPart

LEMMA NoRowPart ==
  ASSUME SafeInv, UNCHANGED row, TypeInv',
         \A d \in Rows, k \in 1..MaxAttempts : posts[d][k] > 0 => posts'[d][k] > 0
  PROVE  RowPart
<1>1. Grow
  BY AttemptsType DEF Grow, SafeInv, TypeInv, TypeOK, Rows
<1>2. NoEarlyGiveUp'
  BY DEF SafeInv, NoEarlyGiveUp, Exhausted
<1>3. AckedWasShown'
  BY DEF AckedWasShown, SafeInv, Shown
<1>4. BornUnclaimed'
  BY DEF BornUnclaimed, SafeInv, Rows
<1> QED
  BY <1>1, <1>2, <1>3, <1>4 DEF RowPart

(* The part of the invariant that speaks of pairs of workers survives when *)
(* nobody takes a new record.                                              *)
LEMMA HeldShrinks ==
  ASSUME OneWorkerPerClaim,
         \A v \in Workers : HeldBy(worker[v])' \subseteq HeldBy(worker[v])
  PROVE  OneWorkerPerClaim'
  BY DEF OneWorkerPerClaim, Held

(* Most steps: worker w moves on, takes nothing new and shows nothing.     *)
Tame(w) ==
  /\ Others(w)
  /\ worker'[w].todo \subseteq worker[w].todo
  /\ worker'[w].stale \subseteq worker[w].stale
  /\ worker'[w].cur \in {worker[w].cur, NoRecord}
  /\ worker'[w].pc # "write_failure"
  /\ worker'[w].pc = "send" => worker'[w].cur.id \notin GroupRows
  /\ worker'[w].acked =>
       /\ worker[w].acked /\ worker'[w].cur = worker[w].cur
       /\ worker'[w].pc \in {"mark_sent", "aggregate", "fail"}

LEMMA OthersSafe ==
  ASSUME SafeInv, TypeInv', NEW w \in Workers, Others(w), Grow, UNCHANGED posts,
         NEW v \in Workers \ {w}
  PROVE  /\ ClaimsCounted(worker[v])' /\ ReadsOld(worker[v])'
         /\ PostsCounted(worker[v])' /\ AnswersShown(worker[v])'
<1>1. worker'[v] = worker[v]
  BY DEF Others
<1>2. ClaimsCounted(worker[v])' /\ ReadsOld(worker[v])'
  BY <1>1, StillSafe DEF SafeInv
<1>3. PostsCounted(worker[v])' /\ AnswersShown(worker[v])'
  BY <1>1 DEF SafeInv, PostsCounted, AnswersShown
<1> QED
  BY <1>2, <1>3

(* Claim numbers only grow, so what was shown stays claimed.               *)
LEMMA PostsStayClaimed ==
  ASSUME SafeInv, TypeInv', Grow, UNCHANGED posts
  PROVE  PostsClaimed' /\ CopiesPerClaim'
<1>1. CopiesPerClaim'
  BY DEF SafeInv, CopiesPerClaim
<1>2. ASSUME NEW d \in GroupRows, NEW k \in 1..MaxAttempts, posts'[d][k] > 0
      PROVE  k <= row'[d].attempts
  <2>1. k <= row[d].attempts /\ row[d].attempts <= row'[d].attempts
    BY <1>2 DEF SafeInv, PostsClaimed, Grow
  <2>2. row[d].attempts \in Int /\ row'[d].attempts \in Int
    BY QueueAssumption DEF SafeInv, TypeInv, TypeOK, QueueTypeOK, Row, Rows
  <2> QED
    BY <2>1, <2>2
<1> QED
  BY <1>1, <1>2 DEF PostsClaimed

LEMMA TameSafe ==
  ASSUME SafeInv, TypeInv', NEW w \in Workers, Tame(w), RowPart, UNCHANGED posts
  PROVE  SafeInv'
<1>1. HeldBy(worker[w])' \subseteq HeldBy(worker[w])
  BY DEF Tame, HeldBy
<1>2. OneWorkerPerClaim'
  BY <1>1, HeldShrinks DEF SafeInv, Tame, Others, HeldBy
<1>3. PostsClaimed' /\ CopiesPerClaim'
  BY PostsStayClaimed DEF RowPart
<1>4. ASSUME NEW v \in Workers \ {w}
      PROVE  /\ ClaimsCounted(worker[v])' /\ ReadsOld(worker[v])'
             /\ PostsCounted(worker[v])' /\ AnswersShown(worker[v])'
  BY OthersSafe DEF Tame, RowPart
<1>5. ClaimsCounted(worker[w])'
  <2>1. \A r \in HeldBy(worker[w]) : r.id \in GroupRows =>
           /\ r.attempt \in Int
           /\ row[r.id].attempts \in Int /\ row'[r.id].attempts \in Int
    <3>1. \A r \in HeldBy(worker[w]) : r \in Records
      BY DEF SafeInv, TypeInv, Shape, Locals, HeldBy
    <3> QED
      BY <3>1, QueueAssumption
      DEF Records, SafeInv, TypeInv, TypeOK, Rows, QueueTypeOK, Row
  <2>2. \A r \in HeldBy(worker[w])' : r.id \in GroupRows =>
          r.attempt <= row'[r.id].attempts
    BY <1>1, <2>1 DEF SafeInv, ClaimsCounted, RowPart, Grow
  <2>3. worker'[w].cur \notin worker'[w].todo
    <3>1. NoRecord \notin worker[w].todo
      BY NoRecordAssumption DEF SafeInv, TypeInv, Shape, Locals
    <3> QED
      BY <3>1 DEF SafeInv, ClaimsCounted, Tame
  <2> QED
    BY <2>2, <2>3 DEF ClaimsCounted
<1>6. ReadsOld(worker[w])'
  <2>1. \A s \in worker[w].stale : s[1] \in Rows /\ s[2] \in 0..MaxAttempts
    BY DEF SafeInv, TypeInv, Shape, Locals
  <2>2. \A d \in GroupRows : row[d].attempts \in Int /\ row'[d].attempts \in Int
    BY QueueAssumption DEF SafeInv, TypeInv, TypeOK, QueueTypeOK, Row, Rows
  <2> QED
    BY <2>1, <2>2, QueueAssumption DEF SafeInv, ReadsOld, Tame, RowPart, Grow
<1>7. PostsCounted(worker[w])'
  BY DEF SafeInv, PostsCounted, Tame
<1>8. AnswersShown(worker[w])'
  BY DEF SafeInv, AnswersShown, Tame
<1> QED
  BY <1>2, <1>3, <1>4, <1>5, <1>6, <1>7, <1>8 DEF SafeInv, RowPart

-----------------------------------------------------------------------------
(* The cycle's own steps.                                                  *)

(* Outside the hands of a worker nothing is acknowledged.                  *)
LEMMA NotAcked ==
  ASSUME SafeInv, NEW w \in Workers,
         worker[w].pc \notin {"mark_sent", "aggregate", "fail", "write_failure"}
  PROVE  worker[w].acked = FALSE
  BY DEF SafeInv, AnswersShown, TypeInv, Shape, Locals

LEMMA StartCycleSafe ==
  ASSUME SafeInv, TypeInv', NEW w \in Workers, StartCycle(w)
  PROVE  SafeInv'
<1>1. /\ Others(w)
      /\ worker'[w].pc = "recover" /\ worker'[w].todo = {}
      /\ worker'[w].cur = NoRecord /\ worker'[w].acked = FALSE
      /\ \A s \in worker'[w].stale : s[1] \in Rows /\ s[2] = row[s[1]].attempts
      /\ UNCHANGED <<row, posts>>
  BY StartCycleStep DEF SafeInv, StartCycle
<1>2. RowPart
  BY <1>1, NoRowPart
<1>3. OneWorkerPerClaim'
  BY <1>1, HeldShrinks DEF SafeInv, Others, HeldBy
<1>4. PostsClaimed' /\ CopiesPerClaim'
  BY <1>1, <1>2, PostsStayClaimed DEF RowPart
<1>5. ASSUME NEW v \in Workers \ {w}
      PROVE  /\ ClaimsCounted(worker[v])' /\ ReadsOld(worker[v])'
             /\ PostsCounted(worker[v])' /\ AnswersShown(worker[v])'
  BY <1>1, <1>2, OthersSafe DEF RowPart
<1>6. /\ ClaimsCounted(worker[w])'
      /\ PostsCounted(worker[w])' /\ AnswersShown(worker[w])'
  BY <1>1 DEF ClaimsCounted, PostsCounted, AnswersShown, HeldBy
<1>7. ReadsOld(worker[w])'
  BY <1>1, AttemptsType DEF ReadsOld, SafeInv, TypeInv, TypeOK
<1> QED
  BY <1>2, <1>3, <1>4, <1>5, <1>6, <1>7 DEF SafeInv, RowPart

LEMMA RecoverNextSafe ==
  ASSUME SafeInv, TypeInv', NEW w \in Workers, RecoverNext(w)
  PROVE  SafeInv'
<1>0. TypeInv /\ QueueTypeOK
  BY DEF SafeInv, TypeInv, TypeOK
<1>1. PICK s \in worker[w].stale :
        /\ RecoverStale(s[1], s[2])
        /\ Become(w, [worker[w] EXCEPT !.stale = @ \ {s}])
  BY DEF RecoverNext
<1>2. s[1] \in Rows /\ s[2] \in 0..MaxAttempts
  BY <1>0 DEF TypeInv, Shape, Locals
<1>3. worker[w].pc = "recover" /\ worker[w].acked = FALSE /\ UNCHANGED posts
  BY NotAcked DEF RecoverNext, At
<1>4. Tame(w)
  BY <1>0, <1>1, <1>3, RecoverStep DEF Tame
<1>5. /\ row'[s[1]].status = IF s[2] < MaxAttempts THEN "pending"
                                                   ELSE "dead_letter"
      /\ row'[s[1]].attempts = row[s[1]].attempts
      /\ row'[s[1]].acked = row[s[1]].acked
      /\ \A e \in Rows \ {s[1]} : row'[e] = row[e]
  BY <1>0, <1>1, <1>2, RecoverStaleType
<1>6. row[s[1]].attempts \in 0..MaxAttempts /\ row[s[1]].attempts \in Int
  BY <1>0, <1>2, AttemptsType
<1>7. s[1] \in GroupRows => s[2] <= row[s[1]].attempts
  BY DEF SafeInv, ReadsOld
<1>8. s[1] \in GroupRows /\ Exhausted(s[1])' => row'[s[1]].attempts = MaxAttempts
  BY <1>2, <1>5, <1>6, <1>7, QueueAssumption DEF Exhausted
<1>9. RowPart
  BY <1>2, <1>3, <1>5, <1>6, <1>8, OneRowPart
<1> QED
  BY <1>3, <1>4, <1>9, TameSafe

(* A worker that drops everything disturbs nothing.                        *)
LEMMA IdleTame ==
  ASSUME TypeInv, NEW w \in Workers, Become(w, Idle)
  PROVE  Tame(w)
  BY IdleStep DEF Tame

LEMMA EndCycleSafe ==
  ASSUME SafeInv, TypeInv', NEW w \in Workers, EndCycle(w) \/ Abandon(w)
  PROVE  SafeInv'
<1>1. Become(w, Idle) /\ UNCHANGED <<row, posts>>
  BY DEF EndCycle, Abandon
<1>2. Tame(w)
  BY <1>1, IdleTame DEF SafeInv
<1>3. RowPart
  BY <1>1, NoRowPart
<1> QED
  BY <1>1, <1>2, <1>3, TameSafe

(* A claim of rows of either kind.                                         *)
LEMMA ClaimRowPart ==
  ASSUME SafeInv, TypeInv', NEW kind \in SUBSET Rows, NEW S \in SUBSET Due(kind),
         Claim(S), UNCHANGED posts
  PROVE  RowPart
<1>0. QueueTypeOK
  BY DEF SafeInv, TypeInv, TypeOK
<1>1. /\ \A d \in S : /\ row'[d].status = "processing"
                      /\ row'[d].attempts = row[d].attempts + 1
      /\ \A d \in Rows \ S : row'[d] = row[d]
  BY <1>0, ClaimType
<1>2. Grow
  BY <1>0, <1>1, AttemptsType DEF Grow, Rows
<1>3. NoEarlyGiveUp'
  <2> SUFFICES ASSUME NEW d \in GroupRows, Exhausted(d)'
               PROVE  row'[d].attempts = MaxAttempts
    BY DEF NoEarlyGiveUp
  <2>1. d \notin S
    BY <1>1 DEF Exhausted
  <2>2. row'[d] = row[d]
    BY <1>1, <2>1 DEF Rows
  <2> QED
    BY <2>2 DEF SafeInv, NoEarlyGiveUp, Exhausted
<1>4. AckedWasShown'
  <2> SUFFICES ASSUME NEW d \in Rows PROVE row'[d].acked = row[d].acked
    BY DEF SafeInv, AckedWasShown, Shown
  <2>1. CASE d \in S
    BY <1>0, <2>1 DEF Claim, QueueTypeOK, Row
  <2> QED
    BY <1>1, <2>1
<1>5. BornUnclaimed'
  BY <1>1 DEF BornUnclaimed, SafeInv, Rows
<1> QED
  BY <1>2, <1>3, <1>4, <1>5 DEF RowPart

LEMMA ClaimGroupSafe ==
  ASSUME SafeInv, TypeInv', NEW w \in Workers, ClaimGroup(w)
  PROVE  SafeInv'
<1>0. TypeInv /\ QueueTypeOK /\ GroupRows \in SUBSET Rows
  BY DEF SafeInv, TypeInv, TypeOK, Rows
<1>1. PICK S \in Batches(GroupRows, BatchSize) :
        /\ Claim(S)
        /\ Become(w, [worker[w] EXCEPT !.pc = "group", !.todo = Claimed(S),
                        !.busy = (S # {}), !.counts = Idle.counts])
  BY DEF ClaimGroup
<1>2. /\ worker[w].pc \notin HandPcs /\ Idle.counts \in [Users -> Int]
      /\ worker[w].acked = FALSE /\ UNCHANGED posts
  <2>1. worker[w].pc \in {"recover", "dm"} /\ UNCHANGED posts
    BY DEF ClaimGroup, AtLoopHead, At
  <2>2. worker[w].pc \notin HandPcs /\ worker[w].acked = FALSE
    BY <2>1, NotAcked DEF HandPcs
  <2>3. Idle.counts \in [Users -> Int]
    BY DEF Idle, Uncounted
  <2> QED
    BY <2>1, <2>2, <2>3
<1>3. /\ Others(w)
      /\ worker'[w].pc \in {"group", "dm"} /\ worker'[w].todo = Claimed(S)
      /\ worker'[w].cur = NoRecord /\ worker'[w].acked = FALSE
      /\ worker'[w].stale = worker[w].stale
  BY <1>0, <1>1, <1>2, ClaimGroupStep
<1>4. /\ S \in SUBSET Due(GroupRows) /\ Claimed(S) \in SUBSET Records
      /\ \A r \in Claimed(S) : /\ r.id \in S /\ r.id \in GroupRows
                               /\ r.attempt = row[r.id].attempts + 1
  BY <1>0, ClaimedRecords DEF Claimed
<1>5. \A d \in S : row'[d].attempts = row[d].attempts + 1
  BY <1>0, <1>1, <1>4, ClaimType
<1>6. RowPart
  BY <1>0, <1>1, <1>2, <1>4, ClaimRowPart
<1>7. \A d \in GroupRows : row[d].attempts \in Int /\ row[d].attempts >= 0
  BY <1>0, QueueAssumption DEF QueueTypeOK, Row, Rows
<1>8. OneWorkerPerClaim'
  <2> SUFFICES ASSUME NEW u \in Workers, NEW v \in Workers, u # v,
                      NEW r \in HeldBy(worker[u])' \cap HeldBy(worker[v])',
                      r.id \in GroupRows
               PROVE  FALSE
    BY DEF OneWorkerPerClaim, Held
  <2>1. CASE u # w /\ v # w
    <3>1. r \in HeldBy(worker[u]) \cap HeldBy(worker[v])
      BY <1>3, <2>1 DEF Others, HeldBy
    <3> QED
      BY <3>1 DEF SafeInv, OneWorkerPerClaim, Held
  <2>2. ASSUME NEW x \in Workers \ {w}, r \in HeldBy(worker[x])', r \in Claimed(S)
        PROVE  FALSE
    <3>1. r.attempt <= row[r.id].attempts
      BY <1>3, <2>2 DEF SafeInv, ClaimsCounted, Others, HeldBy
    <3> QED
      BY <1>4, <1>7, <2>2, <3>1
  <2>3. HeldBy(worker[w])' = Claimed(S)
    BY <1>3 DEF HeldBy
  <2> QED
    BY <2>1, <2>2, <2>3
<1>9. PostsClaimed' /\ CopiesPerClaim'
  BY <1>2, <1>6, PostsStayClaimed DEF RowPart
<1>10. ASSUME NEW v \in Workers \ {w}
       PROVE  /\ ClaimsCounted(worker[v])' /\ ReadsOld(worker[v])'
              /\ PostsCounted(worker[v])' /\ AnswersShown(worker[v])'
  BY <1>2, <1>3, <1>6, OthersSafe DEF RowPart
<1>11. ClaimsCounted(worker[w])'
  <2>1. HeldBy(worker[w])' = Claimed(S)
    BY <1>3 DEF HeldBy
  <2>2. NoRecord \notin Claimed(S)
    BY <1>4, NoRecordAssumption
  <2> QED
    BY <1>3, <1>4, <1>5, <1>7, <2>1, <2>2 DEF ClaimsCounted
<1>12. ReadsOld(worker[w])'
  <2>1. \A s \in worker[w].stale : s[1] \in Rows /\ s[2] \in 0..MaxAttempts
    BY <1>0 DEF TypeInv, Shape, Locals
  <2>2. \A d \in GroupRows : row[d].attempts \in Int /\ row'[d].attempts \in Int
    BY QueueAssumption DEF SafeInv, TypeInv, TypeOK, QueueTypeOK, Row, Rows
  <2> QED
    BY <1>3, <1>6, <2>1, <2>2, QueueAssumption
    DEF SafeInv, ReadsOld, RowPart, Grow
<1>13. PostsCounted(worker[w])'
  <2> SUFFICES ASSUME NEW r \in Claimed(S)
               PROVE  posts[r.id][r.attempt] = 0
    BY <1>2, <1>3 DEF PostsCounted
  <2>1. /\ r.attempt \in 1..MaxAttempts /\ r.id \in GroupRows /\ r.id \in Rows
        /\ r.attempt > row[r.id].attempts
    BY <1>4, <1>7 DEF Records
  <2>2. posts[r.id][r.attempt] \in Nat
    BY <1>0, <2>1, PostsNat DEF TypeInv
  <2>3. ~(r.attempt <= row[r.id].attempts)
    BY <1>7, <2>1
  <2> QED
    BY <2>1, <2>2, <2>3 DEF SafeInv, PostsClaimed
<1>14. AnswersShown(worker[w])'
  BY <1>3 DEF AnswersShown
<1> QED
  BY <1>6, <1>8, <1>9, <1>10, <1>11, <1>12, <1>13, <1>14 DEF SafeInv, RowPart

(* A batch of DM rows brings no topic row into anyone's hands.             *)
LEMMA ClaimDmSafe ==
  ASSUME SafeInv, TypeInv', NEW w \in Workers, ClaimDm(w)
  PROVE  SafeInv'
<1>0. TypeInv /\ QueueTypeOK /\ DmRows \in SUBSET Rows
  BY DEF SafeInv, TypeInv, TypeOK, Rows
<1>1. PICK S \in Batches(DmRows, BatchSize) :
        /\ Claim(S)
        /\ IF S = {} /\ ~worker[w].busy
           THEN Become(w, Idle)
           ELSE Become(w, [worker[w] EXCEPT !.pc = "dm", !.todo = Claimed(S),
                             !.busy = FALSE])
  BY DEF ClaimDm
<1>2. worker[w].pc = "group" /\ worker[w].acked = FALSE /\ UNCHANGED posts
  BY NotAcked DEF ClaimDm, At
<1>3. /\ S \in SUBSET Due(DmRows) /\ Claimed(S) \in SUBSET Records
      /\ \A r \in Claimed(S) : r.id \in DmRows /\ r.id \notin GroupRows
  BY <1>0, ClaimedRecords, QueueAssumption
<1>4. RowPart
  BY <1>0, <1>1, <1>2, <1>3, ClaimRowPart
<1>5. CASE Become(w, Idle)
  BY <1>0, <1>2, <1>4, <1>5, IdleTame, TameSafe
<1>6. CASE Become(w, [worker[w] EXCEPT !.pc = "dm", !.todo = Claimed(S),
                        !.busy = FALSE])
  <2>1. /\ Others(w)
        /\ worker'[w].pc \in {"group", "dm"} /\ worker'[w].todo = Claimed(S)
        /\ worker'[w].cur = NoRecord /\ worker'[w].acked = FALSE
        /\ worker'[w].stale = worker[w].stale
    BY <1>0, <1>2, <1>6, ClaimDmStep
  <2>2. HeldBy(worker[w])' = Claimed(S) /\ NoRecord \notin Claimed(S)
    BY <1>3, <2>1, NoRecordAssumption DEF HeldBy
  <2>3. OneWorkerPerClaim'
    BY <1>3, <2>1, <2>2 DEF SafeInv, OneWorkerPerClaim, Held, Others, HeldBy
  <2>4. PostsClaimed' /\ CopiesPerClaim'
    BY <1>2, <1>4, PostsStayClaimed DEF RowPart
  <2>5. ASSUME NEW v \in Workers \ {w}
        PROVE  /\ ClaimsCounted(worker[v])' /\ ReadsOld(worker[v])'
               /\ PostsCounted(worker[v])' /\ AnswersShown(worker[v])'
    BY <1>2, <1>4, <2>1, OthersSafe DEF RowPart
  <2>6. ClaimsCounted(worker[w])'
    BY <1>3, <2>1, <2>2 DEF ClaimsCounted
  <2>7. ReadsOld(worker[w])'
    <3>1. \A s \in worker[w].stale : s[1] \in Rows /\ s[2] \in 0..MaxAttempts
      BY <1>0 DEF TypeInv, Shape, Locals
    <3>2. \A d \in GroupRows : row[d].attempts \in Int /\ row'[d].attempts \in Int
      BY QueueAssumption DEF SafeInv, TypeInv, TypeOK, QueueTypeOK, Row, Rows
    <3> QED
      BY <1>4, <2>1, <3>1, <3>2, QueueAssumption
      DEF SafeInv, ReadsOld, RowPart, Grow
  <2>8. PostsCounted(worker[w])' /\ AnswersShown(worker[w])'
    BY <1>3, <2>1 DEF PostsCounted, AnswersShown
  <2> QED
    BY <1>4, <2>3, <2>4, <2>5, <2>6, <2>7, <2>8 DEF SafeInv, RowPart
<1> QED
  BY <1>1, <1>5, <1>6

-----------------------------------------------------------------------------
(* Taking a record and showing it.                                         *)

(* A worker takes one of its own records.                                  *)
LEMMA TakeSafe ==
  ASSUME SafeInv, TypeInv', NEW w \in Workers, UNCHANGED <<row, posts>>,
         Others(w), NEW r \in worker[w].todo,
         worker[w].acked = FALSE, worker'[w].acked = FALSE,
         worker'[w].cur = r, worker'[w].todo = worker[w].todo \ {r},
         worker'[w].stale = worker[w].stale,
         worker'[w].pc # "write_failure",
         \/ worker'[w].pc = "send" /\ worker'[w].tries = 1
         \/ r.id \notin GroupRows
  PROVE  SafeInv'
<1>1. HeldBy(worker[w])' \subseteq HeldBy(worker[w])
  BY DEF HeldBy
<1>2. OneWorkerPerClaim'
  BY <1>1, HeldShrinks DEF SafeInv, Others, HeldBy
<1>3. RowPart
  BY NoRowPart
<1>4. PostsClaimed' /\ CopiesPerClaim'
  BY <1>3, PostsStayClaimed DEF RowPart
<1>5. ASSUME NEW v \in Workers \ {w}
      PROVE  /\ ClaimsCounted(worker[v])' /\ ReadsOld(worker[v])'
             /\ PostsCounted(worker[v])' /\ AnswersShown(worker[v])'
  BY <1>3, OthersSafe DEF RowPart
<1>6. ClaimsCounted(worker[w])' /\ ReadsOld(worker[w])' /\ AnswersShown(worker[w])'
  BY <1>1 DEF SafeInv, ClaimsCounted, ReadsOld, AnswersShown
<1>7. PostsCounted(worker[w])'
  BY DEF SafeInv, PostsCounted
<1> QED
  BY <1>2, <1>3, <1>4, <1>5, <1>6, <1>7 DEF SafeInv, RowPart

LEMMA TakeGroupSafe ==
  ASSUME SafeInv, TypeInv', NEW w \in Workers, TakeGroup(w)
  PROVE  SafeInv'
<1>1. worker[w].pc = "group" /\ worker[w].acked = FALSE
  BY NotAcked DEF TakeGroup, At
<1>2. PICK r \in worker[w].todo :
        Become(w, [worker[w] EXCEPT !.pc = "send", !.todo = @ \ {r},
                                    !.cur = r, !.tries = 1])
  BY DEF TakeGroup
<1>3. /\ Others(w) /\ worker'[w].pc = "send" /\ worker'[w].cur = r
      /\ worker'[w].todo = worker[w].todo \ {r}
      /\ worker'[w].stale = worker[w].stale /\ worker'[w].tries = 1
      /\ worker'[w].acked = FALSE
  BY <1>1, <1>2, TakeGroupStep DEF SafeInv
<1> QED
  BY <1>1, <1>3, TakeSafe DEF TakeGroup

LEMMA TakeDmSafe ==
  ASSUME SafeInv, TypeInv', NEW w \in Workers, TakeDm(w)
  PROVE  SafeInv'
<1>1. worker[w].pc = "dm" /\ worker[w].acked = FALSE /\ UNCHANGED <<row, posts>>
  BY NotAcked DEF TakeDm, At
<1>2. /\ Others(w)
      /\ \E r \in worker[w].todo :
           /\ r.id \in DmRows
           /\ worker'[w].pc \in {"release", "check"} /\ worker'[w].cur = r
           /\ worker'[w].todo = worker[w].todo \ {r}
      /\ worker'[w].stale = worker[w].stale
      /\ worker'[w].acked = worker[w].acked
  BY TakeDmTyped DEF SafeInv
<1>3. PICK r \in worker[w].todo :
        /\ r.id \in DmRows
        /\ worker'[w].pc \in {"release", "check"} /\ worker'[w].cur = r
        /\ worker'[w].todo = worker[w].todo \ {r}
  BY <1>2
<1>4. r.id \notin GroupRows
  BY <1>3, QueueAssumption
<1> QED
  BY <1>1, <1>2, <1>3, <1>4, TakeSafe

(* A worker shows, or may have shown, the record in its hand.              *)
LEMMA PostSafe ==
  ASSUME SafeInv, TypeInv', NEW w \in Workers, UNCHANGED row,
         worker[w].pc = "send", UNCHANGED posts \/ Post(w),
         Others(w), Keeps(w), worker'[w].cur = worker[w].cur,
         \/ /\ worker'[w].pc = "send" /\ worker'[w].acked = worker[w].acked
            /\ worker'[w].tries = worker[w].tries + 1
         \/ worker'[w].pc = "fail" /\ worker'[w].acked = worker[w].acked
         \/ worker'[w].pc = "mark_sent" /\ Post(w)
  PROVE  SafeInv'
<1> DEFINE r == Cur(w)
<1>0. /\ TypeInv /\ TypeOK /\ TypeOK' /\ worker[w].pc \in HandPcs
      /\ worker[w].acked = FALSE
  BY NotAcked DEF SafeInv, TypeInv, HandPcs
<1>1. /\ r \in Records /\ r.id \in Rows /\ r.attempt \in 1..MaxAttempts
      /\ r \in HeldBy(worker[w]) /\ r \notin worker[w].todo
  BY <1>0, InHand, NoRecordAssumption
  DEF CurRow, Cur, HeldBy, SafeInv, ClaimsCounted
<1>2. /\ \A d \in Rows, k \in 1..MaxAttempts :
           /\ posts[d][k] \in Nat /\ posts'[d][k] \in Nat
           /\ d # r.id \/ k # r.attempt => posts'[d][k] = posts[d][k]
      /\ posts'[r.id][r.attempt] \in {posts[r.id][r.attempt],
                                      posts[r.id][r.attempt] + 1}
      /\ Post(w) => posts'[r.id][r.attempt] = posts[r.id][r.attempt] + 1
  <2>1. \A d \in Rows, k \in 1..MaxAttempts :
          posts[d][k] \in Nat /\ posts'[d][k] \in Nat
    BY <1>0, PostsNat DEF TypeOK
  <2> QED
    BY <1>0, <2>1, PostType DEF CurRow
<1>3. \A q \in Records : q # r => q.id # r.id \/ q.attempt # r.attempt
  BY <1>1 DEF Records
<1>4. \A q \in Records : q # r =>
        posts'[q.id][q.attempt] = posts[q.id][q.attempt]
  BY <1>2, <1>3 DEF Records
<1>5. \A d \in Rows, k \in 1..MaxAttempts :
        posts[d][k] > 0 => posts'[d][k] > 0
  BY <1>1, <1>2
<1> HIDE DEF r
<1>6. RowPart
  BY <1>5, NoRowPart
<1>7. HeldBy(worker[w])' = HeldBy(worker[w])
  BY DEF Keeps, HeldBy
<1>8. OneWorkerPerClaim'
  BY <1>7, HeldShrinks DEF SafeInv, Others, HeldBy
<1>9. r.id \in GroupRows =>
        /\ posts[r.id][r.attempt] < worker[w].tries
        /\ worker[w].tries \in 0..SendTries
        /\ r.attempt <= row[r.id].attempts
  BY <1>1 DEF SafeInv, PostsCounted, ClaimsCounted, TypeInv, Shape, Locals, r, Cur
<1>10. CopiesPerClaim' /\ PostsClaimed'
  <2> SUFFICES ASSUME NEW d \in GroupRows, NEW k \in 1..MaxAttempts
               PROVE  /\ posts'[d][k] <= SendTries
                      /\ posts'[d][k] > 0 => k <= row'[d].attempts
    BY DEF CopiesPerClaim, PostsClaimed
  <2>1. CASE d = r.id /\ k = r.attempt
    BY <1>1, <1>2, <1>9, <2>1, CycleAssumption
  <2>2. CASE d # r.id \/ k # r.attempt
    <3>1. posts'[d][k] = posts[d][k]
      BY <1>2, <2>2 DEF Rows
    <3> QED
      BY <3>1 DEF SafeInv, CopiesPerClaim, PostsClaimed
  <2> QED
    BY <2>1, <2>2
<1>11. ASSUME NEW v \in Workers \ {w}
       PROVE  /\ ClaimsCounted(worker[v])' /\ ReadsOld(worker[v])'
              /\ PostsCounted(worker[v])' /\ AnswersShown(worker[v])'
  <2>1. worker'[v] = worker[v]
    BY DEF Others
  <2>2. ClaimsCounted(worker[v])' /\ ReadsOld(worker[v])'
    BY <1>0, <1>6, <2>1, StillSafe DEF SafeInv, RowPart
  <2>3. \A q \in HeldBy(worker[v]) : q \in Records
    BY <1>0 DEF TypeInv, Shape, Locals, HeldBy
  <2>4. \A q \in HeldBy(worker[v]) : q.id \in GroupRows => q # r
    BY <1>1 DEF SafeInv, OneWorkerPerClaim, Held
  <2>5. \A q \in HeldBy(worker[v]) : q.id \in GroupRows =>
          posts'[q.id][q.attempt] = posts[q.id][q.attempt]
    BY <1>4, <2>3, <2>4
  <2>6. worker[v].pc \in {"send", "mark_sent", "aggregate", "fail", "write_failure"} =>
          /\ worker[v].cur \in HeldBy(worker[v])
          /\ worker[v].cur.id \in Rows
          /\ worker[v].cur.attempt \in 1..MaxAttempts
    BY <1>0, InHand, NoRecordAssumption DEF HandPcs, HeldBy, Cur, CurRow
  <2>7. PostsCounted(worker[v])'
    BY <2>1, <2>5, <2>6 DEF SafeInv, PostsCounted, HeldBy
  <2>8. AnswersShown(worker[v])'
    BY <1>5, <2>1, <2>6 DEF SafeInv, AnswersShown
  <2> QED
    BY <2>2, <2>7, <2>8
<1>12. ClaimsCounted(worker[w])' /\ ReadsOld(worker[w])'
  BY <1>7 DEF SafeInv, ClaimsCounted, ReadsOld, Keeps
<1>13. PostsCounted(worker[w])'
  <2>1. \A q \in worker[w].todo : q \in Records /\ q # r
    BY <1>0, <1>1 DEF TypeInv, Shape, Locals
  <2>2. \A q \in worker'[w].todo : q.id \in GroupRows =>
          posts'[q.id][q.attempt] = 0
    BY <1>4, <2>1 DEF SafeInv, PostsCounted, Keeps
  <2>3. worker'[w].pc = "send" /\ worker'[w].cur.id \in GroupRows =>
          posts'[worker'[w].cur.id][worker'[w].cur.attempt] < worker'[w].tries
    BY <1>1, <1>2, <1>9 DEF r, Cur
  <2> QED
    BY <2>2, <2>3 DEF PostsCounted
<1>14. AnswersShown(worker[w])'
  <2>1. CASE worker'[w].acked = FALSE
    BY <2>1 DEF AnswersShown
  <2>2. CASE worker'[w].pc = "mark_sent" /\ Post(w)
    <3>1. posts'[r.id][r.attempt] > 0
      BY <1>1, <1>2, <2>2
    <3>2. worker'[w].cur = r
      BY DEF r, Cur
    <3> QED
      BY <2>2, <3>1, <3>2 DEF AnswersShown
  <2> QED
    BY <1>0, <2>1, <2>2
<1> QED
  BY <1>6, <1>8, <1>10, <1>11, <1>12, <1>13, <1>14 DEF SafeInv, RowPart

-----------------------------------------------------------------------------
(* The steps of one record.                                                *)

LEMMA SkipUnconfiguredSafe ==
  ASSUME SafeInv, TypeInv', NEW w \in Workers, SkipUnconfigured(w)
  PROVE  SafeInv'
<1>0. TypeInv /\ QueueTypeOK
  BY DEF SafeInv, TypeInv, TypeOK
<1>1. PICK r \in worker[w].todo :
        /\ MarkSkipped(r.id)
        /\ Become(w, [worker[w] EXCEPT !.todo = @ \ {r}])
  BY DEF SkipUnconfigured
<1>2. worker[w].pc = "group" /\ worker[w].acked = FALSE /\ UNCHANGED posts
  BY NotAcked DEF SkipUnconfigured, At
<1>3. /\ Others(w) /\ r \in Records /\ r.id \in GroupRows
      /\ worker'[w].pc = "group" /\ worker'[w].cur = NoRecord
      /\ worker'[w].todo = worker[w].todo \ {r}
      /\ worker'[w].stale = worker[w].stale /\ worker'[w].acked = FALSE
  BY <1>0, <1>1, <1>2, DropStep
<1>4. Tame(w)
  BY <1>3 DEF Tame
<1>5. r.id \in Rows
  BY <1>3 DEF Rows
<1>6. RowPart
  BY <1>0, <1>1, <1>2, <1>5, MarkSkippedType, OneRowPart, AttemptsType
  DEF Exhausted
<1> QED
  BY <1>2, <1>4, <1>6, TameSafe

(* Where a step ends that keeps the record, or that drops it.              *)
LEMMA KeepTame ==
  ASSUME SafeInv, NEW w \in Workers, Others(w), Keeps(w),
         worker'[w].cur = worker[w].cur, worker'[w].acked = worker[w].acked,
         worker'[w].pc \in {"mark_sent", "aggregate", "fail"}
           \/ worker[w].acked = FALSE,
         worker'[w].pc # "write_failure",
         worker'[w].pc = "send" => worker'[w].cur.id \notin GroupRows
  PROVE  Tame(w)
  BY DEF Tame, Keeps

LEMMA DropTame ==
  ASSUME SafeInv, NEW w \in Workers, Others(w), Keeps(w),
         worker'[w].cur = NoRecord, worker'[w].acked = FALSE,
         worker'[w].pc \in {"group", "dm"}
  PROVE  Tame(w)
  BY DEF Tame, Keeps

LEMMA FailSafe ==
  ASSUME SafeInv, TypeInv', NEW w \in Workers, worker[w].pc \in HandPcs,
         NEW retryable \in BOOLEAN, Fail(w, retryable), UNCHANGED <<row, posts>>
  PROVE  SafeInv'
<1>1. Tame(w)
  BY FailStep, KeepTame DEF SafeInv
<1>2. RowPart
  BY NoRowPart
<1> QED
  BY <1>1, <1>2, TameSafe

LEMMA NextRecordSafe ==
  ASSUME SafeInv, TypeInv', NEW w \in Workers, worker[w].pc \in HandPcs,
         NextRecord(w), RowPart, UNCHANGED posts
  PROVE  SafeInv'
  BY NextRecordStep, DropTame, TameSafe DEF SafeInv

LEMMA MarkSentRowPart ==
  ASSUME SafeInv, TypeInv', NEW w \in Workers, worker[w].pc = "mark_sent",
         MarkSent(CurRow(w), worker[w].acked), UNCHANGED posts
  PROVE  RowPart
<1>1. /\ CurRow(w) \in Rows /\ Cur(w).attempt \in 1..MaxAttempts
      /\ worker[w].acked \in BOOLEAN /\ QueueTypeOK
  BY InHand DEF SafeInv, TypeInv, TypeOK, Shape, Locals, HandPcs
<1>2. /\ row'[CurRow(w)].status = "sent"
      /\ row'[CurRow(w)].attempts = row[CurRow(w)].attempts
      /\ row'[CurRow(w)].acked = worker[w].acked
      /\ \A e \in Rows \ {CurRow(w)} : row'[e] = row[e]
  BY <1>1, MarkSentType
<1>3. worker[w].acked => Shown(CurRow(w)) # {}
  BY <1>1 DEF SafeInv, AnswersShown, Shown, CurRow, Cur
<1> QED
  BY <1>1, <1>2, <1>3, OneRowPart, AttemptsType DEF Exhausted

LEMMA MarkSentSafe ==
  ASSUME SafeInv, TypeInv', NEW w \in Workers, MarkSentGroup(w) \/ MarkSentDm(w)
  PROVE  SafeInv'
<1>1. /\ worker[w].pc = "mark_sent" /\ worker[w].pc \in HandPcs
      /\ MarkSent(CurRow(w), worker[w].acked) /\ UNCHANGED posts
  BY DEF MarkSentGroup, MarkSentDm, At, HandPcs
<1>2. RowPart
  BY <1>1, MarkSentRowPart
<1>3. CASE MarkSentDm(w)
  BY <1>1, <1>2, <1>3, MarkSentDmStep, DropTame, TameSafe DEF SafeInv
<1>4. CASE MarkSentGroup(w) /\ NextRecord(w)
  BY <1>1, <1>2, <1>4, NextRecordSafe
<1>5. CASE MarkSentGroup(w) /\ Go(w, "aggregate")
  <2>1. OnGroup(w) /\ "aggregate" \in HandPcs
    BY <1>5 DEF MarkSentGroup, HandPcs
  <2>2. Tame(w)
    BY <1>1, <1>5, <2>1, GoStep, KeepTame DEF SafeInv, OnGroup
  <2> QED
    BY <1>1, <1>2, <2>2, TameSafe
<1> QED
  BY <1>3, <1>4, <1>5 DEF MarkSentGroup

LEMMA GroupStepSafe ==
  ASSUME SafeInv, TypeInv', NEW w \in Workers, GroupStep(w)
  PROVE  SafeInv'
<1>1. CASE GroupFlooded(w)
  <2>1. /\ worker[w].pc = "send" /\ worker[w].pc \in HandPcs
        /\ worker[w].acked = FALSE /\ UNCHANGED <<row, posts>>
    BY <1>1, NotAcked DEF GroupFlooded, At, HandPcs
  <2>2. CASE worker[w].tries < SendTries
    <3>1. Become(w, [worker[w] EXCEPT !.tries = @ + 1])
      BY <1>1, <2>2 DEF GroupFlooded
    <3> QED
      BY <2>1, <2>2, <3>1, TryAgainStep, PostSafe DEF SafeInv
  <2>3. CASE ~(worker[w].tries < SendTries)
    <3>1. Go(w, "mark_sent") /\ "mark_sent" \in HandPcs
      BY <1>1, <2>3 DEF GroupFlooded, HandPcs
    <3>2. Tame(w)
      BY <2>1, <3>1, GoStep, KeepTame DEF SafeInv
    <3>3. RowPart
      BY <2>1, NoRowPart
    <3> QED
      BY <2>1, <3>2, <3>3, TameSafe
  <2> QED
    BY <2>2, <2>3
<1>2. CASE GroupUnanswered(w)
  <2>1. /\ worker[w].pc = "send" /\ worker[w].pc \in HandPcs
        /\ (UNCHANGED posts \/ Post(w)) /\ UNCHANGED row
    BY <1>2 DEF GroupUnanswered, At, HandPcs
  <2>2. CASE /\ worker[w].tries < SendTries
             /\ Become(w, [worker[w] EXCEPT !.tries = @ + 1])
    BY <1>2, <2>1, <2>2, TryAgainStep, PostSafe DEF SafeInv, GroupUnanswered
  <2>3. CASE \E retryable \in BOOLEAN : Fail(w, retryable)
    BY <1>2, <2>1, <2>3, FailStep, PostSafe DEF SafeInv, GroupUnanswered
  <2> QED
    BY <1>2, <2>2, <2>3 DEF GroupUnanswered
<1>3. CASE GroupRefused(w)
  BY <1>3, FailSafe DEF GroupRefused, At, HandPcs
<1>4. CASE Aggregate(w)
  <2>1. RowPart
    BY <1>4, NoRowPart DEF Aggregate
  <2> QED
    BY <1>4, <2>1, NextRecordSafe DEF Aggregate, At, HandPcs
<1> QED
  BY <1>1, <1>2, <1>3, <1>4, SkipUnconfiguredSafe, TakeGroupSafe, MarkSentSafe
  DEF GroupStep

LEMMA DmStepSafe ==
  ASSUME SafeInv, TypeInv', NEW w \in Workers, DmStep(w)
  PROVE  SafeInv'
<1>0. QueueTypeOK /\ TypeInv
  BY DEF SafeInv, TypeInv, TypeOK
<1>1. CASE ReleaseDm(w)
  <2>1. /\ CurRow(w) \in Rows /\ CurRow(w) \notin GroupRows
        /\ worker[w].acked = FALSE /\ UNCHANGED posts
    BY <1>0, <1>1, NotAcked, QueueAssumption
    DEF ReleaseDm, At, TypeInv, Shape, CurRow, Cur, Rows
  <2>2. RowPart
    BY <1>0, <1>1, <2>1, ReleaseType, OneRowPart DEF ReleaseDm
  <2> QED
    BY <1>0, <1>1, <2>1, <2>2, ReleaseDmStep, DropTame, TameSafe
<1>2. CASE CheckDm(w)
  <2>1. /\ worker[w].pc \in HandPcs /\ CurRow(w) \in DmRows
        /\ CurRow(w) \notin GroupRows
        /\ worker[w].acked = FALSE /\ UNCHANGED <<row, posts>>
    BY <1>0, <1>2, NotAcked, QueueAssumption
    DEF CheckDm, At, HandPcs, TypeInv, Shape, CurRow, Cur
  <2>2. PICK pc \in {"send", "skip"} : Go(w, pc)
    BY <1>2 DEF CheckDm
  <2>3. pc \in HandPcs
    BY DEF HandPcs
  <2>4. Tame(w)
    BY <1>0, <2>1, <2>2, <2>3, GoStep, KeepTame DEF CurRow, Cur
  <2>5. RowPart
    BY <2>1, NoRowPart
  <2> QED
    BY <2>1, <2>4, <2>5, TameSafe
<1>3. CASE SkipDm(w)
  <2>1. /\ worker[w].pc \in HandPcs /\ CurRow(w) \in Rows /\ UNCHANGED posts
    BY <1>0, <1>3, InHand DEF SkipDm, At, HandPcs
  <2>2. RowPart
    BY <1>0, <1>3, <2>1, MarkSkippedType, OneRowPart, AttemptsType
    DEF SkipDm, Exhausted
  <2> QED
    BY <1>3, <2>1, <2>2, NextRecordSafe DEF SkipDm
<1>4. CASE DmUnanswered(w)
  <2>1. /\ worker[w].pc = "send" /\ worker[w].pc \in HandPcs
        /\ (UNCHANGED posts \/ Post(w)) /\ UNCHANGED row /\ Fail(w, TRUE)
    BY <1>4 DEF DmUnanswered, At, HandPcs
  <2> QED
    BY <1>0, <1>4, <2>1, FailStep, PostSafe DEF DmUnanswered
<1>5. CASE DmRefused(w)
  <2>1. /\ worker[w].pc \in HandPcs /\ CurRow(w) \in DmRows
        /\ worker[w].acked = FALSE /\ UNCHANGED <<row, posts>>
    BY <1>0, <1>5, InHand, NotAcked DEF DmRefused, At, HandPcs
  <2>2. CASE Go(w, "disable")
    <3>1. Tame(w)
      BY <1>0, <2>1, <2>2, GoStep, KeepTame DEF HandPcs
    <3>2. RowPart
      BY <2>1, NoRowPart
    <3> QED
      BY <2>1, <3>1, <3>2, TameSafe
  <2> QED
    BY <1>5, <2>1, <2>2, FailSafe DEF DmRefused
<1>6. CASE DisableUser(w)
  BY <1>6, FailSafe DEF DisableUser, At, HandPcs
<1> QED
  BY <1>1, <1>2, <1>3, <1>4, <1>5, <1>6, TakeDmSafe, MarkSentSafe DEF DmStep

LEMMA SendOkSafe ==
  ASSUME SafeInv, TypeInv', NEW w \in Workers, SendOk(w)
  PROVE  SafeInv'
  BY AnsweredStep, PostSafe DEF SendOk, At, SafeInv

(* The SELECT of mark_delivery_failed reads the row as it is now.          *)
LEMMA ReadAttemptsSafe ==
  ASSUME SafeInv, TypeInv', NEW w \in Workers, ReadAttempts(w)
  PROVE  SafeInv'
<1>1. /\ Others(w) /\ Keeps(w) /\ worker'[w].pc = "write_failure"
      /\ worker'[w].cur = worker[w].cur /\ worker'[w].acked = worker[w].acked
      /\ worker'[w].seen = row[CurRow(w)].attempts
      /\ worker[w].pc = "fail" /\ UNCHANGED <<row, posts>>
  BY ReadStep DEF SafeInv, ReadAttempts, At
<1>2. RowPart
  BY <1>1, NoRowPart
<1>3. HeldBy(worker[w])' = HeldBy(worker[w])
  BY <1>1 DEF HeldBy, Keeps
<1>4. OneWorkerPerClaim'
  BY <1>1, <1>3, HeldShrinks DEF SafeInv, Others, HeldBy
<1>5. PostsClaimed' /\ CopiesPerClaim'
  BY <1>1, <1>2, PostsStayClaimed DEF RowPart
<1>6. ASSUME NEW v \in Workers \ {w}
      PROVE  /\ ClaimsCounted(worker[v])' /\ ReadsOld(worker[v])'
             /\ PostsCounted(worker[v])' /\ AnswersShown(worker[v])'
  BY <1>1, <1>2, OthersSafe DEF RowPart
<1>7. /\ ClaimsCounted(worker[w])' /\ PostsCounted(worker[w])'
      /\ AnswersShown(worker[w])'
  BY <1>1, <1>3
  DEF SafeInv, ClaimsCounted, PostsCounted, AnswersShown, Keeps
<1>8. ReadsOld(worker[w])'
  <2>1. worker'[w].cur.id = CurRow(w)
    BY <1>1 DEF CurRow, Cur
  <2>2. \A d \in GroupRows : row[d].attempts \in Int
    BY AttemptsType DEF SafeInv, TypeInv, TypeOK, Rows
  <2> QED
    BY <1>1, <2>1, <2>2 DEF SafeInv, ReadsOld, Keeps
<1> QED
  BY <1>2, <1>4, <1>5, <1>6, <1>7, <1>8 DEF SafeInv, RowPart

(* Its UPDATE gives a topic row up only when every attempt was used.       *)
LEMMA WriteFailureSafe ==
  ASSUME SafeInv, TypeInv', NEW w \in Workers, WriteFailure(w)
  PROVE  SafeInv'
<1>1. /\ QueueTypeOK /\ TypeInv /\ worker[w].pc = "write_failure"
      /\ worker[w].pc \in HandPcs /\ UNCHANGED posts
  BY DEF SafeInv, TypeInv, TypeOK, WriteFailure, At, HandPcs
<1>2. PICK d \in Rows, seen \in 0..MaxAttempts, retry \in BOOLEAN :
        d = CurRow(w) /\ seen = worker[w].seen /\ retry = worker[w].retry
  BY <1>1, InHand DEF TypeInv, Shape, Locals
<1>3. MarkFailed(d, seen, retry) /\ NextRecord(w)
  BY <1>2 DEF WriteFailure
<1>4. d \in GroupRows => seen <= row[d].attempts
  BY <1>1, <1>2 DEF SafeInv, ReadsOld, CurRow, Cur
<1>5. /\ \/ row'[d].status = "pending"
         \/ /\ row'[d].status = "dead_letter"
            /\ \/ row'[d].reason = "permanent_failure"
               \/ seen >= MaxAttempts
      /\ row'[d].attempts = row[d].attempts
      /\ row'[d].acked = row[d].acked
      /\ \A e \in Rows \ {d} : row'[e] = row[e]
  BY <1>1, <1>2, <1>3, MarkFailedType
<1>6. row[d].attempts \in 0..MaxAttempts /\ row[d].attempts \in Int
  BY <1>1, <1>2, AttemptsType
<1>7. d \in GroupRows /\ Exhausted(d)' => row'[d].attempts = MaxAttempts
  <2> SUFFICES ASSUME d \in GroupRows, Exhausted(d)'
               PROVE  row[d].attempts = MaxAttempts
    BY <1>5
  <2>1. seen >= MaxAttempts
    BY <1>5 DEF Exhausted
  <2> QED
    BY <1>2, <1>4, <1>6, <2>1, QueueAssumption
<1>8. RowPart
  BY <1>1, <1>2, <1>5, <1>6, <1>7, OneRowPart
<1> QED
  BY <1>1, <1>3, <1>8, NextRecordSafe

-----------------------------------------------------------------------------
(* The steps of everybody else.                                            *)

LEMMA OutsideSafe ==
  ASSUME SafeInv, TypeInv', UNCHANGED <<worker, posts>>, RowPart
  PROVE  SafeInv'
<1>1. \A w \in Workers : ClaimsCounted(worker[w])' /\ ReadsOld(worker[w])'
  BY StillSafe DEF SafeInv, RowPart
<1>2. \A w \in Workers : PostsCounted(worker[w])' /\ AnswersShown(worker[w])'
  BY DEF SafeInv, PostsCounted, AnswersShown
<1>3. OneWorkerPerClaim'
  BY DEF SafeInv, OneWorkerPerClaim, Held, HeldBy
<1>4. PostsClaimed' /\ CopiesPerClaim'
  BY PostsStayClaimed DEF RowPart
<1> QED
  BY <1>1, <1>2, <1>3, <1>4 DEF SafeInv, RowPart

LEMMA EnqueueSafe ==
  ASSUME SafeInv, TypeInv', NEW d \in Rows, Enqueue(d)
  PROVE  SafeInv'
<1>1. QueueTypeOK /\ UNCHANGED <<worker, posts>>
  BY DEF SafeInv, TypeInv, TypeOK, Enqueue, environment
<1>2. row[d].status = "absent" /\ Insert({d}, {})
  BY DEF Enqueue
<1>3. /\ row'[d].status \in {"pending", "skipped"}
      /\ row'[d].attempts = 0 /\ row'[d].acked = FALSE
      /\ \A e \in Rows \ {d} : row'[e] = row[e]
  <2> DEFINE st(e) == IF e \in {} THEN "skipped" ELSE "pending"
             re(e) == IF e \in {} THEN "not_wanted" ELSE "none"
             new(e) == [Absent EXCEPT !.status = st(e), !.reason = re(e)]
  <2>1. row' = [e \in Rows |-> IF e \in {d} /\ row[e].status = "absent"
                               THEN new(e) ELSE row[e]]
    BY <1>2 DEF Insert
  <2>2. st(d) = "pending"
    OBVIOUS
  <2> HIDE DEF st, re
  <2>3. new(d).status = "pending" /\ new(d).attempts = 0 /\ new(d).acked = FALSE
    BY <2>2 DEF Absent
  <2> HIDE DEF new
  <2> QED
    BY <1>2, <2>1, <2>3
<1>4. d \in GroupRows => row[d].attempts <= row'[d].attempts
  BY <1>2, <1>3 DEF SafeInv, BornUnclaimed
<1>5. RowPart
  BY <1>1, <1>3, <1>4, OneRowPart DEF Exhausted
<1> QED
  BY <1>1, <1>5, OutsideSafe

LEMMA ReplaySafe ==
  ASSUME SafeInv, TypeInv', NEW d \in Rows, Replay(d)
  PROVE  SafeInv'
<1>1. QueueTypeOK /\ UNCHANGED <<worker, posts>>
  BY DEF SafeInv, TypeInv, TypeOK, Replay
<1>2. RowPart
  BY <1>1, ReplayType, OneRowPart, AttemptsType DEF Replay, Exhausted
<1> QED
  BY <1>1, <1>2, OutsideSafe

LEMMA TimePassesSafe ==
  ASSUME SafeInv, TypeInv', TimePasses
  PROVE  SafeInv'
<1>1. QueueTypeOK /\ UNCHANGED <<worker, posts>> /\ Tick
  BY DEF SafeInv, TypeInv, TypeOK, TimePasses
<1>2. \A d \in Rows : /\ row'[d].status = row[d].status
                      /\ row'[d].attempts = row[d].attempts
                      /\ row'[d].acked = row[d].acked
                      /\ row'[d].reason = row[d].reason
  BY <1>1, TickType
<1>3. RowPart
  <2>1. Grow
    BY <1>1, <1>2, AttemptsType DEF Grow, Rows
  <2>2. BornUnclaimed' /\ NoEarlyGiveUp'
    BY <1>2 DEF SafeInv, BornUnclaimed, NoEarlyGiveUp, Exhausted, Rows
  <2>3. AckedWasShown'
    BY <1>1, <1>2 DEF SafeInv, AckedWasShown, Shown
  <2> QED
    BY <2>1, <2>2, <2>3 DEF RowPart
<1> QED
  BY <1>1, <1>3, OutsideSafe

-----------------------------------------------------------------------------
LEMMA InitSafe == Init => SafeInv
<1> SUFFICES ASSUME Init PROVE SafeInv
  OBVIOUS
<1>1. TypeInv
  BY InitType
<1>2. /\ \A d \in Rows : row[d] = Absent
      /\ \A w \in Workers : worker[w] = Idle
      /\ \A d \in Rows, k \in 1..MaxAttempts : posts[d][k] = 0
  BY DEF Init, QueueInit
<1>3. /\ Absent.status = "absent" /\ Absent.attempts = 0 /\ Absent.acked = FALSE
      /\ Idle.pc = "idle" /\ Idle.stale = {} /\ Idle.acked = FALSE
      /\ HeldBy(Idle) = {} /\ Idle.todo = {} /\ Idle.cur = NoRecord
  BY DEF Absent, Idle, HeldBy
<1>4. \A w \in Workers : /\ ClaimsCounted(worker[w]) /\ ReadsOld(worker[w])
                         /\ PostsCounted(worker[w]) /\ AnswersShown(worker[w])
  BY <1>2, <1>3 DEF ClaimsCounted, ReadsOld, PostsCounted, AnswersShown
<1>5. BornUnclaimed /\ PostsClaimed /\ CopiesPerClaim
  BY <1>2, <1>3, CycleAssumption
  DEF BornUnclaimed, PostsClaimed, CopiesPerClaim, Rows
<1>6. OneWorkerPerClaim /\ NoEarlyGiveUp /\ AckedWasShown
  BY <1>2, <1>3
  DEF OneWorkerPerClaim, NoEarlyGiveUp, AckedWasShown, Exhausted, Held, Rows
<1> QED
  BY <1>1, <1>4, <1>5, <1>6 DEF SafeInv

LEMMA NextSafe == SafeInv /\ [Next]_vars => SafeInv'
<1> SUFFICES ASSUME SafeInv, [Next]_vars PROVE SafeInv'
  OBVIOUS
<1>0. TypeInv'
  BY NextType DEF SafeInv
<1>1. ASSUME NEW w \in Workers, WorkerStep(w) PROVE SafeInv'
  BY <1>0, <1>1, StartCycleSafe, RecoverNextSafe, ClaimGroupSafe, ClaimDmSafe,
     GroupStepSafe, DmStepSafe, SendOkSafe, ReadAttemptsSafe, WriteFailureSafe
  DEF WorkerStep, CycleStep
<1>2. ASSUME NEW w \in Workers, CaughtFault(w) PROVE SafeInv'
  BY <1>0, <1>2, FailSafe DEF CaughtFault, HandPcs
<1>3. ASSUME NEW w \in Workers, EndCycle(w) \/ Abandon(w) PROVE SafeInv'
  BY <1>0, <1>3, EndCycleSafe
<1>4. ASSUME NEW d \in Rows, Enqueue(d) \/ Replay(d) PROVE SafeInv'
  BY <1>0, <1>4, EnqueueSafe, ReplaySafe
<1>5. ASSUME NEW u \in Users, Resubscribe(u) PROVE SafeInv'
  BY <1>0, <1>5, NoRowPart, OutsideSafe DEF Resubscribe
<1>6. CASE TimePasses
  BY <1>0, <1>6, TimePassesSafe
<1>7. CASE UNCHANGED vars
  BY <1>0, <1>7, NoRowPart, OutsideSafe DEF vars
<1> QED
  BY <1>1, <1>2, <1>3, <1>4, <1>5, <1>6, <1>7 DEF Next

LEMMA AlwaysSafe == Spec => []SafeInv
  BY InitSafe, NextSafe, PTL DEF Spec

(* However many workers share the table and however their leases expire,   *)
(* no two of them ever handle the same claim of a topic message.           *)
THEOREM OneWorkerPerClaimHolds == Spec => []OneWorkerPerClaim
<1>1. SafeInv => OneWorkerPerClaim
  BY DEF SafeInv
<1> QED
  BY <1>1, AlwaysSafe, PTL

(* A topic never sees more than SendTries copies of a message per attempt. *)
THEOREM CopiesPerClaimHolds == Spec => []CopiesPerClaim
<1>1. SafeInv => CopiesPerClaim
  BY DEF SafeInv
<1> QED
  BY <1>1, AlwaysSafe, PTL

(* A topic message is recorded as exhausted only after all its attempts.   *)
THEOREM NoEarlyGiveUpHolds == Spec => []NoEarlyGiveUp
<1>1. SafeInv => NoEarlyGiveUp
  BY DEF SafeInv
<1> QED
  BY <1>1, AlwaysSafe, PTL

(* A stored message id belongs to a message that was shown for that row.   *)
THEOREM AckedWasShownHolds == Spec => []AckedWasShown
<1>1. SafeInv => AckedWasShown
  BY DEF SafeInv
<1> QED
  BY <1>1, AlwaysSafe, PTL
=============================================================================
