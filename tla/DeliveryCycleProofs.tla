------------------------- MODULE DeliveryCycleProofs -------------------------
(***************************************************************************)
(* Theorems about DeliveryCycle, for every number of rows, workers,        *)
(* retries, crashes and replays, and every batch, lease and window.        *)
(***************************************************************************)
EXTENDS DeliveryCycle, DeliveryQueueProofs, FiniteSetTheorems

(* What the control state says of a worker's other variables: a record is  *)
(* in hand exactly while it is being handled, one batch has one kind of    *)
(* row, and the DM steps are only reached with a DM row.                   *)
Shape(local) ==
  /\ local \in Locals
  /\ local.pc \in HandPcs <=> local.cur # NoRecord
  /\ local.pc \in {"idle", "recover"} => local.todo = {}
  /\ local.pc \in {"release", "check", "skip", "disable"} =>
       local.cur.id \in DmRows
  /\ local.pc = "aggregate" => local.cur.id \in GroupRows
  /\ \/ local.pc # "dm" /\ \A r \in HeldBy(local) : r.id \in GroupRows
     \/ local.pc # "group" /\ \A r \in HeldBy(local) : r.id \in DmRows

TypeInv == TypeOK /\ \A w \in Workers : Shape(worker[w])

LEMMA IdleShape == Shape(Idle)
<1>1. 0 \in 0..SendTries /\ 0 \in 0..MaxAttempts
  BY QueueAssumption, CycleAssumption
<1>2. [u \in Users |-> Uncounted] \in [Users -> Int]
  BY DEF Uncounted
<1>3. Idle \in Locals
  BY <1>1, <1>2 DEF Idle, Locals
<1> QED
  BY <1>3 DEF Idle, Shape, HandPcs, HeldBy

(* One worker moves to a well-shaped state, the others stay.               *)
LEMMA NewLocal ==
  ASSUME TypeInv, NEW w \in Workers, NEW local, Shape(local), Become(w, local)
  PROVE  /\ worker' \in [Workers -> Locals]
         /\ \A v \in Workers : Shape(worker'[v])
         /\ worker'[w] = local
         /\ \A v \in Workers \ {w} : worker'[v] = worker[v]
  BY DEF TypeInv, TypeOK, Become, Shape

(* A record in hand has a row and a claim number.                          *)
LEMMA InHand ==
  ASSUME TypeInv, NEW w \in Workers, worker[w].pc \in HandPcs
  PROVE  /\ Cur(w) \in Records
         /\ CurRow(w) \in Rows
         /\ Cur(w).attempt \in 1..MaxAttempts
         /\ ~OnGroup(w) => CurRow(w) \in DmRows
  BY DEF TypeInv, Shape, Locals, Cur, CurRow, OnGroup, Records, Rows

LEMMA PostType ==
  ASSUME TypeInv, NEW w \in Workers, worker[w].pc \in HandPcs, Post(w)
  PROVE  /\ posts' \in [Rows -> [1..MaxAttempts -> Nat]]
         /\ posts'[CurRow(w)][Cur(w).attempt]
              = posts[CurRow(w)][Cur(w).attempt] + 1
         /\ \A d \in Rows, k \in 1..MaxAttempts :
              d # CurRow(w) \/ k # Cur(w).attempt => posts'[d][k] = posts[d][k]
<1> DEFINE d == CurRow(w)
           k == Cur(w).attempt
<1>1. d \in Rows /\ k \in 1..MaxAttempts
  BY InHand
<1>2. posts \in [Rows -> [1..MaxAttempts -> Nat]]
  BY DEF TypeInv, TypeOK
<1> DEFINE n == posts[d][k] + 1
           f == [posts[d] EXCEPT ![k] = n]
<1>3. posts' = [posts EXCEPT ![d] = f]
  BY DEF Post
<1> HIDE DEF d, k
<1>4. n \in Nat /\ posts[d] \in [1..MaxAttempts -> Nat]
  <2>1. posts[d] \in [1..MaxAttempts -> Nat]
    BY <1>1, <1>2
  <2>2. posts[d][k] \in Nat
    BY <1>1, <2>1
  <2> QED
    BY <2>1, <2>2
<1> HIDE DEF n
<1>5. f \in [1..MaxAttempts -> Nat] /\ f[k] = n
      /\ \A m \in 1..MaxAttempts : m # k => f[m] = posts[d][m]
  BY <1>1, <1>4
<1> HIDE DEF f
<1>6. posts' \in [Rows -> [1..MaxAttempts -> Nat]]
  BY <1>1, <1>2, <1>3, <1>5
<1>7. posts'[d][k] = posts[d][k] + 1
  BY <1>1, <1>2, <1>3, <1>5 DEF n
<1>8. ASSUME NEW e \in Rows, NEW m \in 1..MaxAttempts, e # d \/ m # k
      PROVE  posts'[e][m] = posts[e][m]
  BY <1>1, <1>2, <1>3, <1>8, <1>5
<1> QED
  BY <1>6, <1>7, <1>8 DEF d, k

(* What a local step of worker w leaves alone: the other workers, its own  *)
(* batch and what its recovery read.                                       *)
Typed == worker' \in [Workers -> Locals] /\ \A v \in Workers : Shape(worker'[v])
Others(w) == \A v \in Workers \ {w} : worker'[v] = worker[v]
Keeps(w) == /\ worker'[w].todo = worker[w].todo
            /\ worker'[w].stale = worker[w].stale

LEMMA GoStep ==
  ASSUME TypeInv, NEW w \in Workers, worker[w].pc \in HandPcs,
         NEW pc \in HandPcs, Go(w, pc),
         pc \in {"release", "check", "skip", "disable"} => CurRow(w) \in DmRows,
         pc = "aggregate" => CurRow(w) \in GroupRows
  PROVE  /\ Typed /\ Others(w) /\ Keeps(w)
         /\ worker'[w].pc = pc
         /\ worker'[w].cur = worker[w].cur
         /\ worker'[w].acked = worker[w].acked
         /\ worker'[w].tries = worker[w].tries
         /\ worker'[w].seen = worker[w].seen
<1> DEFINE l == [worker[w] EXCEPT !.pc = pc]
<1>1. Shape(worker[w])
  BY DEF TypeInv
<1>2. /\ l \in Locals /\ l.pc = pc /\ l.todo = worker[w].todo
      /\ l.cur = worker[w].cur /\ l.stale = worker[w].stale
      /\ l.acked = worker[w].acked /\ l.tries = worker[w].tries
      /\ l.seen = worker[w].seen
  BY <1>1 DEF Shape, Locals
<1>3. HeldBy(l) = HeldBy(worker[w])
  BY <1>2 DEF HeldBy
<1>4. Become(w, l)
  BY DEF Go
<1> HIDE DEF l
<1>5. Shape(l)
  BY <1>1, <1>2, <1>3 DEF Shape, HandPcs, CurRow, Cur
<1> QED
  BY <1>2, <1>4, <1>5, NewLocal DEF Typed, Others, Keeps

LEMMA FailStep ==
  ASSUME TypeInv, NEW w \in Workers, worker[w].pc \in HandPcs,
         NEW retryable \in BOOLEAN, Fail(w, retryable)
  PROVE  /\ Typed /\ Others(w) /\ Keeps(w)
         /\ worker'[w].pc = "fail"
         /\ worker'[w].cur = worker[w].cur
         /\ worker'[w].acked = worker[w].acked
<1> DEFINE l == [worker[w] EXCEPT !.pc = "fail", !.retry = retryable]
<1>1. Shape(worker[w])
  BY DEF TypeInv
<1>2. /\ l \in Locals /\ l.pc = "fail" /\ l.todo = worker[w].todo
      /\ l.cur = worker[w].cur /\ l.stale = worker[w].stale
      /\ l.acked = worker[w].acked
  BY <1>1 DEF Shape, Locals, HandPcs
<1>3. HeldBy(l) = HeldBy(worker[w])
  BY <1>2 DEF HeldBy
<1>4. Become(w, l)
  BY DEF Fail
<1> HIDE DEF l
<1>5. Shape(l)
  BY <1>1, <1>2, <1>3 DEF Shape, HandPcs
<1> QED
  BY <1>2, <1>4, <1>5, NewLocal DEF Typed, Others, Keeps

LEMMA NextRecordStep ==
  ASSUME TypeInv, NEW w \in Workers, worker[w].pc \in HandPcs, NextRecord(w)
  PROVE  /\ Typed /\ Others(w) /\ Keeps(w)
         /\ worker'[w].pc \in {"group", "dm"}
         /\ worker'[w].cur = NoRecord
         /\ worker'[w].acked = FALSE
<1> DEFINE p == IF OnGroup(w) THEN "group" ELSE "dm"
           l == [worker[w] EXCEPT !.pc = p, !.cur = NoRecord, !.tries = 0,
                   !.acked = FALSE, !.retry = FALSE, !.seen = 0]
<1>1. Shape(worker[w]) /\ Cur(w) \in Records /\ Cur(w) \in HeldBy(worker[w])
  BY InHand, NoRecordAssumption DEF TypeInv, HeldBy, Cur
<1>2. p \in {"group", "dm"} /\ (p = "group" <=> OnGroup(w))
  OBVIOUS
<1>3. 0 \in 0..SendTries /\ 0 \in 0..MaxAttempts
  BY QueueAssumption, CycleAssumption
<1>4. Become(w, l)
  BY DEF NextRecord
<1> HIDE DEF p
<1>5. /\ l \in Locals /\ l.pc = p /\ l.todo = worker[w].todo
      /\ l.cur = NoRecord /\ l.stale = worker[w].stale /\ l.acked = FALSE
  BY <1>1, <1>2, <1>3 DEF Shape, Locals
<1>6. HeldBy(l) \subseteq HeldBy(worker[w])
  BY <1>5 DEF HeldBy
<1>7. GroupRows \cap DmRows = {}
  BY QueueAssumption
<1> HIDE DEF l
<1>8. Shape(l)
  BY <1>1, <1>2, <1>5, <1>6, <1>7 DEF Shape, HandPcs, OnGroup, CurRow
<1> QED
  BY <1>2, <1>4, <1>5, <1>8, NewLocal DEF Typed, Others, Keeps

LEMMA TryAgainStep ==
  ASSUME TypeInv, NEW w \in Workers, worker[w].pc = "send",
         worker[w].tries < SendTries,
         Become(w, [worker[w] EXCEPT !.tries = @ + 1])
  PROVE  /\ Typed /\ Others(w) /\ Keeps(w)
         /\ worker'[w].pc = "send"
         /\ worker'[w].cur = worker[w].cur
         /\ worker'[w].acked = worker[w].acked
         /\ worker'[w].tries = worker[w].tries + 1
<1> DEFINE n == worker[w].tries + 1
           l == [worker[w] EXCEPT !.tries = n]
<1>1. Shape(worker[w]) /\ worker[w].tries \in 0..SendTries
  BY DEF TypeInv, Shape, Locals
<1>2. n \in 0..SendTries
  BY <1>1, CycleAssumption
<1>3. Become(w, l)
  OBVIOUS
<1> HIDE DEF n
<1>4. /\ l \in Locals /\ l.pc = "send" /\ l.todo = worker[w].todo
      /\ l.cur = worker[w].cur /\ l.stale = worker[w].stale
      /\ l.acked = worker[w].acked /\ l.tries = n
  BY <1>1, <1>2 DEF Shape, Locals
<1>5. HeldBy(l) = HeldBy(worker[w])
  BY <1>4 DEF HeldBy
<1> HIDE DEF l
<1>6. Shape(l)
  BY <1>1, <1>4, <1>5 DEF Shape, HandPcs
<1> QED
  BY <1>3, <1>4, <1>6, NewLocal DEF Typed, Others, Keeps, n

LEMMA IdleStep ==
  ASSUME TypeInv, NEW w \in Workers, Become(w, Idle)
  PROVE  /\ Typed /\ Others(w)
         /\ worker'[w] = Idle
         /\ Idle.pc = "idle" /\ Idle.todo = {} /\ Idle.cur = NoRecord
         /\ Idle.stale = {} /\ Idle.acked = FALSE
  BY IdleShape, NewLocal DEF Typed, Others, Idle

LEMMA ClaimedRecords ==
  ASSUME TypeInv, NEW kind \in {GroupRows, DmRows},
         NEW S \in Batches(kind, BatchSize)
  PROVE  /\ S \in SUBSET Due(kind)
         /\ Claimed(S) \in SUBSET Records
         /\ \A r \in Claimed(S) : /\ r.id \in kind
                                  /\ r.attempt = row[r.id].attempts + 1
<1>1. S \in SUBSET Due(kind)
  BY DEF Batches
<1> SUFFICES ASSUME NEW d \in S
             PROVE  /\ d \in kind
                    /\ [id |-> d, attempt |-> row[d].attempts + 1] \in Records
  BY <1>1 DEF Claimed, Records
<1>2. /\ d \in kind /\ d \in Rows /\ row[d] \in Row
      /\ row[d].attempts < MaxAttempts
  BY <1>1 DEF Due, Rows, TypeInv, TypeOK, QueueTypeOK
<1>3. row[d].attempts + 1 \in 1..MaxAttempts
  BY <1>2, QueueAssumption DEF Row
<1> QED
  BY <1>2, <1>3 DEF Records

LEMMA StartCycleStep ==
  ASSUME TypeInv, NEW w \in Workers, StartCycle(w)
  PROVE  /\ Typed /\ Others(w)
         /\ worker'[w].pc = "recover" /\ worker'[w].todo = {}
         /\ worker'[w].cur = NoRecord /\ worker'[w].acked = FALSE
         /\ \A s \in worker'[w].stale : s[1] \in Rows /\ s[2] = row[s[1]].attempts
<1> DEFINE st == {<<d, row[d].attempts>> : d \in Expired}
           l  == [Idle EXCEPT !.pc = "recover", !.stale = st]
<1>1. \A d \in Expired : d \in Rows /\ row[d].attempts \in 0..MaxAttempts
  BY DEF Expired, TypeInv, TypeOK, QueueTypeOK, Row
<1>2. st \in SUBSET (Rows \X (0..MaxAttempts))
  BY <1>1
<1>3. \A s \in st : s[1] \in Rows /\ s[2] = row[s[1]].attempts
  BY <1>1
<1>4. Become(w, l)
  BY DEF StartCycle
<1> HIDE DEF st
<1>5. /\ l \in Locals /\ l.pc = "recover" /\ l.todo = {}
      /\ l.cur = NoRecord /\ l.stale = st /\ l.acked = FALSE
  <2>1. Idle \in Locals
    BY IdleShape DEF Shape
  <2>2. Idle.todo = {} /\ Idle.cur = NoRecord /\ Idle.acked = FALSE
    BY DEF Idle
  <2> QED
    BY <1>2, <2>1, <2>2 DEF Locals
<1> HIDE DEF l
<1>6. Shape(l)
  BY <1>5 DEF Shape, HandPcs, HeldBy
<1> QED
  BY <1>3, <1>4, <1>5, <1>6, NewLocal DEF Typed, Others

LEMMA RecoverStep ==
  ASSUME TypeInv, NEW w \in Workers, worker[w].pc = "recover",
         NEW s \in worker[w].stale,
         Become(w, [worker[w] EXCEPT !.stale = @ \ {s}])
  PROVE  /\ Typed /\ Others(w)
         /\ worker'[w].pc = "recover" /\ worker'[w].todo = {}
         /\ worker'[w].cur = NoRecord
         /\ worker'[w].acked = worker[w].acked
         /\ worker'[w].stale \subseteq worker[w].stale
<1> DEFINE st == worker[w].stale \ {s}
           l  == [worker[w] EXCEPT !.stale = st]
<1>1. /\ Shape(worker[w]) /\ worker[w].todo = {} /\ worker[w].cur = NoRecord
      /\ st \in SUBSET (Rows \X (0..MaxAttempts))
  BY DEF TypeInv, Shape, Locals, HandPcs
<1>2. Become(w, l) /\ st \subseteq worker[w].stale
  OBVIOUS
<1> HIDE DEF st
<1>3. /\ l \in Locals /\ l.pc = "recover" /\ l.todo = {}
      /\ l.cur = NoRecord /\ l.stale = st /\ l.acked = worker[w].acked
  BY <1>1 DEF Shape, Locals
<1> HIDE DEF l
<1>4. Shape(l)
  BY <1>3 DEF Shape, HandPcs, HeldBy
<1> QED
  BY <1>2, <1>3, <1>4, NewLocal DEF Typed, Others

(* A claimed batch replaces an empty one.                                  *)
LEMMA ClaimGroupStep ==
  ASSUME TypeInv, NEW w \in Workers, worker[w].pc \notin HandPcs,
         NEW S \in Batches(GroupRows, BatchSize),
         NEW busy \in BOOLEAN, NEW counts \in [Users -> Int],
         Become(w, [worker[w] EXCEPT !.pc = "group", !.todo = Claimed(S),
                      !.busy = busy, !.counts = counts])
  PROVE  /\ Typed /\ Others(w)
         /\ worker'[w].pc \in {"group", "dm"}
         /\ worker'[w].todo = Claimed(S)
         /\ worker'[w].cur = NoRecord
         /\ worker'[w].acked = worker[w].acked
         /\ worker'[w].stale = worker[w].stale
<1> DEFINE l == [worker[w] EXCEPT !.pc = "group", !.todo = Claimed(S),
                   !.busy = busy, !.counts = counts]
<1>1. Shape(worker[w]) /\ worker[w].cur = NoRecord
  BY DEF TypeInv, Shape
<1>2. Claimed(S) \in SUBSET Records /\ \A r \in Claimed(S) : r.id \in GroupRows
  BY ClaimedRecords
<1>3. Become(w, l)
  OBVIOUS
<1>4. /\ l \in Locals /\ l.pc = "group" /\ l.todo = Claimed(S)
      /\ l.cur = NoRecord /\ l.stale = worker[w].stale
      /\ l.acked = worker[w].acked
  BY <1>1, <1>2, <1>3 DEF Shape, Locals
<1> HIDE DEF l
<1>5. HeldBy(l) = Claimed(S)
  BY <1>4 DEF HeldBy
<1>6. Shape(l)
  BY <1>2, <1>4, <1>5 DEF Shape, HandPcs
<1> QED
  BY <1>3, <1>4, <1>6, NewLocal DEF Typed, Others

LEMMA ClaimDmStep ==
  ASSUME TypeInv, NEW w \in Workers, worker[w].pc = "group",
         NEW S \in Batches(DmRows, BatchSize),
         Become(w, [worker[w] EXCEPT !.pc = "dm", !.todo = Claimed(S),
                      !.busy = FALSE])
  PROVE  /\ Typed /\ Others(w)
         /\ worker'[w].pc \in {"group", "dm"}
         /\ worker'[w].todo = Claimed(S)
         /\ worker'[w].cur = NoRecord
         /\ worker'[w].acked = worker[w].acked
         /\ worker'[w].stale = worker[w].stale
<1> DEFINE l == [worker[w] EXCEPT !.pc = "dm", !.todo = Claimed(S),
                   !.busy = FALSE]
<1>1. Shape(worker[w]) /\ worker[w].cur = NoRecord
  BY DEF TypeInv, Shape, HandPcs
<1>2. Claimed(S) \in SUBSET Records /\ \A r \in Claimed(S) : r.id \in DmRows
  BY ClaimedRecords
<1>3. Become(w, l)
  OBVIOUS
<1>4. /\ l \in Locals /\ l.pc = "dm" /\ l.todo = Claimed(S)
      /\ l.cur = NoRecord /\ l.stale = worker[w].stale
      /\ l.acked = worker[w].acked
  BY <1>1, <1>2, <1>3 DEF Shape, Locals
<1> HIDE DEF l
<1>5. HeldBy(l) = Claimed(S)
  BY <1>4 DEF HeldBy
<1>6. Shape(l)
  BY <1>2, <1>4, <1>5 DEF Shape, HandPcs
<1> QED
  BY <1>3, <1>4, <1>6, NewLocal DEF Typed, Others

LEMMA DropStep ==
  ASSUME TypeInv, NEW w \in Workers, worker[w].pc = "group",
         NEW r \in worker[w].todo,
         Become(w, [worker[w] EXCEPT !.todo = @ \ {r}])
  PROVE  /\ Typed /\ Others(w)
         /\ r \in Records /\ r.id \in GroupRows
         /\ worker'[w].pc = "group" /\ worker'[w].cur = NoRecord
         /\ worker'[w].todo = worker[w].todo \ {r}
         /\ worker'[w].stale = worker[w].stale
         /\ worker'[w].acked = worker[w].acked
<1> DEFINE td == worker[w].todo \ {r}
           l  == [worker[w] EXCEPT !.todo = td]
<1>1. /\ Shape(worker[w]) /\ worker[w].cur = NoRecord
      /\ r \in HeldBy(worker[w]) /\ r \in Records
      /\ td \in SUBSET Records
  BY DEF TypeInv, Shape, HandPcs, HeldBy, Locals
<1>2. \A q \in HeldBy(worker[w]) : q.id \in GroupRows
  BY <1>1, QueueAssumption DEF Shape, Records, Rows
<1>3. Become(w, l) /\ td \subseteq worker[w].todo
  OBVIOUS
<1> HIDE DEF td
<1>4. /\ l \in Locals /\ l.pc = "group" /\ l.todo = td
      /\ l.cur = NoRecord /\ l.stale = worker[w].stale
      /\ l.acked = worker[w].acked
  BY <1>1 DEF Shape, Locals
<1> HIDE DEF l
<1>5. HeldBy(l) \subseteq HeldBy(worker[w])
  BY <1>1, <1>3, <1>4 DEF HeldBy
<1>6. Shape(l)
  BY <1>2, <1>4, <1>5 DEF Shape, HandPcs
<1> QED
  BY <1>1, <1>2, <1>3, <1>4, <1>6, NewLocal DEF Typed, Others, td

LEMMA TakeGroupStep ==
  ASSUME TypeInv, NEW w \in Workers, worker[w].pc = "group",
         NEW r \in worker[w].todo,
         Become(w, [worker[w] EXCEPT !.pc = "send", !.todo = @ \ {r},
                                     !.cur = r, !.tries = 1])
  PROVE  /\ Typed /\ Others(w)
         /\ r \in Records /\ r.id \in GroupRows
         /\ worker'[w].pc = "send" /\ worker'[w].cur = r
         /\ worker'[w].todo = worker[w].todo \ {r}
         /\ worker'[w].stale = worker[w].stale
         /\ worker'[w].tries = 1
         /\ worker'[w].acked = worker[w].acked
<1> DEFINE td == worker[w].todo \ {r}
           l  == [worker[w] EXCEPT !.pc = "send", !.todo = td, !.cur = r,
                                   !.tries = 1]
<1>1. /\ Shape(worker[w]) /\ r \in HeldBy(worker[w]) /\ r \in Records
      /\ td \in SUBSET Records
  BY DEF TypeInv, Shape, HeldBy, Locals
<1>2. \A q \in HeldBy(worker[w]) : q.id \in GroupRows
  BY <1>1, QueueAssumption DEF Shape, Records, Rows
<1>3. /\ Become(w, l) /\ td \subseteq worker[w].todo
      /\ 1 \in 0..SendTries /\ r # NoRecord
  BY <1>1, CycleAssumption, NoRecordAssumption
<1> HIDE DEF td
<1>4. /\ l \in Locals /\ l.pc = "send" /\ l.todo = td
      /\ l.cur = r /\ l.stale = worker[w].stale
      /\ l.acked = worker[w].acked /\ l.tries = 1
  BY <1>1, <1>3 DEF Shape, Locals, HandPcs
<1> HIDE DEF l
<1>5. HeldBy(l) \subseteq HeldBy(worker[w])
  BY <1>1, <1>3, <1>4 DEF HeldBy
<1>6. Shape(l)
  BY <1>2, <1>3, <1>4, <1>5 DEF Shape, HandPcs
<1> QED
  BY <1>1, <1>2, <1>3, <1>4, <1>6, NewLocal DEF Typed, Others, td

LEMMA TakeDmStep ==
  ASSUME TypeInv, NEW w \in Workers, worker[w].pc = "dm",
         NEW r \in worker[w].todo, NEW counts \in [Users -> Int],
         NEW pc \in {"release", "check"},
         Become(w, [worker[w] EXCEPT !.todo = @ \ {r}, !.cur = r,
                      !.counts = counts, !.pc = pc])
  PROVE  /\ Typed /\ Others(w)
         /\ r \in Records /\ r.id \in DmRows
         /\ worker'[w].pc = pc /\ worker'[w].cur = r
         /\ worker'[w].todo = worker[w].todo \ {r}
         /\ worker'[w].stale = worker[w].stale
         /\ worker'[w].acked = worker[w].acked
<1> DEFINE td == worker[w].todo \ {r}
           l  == [worker[w] EXCEPT !.todo = td, !.cur = r, !.counts = counts,
                                   !.pc = pc]
<1>1. /\ Shape(worker[w]) /\ r \in HeldBy(worker[w]) /\ r \in Records
      /\ td \in SUBSET Records
  BY DEF TypeInv, Shape, HeldBy, Locals
<1>2. \A q \in HeldBy(worker[w]) : q.id \in DmRows
  BY <1>1 DEF Shape
<1>3. Become(w, l) /\ td \subseteq worker[w].todo /\ r # NoRecord
  BY <1>1, NoRecordAssumption
<1> HIDE DEF td
<1>4. /\ l \in Locals /\ l.pc = pc /\ l.todo = td
      /\ l.cur = r /\ l.stale = worker[w].stale
      /\ l.acked = worker[w].acked
  BY <1>1 DEF Shape, Locals, HandPcs
<1> HIDE DEF l
<1>5. HeldBy(l) \subseteq HeldBy(worker[w])
  BY <1>1, <1>3, <1>4 DEF HeldBy
<1>6. Shape(l)
  BY <1>1, <1>2, <1>3, <1>4, <1>5 DEF Shape, HandPcs
<1> QED
  BY <1>1, <1>2, <1>3, <1>4, <1>6, NewLocal DEF Typed, Others, td

(* A DM record is done: nothing stays in hand.                             *)
LEMMA DoneDmStep ==
  ASSUME TypeInv, NEW w \in Workers, worker[w].pc \in HandPcs, ~OnGroup(w),
         NEW acked \in BOOLEAN, NEW counts \in [Users -> Int],
         NEW deferred \in SUBSET Rows,
         Become(w, [worker[w] EXCEPT !.pc = "dm", !.cur = NoRecord,
                      !.acked = acked, !.counts = counts,
                      !.deferred = deferred])
  PROVE  /\ Typed /\ Others(w) /\ Keeps(w)
         /\ worker'[w].pc = "dm" /\ worker'[w].cur = NoRecord
         /\ worker'[w].acked = acked
<1> DEFINE l == [worker[w] EXCEPT !.pc = "dm", !.cur = NoRecord,
                   !.acked = acked, !.counts = counts, !.deferred = deferred]
<1>1. /\ Shape(worker[w]) /\ Cur(w) \in HeldBy(worker[w])
      /\ Cur(w).id \notin GroupRows
  BY InHand, NoRecordAssumption DEF TypeInv, HeldBy, Cur, OnGroup, CurRow
<1>2. Become(w, l)
  OBVIOUS
<1>3. /\ l \in Locals /\ l.pc = "dm" /\ l.todo = worker[w].todo
      /\ l.cur = NoRecord /\ l.stale = worker[w].stale /\ l.acked = acked
  BY <1>1 DEF Shape, Locals
<1> HIDE DEF l
<1>4. HeldBy(l) \subseteq HeldBy(worker[w])
  BY <1>3 DEF HeldBy
<1>5. Shape(l)
  BY <1>1, <1>3, <1>4 DEF Shape, HandPcs
<1> QED
  BY <1>2, <1>3, <1>5, NewLocal DEF Typed, Others, Keeps

LEMMA AnsweredStep ==
  ASSUME TypeInv, NEW w \in Workers, worker[w].pc = "send",
         Become(w, [worker[w] EXCEPT !.pc = "mark_sent", !.acked = TRUE])
  PROVE  /\ Typed /\ Others(w) /\ Keeps(w)
         /\ worker'[w].pc = "mark_sent"
         /\ worker'[w].cur = worker[w].cur
<1> DEFINE l == [worker[w] EXCEPT !.pc = "mark_sent", !.acked = TRUE]
<1>1. Shape(worker[w])
  BY DEF TypeInv
<1>2. /\ l \in Locals /\ l.pc = "mark_sent" /\ l.todo = worker[w].todo
      /\ l.cur = worker[w].cur /\ l.stale = worker[w].stale
  BY <1>1 DEF Shape, Locals, HandPcs
<1>3. HeldBy(l) = HeldBy(worker[w]) /\ Become(w, l)
  BY <1>2 DEF HeldBy
<1> HIDE DEF l
<1>4. Shape(l)
  BY <1>1, <1>2, <1>3 DEF Shape, HandPcs
<1> QED
  BY <1>2, <1>3, <1>4, NewLocal DEF Typed, Others, Keeps

LEMMA ReadStep ==
  ASSUME TypeInv, NEW w \in Workers, ReadAttempts(w)
  PROVE  /\ Typed /\ Others(w) /\ Keeps(w)
         /\ worker'[w].pc = "write_failure"
         /\ worker'[w].cur = worker[w].cur
         /\ worker'[w].acked = worker[w].acked
         /\ worker'[w].seen = row[CurRow(w)].attempts
<1> DEFINE n == row[CurRow(w)].attempts
           l == [worker[w] EXCEPT !.pc = "write_failure", !.seen = n]
<1>1. Shape(worker[w]) /\ worker[w].pc = "fail"
  BY DEF TypeInv, ReadAttempts, At
<1>2. CurRow(w) \in Rows
  BY <1>1, InHand DEF HandPcs
<1>3. n \in 0..MaxAttempts
  BY <1>2 DEF TypeInv, TypeOK, QueueTypeOK, Row
<1>4. Become(w, l)
  BY DEF ReadAttempts
<1> HIDE DEF n
<1>5. /\ l \in Locals /\ l.pc = "write_failure" /\ l.todo = worker[w].todo
      /\ l.cur = worker[w].cur /\ l.stale = worker[w].stale
      /\ l.acked = worker[w].acked /\ l.seen = n
  BY <1>1, <1>3 DEF Shape, Locals, HandPcs
<1> HIDE DEF l
<1>6. HeldBy(l) = HeldBy(worker[w])
  BY <1>5 DEF HeldBy
<1>7. Shape(l)
  BY <1>1, <1>5, <1>6 DEF Shape, HandPcs
<1> QED
  BY <1>4, <1>5, <1>7, NewLocal DEF Typed, Others, Keeps, n

(* The window count is a number: a user has finitely many rows.            *)
LEMMA SentInWindowType == ASSUME NEW u PROVE SentInWindow(u) \in Nat
<1> DEFINE S == {d \in DmRows : /\ Recipient[d] = u
                                /\ row[d].status = "sent"
                                /\ row[d].age < Window}
<1>1. IsFiniteSet(DmRows) /\ S \subseteq DmRows
  BY QueueAssumption
<1>2. IsFiniteSet(S)
  BY <1>1, FS_Subset
<1> QED
  BY <1>2, FS_CardinalityType DEF SentInWindow

LEMMA TakeDmTyped ==
  ASSUME TypeInv, NEW w \in Workers, TakeDm(w)
  PROVE  /\ Typed /\ Others(w)
         /\ \E r \in worker[w].todo :
              /\ r.id \in DmRows
              /\ worker'[w].pc \in {"release", "check"} /\ worker'[w].cur = r
              /\ worker'[w].todo = worker[w].todo \ {r}
         /\ worker'[w].stale = worker[w].stale
         /\ worker'[w].acked = worker[w].acked
<1> DEFINE u(r) == Recipient[r.id]
           n(r) == IF worker[w].counts[u(r)] = Uncounted
                   THEN SentInWindow(u(r)) ELSE worker[w].counts[u(r)]
           counts(r) == [worker[w].counts EXCEPT ![u(r)] = n(r)]
           pc(r) == IF n(r) >= DmLimit THEN "release" ELSE "check"
<1>1. PICK r \in worker[w].todo :
        Become(w, [worker[w] EXCEPT !.todo = @ \ {r}, !.cur = r,
                     !.counts = counts(r), !.pc = pc(r)])
  BY DEF TakeDm
<1>2. worker[w].pc = "dm" /\ worker[w].counts \in [Users -> Int]
  BY DEF TakeDm, At, TypeInv, Shape, Locals
<1>3. r \in HeldBy(worker[w]) /\ r.id \in DmRows
  BY <1>2 DEF TypeInv, Shape, HeldBy
<1>4. u(r) \in Users
  BY <1>3 DEF Users
<1>5. n(r) \in Int
  <2>1. worker[w].counts[u(r)] \in Int
    BY <1>2, <1>4
  <2>2. SentInWindow(u(r)) \in Int
    BY SentInWindowType
  <2> QED
    BY <2>1, <2>2
<1>6. pc(r) \in {"release", "check"}
  OBVIOUS
<1> HIDE DEF u, n
<1>7. counts(r) \in [Users -> Int]
  BY <1>2, <1>4, <1>5
<1> HIDE DEF pc, counts
<1> QED
  BY <1>1, <1>2, <1>6, <1>7, TakeDmStep

LEMMA ReleaseDmStep ==
  ASSUME TypeInv, NEW w \in Workers, ReleaseDm(w)
  PROVE  /\ Typed /\ Others(w) /\ Keeps(w)
         /\ worker'[w].pc = "dm" /\ worker'[w].cur = NoRecord
         /\ worker'[w].acked = worker[w].acked
<1> DEFINE dd == worker[w].deferred \cup {CurRow(w)}
           a == worker[w].acked
           c == worker[w].counts
<1>1. /\ worker[w].pc \in HandPcs /\ CurRow(w) \in DmRows
      /\ worker[w] \in Locals
  BY DEF ReleaseDm, At, HandPcs, TypeInv, Shape, CurRow, Cur
<1>2. dd \in SUBSET Rows /\ a \in BOOLEAN /\ c \in [Users -> Int] /\ ~OnGroup(w)
  BY <1>1, QueueAssumption DEF Locals, Rows, OnGroup
<1>3. Become(w, [worker[w] EXCEPT !.pc = "dm", !.cur = NoRecord,
                                  !.deferred = dd])
  BY DEF ReleaseDm
<1> HIDE DEF dd
<1>4. [worker[w] EXCEPT !.pc = "dm", !.cur = NoRecord, !.deferred = dd]
        = [worker[w] EXCEPT !.pc = "dm", !.cur = NoRecord, !.acked = a,
             !.counts = c, !.deferred = dd]
  BY <1>1 DEF Locals
<1> HIDE DEF a, c
<1>5. Become(w, [worker[w] EXCEPT !.pc = "dm", !.cur = NoRecord, !.acked = a,
                   !.counts = c, !.deferred = dd])
  BY <1>3, <1>4
<1> QED
  BY <1>1, <1>2, <1>5, DoneDmStep DEF a

LEMMA MarkSentDmStep ==
  ASSUME TypeInv, NEW w \in Workers, MarkSentDm(w)
  PROVE  /\ Typed /\ Others(w) /\ Keeps(w)
         /\ worker'[w].pc = "dm" /\ worker'[w].cur = NoRecord
         /\ worker'[w].acked = FALSE
<1> DEFINE u == Recipient[CurRow(w)]
           n == worker[w].counts[u] + 1
           c == [worker[w].counts EXCEPT ![u] = n]
           dd == worker[w].deferred
<1>1. worker[w].pc \in HandPcs /\ ~OnGroup(w) /\ worker[w] \in Locals
  BY DEF MarkSentDm, At, HandPcs, TypeInv, Shape
<1>2. u \in Users
  BY <1>1, InHand DEF Users
<1>3. n \in Int
  <2>1. worker[w].counts[u] \in Int
    BY <1>1, <1>2 DEF Locals
  <2> QED
    BY <2>1
<1>4. Become(w, [worker[w] EXCEPT !.pc = "dm", !.cur = NoRecord,
                                  !.acked = FALSE, !.counts = c])
  BY DEF MarkSentDm
<1> HIDE DEF u, n
<1>5. c \in [Users -> Int] /\ dd \in SUBSET Rows
  BY <1>1, <1>2, <1>3 DEF Locals
<1> HIDE DEF c
<1>6. [worker[w] EXCEPT !.pc = "dm", !.cur = NoRecord, !.acked = FALSE,
         !.counts = c]
        = [worker[w] EXCEPT !.pc = "dm", !.cur = NoRecord, !.acked = FALSE,
             !.counts = c, !.deferred = dd]
  BY <1>1 DEF Locals
<1> HIDE DEF dd
<1>7. Become(w, [worker[w] EXCEPT !.pc = "dm", !.cur = NoRecord,
                   !.acked = FALSE, !.counts = c, !.deferred = dd])
  BY <1>4, <1>6
<1> QED
  BY <1>1, <1>5, <1>7, DoneDmStep

-----------------------------------------------------------------------------
(* Type correctness.                                                       *)

LEMMA InitType == Init => TypeInv
<1> SUFFICES ASSUME Init PROVE TypeInv
  OBVIOUS
<1>1. QueueTypeOK
  BY QueueAssumption
  DEF Init, QueueInit, QueueTypeOK, Absent, Row, Statuses, Reasons, AgeCap
<1>2. worker \in [Workers -> Locals] /\ \A w \in Workers : Shape(worker[w])
  BY IdleShape DEF Init, Shape
<1>3. /\ posts \in [Rows -> [1..MaxAttempts -> Nat]]
      /\ notify \in [Users -> BOOLEAN]
      /\ faults \in 0..MaxFaults /\ replays \in 0..MaxReplays
  BY CycleAssumption DEF Init
<1> QED
  BY <1>1, <1>2, <1>3 DEF TypeInv, TypeOK

(* What the steps that touch neither posts nor the environment must show.  *)
LEMMA QuietType ==
  ASSUME TypeInv, Typed, QueueTypeOK', UNCHANGED <<posts, environment>>
  PROVE  TypeInv'
  BY DEF TypeInv, TypeOK, Typed, environment

LEMMA CycleStepType ==
  ASSUME TypeInv, NEW w \in Workers, CycleStep(w) \/ EndCycle(w)
  PROVE  TypeInv'
<1>0. QueueTypeOK /\ (UNCHANGED row => QueueTypeOK')
  BY DEF TypeInv, TypeOK, QueueTypeOK
<1>1. CASE StartCycle(w)
  BY <1>0, <1>1, StartCycleStep, QuietType DEF StartCycle
<1>2. CASE RecoverNext(w)
  <2>1. PICK s \in worker[w].stale :
          /\ RecoverStale(s[1], s[2])
          /\ Become(w, [worker[w] EXCEPT !.stale = @ \ {s}])
    BY <1>2 DEF RecoverNext
  <2>2. s[1] \in Rows /\ s[2] \in 0..MaxAttempts
    BY DEF TypeInv, Shape, Locals
  <2>3. QueueTypeOK'
    BY <1>0, <2>1, <2>2, RecoverStaleType
  <2>4. Typed
    BY <1>2, <2>1, RecoverStep DEF RecoverNext, At
  <2> QED
    BY <1>2, <2>3, <2>4, QuietType DEF RecoverNext
<1>3. CASE ClaimGroup(w)
  <2>1. PICK S \in Batches(GroupRows, BatchSize) :
          /\ Claim(S)
          /\ Become(w, [worker[w] EXCEPT !.pc = "group", !.todo = Claimed(S),
                          !.busy = (S # {}), !.counts = Idle.counts])
    BY <1>3 DEF ClaimGroup
  <2>2. S \in SUBSET Due(GroupRows) /\ GroupRows \in SUBSET Rows
    BY ClaimedRecords DEF Rows
  <2>3. QueueTypeOK'
    BY <1>0, <2>1, <2>2, ClaimType
  <2>4. worker[w].pc \notin HandPcs /\ Idle.counts \in [Users -> Int]
    BY <1>3 DEF ClaimGroup, AtLoopHead, At, HandPcs, Idle, Uncounted
  <2>5. Typed
    BY <2>1, <2>4, ClaimGroupStep
  <2> QED
    BY <1>3, <2>3, <2>5, QuietType DEF ClaimGroup
<1>4. CASE ClaimDm(w)
  <2>1. PICK S \in Batches(DmRows, BatchSize) :
          /\ Claim(S)
          /\ IF S = {} /\ ~worker[w].busy
             THEN Become(w, Idle)
             ELSE Become(w, [worker[w] EXCEPT !.pc = "dm", !.todo = Claimed(S),
                               !.busy = FALSE])
    BY <1>4 DEF ClaimDm
  <2>2. S \in SUBSET Due(DmRows) /\ DmRows \in SUBSET Rows
    BY ClaimedRecords DEF Rows
  <2>3. QueueTypeOK'
    BY <1>0, <2>1, <2>2, ClaimType
  <2>4. Typed
    BY <1>4, <2>1, IdleStep, ClaimDmStep DEF ClaimDm, At
  <2> QED
    BY <1>4, <2>3, <2>4, QuietType DEF ClaimDm
<1>5. CASE EndCycle(w)
  BY <1>0, <1>5, IdleStep, QuietType DEF EndCycle
<1> QED
  BY <1>1, <1>2, <1>3, <1>4, <1>5 DEF CycleStep

(* A step that may show a message leaves the rows and the rest alone.      *)
LEMMA PostingType ==
  ASSUME TypeInv, Typed, NEW w \in Workers, worker[w].pc = "send",
         UNCHANGED posts \/ Post(w), UNCHANGED <<row, environment>>
  PROVE  TypeInv'
<1>1. worker[w].pc \in HandPcs
  BY DEF HandPcs
<1>2. posts' \in [Rows -> [1..MaxAttempts -> Nat]]
  BY <1>1, PostType DEF TypeInv, TypeOK
<1> QED
  BY <1>2 DEF TypeInv, TypeOK, Typed, environment, QueueTypeOK

LEMMA GroupStepType ==
  ASSUME TypeInv, NEW w \in Workers, GroupStep(w)
  PROVE  TypeInv'
<1>0. QueueTypeOK /\ (UNCHANGED row => QueueTypeOK')
  BY DEF TypeInv, TypeOK, QueueTypeOK
<1>1. CASE SkipUnconfigured(w)
  <2>1. PICK r \in worker[w].todo :
          /\ MarkSkipped(r.id)
          /\ Become(w, [worker[w] EXCEPT !.todo = @ \ {r}])
    BY <1>1 DEF SkipUnconfigured
  <2>2. Typed /\ r.id \in Rows
    BY <1>1, <2>1, DropStep DEF SkipUnconfigured, At, Rows
  <2>3. QueueTypeOK'
    BY <1>0, <2>1, <2>2, MarkSkippedType
  <2> QED
    BY <1>1, <2>2, <2>3, QuietType DEF SkipUnconfigured
<1>2. CASE TakeGroup(w)
  BY <1>0, <1>2, TakeGroupStep, QuietType DEF TakeGroup, At
<1>3. CASE GroupFlooded(w)
  <2>1. Typed
    BY <1>3, TryAgainStep, GoStep DEF GroupFlooded, At, HandPcs
  <2> QED
    BY <1>0, <1>3, <2>1, QuietType DEF GroupFlooded
<1>4. CASE GroupUnanswered(w)
  <2>1. Typed
    BY <1>4, TryAgainStep, FailStep DEF GroupUnanswered, At, HandPcs
  <2> QED
    BY <1>4, <2>1, PostingType DEF GroupUnanswered, At
<1>5. CASE GroupRefused(w)
  <2>1. Typed
    BY <1>5, FailStep DEF GroupRefused, At, HandPcs
  <2> QED
    BY <1>0, <1>5, <2>1, QuietType DEF GroupRefused
<1>6. CASE MarkSentGroup(w)
  <2>1. worker[w].pc \in HandPcs /\ worker[w].acked \in BOOLEAN
    BY <1>6 DEF MarkSentGroup, At, HandPcs, TypeInv, Shape, Locals
  <2>2. Typed
    BY <1>6, <2>1, GoStep, NextRecordStep DEF MarkSentGroup, OnGroup, HandPcs
  <2>3. QueueTypeOK'
    BY <1>0, <1>6, <2>1, InHand, MarkSentType DEF MarkSentGroup
  <2> QED
    BY <1>6, <2>2, <2>3, QuietType DEF MarkSentGroup
<1>7. CASE Aggregate(w)
  <2>1. Typed
    BY <1>7, NextRecordStep DEF Aggregate, At, HandPcs
  <2> QED
    BY <1>0, <1>7, <2>1, QuietType DEF Aggregate
<1> QED
  BY <1>1, <1>2, <1>3, <1>4, <1>5, <1>6, <1>7 DEF GroupStep

LEMMA DmStepType ==
  ASSUME TypeInv, NEW w \in Workers, DmStep(w)
  PROVE  TypeInv'
<1>0. QueueTypeOK /\ (UNCHANGED row => QueueTypeOK')
  BY DEF TypeInv, TypeOK, QueueTypeOK
<1>1. CASE TakeDm(w)
  BY <1>0, <1>1, TakeDmTyped, QuietType DEF TakeDm
<1>2. CASE ReleaseDm(w)
  <2>1. worker[w].pc \in HandPcs /\ CurRow(w) \in Rows
    BY <1>2, InHand DEF ReleaseDm, At, HandPcs
  <2>2. QueueTypeOK'
    BY <1>0, <1>2, <2>1, ReleaseType DEF ReleaseDm
  <2> QED
    BY <1>2, <2>2, ReleaseDmStep, QuietType DEF ReleaseDm
<1>3. CASE CheckDm(w)
  <2>1. worker[w].pc \in HandPcs /\ CurRow(w) \in DmRows
    BY <1>3 DEF CheckDm, At, HandPcs, TypeInv, Shape, CurRow, Cur
  <2>2. Typed
    BY <1>3, <2>1, GoStep DEF CheckDm, HandPcs
  <2> QED
    BY <1>0, <1>3, <2>2, QuietType DEF CheckDm
<1>4. CASE SkipDm(w)
  <2>1. worker[w].pc \in HandPcs
    BY <1>4 DEF SkipDm, At, HandPcs
  <2>2. Typed /\ CurRow(w) \in Rows
    BY <1>4, <2>1, InHand, NextRecordStep DEF SkipDm
  <2>3. QueueTypeOK'
    BY <1>0, <1>4, <2>2, MarkSkippedType DEF SkipDm
  <2> QED
    BY <1>4, <2>2, <2>3, QuietType DEF SkipDm
<1>5. CASE MarkSentDm(w)
  <2>1. /\ worker[w].pc \in HandPcs /\ CurRow(w) \in Rows
        /\ worker[w].acked \in BOOLEAN
    BY <1>5, InHand DEF MarkSentDm, At, HandPcs, TypeInv, Shape, Locals
  <2>2. QueueTypeOK'
    BY <1>0, <1>5, <2>1, MarkSentType DEF MarkSentDm
  <2> QED
    BY <1>5, <2>2, MarkSentDmStep, QuietType DEF MarkSentDm
<1>6. CASE DmUnanswered(w)
  <2>1. Typed
    BY <1>6, FailStep DEF DmUnanswered, At, HandPcs
  <2> QED
    BY <1>6, <2>1, PostingType DEF DmUnanswered, At
<1>7. CASE DmRefused(w)
  <2>1. worker[w].pc \in HandPcs /\ CurRow(w) \in DmRows
    BY <1>7, InHand DEF DmRefused, At, HandPcs
  <2>2. Typed
    BY <1>7, <2>1, GoStep, FailStep DEF DmRefused, HandPcs
  <2> QED
    BY <1>0, <1>7, <2>2, QuietType DEF DmRefused
<1>8. CASE DisableUser(w)
  <2>1. Typed
    BY <1>8, FailStep DEF DisableUser, At, HandPcs
  <2>2. notify' \in [Users -> BOOLEAN]
    BY <1>8 DEF DisableUser, TypeInv, TypeOK
  <2> QED
    BY <1>0, <1>8, <2>1, <2>2 DEF DisableUser, TypeInv, TypeOK, Typed
<1> QED
  BY <1>1, <1>2, <1>3, <1>4, <1>5, <1>6, <1>7, <1>8 DEF DmStep

(* For every number of rows, workers, faults and replays: every variable   *)
(* keeps its type, and no row is claimed more than MaxAttempts times.      *)
LEMMA NextType == TypeInv /\ [Next]_vars => TypeInv'
<1> SUFFICES ASSUME TypeInv, [Next]_vars PROVE TypeInv'
  OBVIOUS
<1>0. QueueTypeOK /\ (UNCHANGED row => QueueTypeOK')
  BY DEF TypeInv, TypeOK, QueueTypeOK
<1>1. ASSUME NEW w \in Workers, SendOk(w) PROVE TypeInv'
  BY <1>1, AnsweredStep, PostingType DEF SendOk, At
<1>2. ASSUME NEW w \in Workers, ReadAttempts(w) PROVE TypeInv'
  BY <1>0, <1>2, ReadStep, QuietType DEF ReadAttempts
<1>3. ASSUME NEW w \in Workers, WriteFailure(w) PROVE TypeInv'
  <2>1. worker[w].pc \in HandPcs
    BY <1>3 DEF WriteFailure, At, HandPcs
  <2>2. /\ worker[w].seen \in 0..MaxAttempts /\ worker[w].retry \in BOOLEAN
        /\ CurRow(w) \in Rows
    BY <2>1, InHand DEF TypeInv, Shape, Locals
  <2>3. Typed
    BY <1>3, <2>1, NextRecordStep DEF WriteFailure
  <2>4. QueueTypeOK'
    BY <1>0, <1>3, <2>2, MarkFailedType DEF WriteFailure
  <2> QED
    BY <1>3, <2>3, <2>4, QuietType DEF WriteFailure
<1>4. ASSUME NEW w \in Workers, CaughtFault(w) \/ Abandon(w) PROVE TypeInv'
  <2>1. Typed
    BY <1>4, FailStep, IdleStep DEF CaughtFault, Abandon, HandPcs
  <2>2. faults' \in 0..MaxFaults
    <3>1. faults \in 0..MaxFaults /\ MaxFaults \in Nat
      BY CycleAssumption DEF TypeInv, TypeOK
    <3>2. faults < MaxFaults /\ faults' = faults + 1
      BY <1>4 DEF CaughtFault, Abandon
    <3> QED
      BY <3>1, <3>2
  <2> QED
    BY <1>0, <1>4, <2>1, <2>2
    DEF CaughtFault, Abandon, TypeInv, TypeOK, Typed
<1>5. ASSUME NEW d \in Rows, Enqueue(d) PROVE TypeInv'
  BY <1>0, <1>5, InsertType DEF Enqueue, TypeInv, TypeOK, environment
<1>6. ASSUME NEW d \in Rows, Replay(d) PROVE TypeInv'
  <2>1. replays' \in 0..MaxReplays
    BY <1>6, CycleAssumption DEF Replay, TypeInv, TypeOK
  <2> QED
    BY <1>0, <1>6, <2>1, ReplayType DEF Replay, TypeInv, TypeOK
<1>7. ASSUME NEW u \in Users, Resubscribe(u) PROVE TypeInv'
  <2>1. notify' \in [Users -> BOOLEAN]
    BY <1>7 DEF Resubscribe, TypeInv, TypeOK
  <2> QED
    BY <1>0, <1>7, <2>1 DEF Resubscribe, TypeInv, TypeOK
<1>8. CASE TimePasses
  BY <1>0, <1>8, TickType DEF TimePasses, TypeInv, TypeOK, environment
<1>9. CASE UNCHANGED vars
  BY <1>9 DEF vars, TypeInv, TypeOK, QueueTypeOK
<1> QED
  BY <1>1, <1>2, <1>3, <1>4, <1>5, <1>6, <1>7, <1>8, <1>9,
     CycleStepType, GroupStepType, DmStepType
  DEF Next, WorkerStep

(* For every number of workers, rows, faults and replays: the workers keep *)
(* their types and attempts never exceeds DELIVERY_MAX_ATTEMPTS, although  *)
(* a worker whose lease expired keeps writing (run_delivery_cycle).        *)
THEOREM TypeCorrect == Spec => []TypeOK
<1>1. TypeInv => TypeOK
  BY DEF TypeInv
<1> QED
  BY <1>1, InitType, NextType, PTL DEF Spec
=============================================================================
