--------------------------- MODULE DeliveryCycle ---------------------------
(***************************************************************************)
(* Delivery workers on the job_deliveries table: run_delivery_cycle of     *)
(* core/delivery_scheduler.py with deliver_group_topic_records of          *)
(* bot/sender.py and deliver_subscriber_dm_records of bot/notifications.py.*)
(*                                                                         *)
(* A worker is one process running the delivery loop of server.py.  Each   *)
(* of its steps is one database transaction or one call of Telegram, so    *)
(* everything the code awaits can interleave with the other workers, with  *)
(* the producer, with users and with the clock.  A worker may die, or      *)
(* abandon its cycle on a database error, between any two steps.           *)
(***************************************************************************)
EXTENDS DeliveryQueue

CONSTANTS
  Workers,
  Configured,   \* group rows whose topic has a thread id
  BatchSize,    \* DELIVERY_BATCH_SIZE
  SendTries,    \* _MAX_RETRIES of bot/sender.py
  NoRecord,     \* no record in hand
  DmLimit,      \* DM_MAX_PER_USER_PER_WINDOW
  MaxFaults,    \* bound on crashes and database errors in a behaviour
  MaxReplays    \* bound on manual replays in a behaviour

ASSUME CycleAssumption ==
  /\ Workers # {}
  /\ Configured \subseteq GroupRows
  /\ BatchSize \in Nat \ {0}
  /\ SendTries \in Nat \ {0}
  /\ DmLimit \in Nat \ {0}
  /\ MaxFaults \in Nat
  /\ MaxReplays \in Nat

VARIABLES
  worker,   \* the local state of each worker's running cycle
  posts,    \* messages Telegram has shown, per row and claim number (history)
  notify,   \* users.notify_dm
  faults,   \* crashes and database errors so far
  replays   \* manual replays so far

vars == <<row, worker, posts, notify, faults, replays>>
environment == <<notify, faults, replays>>

-----------------------------------------------------------------------------
(* A claimed record carries the row's attempts as the claim returned them. *)
Records == [id : Rows, attempt : 1..MaxAttempts]

ASSUME NoRecordAssumption == NoRecord \notin Records

Uncounted == -1

HandPcs ==   \* a record is in hand
  {"send", "mark_sent", "aggregate", "release", "check", "skip", "disable",
   "fail", "write_failure"}

Locals ==
  [pc       : {"idle", "recover", "group", "dm"} \cup HandPcs,
   stale    : SUBSET (Rows \X (0..MaxAttempts)),  \* recovery's SELECT
   todo     : SUBSET Records,       \* claimed records not yet handled
   cur      : Records \cup {NoRecord},  \* the record in hand
   tries    : 0..SendTries,         \* attempt of _send_with_retry
   acked    : BOOLEAN,              \* the send returned a message
   retry    : BOOLEAN,              \* the retryable argument
   seen     : 0..MaxAttempts,       \* mark_delivery_failed's SELECT
   busy     : BOOLEAN,              \* group_records was not empty
   counts   : [Users -> Int],       \* user_sent_counts
   deferred : SUBSET Rows]          \* rows released in this cycle (history)

Idle == [pc |-> "idle", stale |-> {}, todo |-> {}, cur |-> NoRecord, tries |-> 0,
         acked |-> FALSE, retry |-> FALSE, seen |-> 0, busy |-> FALSE,
         counts |-> [u \in Users |-> Uncounted], deferred |-> {}]

Init ==
  /\ QueueInit
  /\ worker = [w \in Workers |-> Idle]
  /\ posts = [d \in Rows |-> [k \in 1..MaxAttempts |-> 0]]
  /\ notify = [u \in Users |-> TRUE]
  /\ faults = 0
  /\ replays = 0

At(w, pc) == worker[w].pc = pc
Cur(w) == worker[w].cur
CurRow(w) == Cur(w).id
OnGroup(w) == CurRow(w) \in GroupRows

Become(w, local) == worker' = [worker EXCEPT ![w] = local]
Go(w, pc) == Become(w, [worker[w] EXCEPT !.pc = pc])

(* The loop over the batch moves on to its next record.                    *)
NextRecord(w) ==
  Become(w, [worker[w] EXCEPT
    !.pc = IF OnGroup(w) THEN "group" ELSE "dm", !.cur = NoRecord,
    !.tries = 0, !.acked = FALSE, !.retry = FALSE, !.seen = 0])

(* An except clause takes over, to call mark_delivery_failed.              *)
Fail(w, retryable) ==
  Become(w, [worker[w] EXCEPT !.pc = "fail", !.retry = retryable])

Post(w) == posts' = [posts EXCEPT ![CurRow(w)][Cur(w).attempt] = @ + 1]

-----------------------------------------------------------------------------
(* The cycle: recover, then claim group rows and DM rows until both are    *)
(* drained or the time budget is spent.                                    *)

StartCycle(w) ==
  /\ At(w, "idle")
  /\ Become(w, [Idle EXCEPT !.pc = "recover",
                  !.stale = {<<d, row[d].attempts>> : d \in Expired}])
  /\ UNCHANGED <<row, posts, environment>>

(* The SELECT's row locks are gone by now: it ran in its own transaction.  *)
RecoverNext(w) ==
  /\ At(w, "recover")
  /\ \E s \in worker[w].stale :
       /\ RecoverStale(s[1], s[2])
       /\ Become(w, [worker[w] EXCEPT !.stale = @ \ {s}])
  /\ UNCHANGED <<posts, environment>>

AtLoopHead(w) == \/ At(w, "recover") /\ worker[w].stale = {}
                 \/ At(w, "dm") /\ worker[w].todo = {}

Claimed(S) == {[id |-> d, attempt |-> row[d].attempts + 1] : d \in S}

ClaimGroup(w) ==
  /\ AtLoopHead(w)
  /\ \E S \in Batches(GroupRows, BatchSize) :
       /\ Claim(S)
       /\ Become(w, [worker[w] EXCEPT !.pc = "group", !.todo = Claimed(S),
                       !.busy = (S # {}), !.counts = Idle.counts])
  /\ UNCHANGED <<posts, environment>>

ClaimDm(w) ==
  /\ At(w, "group") /\ worker[w].todo = {}
  /\ \E S \in Batches(DmRows, BatchSize) :
       /\ Claim(S)
       /\ IF S = {} /\ ~worker[w].busy
          THEN Become(w, Idle)
          ELSE Become(w, [worker[w] EXCEPT !.pc = "dm", !.todo = Claimed(S),
                            !.busy = FALSE])
  /\ UNCHANGED <<posts, environment>>

EndCycle(w) ==
  /\ AtLoopHead(w)
  /\ Become(w, Idle)
  /\ UNCHANGED <<row, posts, environment>>

-----------------------------------------------------------------------------
(* One group_topic record.                                                 *)

SkipUnconfigured(w) ==
  /\ At(w, "group")
  /\ \E r \in worker[w].todo :
       /\ r.id \notin Configured
       /\ MarkSkipped(r.id)
       /\ Become(w, [worker[w] EXCEPT !.todo = @ \ {r}])
  /\ UNCHANGED <<posts, environment>>

TakeGroup(w) ==
  /\ At(w, "group")
  /\ \E r \in worker[w].todo :
       /\ r.id \in Configured
       /\ Become(w, [worker[w] EXCEPT !.pc = "send", !.todo = @ \ {r},
                                      !.cur = r, !.tries = 1])
  /\ UNCHANGED <<row, posts, environment>>

GroupFloodedAcked(w) ==   \* mutant: falling out counts as an answer
  /\ At(w, "send") /\ OnGroup(w)
  /\ IF worker[w].tries < SendTries
     THEN Become(w, [worker[w] EXCEPT !.tries = @ + 1])
     ELSE Become(w, [worker[w] EXCEPT !.pc = "mark_sent", !.acked = TRUE])
  /\ UNCHANGED <<row, posts, environment>>

(* RetryAfter: the loop sleeps and goes round; after the last attempt it   *)
(* falls out and returns None, which the caller takes for a message.       *)
GroupFlooded(w) ==
  /\ At(w, "send") /\ OnGroup(w)
  /\ IF worker[w].tries < SendTries
     THEN Become(w, [worker[w] EXCEPT !.tries = @ + 1])
     ELSE Go(w, "mark_sent")
  /\ UNCHANGED <<row, posts, environment>>

GroupUnansweredUncounted(w) ==   \* mutant: the try is not counted
  /\ At(w, "send") /\ OnGroup(w)
  /\ Post(w)
  /\ UNCHANGED <<row, worker, environment>>

(* TimedOut or NetworkError: the message may have been shown all the same. *)
GroupUnanswered(w) ==
  /\ At(w, "send") /\ OnGroup(w)
  /\ \/ UNCHANGED posts
     \/ Post(w)
  /\ \/ /\ worker[w].tries < SendTries
        /\ Become(w, [worker[w] EXCEPT !.tries = @ + 1])
     \/ /\ worker[w].tries = SendTries
        /\ \E retryable \in BOOLEAN : Fail(w, retryable)
  /\ UNCHANGED <<row, environment>>

(* Any other error; _is_retryable_error goes by its text.                  *)
GroupRefused(w) ==
  /\ At(w, "send") /\ OnGroup(w)
  /\ \E retryable \in BOOLEAN : Fail(w, retryable)
  /\ UNCHANGED <<row, posts, environment>>

(* update_job_aggregate_message_id; the row itself is done.                *)
Aggregate(w) ==
  /\ At(w, "aggregate")
  /\ NextRecord(w)
  /\ UNCHANGED <<row, posts, environment>>

-----------------------------------------------------------------------------
(* One subscriber_dm record.                                               *)

(* The user's window count is read once per batch.                         *)
TakeDm(w) ==
  /\ At(w, "dm")
  /\ \E r \in worker[w].todo :
       LET u     == Recipient[r.id]
           count == IF worker[w].counts[u] = Uncounted THEN SentInWindow(u)
                                                       ELSE worker[w].counts[u]
       IN Become(w, [worker[w] EXCEPT !.todo = @ \ {r}, !.cur = r,
            !.counts[u] = count,
            !.pc = IF count >= DmLimit THEN "release" ELSE "check"])
  /\ UNCHANGED <<row, posts, environment>>

ReleaseDm(w) ==
  /\ At(w, "release")
  /\ ReleaseToPending(CurRow(w))
  /\ Become(w, [worker[w] EXCEPT !.pc = "dm", !.cur = NoRecord,
                                 !.deferred = @ \cup {CurRow(w)}])
  /\ UNCHANGED <<posts, environment>>

(* The alerts and the blacklist are read again; their owner may have       *)
(* edited them at any time since the row was queued.                       *)
CheckDm(w) ==
  /\ At(w, "check")
  /\ Go(w, "send") \/ Go(w, "skip")
  /\ UNCHANGED <<row, posts, environment>>

SkipDmFallsThrough(w) ==   \* mutant: the continue is missing, a skipped row is sent
  /\ At(w, "skip")
  /\ MarkSkipped(CurRow(w))
  /\ Go(w, "send")
  /\ UNCHANGED <<posts, environment>>

SkipDm(w) ==
  /\ At(w, "skip")
  /\ MarkSkipped(CurRow(w))
  /\ NextRecord(w)
  /\ UNCHANGED <<posts, environment>>

DmUnansweredRetries(w) ==   \* mutant: the DM path retries in the claim
  /\ At(w, "send") /\ ~OnGroup(w)
  /\ Post(w)
  /\ UNCHANGED <<row, worker, environment>>

(* RetryAfter, TimedOut and NetworkError: only a lost answer can hide a    *)
(* message that was shown.                                                 *)
DmUnanswered(w) ==
  /\ At(w, "send") /\ ~OnGroup(w)
  /\ \/ UNCHANGED posts
     \/ Post(w)
  /\ Fail(w, TRUE)
  /\ UNCHANGED <<row, environment>>

DmRefused(w) ==
  /\ At(w, "send") /\ ~OnGroup(w)
  /\ \/ Go(w, "disable")
     \/ \E retryable \in BOOLEAN : Fail(w, retryable)
  /\ UNCHANGED <<row, posts, environment>>

DisableUser(w) ==
  /\ At(w, "disable")
  /\ notify' = [notify EXCEPT ![Recipient[CurRow(w)]] = FALSE]
  /\ Fail(w, FALSE)
  /\ UNCHANGED <<row, posts, faults, replays>>

-----------------------------------------------------------------------------
(* Steps both kinds share.                                                 *)

SendOk(w) ==
  /\ At(w, "send")
  /\ Post(w)
  /\ Become(w, [worker[w] EXCEPT !.pc = "mark_sent", !.acked = TRUE])
  /\ UNCHANGED <<row, environment>>

MarkSentGroup(w) ==
  /\ At(w, "mark_sent") /\ OnGroup(w)
  /\ MarkSent(CurRow(w), worker[w].acked)
  /\ IF worker[w].acked THEN Go(w, "aggregate") ELSE NextRecord(w)
  /\ UNCHANGED <<posts, environment>>

MarkSentDmUncounted(w) ==   \* mutant: the window count stays as it was read
  /\ At(w, "mark_sent") /\ ~OnGroup(w)
  /\ MarkSent(CurRow(w), worker[w].acked)
  /\ Become(w, [worker[w] EXCEPT !.pc = "dm", !.cur = NoRecord,
                                 !.acked = FALSE])
  /\ UNCHANGED <<posts, environment>>

MarkSentDm(w) ==
  /\ At(w, "mark_sent") /\ ~OnGroup(w)
  /\ MarkSent(CurRow(w), worker[w].acked)
  /\ Become(w, [worker[w] EXCEPT
       !.pc = "dm", !.cur = NoRecord, !.acked = FALSE,
       !.counts[Recipient[CurRow(w)]] = @ + 1])
  /\ UNCHANGED <<posts, environment>>

(* mark_delivery_failed is two transactions, a SELECT and an UPDATE.       *)
ReadAttempts(w) ==
  /\ At(w, "fail")
  /\ Become(w, [worker[w] EXCEPT !.pc = "write_failure",
                                 !.seen = row[CurRow(w)].attempts])
  /\ UNCHANGED <<row, posts, environment>>

WriteFailure(w) ==
  /\ At(w, "write_failure")
  /\ MarkFailed(CurRow(w), worker[w].seen, worker[w].retry)
  /\ NextRecord(w)
  /\ UNCHANGED <<posts, environment>>

(* A database error inside the try block: "except Exception" takes the     *)
(* record for failed, whatever was already written.                        *)
CaughtFault(w) ==
  /\ worker[w].pc \in {"mark_sent", "aggregate", "check", "skip"}
  /\ faults < MaxFaults
  /\ faults' = faults + 1
  /\ Fail(w, TRUE)
  /\ UNCHANGED <<row, posts, notify, replays>>

(* A crash, or a database error outside it: the cycle ends where it is,    *)
(* with its claimed rows left in processing.                               *)
Abandon(w) ==
  /\ ~At(w, "idle")
  /\ faults < MaxFaults
  /\ faults' = faults + 1
  /\ Become(w, Idle)
  /\ UNCHANGED <<row, posts, notify, replays>>

-----------------------------------------------------------------------------
(* The rest of the system, as the workers see it.                          *)

(* The ingestion run queues a row, a DM row for a user with DMs on.        *)
Enqueue(d) ==
  /\ row[d].status = "absent"
  /\ d \in DmRows => notify[Recipient[d]]
  /\ Insert({d}, {})
  /\ UNCHANGED <<worker, posts, environment>>

(* /subscribe turns direct messages back on.                               *)
Resubscribe(u) ==
  /\ ~notify[u]
  /\ notify' = [notify EXCEPT ![u] = TRUE]
  /\ UNCHANGED <<row, worker, posts, faults, replays>>

Replay(d) ==
  /\ replays < MaxReplays
  /\ replays' = replays + 1
  /\ ReplayDeadLetter(d)
  /\ UNCHANGED <<worker, posts, notify, faults>>

TimePasses ==
  /\ Tick
  /\ row' # row
  /\ UNCHANGED <<worker, posts, environment>>

-----------------------------------------------------------------------------
CycleStep(w) ==
  StartCycle(w) \/ RecoverNext(w) \/ ClaimGroup(w) \/ ClaimDm(w)

GroupStep(w) ==
  \/ SkipUnconfigured(w) \/ TakeGroup(w) \/ GroupFlooded(w)
  \/ GroupUnanswered(w) \/ GroupRefused(w) \/ MarkSentGroup(w) \/ Aggregate(w)

DmStep(w) ==
  \/ TakeDm(w) \/ ReleaseDm(w) \/ CheckDm(w) \/ SkipDm(w) \/ MarkSentDm(w)
  \/ DmUnanswered(w) \/ DmRefused(w) \/ DisableUser(w)

WorkerStep(w) ==
  \/ CycleStep(w) \/ GroupStep(w) \/ DmStep(w)
  \/ SendOk(w) \/ ReadAttempts(w) \/ WriteFailure(w)

Next ==
  \/ \E w \in Workers :
       WorkerStep(w) \/ EndCycle(w) \/ CaughtFault(w) \/ Abandon(w)
  \/ \E d \in Rows : Enqueue(d) \/ Replay(d)
  \/ \E u \in Users : Resubscribe(u)
  \/ TimePasses

Spec == Init /\ [][Next]_vars

(* A delivery loop that has begun goes on; a cycle that keeps finding      *)
(* work still ends when its budget is spent, and recovery alone does not   *)
(* spend the budget of every cycle; time goes on.  Nothing is assumed of   *)
(* users, of the producer, or of when a fault happens.                     *)
FairSpec ==
  /\ Spec
  /\ \A w \in Workers : /\ WF_vars(WorkerStep(w))
                        /\ SF_vars(ClaimGroup(w))
                        /\ SF_vars(EndCycle(w))
  /\ WF_vars(TimePasses)

-----------------------------------------------------------------------------
(* Safety.                                                                 *)

(* Every variable has its type.  For attempts that means it never exceeds  *)
(* DELIVERY_MAX_ATTEMPTS, although only the claim statement compares them. *)
TypeOK ==
  /\ QueueTypeOK
  /\ worker \in [Workers -> Locals]
  /\ posts \in [Rows -> [1..MaxAttempts -> Nat]]
  /\ notify \in [Users -> BOOLEAN]
  /\ faults \in 0..MaxFaults
  /\ replays \in 0..MaxReplays

(* Whatever the number of workers, crashes and expired leases, two workers *)
(* never handle the same claim of a topic message: when both have the row, *)
(* one of them has an older claim of it (claim_pending_deliveries).        *)
HeldBy(local) == local.todo \cup ({local.cur} \ {NoRecord})
Held(w) == HeldBy(worker[w])

OneWorkerPerClaim ==
  \A v, w \in Workers :
    v # w => \A r \in Held(v) \cap Held(w) : r.id \notin GroupRows

(* A claim of a topic message shows it at most once per try of             *)
(* _send_with_retry, so a topic never sees more than SendTries copies per  *)
(* attempt, although nothing stops two workers from sending the same row.  *)
CopiesPerClaim ==
  \A d \in GroupRows, k \in 1..MaxAttempts : posts[d][k] <= SendTries

(* A topic message is given up as exhausted only after every attempt was   *)
(* used: no stale counter read by a slow worker can cut the retries short. *)
Exhausted(d) ==
  /\ row[d].status = "dead_letter"
  /\ row[d].reason \in {"retry_exhausted",
                        "retry_exhausted_after_stale_recovery"}

NoEarlyGiveUp ==
  \A d \in GroupRows : Exhausted(d) => row[d].attempts = MaxAttempts

(* A stored message id is the id of a message of that row: a row is never  *)
(* credited with the answer to another record of the batch.                *)
Shown(d) == {k \in 1..MaxAttempts : posts[d][k] > 0}

AckedWasShown == \A d \in Rows : row[d].acked => Shown(d) # {}

-----------------------------------------------------------------------------
(* With one worker (the deployed configuration).                           *)

(* Every record in the worker's hands is its row's current claim, still in *)
(* processing; only a sent row waiting for its bookkeeping is settled.     *)
(* None of the mark_* statements checks this; it is what makes them safe.  *)
Bookkeeping(w) == worker[w].pc \in {"aggregate", "fail", "write_failure"}

HeldIsProcessing ==
  \A w \in Workers : \A r \in Held(w) :
    /\ row[r.id].attempts = r.attempt
    /\ \/ row[r.id].status = "processing"
       \/ /\ r = Cur(w) /\ r.id \in GroupRows
          /\ Bookkeeping(w)
          /\ row[r.id].status = "sent" /\ row[r.id].acked

(* Nothing is shown for a row that is settled or back in the queue.        *)
ShownOnlyWhileProcessing ==
  [][\A d \in Rows : posts'[d] # posts[d] => row[d].status = "processing"]_vars

(* A subscriber never has more than DmLimit messages marked sent inside a  *)
(* window, although the count is read once per batch and the window moves. *)
WindowRespected == \A u \in Users : SentInWindow(u) <= DmLimit

(* A claim of a DM row shows at most one message: the DM path does not     *)
(* retry inside a claim, and a deferred claim gives its number back unused.*)
OneDmPerClaim ==
  \A d \in DmRows, k \in 1..MaxAttempts : posts[d][k] <= 1

(* Without replays no row waits in pending with no attempt left, where the *)
(* claim statement would never find it again.                              *)
PendingCanBeClaimed ==
  \A d \in Rows : row[d].status = "pending" => row[d].attempts < MaxAttempts

(* The abstract row lifecycle is implemented.                              *)
LastShown(d) == IF Shown(d) = {} THEN 0
                ELSE CHOOSE k \in Shown(d) : \A j \in Shown(d) : j <= k

Lifecycle == INSTANCE RowLifecycle WITH
  status   <- [d \in Rows |-> row[d].status],
  attempts <- [d \in Rows |-> row[d].attempts],
  acked    <- [d \in Rows |-> row[d].acked],
  shown    <- [d \in Rows |-> LastShown(d)]

ImplementsLifecycle == Lifecycle!Spec

-----------------------------------------------------------------------------
(* Liveness, under FairSpec with one worker.                               *)

(* Every queued row is settled in the end, whatever Telegram answers,      *)
(* however often the rate limit gives a claim back and wherever a cycle is *)
(* cut short: claims that are given back neither use attempts up nor keep  *)
(* a row for ever.  This takes the delivery loop to go on: when            *)
(* "async with bot" fails before its first cycle (server.py:73, the action *)
(* DeliveryOpens of ServerLifecycle) nothing is delivered until a restart. *)
Settled(d) == row[d].status \in {"sent", "skipped", "dead_letter"}

EveryRowSettles ==
  \A d \in Rows : row[d].status \in {"pending", "processing"} ~> Settled(d)

-----------------------------------------------------------------------------
(* Statements of comments and docstrings, checked against the code.        *)

(* bot/sender.py:126, "successful topics are not retried, failed topics    *)
(* are": a row marked sent stays sent.                                     *)
SuccessfulNotRetried ==
  [][\A d \in Rows : row[d].status = "sent" => row'[d].status = "sent"]_vars

(* bot/sender.py:110, "unreachable, last attempt raises": a send that      *)
(* returns has sent something, so a sent row was shown.                    *)
SentWasShown ==
  \A d \in Rows : row[d].status = "sent" => Shown(d) # {}

(* core/delivery_queue.py:230-231, "Records that have already exhausted    *)
(* their retries are moved to dead_letter immediately": a pending row with *)
(* no attempt left does not stay pending.                                  *)
ExhaustedAreDeadLettered ==
  \A d \in Rows :
    (row[d].status = "pending" /\ row[d].attempts = MaxAttempts)
      ~> row[d].status # "pending"

(* core/delivery_queue.py:327-328, a released record "should be retried on *)
(* the next cycle": the cycle that released a row does not claim it again. *)
DeferredToNextCycle ==
  \A w \in Workers : \A r \in Held(w) : r.id \notin worker[w].deferred
=============================================================================
