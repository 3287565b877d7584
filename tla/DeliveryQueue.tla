--------------------------- MODULE DeliveryQueue ---------------------------
(***************************************************************************)
(* The job_deliveries table and the operations of core/delivery_queue.py   *)
(* on it.  A row is one (job, delivery_type, recipient) tuple; the unique  *)
(* constraint of migration 007 makes the tuple its identity.               *)
(*                                                                         *)
(* Every operation below is one SQL transaction of the module.  None of    *)
(* the mark_* statements looks at the row's status or worker: whoever      *)
(* calls them, whenever, overwrites the row.  The workers that call them   *)
(* are in DeliveryCycle; here any caller may call anything at any time.    *)
(*                                                                         *)
(* Time is counted in ticks.  next_attempt_at is kept as the ticks left    *)
(* until the row is due; processing_started_at and sent_at as the ticks    *)
(* passed since, of which only one matters in any status.                  *)
(***************************************************************************)
EXTENDS Integers, FiniteSets

CONSTANTS
  GroupRows,    \* rows with delivery_type group_topic
  DmRows,       \* rows with delivery_type subscriber_dm
  Recipient,    \* the subscriber (recipient_key) of every DM row
  MaxAttempts,  \* DELIVERY_MAX_ATTEMPTS
  RetryBase,    \* DELIVERY_RETRY_BASE_SECONDS, in ticks
  RetryCap,     \* the cap on the backoff delay, in ticks
  Lease,        \* DELIVERY_PROCESSING_LEASE_SECONDS, in ticks
  Window        \* DM_RATE_WINDOW_SECONDS, in ticks

Rows == GroupRows \cup DmRows
Users == {Recipient[d] : d \in DmRows}

ASSUME QueueAssumption ==
  /\ IsFiniteSet(GroupRows) /\ IsFiniteSet(DmRows)
  /\ GroupRows \cap DmRows = {}
  /\ DOMAIN Recipient = DmRows
  /\ MaxAttempts \in Nat \ {0}
  /\ RetryBase \in Nat \ {0}
  /\ RetryCap \in Nat
  /\ Lease \in Nat \ {0}
  /\ Window \in Nat \ {0}

VARIABLE row

-----------------------------------------------------------------------------
(* Row contents.  "absent" is a tuple that was never inserted.             *)

Statuses ==
  {"absent", "pending", "processing", "sent", "dead_letter", "skipped"}

Reasons ==   \* dead_letter_reason; "none" is NULL
  {"none", "retry_exhausted", "permanent_failure",
   "retry_exhausted_after_stale_recovery", "not_wanted"}

AgeCap == IF Lease > Window THEN Lease ELSE Window

Row == [status   : Statuses,
        attempts : 0..MaxAttempts,
        wait     : 0..RetryCap,   \* ticks until next_attempt_at
        age      : 0..AgeCap,     \* ticks since processing_started_at or sent_at
        acked    : BOOLEAN,       \* message_id IS NOT NULL
        reason   : Reasons]

Absent == [status |-> "absent", attempts |-> 0, wait |-> 0, age |-> 0,
           acked |-> FALSE, reason |-> "none"]

(* _next_attempt_at: base * 2^(attempts-1), at most the cap.               *)
Backoff(n) ==
  LET delay == RetryBase * 2^(n - 1)
  IN  IF n < 1 THEN 0 ELSE IF delay \in 0..RetryCap THEN delay ELSE RetryCap

(* What the claim statement selects, what recovery selects, and the count  *)
(* of get_pending_dm_count_for_user.                                       *)
DueWhenExhausted(kind) ==   \* mutant: the attempts guard is dropped
  {d \in kind : row[d].status = "pending" /\ row[d].wait = 0}

Due(kind) == {d \in kind : /\ row[d].status = "pending"
                           /\ row[d].wait = 0
                           /\ row[d].attempts < MaxAttempts}

Batches(kind, size) ==
  {S \in SUBSET Due(kind) :
     Cardinality(S) = IF Cardinality(Due(kind)) < size
                      THEN Cardinality(Due(kind)) ELSE size}

ExpiredTopicsOnly ==   \* mutant: recovery forgets one delivery type
  {d \in GroupRows : row[d].status = "processing" /\ row[d].age = Lease}

Expired == {d \in Rows : row[d].status = "processing" /\ row[d].age = Lease}

SentInWindow(u) ==
  Cardinality({d \in DmRows : /\ Recipient[d] = u
                              /\ row[d].status = "sent"
                              /\ row[d].age < Window})

-----------------------------------------------------------------------------
(* Operations, one per statement.                                          *)

InsertOverwrites(S, unwanted) ==   \* mutant: ON CONFLICT DO UPDATE
  row' = [d \in Rows |->
            IF d \in S
            THEN [Absent EXCEPT
                    !.status = IF d \in unwanted THEN "skipped" ELSE "pending",
                    !.reason = IF d \in unwanted THEN "not_wanted" ELSE "none"]
            ELSE row[d]]

(* _insert_delivery_rows: ON CONFLICT DO NOTHING.  The rows of seed mode   *)
(* and of jobs without topics are born skipped, the others pending.        *)
Insert(S, unwanted) ==
  row' = [d \in Rows |->
            IF d \in S /\ row[d].status = "absent"
            THEN [Absent EXCEPT
                    !.status = IF d \in unwanted THEN "skipped" ELSE "pending",
                    !.reason = IF d \in unwanted THEN "not_wanted" ELSE "none"]
            ELSE row[d]]

ClaimUncounted(S) ==   \* mutant: attempts is counted later
  row' = [d \in Rows |-> IF d \in S
                         THEN [row[d] EXCEPT !.status = "processing", !.age = 0]
                         ELSE row[d]]

ClaimUnmarked(S) ==   \* mutant: the claim leaves the row pending
  row' = [d \in Rows |-> IF d \in S
                         THEN [row[d] EXCEPT !.age = 0, !.attempts = @ + 1]
                         ELSE row[d]]

(* claim_pending_deliveries on a batch S of due rows.                      *)
Claim(S) ==
  row' = [d \in Rows |->
            IF d \in S
            THEN [row[d] EXCEPT !.status = "processing", !.age = 0,
                                !.attempts = @ + 1]
            ELSE row[d]]

MarkSent(d, acked) ==
  row' = [row EXCEPT ![d] =
            [@ EXCEPT !.status = "sent", !.age = 0, !.acked = acked]]

MarkSkipped(d) ==
  row' = [row EXCEPT ![d] =
            [@ EXCEPT !.status = "skipped", !.age = 0, !.reason = "not_wanted"]]

ReleaseKeepsAttempt(d) ==   \* mutant: the claim is not given back
  row' = [row EXCEPT ![d] = [@ EXCEPT !.status = "pending", !.age = 0, !.wait = 0]]

(* release_delivery_to_pending: GREATEST(attempts - 1, 0).                 *)
ReleaseToPending(d) ==
  row' = [row EXCEPT ![d] =
            [@ EXCEPT !.status = "pending", !.age = 0, !.wait = 0,
                      !.attempts = IF row[d].attempts > 0
                                  THEN row[d].attempts - 1 ELSE 0]]

MarkFailedLate(d, seen, retryable) ==   \* mutant: <= for <
  row' = [row EXCEPT ![d] =
            [@ EXCEPT !.status = IF retryable /\ seen <= MaxAttempts
                                 THEN "pending" ELSE "dead_letter",
                      !.age = 0, !.wait = IF retryable THEN Backoff(seen) ELSE 0]]

(* The UPDATE of mark_delivery_failed; seen is what its SELECT read.       *)
MarkFailed(d, seen, retryable) ==
  IF retryable /\ seen < MaxAttempts
  THEN row' = [row EXCEPT ![d] =
                 [@ EXCEPT !.status = "pending", !.age = 0,
                           !.wait = Backoff(seen)]]
  ELSE row' = [row EXCEPT ![d] =
                 [@ EXCEPT !.status = "dead_letter", !.age = 0,
                           !.reason = IF retryable THEN "retry_exhausted"
                                                   ELSE "permanent_failure"]]

RecoverStaleEarly(d, seen) ==   \* mutant: the lost claim counts twice
  row' = [row EXCEPT ![d] =
            [@ EXCEPT !.status = IF seen + 1 < MaxAttempts
                                 THEN "pending" ELSE "dead_letter",
                      !.age = 0,
                      !.reason = "retry_exhausted_after_stale_recovery"]]

RecoverStaleRefunds(d, seen) ==   \* mutant: the lost claim is given back
  row' = [row EXCEPT ![d] =
            [@ EXCEPT !.status = "pending", !.age = 0, !.wait = 0,
                      !.attempts = seen - 1]]

(* One iteration of recover_stale_deliveries; seen is what its SELECT read.*)
RecoverStale(d, seen) ==
  IF seen < MaxAttempts
  THEN row' = [row EXCEPT ![d] =
                 [@ EXCEPT !.status = "pending", !.age = 0, !.wait = 0]]
  ELSE row' = [row EXCEPT ![d] =
                 [@ EXCEPT !.status = "dead_letter", !.age = 0,
                           !.reason = "retry_exhausted_after_stale_recovery"]]

(* replay_dead_letter keeps attempts as they are.                          *)
ReplayDeadLetter(d) ==
  /\ row[d].status = "dead_letter"
  /\ row' = [row EXCEPT ![d] = [@ EXCEPT !.status = "pending", !.wait = 0,
                                         !.age = 0, !.reason = "none"]]

(* The clock: next_attempt_at comes closer, the lease and the window age.  *)
AgeLimit(r) == IF r.status = "processing" THEN Lease
               ELSE IF r.status = "sent" THEN Window
               ELSE r.age

Tick ==
  row' = [d \in Rows |->
            [row[d] EXCEPT !.wait = IF @ > 0 THEN @ - 1 ELSE 0,
               !.age = IF @ < AgeLimit(row[d]) THEN @ + 1 ELSE @]]

-----------------------------------------------------------------------------
QueueInit == row = [d \in Rows |-> Absent]

(* Any caller, any operation, any row of the table, any value read before. *)
QueueNext ==
  \/ \E S, unwanted \in SUBSET Rows : Insert(S, unwanted)
  \/ \E kind \in {GroupRows, DmRows, Rows} :
       \E S \in SUBSET Due(kind) : Claim(S)
  \/ \E d \in {x \in Rows : row[x].status # "absent"} :
       \/ \E acked \in BOOLEAN : MarkSent(d, acked)
       \/ MarkSkipped(d)
       \/ ReleaseToPending(d)
       \/ \E seen \in 0..MaxAttempts, r \in BOOLEAN : MarkFailed(d, seen, r)
       \/ \E seen \in 0..MaxAttempts : RecoverStale(d, seen)
       \/ ReplayDeadLetter(d)
  \/ Tick

QueueSpec == QueueInit /\ [][QueueNext]_row

(* Every row has its columns' types; attempts never exceeds the maximum,   *)
(* although no UPDATE but the claim compares it with the maximum.          *)
QueueTypeOK == row \in [Rows -> Row]
=============================================================================
