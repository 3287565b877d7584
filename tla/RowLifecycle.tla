---------------------------- MODULE RowLifecycle ----------------------------
(***************************************************************************)
(* What the delivery queue promises of each row when one worker serves it, *)
(* which is how the Compose stack of the repository runs: no worker, no    *)
(* batch, no transaction and no crash, only what a row may do next.        *)
(*                                                                         *)
(*   - it is shown on Telegram only between a claim and its outcome;       *)
(*   - it is settled once, as sent, skipped or dead_letter, by its claim;  *)
(*   - a claim that is taken back (rate limit) has shown nothing;          *)
(*   - a claim that ends without an outcome leaves the attempt counted.    *)
(*                                                                         *)
(* Two ways back from a settled row exist: replay of a dead letter, and a  *)
(* sent topic message whose bookkeeping on the job failed.                 *)
(***************************************************************************)
EXTENDS Naturals

CONSTANTS GroupRows, DmRows, MaxAttempts

Rows == GroupRows \cup DmRows

VARIABLES
  status,     \* as in job_deliveries
  attempts,   \* claims not taken back
  acked,      \* a message id was stored
  shown       \* the last attempt that showed a message, 0 if none did

life == <<status, attempts, acked, shown>>

Init ==
  /\ status = [d \in Rows |-> "absent"]
  /\ attempts = [d \in Rows |-> 0]
  /\ acked = [d \in Rows |-> FALSE]
  /\ shown = [d \in Rows |-> 0]

Become(d, s) == status' = [status EXCEPT ![d] = s]

Queue(d) ==
  /\ status[d] = "absent"
  /\ Become(d, "pending")
  /\ UNCHANGED <<attempts, acked, shown>>

ClaimBatch(S) ==
  /\ \A d \in S : status[d] = "pending" /\ attempts[d] < MaxAttempts
  /\ status' = [d \in Rows |-> IF d \in S THEN "processing" ELSE status[d]]
  /\ attempts' = [d \in Rows |-> IF d \in S THEN attempts[d] + 1
                                            ELSE attempts[d]]
  /\ UNCHANGED <<acked, shown>>

Show(d) ==
  /\ status[d] = "processing"
  /\ shown' = [shown EXCEPT ![d] = attempts[d]]
  /\ UNCHANGED <<status, attempts, acked>>

(* A stored message id belongs to a message that this very claim showed.   *)
Send(d) ==
  /\ status[d] = "processing"
  /\ Become(d, "sent")
  /\ \/ acked' = [acked EXCEPT ![d] = FALSE]
     \/ /\ shown[d] = attempts[d]
        /\ acked' = [acked EXCEPT ![d] = TRUE]
  /\ UNCHANGED <<attempts, shown>>

Refuse(d) ==
  /\ status[d] = "processing"
  /\ \E s \in {"skipped", "dead_letter"} : Become(d, s)
  /\ UNCHANGED <<attempts, acked, shown>>

Retry(d) ==
  /\ status[d] = "processing"
  /\ attempts[d] < MaxAttempts
  /\ Become(d, "pending")
  /\ UNCHANGED <<attempts, acked, shown>>

Defer(d) ==
  /\ d \in DmRows
  /\ status[d] = "processing"
  /\ shown[d] < attempts[d]
  /\ Become(d, "pending")
  /\ attempts' = [attempts EXCEPT ![d] = @ - 1]
  /\ UNCHANGED <<acked, shown>>

Reopen(d) ==
  /\ d \in GroupRows
  /\ status[d] = "sent" /\ acked[d] /\ shown[d] = attempts[d]
  /\ Become(d, IF attempts[d] < MaxAttempts THEN "pending" ELSE "dead_letter")
  /\ UNCHANGED <<attempts, acked, shown>>

Replay(d) ==
  /\ status[d] = "dead_letter"
  /\ Become(d, "pending")
  /\ UNCHANGED <<attempts, acked, shown>>

Next ==
  \/ \E S \in SUBSET Rows : ClaimBatch(S)
  \/ \E d \in Rows :
       \/ Queue(d) \/ Show(d) \/ Send(d) \/ Refuse(d) \/ Retry(d)
       \/ Defer(d) \/ Reopen(d) \/ Replay(d)

Spec == Init /\ [][Next]_life
=============================================================================
