------------------------- MODULE DeliveryQueueProofs -------------------------
(***************************************************************************)
(* The table keeps its column types, and attempts stays within             *)
(* MaxAttempts, under every sequence of operations by any number of        *)
(* callers.  One lemma per operation, for the modules that compose it.     *)
(***************************************************************************)
EXTENDS DeliveryQueue, TLAPS

(* The backoff delay is a delay: never negative and never above the cap.   *)
LEMMA BackoffType ==
  ASSUME NEW n \in 0..MaxAttempts
  PROVE  Backoff(n) \in 0..RetryCap
  BY QueueAssumption DEF Backoff

(* Zero is a value of every counting column.                               *)
LEMMA ZeroTypes ==
  /\ 0 \in 0..MaxAttempts /\ 0 \in 0..RetryCap /\ 0 \in 0..AgeCap
  /\ AgeCap \in Nat /\ Lease <= AgeCap /\ Window <= AgeCap
  BY QueueAssumption DEF AgeCap

(* Replacing one row by a well-typed one keeps the table's type.           *)
LEMMA OneRow ==
  ASSUME QueueTypeOK, NEW d \in Rows, NEW r \in Row,
         row' = [row EXCEPT ![d] = r]
  PROVE  /\ QueueTypeOK'
         /\ row'[d] = r
         /\ \A e \in Rows \ {d} : row'[e] = row[e]
  BY DEF QueueTypeOK

LEMMA InsertType ==
  ASSUME QueueTypeOK, NEW S, NEW unwanted, Insert(S, unwanted)
  PROVE  /\ QueueTypeOK'
         /\ \A d \in Rows : \/ row'[d] = row[d]
                            \/ /\ d \in S /\ row[d].status = "absent"
                               /\ row'[d].status \in {"pending", "skipped"}
                               /\ row'[d].attempts = 0
                               /\ row'[d].acked = FALSE
<1>1. Absent \in Row
  BY QueueAssumption DEF Absent, Row, Statuses, Reasons, AgeCap
<1> DEFINE st(d) == IF d \in unwanted THEN "skipped" ELSE "pending"
           re(d) == IF d \in unwanted THEN "not_wanted" ELSE "none"
           new(d) == [Absent EXCEPT !.status = st(d), !.reason = re(d)]
<1>2. \A d : st(d) \in Statuses /\ st(d) \in {"pending", "skipped"}
             /\ re(d) \in Reasons
  BY DEF Statuses, Reasons
<1>3. row' = [d \in Rows |-> IF d \in S /\ row[d].status = "absent"
                             THEN new(d) ELSE row[d]]
  BY DEF Insert
<1> HIDE DEF st, re
<1>4. \A d : /\ new(d) \in Row /\ new(d).status = st(d)
             /\ new(d).attempts = 0 /\ new(d).acked = FALSE
  BY <1>1, <1>2 DEF Row, Absent
<1> HIDE DEF new
<1> QED
  BY <1>2, <1>3, <1>4 DEF QueueTypeOK

LEMMA ClaimType ==
  ASSUME QueueTypeOK, NEW kind \in SUBSET Rows,
         NEW S \in SUBSET Due(kind), Claim(S)
  PROVE  /\ QueueTypeOK'
         /\ \A d \in S : /\ row'[d].status = "processing"
                         /\ row'[d].attempts = row[d].attempts + 1
                         /\ row[d].status = "pending"
         /\ \A d \in Rows \ S : row'[d] = row[d]
<1> SUFFICES ASSUME NEW d \in Rows
             PROVE  /\ row'[d] \in Row
                    /\ d \in S => /\ row'[d].status = "processing"
                                  /\ row'[d].attempts = row[d].attempts + 1
                                  /\ row[d].status = "pending"
                    /\ d \notin S => row'[d] = row[d]
  BY DEF QueueTypeOK, Claim, Due
<1>1. CASE d \in S
  <2>1. /\ row[d] \in Row
        /\ row[d].status = "pending" /\ row[d].attempts < MaxAttempts
    BY <1>1 DEF QueueTypeOK, Due
  <2>2. row[d].attempts + 1 \in 0..MaxAttempts
    BY <2>1, QueueAssumption DEF Row
  <2>3. row'[d] = [row[d] EXCEPT !.status = "processing", !.age = 0,
                                 !.attempts = row[d].attempts + 1]
    BY <1>1 DEF Claim
  <2> QED
    BY <1>1, <2>1, <2>2, <2>3, ZeroTypes DEF Row, Statuses
<1>2. CASE d \notin S
  BY <1>2 DEF QueueTypeOK, Claim
<1> QED
  BY <1>1, <1>2

LEMMA MarkSentType ==
  ASSUME QueueTypeOK, NEW d \in Rows, NEW acked \in BOOLEAN, MarkSent(d, acked)
  PROVE  /\ QueueTypeOK'
         /\ row'[d].status = "sent"
         /\ row'[d].attempts = row[d].attempts
         /\ row'[d].acked = acked
         /\ \A e \in Rows \ {d} : row'[e] = row[e]
<1> DEFINE r == [row[d] EXCEPT !.status = "sent", !.age = 0, !.acked = acked]
<1>1. r \in Row
  BY ZeroTypes DEF QueueTypeOK, Row, Statuses
<1>2. row' = [row EXCEPT ![d] = r]
  BY DEF MarkSent
<1>3. r.status = "sent" /\ r.attempts = row[d].attempts /\ r.acked = acked
  BY DEF QueueTypeOK, Row
<1> HIDE DEF r
<1> QED
  BY <1>1, <1>2, <1>3, OneRow

LEMMA MarkSkippedType ==
  ASSUME QueueTypeOK, NEW d \in Rows, MarkSkipped(d)
  PROVE  /\ QueueTypeOK'
         /\ row'[d].status = "skipped"
         /\ row'[d].attempts = row[d].attempts
         /\ row'[d].acked = row[d].acked
         /\ \A e \in Rows \ {d} : row'[e] = row[e]
<1> DEFINE r == [row[d] EXCEPT !.status = "skipped", !.age = 0,
                               !.reason = "not_wanted"]
<1>1. r \in Row
  BY ZeroTypes DEF QueueTypeOK, Row, Statuses, Reasons
<1>2. row' = [row EXCEPT ![d] = r]
  BY DEF MarkSkipped
<1>3. /\ r.status = "skipped" /\ r.attempts = row[d].attempts
      /\ r.acked = row[d].acked
  BY DEF QueueTypeOK, Row
<1> HIDE DEF r
<1> QED
  BY <1>1, <1>2, <1>3, OneRow

LEMMA ReleaseType ==
  ASSUME QueueTypeOK, NEW d \in Rows, ReleaseToPending(d)
  PROVE  /\ QueueTypeOK'
         /\ row'[d].status = "pending"
         /\ row'[d].acked = row[d].acked
         /\ \A e \in Rows \ {d} : row'[e] = row[e]
<1> DEFINE n == IF row[d].attempts > 0 THEN row[d].attempts - 1 ELSE 0
           r == [row[d] EXCEPT !.status = "pending", !.age = 0, !.wait = 0,
                               !.attempts = n]
<1>1. n \in 0..MaxAttempts
  BY QueueAssumption DEF QueueTypeOK, Row
<1>2. row' = [row EXCEPT ![d] = r]
  BY DEF ReleaseToPending
<1> HIDE DEF n
<1>3. r \in Row
  BY <1>1, ZeroTypes DEF QueueTypeOK, Row, Statuses
<1>4. r.status = "pending" /\ r.acked = row[d].acked
  BY DEF QueueTypeOK, Row
<1> HIDE DEF r
<1> QED
  BY <1>2, <1>3, <1>4, OneRow

LEMMA MarkFailedType ==
  ASSUME QueueTypeOK, NEW d \in Rows, NEW seen \in 0..MaxAttempts,
         NEW retryable \in BOOLEAN, MarkFailed(d, seen, retryable)
  PROVE  /\ QueueTypeOK'
         /\ \/ row'[d].status = "pending"
            \/ /\ row'[d].status = "dead_letter"
               /\ \/ row'[d].reason = "permanent_failure"
                  \/ seen >= MaxAttempts
         /\ row'[d].attempts = row[d].attempts
         /\ row'[d].acked = row[d].acked
         /\ \A e \in Rows \ {d} : row'[e] = row[e]
<1>1. CASE retryable /\ seen < MaxAttempts
  <2> DEFINE r == [row[d] EXCEPT !.status = "pending", !.age = 0,
                                 !.wait = Backoff(seen)]
  <2>1. r \in Row
    BY ZeroTypes, BackoffType DEF QueueTypeOK, Row, Statuses
  <2>2. row' = [row EXCEPT ![d] = r]
    BY <1>1 DEF MarkFailed
  <2>3. /\ r.status = "pending" /\ r.attempts = row[d].attempts
        /\ r.acked = row[d].acked
    BY DEF QueueTypeOK, Row
  <2> HIDE DEF r
  <2> QED
    BY <1>1, <2>1, <2>2, <2>3, OneRow
<1>2. CASE ~(retryable /\ seen < MaxAttempts)
  <2> DEFINE q == IF retryable THEN "retry_exhausted" ELSE "permanent_failure"
             r == [row[d] EXCEPT !.status = "dead_letter", !.age = 0,
                                 !.reason = q]
  <2>1. q \in Reasons
    BY DEF Reasons
  <2>2. row' = [row EXCEPT ![d] = r]
    BY <1>2 DEF MarkFailed
  <2>3. q = "permanent_failure" \/ seen >= MaxAttempts
    BY <1>2, QueueAssumption
  <2> HIDE DEF q
  <2>4. r \in Row
    BY <2>1, ZeroTypes DEF QueueTypeOK, Row, Statuses
  <2>5. /\ r.status = "dead_letter" /\ r.attempts = row[d].attempts
        /\ r.acked = row[d].acked /\ r.reason = q
    BY DEF QueueTypeOK, Row
  <2> HIDE DEF r
  <2> QED
    BY <2>2, <2>3, <2>4, <2>5, OneRow
<1> QED
  BY <1>1, <1>2

LEMMA RecoverStaleType ==
  ASSUME QueueTypeOK, NEW d \in Rows, NEW seen \in 0..MaxAttempts,
         RecoverStale(d, seen)
  PROVE  /\ QueueTypeOK'
         /\ row'[d].status = IF seen < MaxAttempts THEN "pending"
                                                   ELSE "dead_letter"
         /\ row'[d].attempts = row[d].attempts
         /\ row'[d].acked = row[d].acked
         /\ \A e \in Rows \ {d} : row'[e] = row[e]
<1>1. CASE seen < MaxAttempts
  <2> DEFINE r == [row[d] EXCEPT !.status = "pending", !.age = 0, !.wait = 0]
  <2>1. r \in Row
    BY ZeroTypes DEF QueueTypeOK, Row, Statuses
  <2>2. row' = [row EXCEPT ![d] = r]
    BY <1>1 DEF RecoverStale
  <2>3. /\ r.status = "pending" /\ r.attempts = row[d].attempts
        /\ r.acked = row[d].acked
    BY DEF QueueTypeOK, Row
  <2> HIDE DEF r
  <2> QED
    BY <1>1, <2>1, <2>2, <2>3, OneRow
<1>2. CASE ~(seen < MaxAttempts)
  <2> DEFINE r == [row[d] EXCEPT !.status = "dead_letter", !.age = 0,
                     !.reason = "retry_exhausted_after_stale_recovery"]
  <2>1. r \in Row
    BY ZeroTypes DEF QueueTypeOK, Row, Statuses, Reasons
  <2>2. row' = [row EXCEPT ![d] = r]
    BY <1>2 DEF RecoverStale
  <2>3. /\ r.status = "dead_letter" /\ r.attempts = row[d].attempts
        /\ r.acked = row[d].acked
    BY DEF QueueTypeOK, Row
  <2> HIDE DEF r
  <2> QED
    BY <1>2, <2>1, <2>2, <2>3, OneRow
<1> QED
  BY <1>1, <1>2

LEMMA ReplayType ==
  ASSUME QueueTypeOK, NEW d \in Rows, ReplayDeadLetter(d)
  PROVE  /\ QueueTypeOK'
         /\ row'[d].status = "pending"
         /\ row'[d].attempts = row[d].attempts
         /\ row'[d].acked = row[d].acked
         /\ \A e \in Rows \ {d} : row'[e] = row[e]
<1> DEFINE r == [row[d] EXCEPT !.status = "pending", !.wait = 0, !.age = 0,
                               !.reason = "none"]
<1>1. r \in Row
  BY ZeroTypes DEF QueueTypeOK, Row, Statuses, Reasons
<1>2. row' = [row EXCEPT ![d] = r]
  BY DEF ReplayDeadLetter
<1>3. /\ r.status = "pending" /\ r.attempts = row[d].attempts
      /\ r.acked = row[d].acked
  BY DEF QueueTypeOK, Row
<1> HIDE DEF r
<1> QED
  BY <1>1, <1>2, <1>3, OneRow

LEMMA TickType ==
  ASSUME QueueTypeOK, Tick
  PROVE  /\ QueueTypeOK'
         /\ \A d \in Rows : /\ row'[d].status = row[d].status
                            /\ row'[d].attempts = row[d].attempts
                            /\ row'[d].acked = row[d].acked
                            /\ row'[d].reason = row[d].reason
<1> DEFINE top(d)   == AgeLimit(row[d])
           wait(d)  == IF row[d].wait > 0 THEN row[d].wait - 1 ELSE 0
           age(d)   == IF row[d].age < top(d) THEN row[d].age + 1
                                              ELSE row[d].age
<1>1. row' = [d \in Rows |-> [row[d] EXCEPT !.wait = wait(d), !.age = age(d)]]
  BY DEF Tick
<1>2. ASSUME NEW d \in Rows
      PROVE  row[d] \in Row /\ wait(d) \in 0..RetryCap /\ age(d) \in 0..AgeCap
  <2>1. row[d] \in Row
    BY DEF QueueTypeOK
  <2>2. row[d].age \in 0..AgeCap /\ row[d].wait \in 0..RetryCap
    BY <2>1 DEF Row
  <2>3. top(d) \in {Lease, Window, row[d].age}
    BY DEF AgeLimit
  <2>4. age(d) \in 0..AgeCap
    BY <2>2, <2>3, ZeroTypes, QueueAssumption
  <2>5. wait(d) \in 0..RetryCap
    BY <2>2, QueueAssumption
  <2> QED
    BY <2>1, <2>4, <2>5
<1> HIDE DEF wait, age
<1> SUFFICES ASSUME NEW d \in Rows
             PROVE  /\ row'[d] \in Row
                    /\ row'[d].status = row[d].status
                    /\ row'[d].attempts = row[d].attempts
                    /\ row'[d].acked = row[d].acked
                    /\ row'[d].reason = row[d].reason
  BY <1>1 DEF QueueTypeOK
<1>3. row'[d] = [row[d] EXCEPT !.wait = wait(d), !.age = age(d)]
  BY <1>1
<1> QED
  BY <1>2, <1>3 DEF Row

-----------------------------------------------------------------------------
(* For every number of rows and callers, every order of calls and every    *)
(* value they may have read before: the columns keep their types and       *)
(* attempts its bound.                                                     *)
THEOREM QueueTypeCorrect == QueueSpec => []QueueTypeOK
<1>1. QueueInit => QueueTypeOK
  BY QueueAssumption
  DEF QueueInit, QueueTypeOK, Absent, Row, Statuses, Reasons, AgeCap
<1>2. QueueTypeOK /\ [QueueNext]_row => QueueTypeOK'
  <2> SUFFICES ASSUME QueueTypeOK, [QueueNext]_row
               PROVE  QueueTypeOK'
    OBVIOUS
  <2>1. CASE \E S, unwanted \in SUBSET Rows : Insert(S, unwanted)
    BY <2>1, InsertType
  <2>2. CASE \E kind \in {GroupRows, DmRows, Rows} :
               \E S \in SUBSET Due(kind) : Claim(S)
    BY <2>2, ClaimType DEF Rows
  <2>3. CASE \E d \in {x \in Rows : row[x].status # "absent"} :
               \/ \E acked \in BOOLEAN : MarkSent(d, acked)
               \/ MarkSkipped(d)
               \/ ReleaseToPending(d)
               \/ \E seen \in 0..MaxAttempts, r \in BOOLEAN :
                    MarkFailed(d, seen, r)
               \/ \E seen \in 0..MaxAttempts : RecoverStale(d, seen)
               \/ ReplayDeadLetter(d)
    BY <2>3, MarkSentType, MarkSkippedType, ReleaseType, MarkFailedType,
       RecoverStaleType, ReplayType
  <2>4. CASE Tick
    BY <2>4, TickType
  <2>5. CASE UNCHANGED row
    BY <2>5 DEF QueueTypeOK
  <2> QED
    BY <2>1, <2>2, <2>3, <2>4, <2>5 DEF QueueNext
<1> QED
  BY <1>1, <1>2, PTL DEF QueueSpec
=============================================================================
