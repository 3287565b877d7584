---------------------------- MODULE SourceHealth ----------------------------
(***************************************************************************)
(* The circuit breaker around a fetcher (core/circuit_breaker.py) over its *)
(* row of source_health (core/db.py): every ingestion run asks whether the *)
(* circuit is open, tries the fetcher up to three times and records how it *)
(* went.  Any of the three statements may fail, which is only logged.      *)
(* A fetcher that returns is a success, whether it found anything or not;  *)
(* the helpers of sources/http_utils.py turn every failure of a request    *)
(* into None, so that fetchers see an empty answer.                        *)
(***************************************************************************)
EXTENDS Scrapers

CONSTANTS
  MaxRetries,     \* max_retries of fetch_with_retry (2)
  FailureLimit,   \* consecutive failures that open the circuit (3)
  MaxDbErrors     \* bound on statements that fail

ASSUME HealthAssumption == MaxRetries \in Nat /\ FailureLimit \in Nat \ {0} /\ MaxDbErrors \in Nat

VARIABLES
  failures,   \* consecutive_failures, counted up to FailureLimit + 1
  circuit,    \* "open" while circuit_open_until > now()
  attempt,    \* the attempt of this run, 0 between runs
  dbErrors,
  oddities    \* attempts that were shown a card or a body they could not read
              \* since a success was recorded (history, counted up to OddLimit)

health == <<failures, circuit>>
healthVars == <<scraperVars, health, attempt, dbErrors, oddities>>

AtMost(n, bound) == IF n < bound THEN n ELSE bound
OddLimit == FailureLimit * (MaxRetries + 1)

HealthInit ==
  /\ ScraperInit
  /\ failures = 0 /\ circuit = "closed" /\ attempt = 0
  /\ dbErrors = 0 /\ oddities = 0

DbError == dbErrors < MaxDbErrors /\ dbErrors' = dbErrors + 1

(* is_circuit_open: an error of the query reads as closed.                 *)
StartRun ==
  /\ attempt = 0
  /\ (circuit = "closed" /\ UNCHANGED dbErrors) \/ DbError
  /\ attempt' = 1
  /\ BeginFetch
  /\ UNCHANGED <<scraper, health, oddities>>

SawOdd == garbled \/ \E c \in shown : c.odd
CountOddity == oddities' = IF SawOdd THEN AtMost(oddities + 1, OddLimit) ELSE oddities

RetryFetch ==
  /\ run = "raised" /\ attempt <= MaxRetries
  /\ attempt' = attempt + 1
  /\ CountOddity
  /\ BeginFetch
  /\ UNCHANGED <<scraper, health, dbErrors>>

EndRun ==
  /\ attempt' = 0
  /\ run' = "idle" /\ query' = 1 /\ pageNo' = 1 /\ batch' = {} /\ keys' = {}
  /\ jobs' = NoJobs /\ shown' = {} /\ garbled' = FALSE
  /\ UNCHANGED scraper

RecordEmptyToo ==   \* mutant: an empty result counts as a failure
  /\ run = "returned"
  /\ \/ /\ jobs # NoJobs
        /\ failures' = 0 /\ circuit' = "closed" /\ oddities' = 0
     \/ /\ jobs = NoJobs
        /\ failures' = AtMost(failures + 1, FailureLimit + 1)
        /\ circuit' = IF failures + 1 >= FailureLimit THEN "open" ELSE circuit
        /\ UNCHANGED oddities
  /\ UNCHANGED dbErrors
  /\ EndRun

RecordSuccess ==
  /\ run = "returned"
  /\ \/ failures' = 0 /\ circuit' = "closed" /\ oddities' = 0 /\ UNCHANGED dbErrors
     \/ DbError /\ UNCHANGED <<health, oddities>>
  /\ EndRun

RecordFailure ==
  /\ run = "raised" /\ attempt > MaxRetries
  /\ CountOddity
  /\ \/ /\ failures' = AtMost(failures + 1, FailureLimit + 1)
        /\ circuit' = IF failures + 1 >= FailureLimit THEN "open" ELSE circuit
        /\ UNCHANGED dbErrors
     \/ DbError /\ UNCHANGED health
  /\ EndRun

(* The hour is over; the counter stays where it is.                        *)
HourPasses ==
  /\ circuit = "open"
  /\ circuit' = "closed"
  /\ UNCHANGED <<scraperVars, failures, attempt, dbErrors, oddities>>

HealthNext ==
  \/ StartRun \/ RetryFetch \/ RecordSuccess \/ RecordFailure \/ HourPasses
  \/ FetchStep /\ UNCHANGED <<health, attempt, dbErrors, oddities>>

HealthSpec == HealthInit /\ [][HealthNext]_healthVars

-----------------------------------------------------------------------------
(* The circuit of a source opens only when three runs, three attempts      *)
(* each, met a card or a body they could not read and no success was       *)
(* recorded since.  A site that is down, blocks the scraper or shows       *)
(* nothing never opens it, and neither does any of the fetchers that guard *)
(* each card ("never raise exceptions, return [] on failure",              *)
(* ADDING_SOURCES.md).                                                     *)
OnlyOddCardsTrip ==
  circuit = "open" => oddities = OddLimit /\ scraper \in {"wuzzuf", "workable_jobs", "jsearch"}
=============================================================================
