# TLA+ models of the programming-jobs bot

The repository runs a Telegram bot that collects programming jobs from some
thirty sources, stores them in PostgreSQL and delivers them to group topics and
to subscribers. This directory models the parts of it whose correctness depends
on order, failure and concurrency, checks them with TLC on small instances, and
proves the main properties with TLAPS for every size. All paths below are
relative to `src/`.

## 1. The system

### Components, their state and their operations

| Component | State | Operations |
|---|---|---|
| Delivery queue (`core/delivery_queue.py`, migration 007) | table `job_deliveries`: status, attempts, next_attempt_at, processing_started_at, sent_at, message_id | insert, claim, mark sent / skipped / failed, release, recover stale, replay, backfill |
| Delivery scheduler (`core/delivery_scheduler.py`, `server.py:58-104`) | the running cycle: batch, time budget | recover, claim and deliver group rows, claim and deliver DM rows, repeat |
| Topic delivery (`bot/sender.py`) | the record in hand, the try of `_send_with_retry` | send with retries, mark, aggregate message id on the job |
| Subscriber delivery (`bot/notifications.py`) | per-batch user counts | rate limit, re-check alerts and blacklist, send once, mark, disable a user |
| Ingestion (`main.py`, `server.py:37-55`) | a run's job list; tables `jobs`, `source_runs` | fetch, enrich, filter, dedup, insert, enqueue |
| Backfill (`core/delivery_queue.py:585-653`) | - | find gaps, insert group rows, find gaps, insert DM rows |
| Source fetchers (`sources/*.py`) | within one call: pages, searches, the keys seen so far | search, read cards, drop repeats |
| Circuit breaker (`core/circuit_breaker.py`, `core/db.py:426-491`) | table `source_health` | check, record success or failure, fetch with retries |
| Database layer (`core/db.py`, `core/db_async.py`) | connection pool; all tables | one transaction per call; build and close the pool |
| Alerts and wizard (`bot/callbacks.py`, `bot/commands.py`) | tables `users`, `user_alerts`; per-chat `user_data` | wizard steps, create, edit, delete with re-packing, toggle DMs |
| User records (`bot/commands.py`, `bot/callbacks.py`, `core/db.py`) | `users.notify_dm`, `saved_jobs`, `applied_jobs`, the blacklist | subscribe, block, save and leaf through, apply, streak, add and remove entries |
| Polling supervisor (`bot/polling.py`, `bot/app.py`) | current application, failure streak, stopping flag | start with retries, supervise, recover, stop, exit |
| Server lifecycle (`server.py`) | the tasks of supervisor, ingestion and delivery | start, cancel and await in turn, stop, close the pool |
| Enrichment, filters, matching (`core/enrichment.py`, `core/filtering.py`, `core/subscription_matching.py`, ...) | none | pure functions of a job and an alert |
| Salary cache (`core/egytech.py`) | in-memory cache, 24 h | look up, refresh |
| Monitoring, API, scripts | read-only, or outside the process | - |

How they interact: the fetch loop and the delivery loop are tasks of one
backend process and share only the database. Ingestion stores jobs and inserts
delivery rows; delivery cycles claim them; user commands change alerts and
`notify_dm` while rows wait. Every database call is a transaction of its own on
a worker thread, so anything can happen between two calls. Nothing prevents a
second process on the same database: the Compose file has a `bot` service that
runs `python main.py`, the backfill is a script, and the queue is written for
several delivery workers (`FOR UPDATE SKIP LOCKED`, leases), although the
Compose stack starts one.

### What is hard, and what makes each part correct

- *Delivery queue and workers.* No `mark_*` statement looks at the row's status
  or owner, attempts is counted by the claim and compared in four places,
  recovery loses its row locks before it writes, a request that timed out may
  have been shown, and a worker may die between any two calls. Correct means:
  one owner per claim, bounded copies per claim, no attempt lost, settled rows
  stay settled, every queued row is settled in the end.
- *Rate limit.* The count is read once per batch while the window moves.
  Correct means: the window's limit holds.
- *Ingestion.* Jobs and rows are written by separate transactions, runs may
  overlap, a backfill may run beside them. Correct means: no stored job is
  forgotten, a job's rows follow the run that stored it, look-alikes are posted
  once, nothing is queued twice.
- *Fetchers and circuit.* Searches fail one by one, pages repeat jobs, a card
  or a whole answer may not be readable; some fetchers skip it, some end. Correct
  means: a fetch that returns lost no job beside it and has none twice, and only
  failures in a row open a circuit.
- *Alerts and wizard.* Buttons never expire, name an alert by a position that
  deletions move, and all share one `user_data`. Correct means: positions stay
  packed and ordered, an edit overwrites one alert once and keeps what the
  wizard does not ask for.
- *User records.* A refusal is written down after the user may have come back;
  pages are cut by offset from a list that grows in front. Correct means: who
  subscribes is notified, leafing skips nothing, the streak is the chain it
  claims to be, one removal unblocks a name.
- *Supervisor and lifespan.* Cancellation hits any await, a stop may time out
  and leave its poller behind, callbacks of every instance write one streak.
  Correct means: no unowned poller, a lost one is replaced, a fresh one is
  not judged by errors from before its start, a shutdown ends, ingestion goes on.
- *Pool.* Built under a double-checked lock and closed without it while threads
  are inside a statement. Correct means: every connection is accounted for.
- *Rules.* Country, topics and geographic filter read one text three times.
  Correct means: they agree.

`PROJECT.json` lists every hazard with its line and the properties that cover it.

## 2. Modules

| Module | Models | Built on |
|---|---|---|
| `DeliveryQueue` | the table and one operator per SQL statement; `QueueSpec` lets anybody call anything at any time | - |
| `DeliveryCycle` | delivery workers on it, one action per transaction or Telegram call; producer, users, clock, faults | extends `DeliveryQueue` |
| `RowLifecycle` | what the queue promises of one row: no worker, batch, transaction or crash | - |
| `Ingestion` | live, seed and backfill runs on the tables `jobs` and `job_deliveries` | extends `DeliveryQueue` |
| `UserAlerts` | the rows of one user in `user_alerts`, one operator per statement | - |
| `AlertWizard` | the handlers on them: commands, wizard, cards, errors, restarts | extends `UserAlerts` |
| `AlertList` | what the user is promised of them: a numbered list | - |
| `UserRecords` | `notify_dm` beside a delivery, saved jobs, applications and streak, blacklist | - |
| `Scrapers` | twelve fetchers: searches, pages, cards | - |
| `SourceHealth` | `fetch_with_retry` around them and the circuit | extends `Scrapers` |
| `ConnectionPool` | `_get_pool`, `_get_conn`, `close_pool` under threads | - |
| `JobRules` | one job through enrichment, filters, one alert and the blacklist | - |
| `PollingSupervisor` | `PollingSupervisor.run` and `stop`, the instances, the error streak, the network | - |
| `ServerLifecycle` | the lifespan, the two loops and the restart by Docker | extends `PollingSupervisor` |
| `MCDeliveryCycle`, `MCIngestion`, `MCServerLifecycle` | the values TLC uses | |
| `MCComponents` | the parts that share no state in one run | extends `AlertWizard`, `UserRecords`, `SourceHealth`, `ConnectionPool`, `JobRules` |
| `DeliveryQueueProofs`, `DeliveryCycleProofs`, `DeliverySafetyProofs`, `DeliverySingleProofs`, `IngestionProofs`, `ServerProofs` (supervisor, lifespan and pool), `SubscriberProofs` (alerts, records, geography), `SourceProofs` (fetchers and circuit) | the theorems | |

### DeliveryQueue

`row[d]` is the row of tuple `d` (job, type, recipient); the tuple is its
identity because of the unique constraint, and `absent` is a tuple that was
never inserted. Of the timestamps only what is compared with `now()` is kept:
`wait` is the time left until `next_attempt_at`, `age` the time since
`processing_started_at` or `sent_at` (one column is read in each status). Both
stop where nothing depends on them any more: `age` at the lease or the window.
`worker_id`, `last_error` and `failed_at` are written and never read, and are
left out. `message_id` is kept as "is not NULL". `Backoff` is
`base * 2^(attempts-1)` with its cap (24 h in the code).

### DeliveryCycle

A worker's local state holds what the code keeps in variables: the SELECT of
recovery (`stale`), the claimed records (`todo`), the record in hand (`cur`,
with the attempts value the claim returned), the try of `_send_with_retry`, the
answer, `mark_delivery_failed`'s SELECT (`seen`), `user_sent_counts`
(`counts`). `pc` says where it is. The order of records in a batch is left open,
which includes the order of the code. Particular points:

- `mark_delivery_failed` is two transactions (`ReadAttempts`, `WriteFailure`),
  recovery is one SELECT and one UPDATE per row.
- A send has every outcome the library has: answered, refused, RetryAfter,
  unanswered; unanswered and possibly shown. Whether an error is retryable is
  decided by its text in the code and by choice here.
- Whether alerts and blacklist still want a DM is a choice: their owner may
  have edited them at any time.
- `CaughtFault` is a database error inside the `try` blocks, `Abandon` a crash,
  a cancelled task, or an error outside them. `faults` bounds their number.
- "job not found" and "missing job or user" are left out: the foreign key
  cascades and users are never deleted.

History variables: `posts[d][k]`, the messages shown under claim `k` of row
`d`; `deferred`, the rows released in this cycle.

### Ingestion

A runner's `pc` follows `main()`: fetch, dedup by `unique_id`, fuzzy dedup,
insert, build DM rows, insert group rows, insert DM rows; or
`backfill_unsent_jobs`: group gaps, group rows, DM gaps, build, DM rows. Each
stage is one transaction. The sources offer any set of jobs; `LookAlike` is any
relation (the ratio of `SequenceMatcher` is not symmetric); whom alerts let
through is any subset, read once. `jobs.sent_at` is NULL for every job, because
`mark_job_sent` has no caller and the queue path sets only
`job_deliveries.sent_at`: hence `Unsent == jobs`. History variables: `inserter`
(which run stored a job), `origin` (the mode of the run that queued a row),
`overlap` (which runs were under way together), `lost`.

### UserAlerts and AlertWizard

`alerts[i]` is the row with id `i`; every statement names the user, so one user
stands for all. Updates are handled one at a time (the Application is built
without `concurrent_updates`), so a handler is one action, and a database or
Telegram error inside it is one of its outcomes: `HandleSubSourceDone` may have
written without confirming, or have popped `edit_position` without writing. A
chat may hold any number of old keyboards, so every button of every step can be
tapped at any time; what only shows a message is no action. `draft` and `edit`
are `user_data`'s `sub_*` keys and `edit_position`. Deleting in the middle may
fail on the unique constraint (`RepackCanFail`), which rolls back the whole
transaction. History: `owner`, the alert whose Edit button filled the draft.

`AlertList` is the promise without rows, positions, keyboards and errors: a new
alert comes last, a removed one makes the others move up, an edit replaces one
entry once. `ImplementsAlertList` maps the stored row with position `p` to entry
`p` (`InOrder`, as `get_user_alerts` reads them) and `edit_position` to the
number under edit. An edit that outlives a deletion hits the next number, in the
list as in the code.

### UserRecords

Four parts without a common column, each with its variables and next-state
relation. *Link*: a DM is queued, checked, sent and perhaps refused, and the
refusal is written down later, while its reader blocks, unblocks and
subscribes. *Saved*: `GetSavedJobs` is the `LIMIT`/`OFFSET` query;
`HandleSavedPage` is any Prev or Next button above the page shown last.
*Applied*: days instead of timestamps; `Current` and `Longest` are the two
loops of `get_streak` over the DISTINCT days, newest first (`NewestFirst` is the
`for`, `CountStep` and `RunStep` are its bodies). *Blacklist*: lists compared through `Lower`.

### Scrapers and SourceHealth

A card is a record of what decides its fate: text, link, second identifier, and
whether reading it raises (`odd`). A search shows any short sequence of cards,
none, or a body that is no list of cards (`GarbledPage`: `{"jobs": null}`,
`{"data": null}`, a state object of another shape), which ends the three
fetchers that read it outside a `try`. The nine that guard each card share
`Guarded`, but for Dubizzle, whose pages without cards are read for bare links
(`DubizzleLinks`: every occurrence of a link is read at its first place);
Wuzzuf, Workable and JSearch have actions of their own. Workable does not read
an item whose id it has (`Attempted`). Dubizzle, NaukriGulf and Glassdoor make
the site's front page of an empty link (`SiteUrl`). What a fetch has gathered is
a bag, `jobs[c]` saying how often card `c` will be returned: nothing reads the
order of the list. `SourceHealth` calls any of them, tries again after an
exception, and records the outcome; each database statement may fail, and the
hour may pass at any time. History: `shown` and `garbled`, what this attempt was
shown; `oddities`, the attempts that met an unreadable card or body since the
last recorded success.

### ConnectionPool

`_get_pool` reads the global outside the lock, inside it, and once more at its
`return`; `close_pool` closes and then resets the global without the lock. Each
read and write is an action of its own. A borrowed connection of a pool that
was closed meanwhile cannot be given back (psycopg2 raises).

### JobRules

Texts are abstracted to which table entries occur in them. `stage` takes a job
from its fetcher through `enrich_job` and `filter_jobs` to the decision about
one user. The order of the country table is kept, because the first country
found wins. The function tables are as short as their use allows: which
keyword leads to which topic is an input (`fields`).

### PollingSupervisor and ServerLifecycle

`pc` is the await at which `run()` stands. `closing` and `closing2` are the
local variables of the teardowns of `run()` and `stop()`, which empty the slot
before their await. `streak` is `_error_streak_started_at`, reduced to none,
recent, or older than the threshold; any polling instance may write it. `up` is
whether Telegram can be reached. `os._exit(1)` is `pc = "exited"`, from which
Docker starts a new process (`ServerRestart`). The lifespan cancels and awaits
the three tasks in turn (`phase`), then stops the supervisor and closes the
pool. The loops are working, asleep or over; what they do inside is `Ingestion`
and `DeliveryCycle`. History: `aged` (the streak grew old since the last
start), `began` (the instance whose error began the streak), `excused`
(instances whose stop failed).

### MCComponents

The parts in it share no state and no property spans two, so every behaviour
moves one part, chosen by `focus` at the start: the run explores the sum of the
state spaces instead of their product. `JobRules` is the only part whose values
are long; the module builds its jobs and alerts by varying few fields at a time.

## 3. Runs

| Run | Instance | Shows |
|---|---|---|
| `DeliveryConcurrent` | 1 topic row, 2 workers, 3 attempts, 2 tries, lease 1, 1 fault, 1 replay | type invariant, `OneWorkerPerClaim`, `CopiesPerClaim`, `NoEarlyGiveUp`, `AckedWasShown` |
| `DeliverySingle` | 1 topic and 1 DM row, 1 worker, 2 attempts, 1 fault | `HeldIsProcessing`, `PendingCanBeClaimed`, `ShownOnlyWhileProcessing`, `ImplementsLifecycle` (refinement), `EveryRowSettles` (liveness) |
| `DeliveryRateLimit` | 2 DM rows of one user, limit 1, window 2, 1 unconfigured topic row, 1 fault | `WindowRespected`, `OneDmPerClaim`; `EveryRowSettles` (liveness) with rows the limit puts back |
| `IngestionRaces` | 2 look-alike jobs, one without topics, 1 DM row, 2 runners, 3 runs of which 1 backfill, 1 lost run | type invariant, `NoJobForgotten`, `RowsFollowTheirJob`, `LookalikesShareRun`, `SentStaysSent` |
| `Components` | 3 alert ids, limit 2, 1 fault; 4 saved jobs, pages of 2, 6 days, names of which two differ in case; 12 fetchers, 2 searches of 2 pages of 2 cards, 3 failures of 3 attempts, 1 database error; 2 threads, 2 pools of 1 connection; 128 jobs by place, remoteness and source, 48 by keywords, topics and level, 48 alerts | wizard: types, `PositionsPacked`, `OverwriteUsesUpEdit`, `EditKeepsKeywords`, `ImplementsAlertList` (refinement); records: `SubscribedIsNotified`, `LeafingSkipsNothing`, `StreakIsAChain`, `StreakLostByAMissedDay`, `BlacklistedOnce`; sources: `EachOfferOnce`, `OnlyOddCardsTrip`; `NothingLeaks`; `GeographyAgrees` |
| `Server` | 3 Applications, 2 startup retries, 1 recovery attempt, 1 stray poller | types, `NoStrayPoller`, `FreshGetsItsThreshold`, `ShutdownStartsNothing`; liveness: `LostPollerIsReplaced`, `BotComesBack`, `ShutdownTerminates`, `IngestionKeepsRunning` |

Six more runs check a sentence of a docstring, a comment or a document that the
code does not keep; TLC shows the behaviour, and `PROJECT.json` quotes the line.

| Run | Sentence | What happens |
|---|---|---|
| `DeliveryReplay` | exhausted records "are moved to dead_letter immediately" | a replayed row keeps its attempts, is never selected again and stays pending |
| `DeliveryFlooded` | "unreachable, last attempt raises" | RetryAfter on the last try returns None; the row is marked sent and nothing was shown |
| `DeliveryReopened` | "successful topics are not retried" | the aggregate update fails after the mark, and the shared `except` reopens the row |
| `DeliveryDeferred` | "should be retried on the next cycle" | a released row is due at once, and the same cycle takes it again |
| `IngestionCrash` | "all inserted jobs are now enqueued" | a run lost between the two transactions; later runs know the job (no backfill script is run) |
| `IngestionBackfill` | "Sent jobs are intentionally not requeued" | the backfill selects on a column the queue path never sets |

Why the bounds are enough. Two workers and one row are what a race needs; three
attempts leave room for a first claim, a stolen one and a last one; a lease of
one tick lets it expire anywhere. With one worker a lease still expires inside
the cycle, but only that worker recovers rows, at the start of a cycle: this is
why `DeliverySingle` may claim more. Two DM rows and a limit of one are a full
window, and a window of two ticks makes rows leave it one at a time. Two
runners and three runs allow two runs to overlap and a third to come after
both; two look-alike jobs, one with a DM row and one without topics, give every
kind of row. One fault at an arbitrary step is where each of the six
disagreements and each of the protections shows; a second adds length, not
kinds of interleaving, and for the proved properties the number is arbitrary.

Of `Components`: with three alerts a deletion can move two others, which is
where the re-packing can fail; a limit below the number of ids lets two wizards
both store. Four saved jobs fill two pages with jobs saved between them; six
days hold a broken chain and a second one. Two cards per page and two pages let
a repeat fall on the same page, the next page and the next search, and the five
kinds of card are those on which the fetchers disagree; one database error can
hit the check, a success or a failure. Two threads are what the lock is for, a
second pool is what it must prevent. Jobs vary over every place of up to three
countries, stated or not, and every kind of remoteness. The alert ids are
symmetric (the SERIAL values are compared only for equality). Deadlock is not
checked: days, database errors and pools run out, and a decided job is over.

Of `Server`: an instance of the supervisor, one that `stop()` still holds and
one that could not be stopped are three; restarts are not bounded, because a
restart leads back to an initial state. Deadlock is not checked: after a
shutdown nothing runs.

`IngestionRaces` treats the runners as symmetric (nothing tells them apart) and
its configurations switch the deadlock check off: when the bounded number of
runs has been used, the model stops. The delivery runs check deadlock.

### Fairness

`DeliveryCycle!FairSpec` assumes that a worker that can take a step takes one:
a delivery loop is running and its calls have timeouts. That the loop goes on
is an assumption and not a fact: `server.py:73` can end it until the process is
restarted (`DeliveryOpens` in `ServerLifecycle`), and rows wait until then. It
also assumes that a cycle that comes to its loop head again and again claims in
some cycle and ends in some (the time budget ends a cycle, and recovery alone
does not spend the budget of every cycle), and that time passes. Nothing is
assumed of users, the producer, or faults. `EveryRowSettles` needs no
assumption on Telegram's answers: attempts run out. A deferred DM row is
settled because its window passes; `DeliveryRateLimit` has a second DM row for
that, so that rows are put back, in `DeliverySingle` the one DM row never is.
`Ingestion!FairSpec` assumes only that a run that is not lost goes on.

`ServerFairness` assumes that awaits of the supervisor return (the library's
requests and every teardown have timeouts), that a polling instance sees errors
while Telegram is away and successes while it can be reached, that a long streak
crosses the threshold, that sleeps and runs of the loops end, that the lifespan
goes on when what it awaits is over, and that Docker restarts an exited
container (`restart: unless-stopped`). Nothing is assumed of the network, of
dying updaters, of strays or of who shuts the process down.

## 4. Theorems

All of them hold for every value of the constants that satisfies the
assumptions `QueueAssumption`, `CycleAssumption` (with `NoRecordAssumption`),
`IngestionAssumption`, `AlertAssumption`, `WizardAssumption`,
`RecordsAssumption`, `PoolAssumption`, `OffersAssumption`, `ScraperAssumption`,
`HealthAssumption` and `SupervisorAssumption`: finite sets of rows, positive
attempts, lease, window, batch, tries, limits, page sizes, jobs whose fields come
from the tables, and job pages other than the site's front page. TLC evaluates
the assumptions in every run whose module has them.

- `QueueTypeCorrect`: columns keep their types and `attempts` its bound under
  any sequence of calls by anybody. One lemma per operation says what it does
  to its row and that it leaves the others alone; the modules above cite them.
- `TypeCorrect`: the workers' types, by `TypeInv`, which adds what a program
  counter says of the other variables (a record is in hand exactly while it is
  handled, a batch has one kind of row).
- `OneWorkerPerClaimHolds`, `CopiesPerClaimHolds`, `NoEarlyGiveUpHolds`,
  `AckedWasShownHolds`, by one inductive invariant `SafeInv`. None of the four
  is inductive. The argument is the claim number: the attempts of a topic row
  never decrease (only DM rows are released), and each claim takes the next
  number, so a record held by a worker is at most the row's number
  (`ClaimsCounted`), whatever recovery or a failing worker read is not ahead of
  the row (`ReadsOld`), messages are shown only under numbers already claimed
  (`PostsClaimed`) and fewer than the tries used (`PostsCounted`), and an
  answer is kept only with the record it belongs to (`AnswersShown`).
- `HeldAreProcessing`, `DmShownOnce`, `NothingShownLate`, by `SingleInv` under
  the hypothesis `OneWorker`, which is how the Compose stack runs; DM rows are
  included. The mark statements check neither status nor worker, so the argument
  is about what that worker holds: a record it has not handled yet is its row's
  current claim and nothing was shown under it (`Fresh`), only its bookkeeping
  finds the row sent already (`SentInHand`), what recovery read is still so
  when it writes, because leases are recovered between batches and the worker
  holds nothing then (`StaleOK`), and nothing was ever shown under a number
  above `attempts` (`RowOK`), which is why a number given back by the rate
  limit may be claimed again.
- `NoneStranded`: no pending row has its attempts used up, from `SingleInv` and
  `MaxReplays = 0`. The hypothesis is needed: a replay keeps the attempts, and
  the run `DeliveryReplay` shows the row it strands.
- `LifecycleImplemented`: with one worker the initial states map to initial
  states of `RowLifecycle`, and every step of a worker, a crash, a user, the
  producer or the clock maps to a move of one row, the claim of a batch, a
  message shown, or a stutter. `SingleInv` is what the mapped claim number needs:
  the last number anything was shown under is the row's `attempts` exactly when
  something was shown under the current claim.
- `WindowKept`: no subscriber has more than `DmLimit` messages marked sent in a
  window, by `WindowInv`: the count a worker goes by covers what is in the
  window, time only takes messages out of it, and a message is sent only while
  the count is below the limit.
- `IngestionTypeCorrect`, `NoJobForgottenHolds`, `RowsFollowTheirJobHolds`,
  `LookalikesShareRunHolds`, by `IngestionInv`: an active run knows of every
  run started after it (`Numbered`), holds after its insert only jobs that it
  stored itself (`Owned`), and before it only jobs whose look-alikes were
  stored by overlapping runs (`Apart`).
- `SentStaysSentHolds`, an action property, from the same invariant.
- `WizardTypes`, `PositionsStayPacked`, `OrderIsKept`,
  `OverwritesUseUpTheEdit`, `EditsKeepKeywords`, for any number of alerts,
  options and faults. The invariant (`WizardInv`) adds to the types that
  positions are packed and that the draft carries the keywords of its owner:
  without the second the last step could write other keywords. For a deletion
  the argument is that what lies behind moves up by one, so that a predecessor
  stays a predecessor.
- `AlertsAreAList`: the refinement of `AlertList` by the handlers. Below
  `MaxAlerts + 1` there is a least position that is free, and because positions
  are filled and distinct it is one more than the number of rows (`ListExists`),
  so that the rows are one list; a lemma per statement says what it does to that
  list (`CreateAppends`, `UpdateReplaces`, `SetDmReplaces`, `DeleteClosesUp`).
  `OrderIsKept` says of the rows, by their ids, what the list cannot: which
  alert is which.
- `StreaksAreChains`, `StreaksLastUntilAMissedDay`, for any jobs and days. The
  loops are recursive functions from the last day down, and what they compute is
  shown by the least day at which an invariant of the loop would fail
  (`Downwards`, from the well-foundedness of `<`; that the function exists at
  all is `LoopExists`): after day `d` the first loop
  has counted the chain from the anchor down to `d` (`Counts`), the second holds
  the longest chain within `d` and later days, and the one that ends at the last
  day it saw (`Runs`).
- `OnlyOddCardsOpenCircuits`, by `HealthInv`: an attempt raises only on a card or
  a body it could not read, which only three fetchers let out, and every
  counted failure stands for as many such attempts as a run has
  (`FailuresCounted`).
- `OffersComeOnce`, by `FetchInv`: until a fetch raises, the keys seen are those
  of its jobs, no two jobs share one, and every job a page showed is there or
  was dropped for one with its key (`Gathered`). Each fetcher's page is a step of
  one kind (`Gather`), of which it is proved once that it keeps this; what each
  fetcher adds is that it reads every worthy card, or the first anchor with its
  link (`FirstAnchorStands`), and that its key decides whether two cards are one
  job (`KeyTells`).
- `PoolNeverLeaks`, by `PoolInv`: a thread's local pool is one that was built,
  a thread that borrowed is the one its pool counts, and only the current pool
  is open.
- `ServerTypes`, `NobodyStrays`, `NothingStartsInShutdown`,
  `FreshKeepsItsThreshold`, by `ServerInv`: what each place of `run()` and
  `stop()` may hold (`Places`; a teardown empties the slot before its await, so
  no two places hold one instance unknowingly), every poller is held or excused
  (`Owned`), a streak began after the last start, by the instance of the slot or
  by one that was given up, and an old one has aged since (`StreakIsKnown`), and
  how far the shutdown is says what is over (`Order`).
- `SubscribersAreNotified` (`LinkInv`: who is owed messages is reachable and no
  refusal is on its way), `NothingSkipped` (`SavedInv`: the pages shown so far
  cover the list down to the end of the last one, wherever later savings pushed
  it), `NamesStandOnce` (`BlacklistInv`), for every page size and any jobs and
  names.
- `GeographyHolds`, by `RulesInv`: for any set of jobs and alerts, the first
  country of the table is Egypt whenever the text names Egypt, and the second is
  Saudi Arabia, which is what makes three separate readings agree.

Why `SafeInv` speaks of topic rows: `release_delivery_to_pending` gives a DM
row's claim number back, so with several workers DM rows do not have these
properties, and the models do not claim them.

Only model-checked: the five liveness properties `EveryRowSettles`,
`LostPollerIsReplaced`, `BotComesBack`, `ShutdownTerminates` and
`IngestionKeepsRunning`, because fairness and ENABLED are outside what the prover
handles, and the six disagreements with a document, which are about reachable
states.

## 5. Not modelled

- The fetchers that read a feed, an API or a company board (some twenty): they
  are sequences of the steps in `Scrapers` with other field names. Formatting
  of messages and keyboards: pure code.
- The words of the tables: which text contains which pattern is an input of
  `JobRules`. Normalisation of URLs (`Job.unique_id`) is inside the identity of
  a job in `Ingestion`.
- Support messages, `/broadcast` and the commands that only read (`/search`,
  `/top`, `/stats`, `/salary`, `/streak`'s text): one write, or none, without a
  second actor.
- Salary cache: nothing depends on its freshness. Monitoring and the HTTP API
  read only.
- `send_job_to_topics`, `send_jobs`, `notify_subscribers`: no production caller.
- Archiving and deployment workflows: outside the process. Archiving selects on
  `jobs.sent_at` and therefore finds nothing the queue delivered.
- An error reported for a transaction that did commit.
- What a worker thread of a cancelled task still writes: its transaction ends
  either way, and `Ingestion` and `DeliveryCycle` have the process lost between
  any two of them.

## 6. Observations

Met while reading for the models; each holds in the code as it is, and the
models have the behaviour where they cover the place.

- `server.py:73`: `async with bot` calls `get_me` outside every `try`. If
  Telegram cannot be reached then, the delivery loop is over until the process
  restarts (`DeliveryOpens`), while the supervisor retries and recovers.
- `docs/ADDING_SOURCES.md:144` asks fetchers never to raise. Those that follow
  it can never open their circuit: `OnlyOddCardsTrip` says so.
- `sources/wuzzuf.py`: the first anchor of a job id stands for it, so an anchor
  without text before the titled one hides the job; so do the bare links of
  `sources/dubizzle.py:197` (excluded by `Worthy`, for Dubizzle on every page).
- `sources/dubizzle.py:148`, `sources/naukrigulf.py:134` and
  `sources/glassdoor.py:110` make a job at the site's front page of an empty link.
- `bot/commands.py:47`: `/start subscribe` says "now I can send you DM alerts"
  and opens the wizard, but only `/subscribe` turns `notify_dm` on again.
- `bot/callbacks.py:322`: an edit that outlives a deletion overwrites the alert
  that moved to its position (`AlertList` has that move).
- `core/delivery_queue.py:205`: DM rows are inserted after the group rows; a
  failure between the two drops the subscribers, whom only that run has computed.
- `sources/wuzzuf.py:225` and `sources/dubizzle.py:191,219` state "Egypt" and
  "UAE" as countries; alerts compare codes (`bot/keyboards.py:94-108`,
  `core/subscription_matching.py:44`), so no location alert matches these jobs.
  Wuzzuf's seniority values likewise match no option. `GeographyAgrees` is
  stated for jobs whose country was left to the detector.
- A job that is remote by its text only passes the geographic filter but not an
  alert that asks for remote jobs (`IsRemote` against `MatchesLocations`).
- An alert with "general" and another topic is no wildcard (`MatchesTopics`);
  the wizard never makes one, the migration may.
- `/subscribe` after an abandoned edit keeps `edit_position`: the finished
  wizard overwrites the alert of that position. The limit of five is checked
  when the wizard opens only.
- `_get_pool` may return None when `close_pool` runs between its check and its
  return (`ReturnPool`); and more threads than `DB_POOL_MAXCONN` may ask at once,
  which psycopg2 answers with an error.
- Not called from the program: `should_replace_existing`,
  `fuzzy_dedup_against_db`, `send_daily_digest`, `get_delivery_stats`,
  `update_job`, `job_exists`; `_jobs_attempted` of the monitoring is never set.

## 7. Plan

1. The remaining fetchers, by the steps of `Scrapers`.
2. Support messages and the admin's answer; the salary cache.
3. `Ingestion` with the process shutdown of `ServerLifecycle`: a run lost by a
   cancellation, composed instead of assumed.
4. Two more refinements to prove: the blacklist rows as a set of names per owner,
   and a poll of ingestion as one abstract step "the new jobs and their delivery
   rows appear together", which `IngestionInv` almost gives.
