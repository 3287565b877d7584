----------------------------- MODULE SourceProofs -----------------------------
(***************************************************************************)
(* The fetchers and the circuits of their sources, for any cards, searches,*)
(* pages, retries and database errors.                                     *)
(***************************************************************************)
EXTENDS SourceHealth, FiniteSetTheorems, WellFoundedInduction, TLAPS

-----------------------------------------------------------------------------
(* The circuit                                                             *)

Unguarded == {"wuzzuf", "workable_jobs", "jsearch"}
Tries == MaxRetries + 1

(* Every counted failure stands for attempts that met something unreadable,*)
(* and so does every attempt of this run but the current one.              *)
FailuresCounted ==
  \/ oddities = OddLimit
  \/ /\ failures < FailureLimit
     /\ oddities >= failures * Tries + (IF attempt > 0 THEN attempt - 1 ELSE 0)

HealthInv ==
  /\ failures \in Nat /\ oddities \in 0..OddLimit /\ attempt \in 0..Tries
  /\ run \in {"idle", "searching", "returned", "raised"}
  /\ run = "raised" => SawOdd /\ scraper \in Unguarded
  /\ run # "idle" => attempt > 0
  /\ FailuresCounted
  /\ failures > 0 => scraper \in Unguarded
  /\ circuit = "open" => failures >= FailureLimit

LEMMA OddLimitIs == OddLimit \in Nat /\ OddLimit = FailureLimit * Tries /\ Tries \in Nat \ {0}
  BY HealthAssumption DEF OddLimit, Tries

LEMMA HealthInitInv == HealthInit => HealthInv
  BY HealthAssumption, OddLimitIs
  DEF HealthInit, ScraperInit, HealthInv, FailuresCounted

(* A fetcher only raises on a card or a body it could not read.            *)
LEMMA RaisesOnOddCards ==
  ASSUME FetchStep
  PROVE  /\ run' \in {"searching", "returned", "raised"}
         /\ run = "searching"
         /\ run' = "raised" => SawOdd' /\ scraper \in Unguarded
<1>1. ASSUME NEW cards \in Answers, NEW places \in SUBSET DOMAIN cards,
             ~Intact(cards, places), Sees(cards)
      PROVE SawOdd'
  <2>1. PICK i \in places : cards[i].odd
    BY <1>1 DEF Intact, Even
  <2>2. cards[i] \in Range(cards)
    BY <2>1 DEF Range
  <2> QED
    BY <1>1, <2>1, <2>2 DEF SawOdd, Sees
<1>2. \A cards : FirstAnchors(cards) \in SUBSET DOMAIN cards
  BY DEF FirstAnchors
<1>2a. GarbledPage => SawOdd'
  BY DEF GarbledPage, SawOdd
<1>2b. \A cards : Attempted(cards) \in SUBSET DOMAIN cards
  BY DEF Attempted
<1>3. CASE FetchWuzzuf
  BY <1>1, <1>2, <1>3, <1>2a DEF FetchWuzzuf, Searching, GarbledPage, Raise, NextQuery, NextPage, Unguarded
<1>4. CASE FetchWorkableJobs
  BY <1>1, <1>4, <1>2a, <1>2b DEF FetchWorkableJobs, Searching, GarbledPage, Raise, NextQuery, NextPage, Unguarded
<1>5. CASE FetchJSearch
  BY <1>1, <1>5, <1>2a DEF FetchJSearch, Searching, GarbledPage, Raise, NextQuery, Unguarded
<1>6. CASE FetchX \/ FetchLinkedInPosts \/ FetchDubizzle \/ FetchNaukriGulf
  BY <1>6 DEF FetchX, FetchLinkedInPosts, FetchDubizzle, FetchNaukriGulf, Guarded, Searching, NextQuery
<1>7. CASE FetchGulfTalent \/ FetchBayt \/ FetchIndeed \/ FetchGlassdoor \/ FetchLinkedIn
  BY <1>7 DEF FetchGulfTalent, FetchBayt, FetchIndeed, FetchGlassdoor, FetchLinkedIn, Guarded, Searching, NextQuery
<1> QED
  BY <1>3, <1>4, <1>5, <1>6, <1>7 DEF FetchStep

LEMMA HealthStep == HealthInv /\ [HealthNext]_healthVars => HealthInv'
<1> SUFFICES ASSUME HealthInv, [HealthNext]_healthVars PROVE HealthInv'
  OBVIOUS
<1>0. /\ MaxRetries \in Nat /\ FailureLimit \in Nat \ {0} /\ Tries = MaxRetries + 1
      /\ OddLimit \in Nat /\ OddLimit = FailureLimit * Tries
      /\ failures \in Nat /\ oddities \in 0..OddLimit /\ attempt \in 0..Tries
  BY HealthAssumption, OddLimitIs DEF HealthInv, Tries
<1>1. CASE UNCHANGED healthVars
  BY <1>1 DEF HealthInv, healthVars, health, scraperVars, fetchVars, FailuresCounted, SawOdd
<1>2. CASE StartRun
  <2>1. run' \in {"searching", "returned"} /\ UNCHANGED <<scraper, failures, circuit, oddities>> /\ attempt' = 1 /\ attempt = 0
    BY <1>2 DEF StartRun, BeginFetch, health
  <2> QED
    BY <1>0, <2>1 DEF HealthInv, FailuresCounted
<1>3. CASE RetryFetch
  <2>1. /\ run' \in {"searching", "returned"} /\ UNCHANGED <<scraper, failures, circuit>>
        /\ attempt' = attempt + 1 /\ attempt <= MaxRetries /\ run = "raised" /\ CountOddity
    BY <1>3 DEF RetryFetch, BeginFetch, health
  <2>2. oddities' = AtMost(oddities + 1, OddLimit)
    BY <2>1 DEF HealthInv, CountOddity
  <2>3. attempt > 0
    BY <2>1 DEF HealthInv
  <2>4. failures * Tries \in Int
    BY <1>0
  <2>5. FailuresCounted'
    BY <1>0, <2>1, <2>2, <2>3, <2>4 DEF HealthInv, FailuresCounted, AtMost
  <2> QED
    BY <1>0, <2>1, <2>2, <2>5 DEF HealthInv, AtMost
<1>4. CASE RecordSuccess
  <2>1. run' = "idle" /\ attempt' = 0 /\ scraper' = scraper
    BY <1>4 DEF RecordSuccess, EndRun
  <2>2. CASE failures' = 0 /\ circuit' = "closed" /\ oddities' = 0
    BY <1>0, <2>1, <2>2 DEF HealthInv, FailuresCounted
  <2>3. CASE UNCHANGED <<health, oddities>>
    BY <1>0, <2>1, <2>3 DEF HealthInv, FailuresCounted, health
  <2> QED
    BY <1>4, <2>2, <2>3 DEF RecordSuccess
<1>5. CASE RecordFailure
  <2>1. /\ run' = "idle" /\ attempt' = 0 /\ scraper' = scraper
        /\ run = "raised" /\ attempt = Tries /\ CountOddity
    BY <1>0, <1>5 DEF RecordFailure, EndRun
  <2>2. oddities' = AtMost(oddities + 1, OddLimit)
    BY <2>1 DEF HealthInv, CountOddity
  <2>3. (failures + 1) * Tries = failures * Tries + Tries /\ failures * Tries \in Int
    BY <1>0
  <2>4. failures + 1 = FailureLimit => (failures + 1) * Tries = OddLimit
    BY <1>0
  <2>5. \/ oddities' = OddLimit
        \/ failures + 1 < FailureLimit /\ oddities' >= (failures + 1) * Tries
    BY <1>0, <2>1, <2>2, <2>3, <2>4 DEF HealthInv, FailuresCounted, AtMost
  <2>6. oddities' \in 0..OddLimit
    BY <1>0, <2>2 DEF AtMost
  <2>7. scraper \in Unguarded
    BY <2>1 DEF HealthInv
  <2>8. CASE UNCHANGED health
    BY <1>0, <2>1, <2>3, <2>5, <2>6, <2>7, <2>8 DEF HealthInv, FailuresCounted, health
  <2>9. CASE /\ failures' = AtMost(failures + 1, FailureLimit + 1)
             /\ circuit' = IF failures + 1 >= FailureLimit THEN "open" ELSE circuit
    <3>1. failures' \in Nat /\ (failures + 1 < FailureLimit => failures' = failures + 1)
      BY <1>0, <2>9 DEF AtMost
    <3>2. circuit' = "open" => failures' >= FailureLimit
      BY <1>0, <2>9 DEF AtMost, HealthInv
    <3>3. FailuresCounted'
      BY <1>0, <2>1, <2>3, <2>5, <3>1 DEF FailuresCounted
    <3> QED
      BY <1>0, <2>1, <2>6, <2>7, <3>1, <3>2, <3>3 DEF HealthInv
  <2> QED
    BY <1>5, <2>8, <2>9 DEF RecordFailure
<1>6. CASE HourPasses
  BY <1>6 DEF HourPasses, HealthInv, scraperVars, fetchVars, FailuresCounted, SawOdd
<1>7. CASE FetchStep /\ UNCHANGED <<health, attempt, dbErrors, oddities>>
  <2>1. scraper' = scraper
    BY <1>7 DEF FetchStep
  <2> QED
    BY <1>7, <2>1, RaisesOnOddCards DEF HealthInv, FailuresCounted, health
<1> QED
  BY <1>1, <1>2, <1>3, <1>4, <1>5, <1>6, <1>7 DEF HealthNext

LEMMA HealthInvHolds == HealthSpec => []HealthInv
  BY HealthInitInv, HealthStep, PTL DEF HealthSpec

(* A circuit opens only for a fetcher that does not guard its cards, after *)
(* as many attempts that met an unreadable card or body as it takes, for   *)
(* any limits and errors (core/circuit_breaker.py).                        *)
THEOREM OnlyOddCardsOpenCircuits == HealthSpec => []OnlyOddCardsTrip
<1>1. HealthInv => OnlyOddCardsTrip
  BY HealthAssumption DEF HealthInv, FailuresCounted, OnlyOddCardsTrip, Unguarded
<1> QED
  BY <1>1, HealthInvHolds, PTL

-----------------------------------------------------------------------------
(* What a fetcher has gathered                                             *)

(* What the fetcher tells jobs apart by, and which cards are jobs to it.   *)
Key(name, c) ==
  CASE name \in {"x", "linkedin_posts"} -> ApplyUrl(c)
    [] name = "indeed" -> IndeedUrl(c)
    [] name \in {"dubizzle", "naukrigulf", "glassdoor"} -> SiteUrl(c)
    [] name = "workable_jobs" -> ItemId(c)
    [] OTHER -> LinkUrl(c)

(* Items without an id are not told apart.                                 *)
Named(name, c) == name = "workable_jobs" => ItemId(c) # NoLink

(* A job that was shown is there, or was dropped for one with its key; the *)
(* keys are those of the jobs, and no two jobs share one.                  *)
Found == \A c \in shown : Worthy(c) => \E d \in Jobs : SameJob(c, d)

KeysOfJobs ==
  /\ \A c \in Jobs : Named(scraper, c) => Key(scraper, c) \in keys
  /\ \A k \in keys : \E c \in Jobs : Named(scraper, c) /\ Key(scraper, c) = k
  /\ \A c, d \in Jobs :
       Named(scraper, c) /\ Named(scraper, d) /\ Key(scraper, c) = Key(scraper, d)
         => c = d /\ jobs[c] = 1

Gathered ==
  /\ jobs \in [Cards -> Nat] /\ shown \subseteq Cards
  /\ Found
  /\ scraper # "jsearch" => KeysOfJobs
  /\ scraper = "wuzzuf" => batch \subseteq keys

FetchInv == scraper \in Scrapers /\ (run # "raised" => Gathered)

LEMMA KeyIs ==
  ASSUME NEW c
  PROVE  /\ \A name \in {"x", "linkedin_posts"} : Key(name, c) = ApplyUrl(c)
         /\ Key("indeed", c) = IndeedUrl(c)
         /\ \A name \in {"dubizzle", "naukrigulf", "glassdoor"} : Key(name, c) = SiteUrl(c)
         /\ Key("workable_jobs", c) = ItemId(c)
         /\ \A name \in {"gulftalent", "bayt", "linkedin", "wuzzuf"} :
              Key(name, c) = LinkUrl(c)
  BY DEF Key

(* Two cards are one job when their keys agree, where they have one.       *)
LEMMA KeyTells ==
  ASSUME NEW c \in Cards, NEW d \in Cards, scraper \in Scrapers, scraper # "jsearch",
         Named(scraper, c)
  PROVE  SameJob(c, d) <=> Key(scraper, c) = Key(scraper, d)
<1>1. CASE scraper \in {"x", "linkedin_posts"}
  BY <1>1, KeyIs DEF SameJob, JobUrl, ApplyUrl
<1>2. CASE scraper = "indeed"
  BY <1>2, KeyIs DEF SameJob, JobUrl, IndeedUrl
<1>3. CASE scraper \in {"dubizzle", "naukrigulf", "glassdoor"}
  BY <1>3, KeyIs, ScraperAssumption DEF SameJob, JobUrl, SiteUrl
<1>4. CASE scraper = "workable_jobs"
  BY <1>4, KeyIs DEF SameJob, Named, ItemId
<1>5. CASE scraper \in {"gulftalent", "bayt", "linkedin", "wuzzuf"}
  BY <1>5, KeyIs DEF SameJob, JobUrl, LinkUrl
<1> QED
  BY <1>1, <1>2, <1>3, <1>4, <1>5 DEF Scrapers, Browser, Requests

LEMMA GatheredNothing ==
  ASSUME jobs = NoJobs, keys = {}, batch = {}, shown = {}
  PROVE  Gathered
  BY DEF Gathered, Found, KeysOfJobs, Jobs, NoJobs

LEMMA AnswerIs ==
  ASSUME NEW cards \in Answers
  PROVE  \E n \in Nat : DOMAIN cards = 1..n /\ cards \in [1..n -> Cards]
  BY DEF Answers

(* What keeping the cards at some places of a page does to the counts.     *)
LEMMA KeepCounts ==
  ASSUME NEW cards \in Answers, NEW places \in SUBSET DOMAIN cards,
         jobs \in [Cards -> Nat], Keep(cards, places)
  PROVE  /\ jobs' \in [Cards -> Nat]
         /\ \A c \in Cards :
              /\ jobs'[c] >= jobs[c]
              /\ (\A i \in places : cards[i] # c) => jobs'[c] = jobs[c]
              /\ (\E i \in places : cards[i] = c) => jobs'[c] > 0
              /\ \A i \in places :
                   cards[i] = c /\ (\A k \in places : cards[k] = c => k = i) => jobs'[c] = jobs[c] + 1
<1>1. ASSUME NEW c \in Cards
      PROVE /\ jobs'[c] \in Nat /\ jobs'[c] >= jobs[c]
            /\ (\A i \in places : cards[i] # c) => jobs'[c] = jobs[c]
            /\ (\E i \in places : cards[i] = c) => jobs'[c] > 0
            /\ \A i \in places :
                 cards[i] = c /\ (\A k \in places : cards[k] = c => k = i) => jobs'[c] = jobs[c] + 1
  <2> DEFINE P == {i \in places : cards[i] = c}
  <2>0. IsFiniteSet(DOMAIN cards)
    BY AnswerIs, FS_Interval
  <2>1. IsFiniteSet(P)
    BY <2>0, FS_Subset
  <2>2. Cardinality(P) \in Nat /\ (Cardinality(P) = 0 <=> P = {})
    BY <2>1, FS_CardinalityType, FS_EmptySet
  <2>3. jobs'[c] = jobs[c] + Cardinality(P) /\ jobs[c] \in Nat
    BY DEF Keep
  <2>4. ASSUME NEW i \in places, cards[i] = c, \A k \in places : cards[k] = c => k = i
        PROVE Cardinality(P) = 1
    <3>1. P = {i}
      BY <2>4
    <3> QED
      BY <3>1, FS_Singleton
  <2>5. (\A i \in places : cards[i] # c) <=> P = {}
    OBVIOUS
  <2> HIDE DEF P
  <2> QED
    BY <2>2, <2>3, <2>4, <2>5
<1>2. jobs' = [c \in Cards |-> jobs'[c]]
  BY DEF Keep
<1> QED
  BY <1>1, <1>2

(* Of some places of a page, one comes first.                              *)
LEMMA FirstPlace ==
  ASSUME NEW T \in SUBSET Nat, T # {}
  PROVE  \E k \in T : \A j \in T : ~(j < k)
<1> DEFINE R == OpToRel(<, Nat)
<1>1. IsWellFoundedOn(R, Nat)
  BY NatLessThanWellFounded
<1>2. \A x, y \in Nat : y < x => <<y, x>> \in R
  BY DEF OpToRel
<1> HIDE DEF R
<1>3. PICK k \in T : \A j \in T : ~(<<j, k>> \in R)
  BY <1>1, WFMin
<1> QED
  BY <1>2, <1>3

(* The places the step all fetchers but JSearch take on a page keeps:      *)
(* those in parsed are compared by key.                                    *)
New(cards, parsed, name, seen) ==
  {i \in parsed : /\ Key(name, cards[i]) \notin seen
                  /\ \A k \in parsed : k < i => Key(name, cards[k]) # Key(name, cards[i])}

LEMMA SeenOrNew ==
  ASSUME NEW cards, NEW parsed \in SUBSET Nat, NEW name, NEW seen,
         NEW i \in parsed, Key(name, cards[i]) \notin seen
  PROVE  \E k \in New(cards, parsed, name, seen) : Key(name, cards[k]) = Key(name, cards[i])
<1> DEFINE T == {j \in parsed : Key(name, cards[j]) = Key(name, cards[i])}
<1>1. T \in SUBSET Nat /\ i \in T
  OBVIOUS
<1> HIDE DEF T
<1>2. PICK k \in T : \A j \in T : ~(j < k)
  BY <1>1, FirstPlace
<1>3. k \in parsed /\ Key(name, cards[k]) = Key(name, cards[i])
  BY <1>2 DEF T
<1>4. \A m \in parsed : m < k => Key(name, cards[m]) # Key(name, cards[k])
  BY <1>2, <1>3 DEF T
<1> QED
  BY <1>3, <1>4 DEF New

(* That step; the places in nameless are kept as they are.                 *)
Gather(cards, parsed, nameless) ==
  /\ Keep(cards, nameless \cup New(cards, parsed, scraper, keys))
  /\ keys' = keys \cup {Key(scraper, cards[i]) : i \in parsed}
  /\ UNCHANGED scraper

LEMMA GatherKeeps ==
  ASSUME NEW cards \in Answers,
         NEW parsed \in SUBSET DOMAIN cards, NEW nameless \in SUBSET DOMAIN cards,
         \A i \in parsed : Named(scraper, cards[i]),
         \A i \in nameless : ~Named(scraper, cards[i]),
         jobs \in [Cards -> Nat], KeysOfJobs, Gather(cards, parsed, nameless)
  PROVE  /\ jobs' \in [Cards -> Nat] /\ KeysOfJobs' /\ Jobs \subseteq Jobs'
         /\ \A i \in nameless : cards[i] \in Jobs'
         /\ \A i \in parsed : \E d \in Jobs' : Key(scraper, d) = Key(scraper, cards[i])
<1> DEFINE K(c) == Key(scraper, c)
           N(c) == Named(scraper, c)
           new == New(cards, parsed, scraper, keys)
<1>1. Keep(cards, nameless \cup new)
  BY DEF Gather
<1>2. keys' = keys \cup {K(cards[i]) : i \in parsed} /\ scraper' = scraper
  BY DEF Gather
<1>3. nameless \cup new \in SUBSET DOMAIN cards
  BY DEF New
<1>4. /\ jobs' \in [Cards -> Nat]
      /\ \A c \in Cards :
           /\ jobs'[c] >= jobs[c]
           /\ (\A i \in nameless \cup new : cards[i] # c) => jobs'[c] = jobs[c]
           /\ (\E i \in nameless \cup new : cards[i] = c) => jobs'[c] > 0
           /\ \A i \in nameless \cup new :
                cards[i] = c /\ (\A k \in nameless \cup new : cards[k] = c => k = i)
                  => jobs'[c] = jobs[c] + 1
  <2> DEFINE places == nameless \cup new
  <2>1. places \in SUBSET DOMAIN cards /\ Keep(cards, places)
    BY <1>1, <1>3
  <2> HIDE DEF places
  <2>2. /\ jobs' \in [Cards -> Nat]
        /\ \A c \in Cards :
             /\ jobs'[c] >= jobs[c]
             /\ (\A i \in places : cards[i] # c) => jobs'[c] = jobs[c]
             /\ (\E i \in places : cards[i] = c) => jobs'[c] > 0
             /\ \A i \in places :
                  cards[i] = c /\ (\A k \in places : cards[k] = c => k = i) => jobs'[c] = jobs[c] + 1
    BY <2>1, KeepCounts
  <2> QED
    BY <2>2 DEF places
<1>5. (\A i \in DOMAIN cards : cards[i] \in Cards) /\ parsed \in SUBSET Nat
  BY AnswerIs
<1>6. /\ \A c \in Jobs : N(c) => K(c) \in keys
      /\ \A k \in keys : \E c \in Jobs : N(c) /\ K(c) = k
      /\ \A c, d \in Jobs : N(c) /\ N(d) /\ K(c) = K(d) => c = d /\ jobs[c] = 1
  BY DEF KeysOfJobs
<1>7. \A i, k \in new : K(cards[i]) = K(cards[k]) => i = k
  BY <1>5 DEF New
<1>8. \A i \in parsed : K(cards[i]) \in keys \/ \E k \in new : K(cards[k]) = K(cards[i])
  BY <1>5, SeenOrNew
<1>9. \A i \in new : i \in parsed /\ K(cards[i]) \notin keys /\ N(cards[i])
  BY DEF New
<1>10. Jobs \subseteq Jobs'
  BY <1>4 DEF Jobs
<1>11. \A i \in nameless \cup new : cards[i] \in Jobs'
  BY <1>3, <1>4, <1>5 DEF Jobs
<1> HIDE DEF K, N, new
<1>12. \A c \in Jobs' : N(c) => \/ c \in Jobs /\ jobs'[c] = jobs[c]
                                \/ c \notin Jobs /\ jobs'[c] = 1 /\ \E i \in new : cards[i] = c
  <2> SUFFICES ASSUME NEW c \in Jobs', N(c)
               PROVE  \/ c \in Jobs /\ jobs'[c] = jobs[c]
                      \/ c \notin Jobs /\ jobs'[c] = 1 /\ \E i \in new : cards[i] = c
    OBVIOUS
  <2>1. c \in Cards /\ jobs'[c] > 0
    BY DEF Jobs
  <2>2. \A i \in nameless : cards[i] # c
    BY DEF N
  <2>3. CASE \E i \in new : cards[i] = c
    <3>1. PICK i \in new : cards[i] = c
      BY <2>3
    <3>2. c \notin Jobs
      BY <1>6, <1>9, <3>1
    <3>3. \A k \in nameless \cup new : cards[k] = c => k = i
      BY <1>7, <2>2, <3>1
    <3>4. jobs'[c] = jobs[c] + 1
      BY <1>4, <2>1, <3>1, <3>3
    <3>5. jobs[c] = 0
      BY <2>1, <3>2 DEF Jobs
    <3> QED
      BY <3>1, <3>2, <3>4, <3>5
  <2>4. CASE \A i \in new : cards[i] # c
    <3>1. jobs'[c] = jobs[c]
      BY <1>4, <2>1, <2>2, <2>4
    <3> QED
      BY <2>1, <3>1 DEF Jobs
  <2> QED
    BY <2>3, <2>4
<1>13. \A c \in Jobs' : N(c) => K(c) \in keys'
  BY <1>2, <1>6, <1>9, <1>12
<1>14. \A k \in keys' : \E c \in Jobs' : N(c) /\ K(c) = k
  BY <1>2, <1>6, <1>8, <1>9, <1>10, <1>11
<1>15. \A c, d \in Jobs' : N(c) /\ N(d) /\ K(c) = K(d) => c = d /\ jobs'[c] = 1
  BY <1>6, <1>7, <1>9, <1>12
<1>16. KeysOfJobs'
  BY <1>2, <1>13, <1>14, <1>15 DEF KeysOfJobs, K, N
<1>17. \A i \in parsed : \E d \in Jobs' : K(d) = K(cards[i])
  BY <1>2, <1>14
<1> QED
  BY <1>4, <1>10, <1>11, <1>16, <1>17 DEF K

-----------------------------------------------------------------------------
(* The steps of the fetchers                                               *)

(* What was found stays found; what a page adds has to be found on it.     *)
LEMMA FoundNext ==
  ASSUME scraper' = scraper, NEW cards \in Answers, Sees(cards), shown \subseteq Cards,
         Found, Jobs \subseteq Jobs',
         \A i \in DOMAIN cards : Worthy(cards[i])' => \E d \in Jobs' : SameJob(cards[i], d)
  PROVE  Found' /\ shown' \subseteq Cards
<1>1. shown' = shown \cup Range(cards) /\ shown' \subseteq Cards
  BY AnswerIs DEF Sees, Range
<1>2. \A c \in shown : Worthy(c)' => Worthy(c)
  BY <1>1 DEF Worthy
<1>3. \A c, d : SameJob(c, d)' <=> SameJob(c, d)
  BY DEF SameJob, JobUrl
<1>4. \A c \in shown' : c \in shown \/ \E i \in DOMAIN cards : cards[i] = c
  BY <1>1 DEF Range
<1>5. ASSUME NEW c \in shown', Worthy(c)' PROVE \E d \in Jobs' : SameJob(c, d)'
  <2>1. CASE c \in shown
    BY <1>2, <1>3, <1>5, <2>1 DEF Found
  <2>2. CASE \E i \in DOMAIN cards : cards[i] = c
    BY <1>3, <1>5, <2>2
  <2> QED
    BY <1>4, <2>1, <2>2
<1> QED
  BY <1>1, <1>5 DEF Found

(* A page of a fetcher that guards its cards: what is worth it is read, or *)
(* something with its key is.                                              *)
GuardedPage(cards, parsed) ==
  /\ parsed \in SUBSET DOMAIN cards
  /\ \A i \in DOMAIN cards :
       Worthy(cards[i])' => \E k \in parsed : Key(scraper, cards[k]) = Key(scraper, cards[i])
  /\ Sees(cards) /\ Gather(cards, parsed, {})

GuardedScrapers == Scrapers \ Unguarded

(* Among the anchors with one link, all of them with titles, one is first. *)
LEMMA FirstAnchorStands ==
  ASSUME NEW cards \in Answers, Sees(cards), NEW i \in DOMAIN cards, Linked(cards[i]),
         \A d \in shown' : d.link = cards[i].link => Titled(d)
  PROVE  \E k \in FirstAnchors(cards) : cards[k].link = cards[i].link
<1> DEFINE T == {k \in DOMAIN cards : cards[k].link = cards[i].link}
<1>1. T \in SUBSET Nat /\ i \in T
  BY AnswerIs
<1> HIDE DEF T
<1>2. PICK k \in T : \A j \in T : ~(j < k)
  BY <1>1, FirstPlace
<1>3. k \in DOMAIN cards /\ cards[k].link = cards[i].link
  BY <1>2 DEF T
<1>4. cards[k] \in shown'
  BY <1>3 DEF Sees, Range
<1>5. Linked(cards[k])
  BY <1>3, <1>4 DEF Linked, Titled
<1>6. \A j \in 1..(k - 1) : j \in Nat /\ j < k /\ j \in DOMAIN cards
  BY <1>3, AnswerIs
<1>7. \A j \in 1..(k - 1) : cards[j].link # cards[k].link
  BY <1>2, <1>3, <1>6 DEF T
<1> QED
  BY <1>3, <1>5, <1>7 DEF FirstAnchors

(* Both ways Dubizzle's pages are read.                                    *)
LEMMA DubizzleStep ==
  ASSUME FetchDubizzle, UNCHANGED scraper
  PROVE  scraper \in GuardedScrapers /\ \E cards \in Answers : \E parsed : GuardedPage(cards, parsed)
<1>1. scraper = "dubizzle" /\ scraper \in GuardedScrapers
  BY DEF FetchDubizzle, Searching, GuardedScrapers, Scrapers, Browser, Requests, Unguarded
<1>2. PICK cards \in Answers :
        /\ Sees(cards)
        /\ \/ Collect(cards, {i \in DOMAIN cards : Even(cards[i]) /\ DubizzleCard(cards[i])}, SiteUrl)
           \/ Collect(cards, DubizzleLinks(cards), SiteUrl)
  BY DEF FetchDubizzle
<1>3. \A c : Key(scraper, c) = SiteUrl(c)
  BY <1>1, KeyIs
<1>4. ASSUME NEW parsed \in SUBSET DOMAIN cards, Collect(cards, parsed, SiteUrl),
             \A i \in DOMAIN cards :
               Worthy(cards[i])' => \E k \in parsed : cards[k].link = cards[i].link
      PROVE GuardedPage(cards, parsed)
  <2>1. Unseen(cards, parsed, SiteUrl) = New(cards, parsed, scraper, keys)
    BY <1>3 DEF Unseen, New
  <2>2. {Key(scraper, cards[i]) : i \in parsed} = {SiteUrl(cards[i]) : i \in parsed}
    BY <1>3
  <2>3. \A S : {} \cup S = S
    OBVIOUS
  <2>4. Gather(cards, parsed, {})
    BY <1>4, <2>1, <2>2, <2>3 DEF Collect, Gather
  <2>5. \A i \in DOMAIN cards :
          Worthy(cards[i])' => \E k \in parsed : Key(scraper, cards[k]) = Key(scraper, cards[i])
    BY <1>3, <1>4 DEF SiteUrl
  <2> QED
    BY <1>2, <1>4, <2>4, <2>5 DEF GuardedPage
<1>5. CASE Collect(cards, {i \in DOMAIN cards : Even(cards[i]) /\ DubizzleCard(cards[i])}, SiteUrl)
  <2> DEFINE parsed == {i \in DOMAIN cards : Even(cards[i]) /\ DubizzleCard(cards[i])}
  <2>1. \A i \in DOMAIN cards : Worthy(cards[i])' => i \in parsed
    BY DEF Worthy, Linked, Titled, DubizzleCard
  <2>2. parsed \in SUBSET DOMAIN cards /\ Collect(cards, parsed, SiteUrl)
    BY <1>5
  <2> HIDE DEF parsed
  <2>3. GuardedPage(cards, parsed)
    BY <1>4, <2>1, <2>2
  <2> QED
    BY <1>1, <2>3
<1>6. CASE Collect(cards, DubizzleLinks(cards), SiteUrl)
  <2>1. ASSUME NEW i \in DOMAIN cards, Worthy(cards[i])'
        PROVE  \E k \in DubizzleLinks(cards) : cards[k].link = cards[i].link
    <3>1. /\ Linked(cards[i])
          /\ \A d \in shown' : d.link = cards[i].link => Titled(d) /\ Even(d)
      BY <1>1, <2>1 DEF Worthy
    <3>2. PICK k \in FirstAnchors(cards) : cards[k].link = cards[i].link
      BY <1>2, <3>1, FirstAnchorStands
    <3>3. k \in DOMAIN cards /\ cards[k] \in shown'
      BY <1>2, <3>2 DEF FirstAnchors, Sees, Range
    <3> QED
      BY <3>1, <3>2, <3>3 DEF DubizzleLinks
  <2>2. DubizzleLinks(cards) \in SUBSET DOMAIN cards
    BY DEF DubizzleLinks, FirstAnchors
  <2>3. GuardedPage(cards, DubizzleLinks(cards))
    BY <1>4, <1>6, <2>1, <2>2
  <2> QED
    BY <1>1, <2>3
<1> QED
  BY <1>2, <1>5, <1>6

LEMMA GuardedSteps ==
  ASSUME \/ FetchX \/ FetchLinkedInPosts \/ FetchDubizzle \/ FetchNaukriGulf
         \/ FetchGulfTalent \/ FetchBayt \/ FetchIndeed \/ FetchGlassdoor \/ FetchLinkedIn,
         UNCHANGED scraper
  PROVE  scraper \in GuardedScrapers /\ \E cards \in Answers : \E parsed : GuardedPage(cards, parsed)
<1>0. \A cards, parsed :
        /\ parsed \in SUBSET DOMAIN cards
        /\ \A i \in DOMAIN cards : Linked(cards[i]) /\ Even(cards[i]) => i \in parsed
        /\ Sees(cards)
        /\ Keep(cards, New(cards, parsed, scraper, keys))
        /\ keys' = keys \cup {Key(scraper, cards[i]) : i \in parsed}
        => GuardedPage(cards, parsed)
  <2>1. \A S : {} \cup S = S
    OBVIOUS
  <2>2. \A c : Worthy(c)' => Linked(c) /\ Even(c)
    BY DEF Worthy
  <2> QED
    BY <2>1, <2>2 DEF GuardedPage, Gather
<1>1. CASE FetchX
  <2>1. PICK cards \in Answers :
          LET parsed == {i \in DOMAIN cards : Even(cards[i]) /\ Tweet(cards[i])}
          IN Sees(cards) /\ Collect(cards, parsed, ApplyUrl)
    BY <1>1 DEF FetchX, Guarded
  <2>2. scraper = "x"
    BY <1>1 DEF FetchX, Guarded, Searching
  <2> DEFINE parsed == {i \in DOMAIN cards : Even(cards[i]) /\ Tweet(cards[i])}
  <2>3. /\ parsed \in SUBSET DOMAIN cards
        /\ \A i \in DOMAIN cards : Linked(cards[i]) /\ Even(cards[i]) => i \in parsed
    BY DEF Linked, Tweet, Titled
  <2>4. Sees(cards) /\ Collect(cards, parsed, ApplyUrl)
    BY <2>1
  <2> HIDE DEF parsed
  <2>5. \A c : Key(scraper, c) = ApplyUrl(c)
    BY <2>2, KeyIs
  <2>6. Unseen(cards, parsed, ApplyUrl) = New(cards, parsed, scraper, keys)
    BY <2>5 DEF Unseen, New
  <2>7. {Key(scraper, cards[i]) : i \in parsed} = {ApplyUrl(cards[i]) : i \in parsed}
    BY <2>5
  <2>8. GuardedPage(cards, parsed)
    BY <1>0, <2>3, <2>4, <2>6, <2>7 DEF Collect
  <2> QED
    BY <2>2, <2>8 DEF GuardedScrapers, Scrapers, Browser, Requests, Unguarded
<1>2. CASE FetchLinkedInPosts
  <2>1. PICK cards \in Answers :
          LET parsed == {i \in DOMAIN cards : Even(cards[i]) /\ Post(cards[i])}
          IN Sees(cards) /\ Collect(cards, parsed, ApplyUrl)
    BY <1>2 DEF FetchLinkedInPosts, Guarded
  <2>2. scraper = "linkedin_posts"
    BY <1>2 DEF FetchLinkedInPosts, Guarded, Searching
  <2> DEFINE parsed == {i \in DOMAIN cards : Even(cards[i]) /\ Post(cards[i])}
  <2>3. /\ parsed \in SUBSET DOMAIN cards
        /\ \A i \in DOMAIN cards : Linked(cards[i]) /\ Even(cards[i]) => i \in parsed
    BY DEF Linked, Post
  <2>4. Sees(cards) /\ Collect(cards, parsed, ApplyUrl)
    BY <2>1
  <2> HIDE DEF parsed
  <2>5. \A c : Key(scraper, c) = ApplyUrl(c)
    BY <2>2, KeyIs
  <2>6. Unseen(cards, parsed, ApplyUrl) = New(cards, parsed, scraper, keys)
    BY <2>5 DEF Unseen, New
  <2>7. {Key(scraper, cards[i]) : i \in parsed} = {ApplyUrl(cards[i]) : i \in parsed}
    BY <2>5
  <2>8. GuardedPage(cards, parsed)
    BY <1>0, <2>3, <2>4, <2>6, <2>7 DEF Collect
  <2> QED
    BY <2>2, <2>8 DEF GuardedScrapers, Scrapers, Browser, Requests, Unguarded
<1>3. CASE FetchDubizzle
  BY <1>3, DubizzleStep
<1>4. CASE FetchNaukriGulf
  <2>1. PICK cards \in Answers :
          LET parsed == {i \in DOMAIN cards : Even(cards[i]) /\ NaukriGulfCard(cards[i])}
          IN Sees(cards) /\ Collect(cards, parsed, SiteUrl)
    BY <1>4 DEF FetchNaukriGulf, Guarded
  <2>2. scraper = "naukrigulf"
    BY <1>4 DEF FetchNaukriGulf, Guarded, Searching
  <2> DEFINE parsed == {i \in DOMAIN cards : Even(cards[i]) /\ NaukriGulfCard(cards[i])}
  <2>3. /\ parsed \in SUBSET DOMAIN cards
        /\ \A i \in DOMAIN cards : Linked(cards[i]) /\ Even(cards[i]) => i \in parsed
    BY DEF Linked, Titled, NaukriGulfCard
  <2>4. Sees(cards) /\ Collect(cards, parsed, SiteUrl)
    BY <2>1
  <2> HIDE DEF parsed
  <2>5. \A c : Key(scraper, c) = SiteUrl(c)
    BY <2>2, KeyIs
  <2>6. Unseen(cards, parsed, SiteUrl) = New(cards, parsed, scraper, keys)
    BY <2>5 DEF Unseen, New
  <2>7. {Key(scraper, cards[i]) : i \in parsed} = {SiteUrl(cards[i]) : i \in parsed}
    BY <2>5
  <2>8. GuardedPage(cards, parsed)
    BY <1>0, <2>3, <2>4, <2>6, <2>7 DEF Collect
  <2> QED
    BY <2>2, <2>8 DEF GuardedScrapers, Scrapers, Browser, Requests, Unguarded
<1>5. CASE FetchGulfTalent
  <2>1. PICK cards \in Answers :
          LET parsed == {i \in DOMAIN cards : Even(cards[i]) /\ GulfTalentCard(cards[i])}
          IN Sees(cards) /\ Collect(cards, parsed, LinkUrl)
    BY <1>5 DEF FetchGulfTalent, Guarded
  <2>2. scraper = "gulftalent"
    BY <1>5 DEF FetchGulfTalent, Guarded, Searching
  <2> DEFINE parsed == {i \in DOMAIN cards : Even(cards[i]) /\ GulfTalentCard(cards[i])}
  <2>3. /\ parsed \in SUBSET DOMAIN cards
        /\ \A i \in DOMAIN cards : Linked(cards[i]) /\ Even(cards[i]) => i \in parsed
    BY DEF Linked, GulfTalentCard
  <2>4. Sees(cards) /\ Collect(cards, parsed, LinkUrl)
    BY <2>1
  <2> HIDE DEF parsed
  <2>5. \A c : Key(scraper, c) = LinkUrl(c)
    BY <2>2, KeyIs
  <2>6. Unseen(cards, parsed, LinkUrl) = New(cards, parsed, scraper, keys)
    BY <2>5 DEF Unseen, New
  <2>7. {Key(scraper, cards[i]) : i \in parsed} = {LinkUrl(cards[i]) : i \in parsed}
    BY <2>5
  <2>8. GuardedPage(cards, parsed)
    BY <1>0, <2>3, <2>4, <2>6, <2>7 DEF Collect
  <2> QED
    BY <2>2, <2>8 DEF GuardedScrapers, Scrapers, Browser, Requests, Unguarded
<1>6. CASE FetchBayt
  <2>1. PICK cards \in Answers :
          LET parsed == {i \in DOMAIN cards : Even(cards[i]) /\ BaytCard(cards[i])}
          IN Sees(cards) /\ Collect(cards, parsed, LinkUrl)
    BY <1>6 DEF FetchBayt, Guarded
  <2>2. scraper = "bayt"
    BY <1>6 DEF FetchBayt, Guarded, Searching
  <2> DEFINE parsed == {i \in DOMAIN cards : Even(cards[i]) /\ BaytCard(cards[i])}
  <2>3. /\ parsed \in SUBSET DOMAIN cards
        /\ \A i \in DOMAIN cards : Linked(cards[i]) /\ Even(cards[i]) => i \in parsed
    BY DEF Linked, BaytCard
  <2>4. Sees(cards) /\ Collect(cards, parsed, LinkUrl)
    BY <2>1
  <2> HIDE DEF parsed
  <2>5. \A c : Key(scraper, c) = LinkUrl(c)
    BY <2>2, KeyIs
  <2>6. Unseen(cards, parsed, LinkUrl) = New(cards, parsed, scraper, keys)
    BY <2>5 DEF Unseen, New
  <2>7. {Key(scraper, cards[i]) : i \in parsed} = {LinkUrl(cards[i]) : i \in parsed}
    BY <2>5
  <2>8. GuardedPage(cards, parsed)
    BY <1>0, <2>3, <2>4, <2>6, <2>7 DEF Collect
  <2> QED
    BY <2>2, <2>8 DEF GuardedScrapers, Scrapers, Browser, Requests, Unguarded
<1>7. CASE FetchIndeed
  <2>1. PICK cards \in Answers :
          LET parsed == {i \in DOMAIN cards : Even(cards[i]) /\ IndeedCard(cards[i])}
          IN Sees(cards) /\ Collect(cards, parsed, IndeedUrl)
    BY <1>7 DEF FetchIndeed, Guarded
  <2>2. scraper = "indeed"
    BY <1>7 DEF FetchIndeed, Guarded, Searching
  <2> DEFINE parsed == {i \in DOMAIN cards : Even(cards[i]) /\ IndeedCard(cards[i])}
  <2>3. /\ parsed \in SUBSET DOMAIN cards
        /\ \A i \in DOMAIN cards : Linked(cards[i]) /\ Even(cards[i]) => i \in parsed
    BY DEF Linked, IndeedCard, Titled
  <2>4. Sees(cards) /\ Collect(cards, parsed, IndeedUrl)
    BY <2>1
  <2> HIDE DEF parsed
  <2>5. \A c : Key(scraper, c) = IndeedUrl(c)
    BY <2>2, KeyIs
  <2>6. Unseen(cards, parsed, IndeedUrl) = New(cards, parsed, scraper, keys)
    BY <2>5 DEF Unseen, New
  <2>7. {Key(scraper, cards[i]) : i \in parsed} = {IndeedUrl(cards[i]) : i \in parsed}
    BY <2>5
  <2>8. GuardedPage(cards, parsed)
    BY <1>0, <2>3, <2>4, <2>6, <2>7 DEF Collect
  <2> QED
    BY <2>2, <2>8 DEF GuardedScrapers, Scrapers, Browser, Requests, Unguarded
<1>8. CASE FetchGlassdoor
  <2>1. PICK cards \in Answers :
          LET parsed == {i \in DOMAIN cards : Even(cards[i]) /\ Titled(cards[i])}
          IN Sees(cards) /\ Collect(cards, parsed, SiteUrl)
    BY <1>8 DEF FetchGlassdoor, Guarded
  <2>2. scraper = "glassdoor"
    BY <1>8 DEF FetchGlassdoor, Guarded, Searching
  <2> DEFINE parsed == {i \in DOMAIN cards : Even(cards[i]) /\ Titled(cards[i])}
  <2>3. /\ parsed \in SUBSET DOMAIN cards
        /\ \A i \in DOMAIN cards : Linked(cards[i]) /\ Even(cards[i]) => i \in parsed
    BY DEF Linked, Titled
  <2>4. Sees(cards) /\ Collect(cards, parsed, SiteUrl)
    BY <2>1
  <2> HIDE DEF parsed
  <2>5. \A c : Key(scraper, c) = SiteUrl(c)
    BY <2>2, KeyIs
  <2>6. Unseen(cards, parsed, SiteUrl) = New(cards, parsed, scraper, keys)
    BY <2>5 DEF Unseen, New
  <2>7. {Key(scraper, cards[i]) : i \in parsed} = {SiteUrl(cards[i]) : i \in parsed}
    BY <2>5
  <2>8. GuardedPage(cards, parsed)
    BY <1>0, <2>3, <2>4, <2>6, <2>7 DEF Collect
  <2> QED
    BY <2>2, <2>8 DEF GuardedScrapers, Scrapers, Browser, Requests, Unguarded
<1>9. CASE FetchLinkedIn
  <2>1. PICK cards \in Answers :
          LET parsed == {i \in DOMAIN cards : Even(cards[i]) /\ LinkedInCard(cards[i])}
          IN Sees(cards) /\ Collect(cards, parsed, LinkUrl)
    BY <1>9 DEF FetchLinkedIn, Guarded
  <2>2. scraper = "linkedin"
    BY <1>9 DEF FetchLinkedIn, Guarded, Searching
  <2> DEFINE parsed == {i \in DOMAIN cards : Even(cards[i]) /\ LinkedInCard(cards[i])}
  <2>3. /\ parsed \in SUBSET DOMAIN cards
        /\ \A i \in DOMAIN cards : Linked(cards[i]) /\ Even(cards[i]) => i \in parsed
    BY DEF Linked, LinkedInCard
  <2>4. Sees(cards) /\ Collect(cards, parsed, LinkUrl)
    BY <2>1
  <2> HIDE DEF parsed
  <2>5. \A c : Key(scraper, c) = LinkUrl(c)
    BY <2>2, KeyIs
  <2>6. Unseen(cards, parsed, LinkUrl) = New(cards, parsed, scraper, keys)
    BY <2>5 DEF Unseen, New
  <2>7. {Key(scraper, cards[i]) : i \in parsed} = {LinkUrl(cards[i]) : i \in parsed}
    BY <2>5
  <2>8. GuardedPage(cards, parsed)
    BY <1>0, <2>3, <2>4, <2>6, <2>7 DEF Collect
  <2> QED
    BY <2>2, <2>8 DEF GuardedScrapers, Scrapers, Browser, Requests, Unguarded
<1> QED
  BY <1>1, <1>2, <1>3, <1>4, <1>5, <1>6, <1>7, <1>8, <1>9

LEMMA GuardedKeeps ==
  ASSUME NEW cards \in Answers, NEW parsed, GuardedPage(cards, parsed),
         scraper \in GuardedScrapers, Gathered
  PROVE  Gathered'
<1>1. parsed \in SUBSET DOMAIN cards /\ {} \in SUBSET DOMAIN cards /\ scraper' = scraper
  BY DEF GuardedPage, Gather
<1>2. scraper \in Scrapers /\ scraper \notin Unguarded
  BY DEF GuardedScrapers
<1>3. \A c : Named(scraper, c)
  BY <1>2 DEF Named, Unguarded
<1>4. Gather(cards, parsed, {}) /\ jobs \in [Cards -> Nat] /\ KeysOfJobs
  BY <1>2 DEF GuardedPage, Gathered, Unguarded
<1>5. /\ jobs' \in [Cards -> Nat] /\ KeysOfJobs' /\ Jobs \subseteq Jobs'
      /\ \A i \in parsed : \E d \in Jobs' : Key(scraper, d) = Key(scraper, cards[i])
  BY <1>1, <1>3, <1>4, GatherKeeps
<1>6. \A i \in DOMAIN cards : Worthy(cards[i])' => \E d \in Jobs' : SameJob(cards[i], d)
  <2>1. ASSUME NEW i \in DOMAIN cards, Worthy(cards[i])' PROVE \E d \in Jobs' : SameJob(cards[i], d)
    <3>1. PICK k \in parsed : Key(scraper, cards[k]) = Key(scraper, cards[i])
      BY <2>1 DEF GuardedPage
    <3>2. PICK d \in Jobs' : Key(scraper, d) = Key(scraper, cards[i])
      BY <1>5, <3>1
    <3>3. d \in Cards /\ cards[i] \in Cards
      BY <3>2, AnswerIs DEF Jobs
    <3> QED
      BY <1>2, <1>3, <3>2, <3>3, KeyTells DEF Unguarded
  <2> QED
    BY <2>1
<1>7. Found' /\ shown' \subseteq Cards
  BY <1>1, <1>5, <1>6, FoundNext DEF Gathered, GuardedPage
<1> QED
  BY <1>1, <1>2, <1>5, <1>7 DEF Gathered, Unguarded

(* The first anchor of a job id stands for it; a page without anything new *)
(* has nothing that is not there.                                          *)
LEMMA WuzzufKeeps ==
  ASSUME FetchWuzzuf, UNCHANGED scraper, Gathered, run' # "raised"
  PROVE  Gathered'
<1>1. scraper = "wuzzuf" /\ scraper' = scraper /\ scraper \in Scrapers
  BY DEF FetchWuzzuf, Searching, Scrapers, Requests
<1>2. PICK cards \in Answers :
        LET parsed == FirstAnchors(cards)
            ids == {cards[i].link : i \in parsed}
        IN /\ Sees(cards)
           /\ \/ ids \subseteq batch /\ NextQuery /\ UNCHANGED <<keys, jobs>>
              \/ /\ Collect(cards, parsed, LinkUrl)
                 /\ IF pageNo = MaxPages THEN NextQuery
                    ELSE NextPage /\ batch' = batch \cup ids
  BY DEF FetchWuzzuf, Raise, GarbledPage
<1> DEFINE parsed == FirstAnchors(cards)
           ids == {cards[i].link : i \in parsed}
<1>3. /\ jobs \in [Cards -> Nat] /\ shown \subseteq Cards /\ Found
      /\ KeysOfJobs /\ batch \subseteq keys
  BY <1>1 DEF Gathered
<1>4. \A c : Key(scraper, c) = c.link /\ LinkUrl(c) = c.link /\ Named(scraper, c)
  BY <1>1, KeyIs DEF LinkUrl, Named
<1>5. parsed \in SUBSET DOMAIN cards /\ {} \in SUBSET DOMAIN cards
  BY DEF FirstAnchors
<1>6. \A i \in DOMAIN cards : Worthy(cards[i])' => cards[i].link \in ids
  BY <1>1, <1>2, FirstAnchorStands DEF Worthy
<1>7. CASE ids \subseteq batch /\ NextQuery /\ UNCHANGED <<keys, jobs>>
  <2>1. Jobs' = Jobs /\ KeysOfJobs' /\ batch' \subseteq keys'
    BY <1>1, <1>3, <1>7 DEF Jobs, KeysOfJobs, NextQuery
  <2>2. \A i \in DOMAIN cards : Worthy(cards[i])' => \E d \in Jobs' : SameJob(cards[i], d)
    <3>1. ASSUME NEW i \in DOMAIN cards, Worthy(cards[i])' PROVE \E d \in Jobs' : SameJob(cards[i], d)
      <4>1. cards[i].link \in keys
        BY <1>3, <1>6, <1>7, <3>1
      <4>2. PICK d \in Jobs' : Key(scraper, d) = cards[i].link
        BY <1>3, <2>1, <4>1 DEF KeysOfJobs
      <4>3. d \in Cards /\ cards[i] \in Cards
        BY <4>2, AnswerIs DEF Jobs
      <4> QED
        BY <1>1, <1>4, <4>2, <4>3, KeyTells
    <3> QED
      BY <3>1
  <2>3. Found' /\ shown' \subseteq Cards
    BY <1>1, <1>2, <1>3, <2>1, <2>2, FoundNext
  <2> QED
    BY <1>1, <1>3, <1>7, <2>1, <2>3 DEF Gathered
<1>8. CASE /\ Collect(cards, parsed, LinkUrl)
           /\ IF pageNo = MaxPages THEN NextQuery
              ELSE NextPage /\ batch' = batch \cup ids
  <2> HIDE DEF parsed
  <2>1. Unseen(cards, parsed, LinkUrl) = New(cards, parsed, scraper, keys)
    BY <1>4 DEF Unseen, New
  <2>2. {LinkUrl(cards[i]) : i \in parsed} = {Key(scraper, cards[i]) : i \in parsed} /\ ids = {Key(scraper, cards[i]) : i \in parsed}
    BY <1>4
  <2>3. \A S : {} \cup S = S
    OBVIOUS
  <2>4. Gather(cards, parsed, {})
    BY <1>1, <1>8, <2>1, <2>2, <2>3 DEF Collect, Gather
  <2>5. /\ jobs' \in [Cards -> Nat] /\ KeysOfJobs' /\ Jobs \subseteq Jobs'
        /\ \A i \in parsed : \E d \in Jobs' : Key(scraper, d) = Key(scraper, cards[i])
    BY <1>3, <1>4, <1>5, <2>4, GatherKeeps
  <2>6. \A i \in DOMAIN cards : Worthy(cards[i])' => \E d \in Jobs' : SameJob(cards[i], d)
    <3>1. ASSUME NEW i \in DOMAIN cards, Worthy(cards[i])' PROVE \E d \in Jobs' : SameJob(cards[i], d)
      <4>1. PICK k \in parsed : cards[k].link = cards[i].link
        BY <1>6, <3>1
      <4>2. PICK d \in Jobs' : Key(scraper, d) = Key(scraper, cards[k])
        BY <2>5
      <4>3. d \in Cards /\ cards[i] \in Cards
        BY <4>2, AnswerIs DEF Jobs
      <4> QED
        BY <1>1, <1>4, <4>1, <4>2, <4>3, KeyTells
    <3> QED
      BY <3>1
  <2>7. Found' /\ shown' \subseteq Cards
    BY <1>1, <1>2, <1>3, <2>5, <2>6, FoundNext
  <2>8. batch' = {} \/ batch' = batch \cup ids
    BY <1>8 DEF NextQuery
  <2>9. batch' \subseteq keys'
    BY <1>3, <2>2, <2>4, <2>8 DEF Gather
  <2> QED
    BY <1>1, <2>5, <2>7, <2>9 DEF Gathered
<1> QED
  BY <1>2, <1>7, <1>8

LEMMA WorkableKeeps ==
  ASSUME FetchWorkableJobs, UNCHANGED scraper, Gathered, run' # "raised"
  PROVE  Gathered'
<1>1. scraper = "workable_jobs" /\ scraper' = scraper /\ scraper \in Scrapers
  BY DEF FetchWorkableJobs, Searching, Scrapers, Requests
<1>2. PICK cards \in Answers :
        LET items == {i \in DOMAIN cards : WorkableItem(cards[i])}
            nameless == {i \in items : ItemId(cards[i]) = NoLink}
        IN /\ Sees(cards)
           /\ Keep(cards, nameless \cup Unseen(cards, items \ nameless, ItemId))
           /\ keys' = keys \cup {ItemId(cards[i]) : i \in items \ nameless}
  BY DEF FetchWorkableJobs, Raise, GarbledPage
<1> DEFINE items == {i \in DOMAIN cards : WorkableItem(cards[i])}
           nameless == {i \in items : ItemId(cards[i]) = NoLink}
           parsed == items \ nameless
<1>3. jobs \in [Cards -> Nat] /\ shown \subseteq Cards /\ Found /\ KeysOfJobs
  BY <1>1 DEF Gathered
<1>4. \A c : Key(scraper, c) = ItemId(c) /\ (Named(scraper, c) <=> ItemId(c) # NoLink)
  BY <1>1, KeyIs DEF Named
<1>5. parsed \in SUBSET DOMAIN cards /\ nameless \in SUBSET DOMAIN cards
  OBVIOUS
<1>6. /\ \A i \in parsed : Named(scraper, cards[i])
      /\ \A i \in nameless : ~Named(scraper, cards[i])
  BY <1>4
<1>7. \A i \in DOMAIN cards : Worthy(cards[i])' => i \in parsed \/ i \in nameless
  BY DEF Worthy, WorkableItem
<1>8. /\ Keep(cards, nameless \cup Unseen(cards, parsed, ItemId))
      /\ keys' = keys \cup {ItemId(cards[i]) : i \in parsed}
  BY <1>2
<1> HIDE DEF items, nameless, parsed
<1>9. Unseen(cards, parsed, ItemId) = New(cards, parsed, scraper, keys)
  BY <1>4 DEF Unseen, New
<1>10. {ItemId(cards[i]) : i \in parsed} = {Key(scraper, cards[i]) : i \in parsed}
  BY <1>4
<1>11. Gather(cards, parsed, nameless)
  BY <1>1, <1>8, <1>9, <1>10 DEF Gather
<1>12. /\ jobs' \in [Cards -> Nat] /\ KeysOfJobs' /\ Jobs \subseteq Jobs'
       /\ \A i \in nameless : cards[i] \in Jobs'
       /\ \A i \in parsed : \E d \in Jobs' : Key(scraper, d) = Key(scraper, cards[i])
  BY <1>3, <1>5, <1>6, <1>11, GatherKeeps
<1>13. \A i \in DOMAIN cards : Worthy(cards[i])' => \E d \in Jobs' : SameJob(cards[i], d)
  <2>1. ASSUME NEW i \in parsed PROVE \E d \in Jobs' : SameJob(cards[i], d)
    <3>1. PICK d \in Jobs' : Key(scraper, d) = Key(scraper, cards[i])
      BY <1>12
    <3>2. d \in Cards /\ cards[i] \in Cards
      BY <1>5, AnswerIs DEF Jobs
    <3> QED
      BY <1>1, <1>6, <3>1, <3>2, KeyTells
  <2>2. ASSUME NEW i \in nameless PROVE \E d \in Jobs' : SameJob(cards[i], d)
    BY <1>12 DEF SameJob
  <2> QED
    BY <1>7, <2>1, <2>2
<1>14. Found' /\ shown' \subseteq Cards
  BY <1>1, <1>2, <1>3, <1>12, <1>13, FoundNext
<1> QED
  BY <1>1, <1>12, <1>14 DEF Gathered

(* Every item of JSearch becomes a job.                                    *)
LEMMA JSearchKeeps ==
  ASSUME FetchJSearch, UNCHANGED scraper, Gathered, run' # "raised"
  PROVE  Gathered'
<1>1. scraper = "jsearch" /\ scraper' = scraper
  BY DEF FetchJSearch, Searching
<1>2. PICK cards \in Answers : Sees(cards) /\ Keep(cards, DOMAIN cards)
  BY DEF FetchJSearch, Raise, GarbledPage
<1>3. jobs \in [Cards -> Nat] /\ shown \subseteq Cards /\ Found
  BY DEF Gathered
<1>4. /\ jobs' \in [Cards -> Nat]
      /\ \A c \in Cards : /\ jobs'[c] >= jobs[c]
                          /\ (\E i \in DOMAIN cards : cards[i] = c) => jobs'[c] > 0
  BY <1>2, <1>3, KeepCounts
<1>5. Jobs \subseteq Jobs'
  BY <1>3, <1>4 DEF Jobs
<1>6. \A i \in DOMAIN cards : cards[i] \in Jobs'
  BY <1>4, AnswerIs DEF Jobs
<1>7. \A i \in DOMAIN cards : Worthy(cards[i])' => \E d \in Jobs' : SameJob(cards[i], d)
  BY <1>6 DEF SameJob
<1>8. Found' /\ shown' \subseteq Cards
  BY <1>1, <1>2, <1>3, <1>5, <1>7, FoundNext
<1> QED
  BY <1>1, <1>4, <1>8 DEF Gathered

-----------------------------------------------------------------------------
(* The runs                                                                *)

LEMMA FetchInitInv == HealthInit => FetchInv
  BY GatheredNothing DEF HealthInit, ScraperInit, FetchInv

LEMMA NothingGatheredNext ==
  ASSUME jobs' = NoJobs, keys' = {}, batch' = {}, shown' = {}
  PROVE  Gathered'
  BY DEF Gathered, Found, KeysOfJobs, Jobs, NoJobs

LEMMA FetchInvStep == FetchInv /\ [HealthNext]_healthVars => FetchInv'
<1> SUFFICES ASSUME FetchInv, [HealthNext]_healthVars PROVE FetchInv'
  OBVIOUS
<1>1. CASE UNCHANGED <<scraperVars>>
  BY <1>1 DEF FetchInv, scraperVars, fetchVars, Gathered, Found, KeysOfJobs, Jobs, Worthy, SameJob, JobUrl
<1>2. CASE StartRun \/ RetryFetch
  BY <1>2, NothingGatheredNext DEF StartRun, RetryFetch, BeginFetch, FetchInv
<1>3. CASE RecordSuccess \/ RecordFailure
  BY <1>3, NothingGatheredNext DEF RecordSuccess, RecordFailure, EndRun, FetchInv
<1>4. CASE FetchStep
  <2>1. UNCHANGED scraper /\ scraper \in Scrapers
    BY <1>4 DEF FetchStep, FetchInv
  <2>2. Gathered
    BY <1>4, RaisesOnOddCards DEF FetchInv
  <2>3. run' # "raised" => Gathered'
    BY <1>4, <2>1, <2>2, GuardedSteps, GuardedKeeps, WuzzufKeeps, WorkableKeeps, JSearchKeeps DEF FetchStep
  <2> QED
    BY <2>1, <2>3 DEF FetchInv
<1>5. CASE UNCHANGED healthVars \/ HourPasses
  BY <1>1, <1>5 DEF healthVars, HourPasses
<1> QED
  BY <1>2, <1>3, <1>4, <1>5 DEF HealthNext

LEMMA FetchInvHolds == HealthSpec => []FetchInv
  BY FetchInitInv, FetchInvStep, PTL DEF HealthSpec

(* Whatever the sites show, in any number of pages, searches and attempts, *)
(* a fetch that returns has every job it was shown and none twice          *)
(* (src/sources).                                                          *)
THEOREM OffersComeOnce == HealthSpec => []EachOfferOnce
<1>1. ASSUME FetchInv PROVE EachOfferOnce
  <2> SUFFICES ASSUME run = "returned" PROVE EachOfferOnce
    BY DEF EachOfferOnce
  <2>1. Gathered /\ scraper \in Scrapers
    BY <1>1 DEF FetchInv
  <2>2. ASSUME scraper # "jsearch", NEW c \in Jobs, NEW d \in Jobs, SameJob(c, d),
               scraper = "workable_jobs" => ItemId(c) # NoLink
        PROVE  c = d /\ jobs[c] = 1
    <3>1. c \in Cards /\ d \in Cards
      BY DEF Jobs
    <3>2. Named(scraper, c)
      BY <2>2 DEF Named
    <3>3. Key(scraper, c) = Key(scraper, d)
      BY <2>1, <2>2, <3>1, <3>2, KeyTells
    <3>4. Named(scraper, d)
      BY <3>2, <3>3, KeyIs DEF Named
    <3> QED
      BY <2>1, <2>2, <3>2, <3>3, <3>4 DEF Gathered, KeysOfJobs
  <2> QED
    BY <2>1, <2>2 DEF EachOfferOnce, Gathered, Found
<1> QED
  BY <1>1, FetchInvHolds, PTL
=============================================================================
