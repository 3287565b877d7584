------------------------------ MODULE JobRules ------------------------------
(***************************************************************************)
(* What the pipeline decides about one job between its fetcher and a       *)
(* subscriber: enrich_job (seniority, country, topics), filter_jobs (score *)
(* and geography) and the check of one user's alerts and blacklist when    *)
(* the deliveries are queued.                                              *)
(*                                                                         *)
(* Texts are abstracted to which entries of the tables occur in them: the  *)
(* place to the countries of which a pattern occurs, the title to seniority*)
(* levels, topics and words, the include keywords to how they occur.       *)
(***************************************************************************)
EXTENDS Integers, SequencesExt

CONSTANTS
  Offers,   \* [source, original, complete (has title and URL), keywords (how each
            \* include keyword occurs), excluded, fields (keyword topics), levels,
            \* seniority, place, country, isRemote, remoteText, title, company]
  Alerts    \* [topics, seniority, sources, locations, keywords, companies, words]:
            \* one alert of the user and his blacklist

ScoreOf == [exact |-> 10, tag |-> 8, partial |-> 3, none |-> 0]
ScoreThreshold == 10
RemoteOnly == {"remotive", "remoteok", "wwr", "workingnomads", "findwork", "reed"}

(* The order in which the patterns are tried: the first country wins.      *)
CountryOrder ==
  <<"EG", "SA", "US", "GB", "DE", "CA", "FR", "NL", "IN", "AE", "QA", "BH", "KW", "OM",
    "AU", "SG", "IE", "ES", "IT", "PT", "PL", "SE", "CH", "JP", "KR", "BR", "IL", "NG",
    "KE", "ZA", "TR", "RO", "UA", "AR", "MX", "CO">>
LevelOrder == <<"executive", "lead", "senior", "intern", "junior", "mid">>

(* The topics that keywords lead to, those of a place, and the fallback.   *)
KeywordTopics ==
  {"backend", "frontend", "mobile", "devops", "qa", "ai_ml", "cybersecurity", "gamedev",
   "blockchain", "fullstack", "internships", "erp", "marketing_sales", "hr_recruiting",
   "finance_accounting", "admin_operations", "customer_support", "product_pm"}
PlaceOf == [egypt |-> "EG", saudi |-> "SA"]

ASSUME OffersAssumption ==
  \A o \in Offers :
    /\ o.fields \subseteq KeywordTopics /\ o.levels \subseteq Range(LevelOrder)
    /\ o.place \subseteq Range(CountryOrder) /\ Range(o.keywords) \subseteq DOMAIN ScoreOf

VARIABLES
  stage,   \* "none", "fetched", "enriched", "kept", "dropped", "queued" or "unmatched"
  offer,   \* the job as the fetcher returned it
  job,     \* [seniority, country, topics]: what enrich_job fills in
  alert    \* the alert it is compared with

rulesVars == <<stage, offer, job, alert>>

NoJob == <<>>

RulesInit ==
  /\ stage = "none" /\ offer = NoJob /\ job = NoJob /\ alert = NoJob

-----------------------------------------------------------------------------
(* Enrichment                                                              *)

FirstIn(order, found, default) ==
  LET i == SelectInSeq(order, LAMBDA x : x \in found)
  IN IF i = 0 THEN default ELSE order[i]

DetectSeniority(o) == FirstIn(LevelOrder, o.levels, "mid")

DetectLastCountry(o) ==   \* mutant: a later country overrules an earlier one
  FirstIn(Reverse(CountryOrder), o.place, "")

DetectCountry(o) == FirstIn(CountryOrder, o.place, "")

(* The places of the geographic topics are looked for in the location, not *)
(* taken from the country.                                                 *)
GeoTopics(o) == {t \in DOMAIN PlaceOf : PlaceOf[t] \in o.place}

RouteTopics(o) ==
  LET matched == o.fields \cup GeoTopics(o)
      topics == IF "fullstack" \in matched THEN matched \ {"backend", "frontend"} ELSE matched
  IN IF topics = {} THEN {"general"} ELSE topics

Fetched ==
  /\ stage = "none"
  /\ offer' \in Offers
  /\ job' = [seniority |-> offer'.seniority, country |-> offer'.country, topics |-> {}]
  /\ stage' = "fetched"
  /\ UNCHANGED alert

EnrichJob ==
  /\ stage = "fetched"
  /\ job' = [seniority |-> IF job.seniority = "mid" THEN DetectSeniority(offer) ELSE job.seniority,
             country |-> IF job.country = "" THEN DetectCountry(offer) ELSE job.country,
             topics |-> RouteTopics(offer)]
  /\ stage' = "enriched"
  /\ UNCHANGED <<offer, alert>>

-----------------------------------------------------------------------------
(* Filters                                                                 *)

(* Every keyword counts once, for the best way in which it occurs; one     *)
(* exclude keyword outweighs all of them.                                  *)
IsProgrammingJob(o) ==
  /\ ~o.excluded
  /\ FoldLeft(LAMBDA sum, how : sum + ScoreOf[how], 0, o.keywords) >= ScoreThreshold

IsRemote(o) == o.isRemote \/ o.remoteText

PassesGeoFilter(o) == o.source \in RemoteOnly \/ GeoTopics(o) # {} \/ IsRemote(o)

FilterJobs ==
  /\ stage = "enriched"
  /\ stage' = IF offer.complete /\ IsProgrammingJob(offer) /\ PassesGeoFilter(offer)
              THEN "kept" ELSE "dropped"
  /\ UNCHANGED <<offer, job, alert>>

-----------------------------------------------------------------------------
(* One alert and the blacklist                                             *)

MatchesTopics(a) == a.topics = {"general"} \/ a.topics \cap job.topics # {}
MatchesSeniority(a) == a.seniority = {} \/ job.seniority \in a.seniority

(* Aggregators say where they found a job.                                 *)
KeyOf == [LinkedIn |-> "linkedin", Indeed |-> "indeed", Glassdoor |-> "glassdoor",
          ZipRecruiter |-> "ziprecruiter", Monster |-> "monster"]
MatchesSources(a) ==
  \/ a.sources = {}
  \/ offer.source \in a.sources
  \/ offer.original \in DOMAIN KeyOf /\ KeyOf[offer.original] \in a.sources

MatchesLocations(a) ==
  \/ a.locations = {}
  \/ "remote" \in a.locations /\ offer.isRemote
  \/ job.country \in a.locations

MatchesKeywords(a) == a.keywords = {} \/ a.keywords \cap offer.title # {}

JobMatchesAlert(a) ==
  /\ a.topics # {} /\ MatchesTopics(a) /\ MatchesSeniority(a)
  /\ MatchesSources(a) /\ MatchesLocations(a) /\ MatchesKeywords(a)

JobBlockedByBlacklist(a) ==
  \/ a.companies \cap offer.company # {}
  \/ a.words \cap (offer.title \cup offer.company) # {}

QueueForSubscriber ==
  /\ stage = "kept"
  /\ \E a \in Alerts :
       /\ alert' = a
       /\ stage' = IF JobMatchesAlert(a) /\ ~JobBlockedByBlacklist(a) THEN "queued" ELSE "unmatched"
  /\ UNCHANGED <<offer, job>>

RulesNext == Fetched \/ EnrichJob \/ FilterJobs \/ QueueForSubscriber

RulesSpec == RulesInit /\ [][RulesNext]_rulesVars

-----------------------------------------------------------------------------
(* Country, topics and geographic filter are three readings of one text,   *)
(* and users choose by two of them.  A job that is not remote and that its *)
(* source left to the detector is dropped unless it is in Egypt or Saudi   *)
(* Arabia; the topic "egypt" and the country EG then mean the same jobs,   *)
(* and whoever is sent one asked for its country if he asked for any       *)
(* (enrich_job, passes_geo_filter, job_matches_alert).  Wuzzuf and         *)
(* Dubizzle state the country in words, which no alert can name.           *)
GeographyAgrees ==
  LET onsite == offer.source \notin RemoteOnly /\ ~IsRemote(offer)
  IN (stage \in {"kept", "queued", "unmatched"} /\ offer.country = "") =>
       /\ "egypt" \in job.topics <=> job.country = "EG"
       /\ "saudi" \in job.topics => job.country \in {"EG", "SA"}
       /\ onsite => job.country \in {"EG", "SA"}
       /\ (onsite /\ stage = "queued" /\ alert.locations # {}) =>
            job.country \in alert.locations
=============================================================================
