------------------------------ MODULE Scrapers ------------------------------
(***************************************************************************)
(* One call of a fetcher of sources/ (Callable[[], list[Job]]): the        *)
(* searches it makes, what it does when one goes wrong, how it reads a     *)
(* card of a result page, and which jobs it returns.                       *)
(*                                                                         *)
(* A card is abstracted to what decides its fate: whether the text that    *)
(* makes it a job is there, its link, a second identifier (the apply link  *)
(* of a post, the key of an Indeed title, the id of an API item), and      *)
(* whether reading it raises.  The sites are external: a search shows any  *)
(* short sequence of cards, or nothing, because the request failed, was    *)
(* redirected, blocked or timed out, or a body that is no list of cards.   *)
(* The fetchers that are not here (feeds, APIs and company boards) are     *)
(* made of the same steps.                                                 *)
(***************************************************************************)
EXTENDS Integers, FiniteSets, Functions

CONSTANTS
  Cards,      \* [title, link, other, odd]: the cards sites show
  NoLink,     \* the empty string
  SiteRoot,   \* the URL a site's prefix makes of an empty link
  Queries,    \* searches of a run
  MaxPages,   \* WUZZUF_MAX_PAGES, MAX_PAGES_PER_QUERY
  PageSize    \* bound on the cards of a page

ASSUME ScraperAssumption ==
  /\ Queries \in Nat \ {0} /\ MaxPages \in Nat \ {0} /\ PageSize \in Nat
  /\ \A c \in Cards : c.link # SiteRoot   \* a job has a page of its own

VARIABLES
  scraper,   \* the fetcher that is called
  run,       \* "idle", "searching", "returned" or "raised"
  query,     \* the search it is at
  pageNo,    \* the page of that search
  batch,     \* category_seen
  keys,      \* seen_urls or seen_ids
  jobs,      \* jobs[c]: how often it will return card c as a job
  shown,     \* the cards the sites showed it (history)
  garbled    \* a site answered with a body it could not take apart (history)

fetchVars == <<run, query, pageNo, batch, keys, jobs, shown, garbled>>
scraperVars == <<scraper, fetchVars>>

Browser == {"x", "linkedin_posts", "dubizzle", "naukrigulf", "gulftalent",
            "bayt", "indeed", "glassdoor"}
Requests == {"linkedin", "wuzzuf", "workable_jobs", "jsearch"}
Scrapers == Browser \cup Requests

(* linkedin_posts needs a cookie file, jsearch a key; a browser may not    *)
(* start, which the outermost try of those fetchers swallows.              *)
MayReturnAtOnce == Browser \cup {"jsearch"}

Answers == UNION {[1..n -> Cards] : n \in 0..PageSize}

NoJobs == [c \in Cards |-> 0]

-----------------------------------------------------------------------------
(* Reading a card: is it a job, and which URL does it get                  *)

Titled(c) == c.title
Even(c) == ~c.odd
Linked(c) == c.title /\ c.link # NoLink
LinkUrl(c) == c.link
PostUrl(c) == c.link   \* mutant: seen_urls holds the link of the post, not of the job
ApplyUrl(c) == IF c.other # NoLink THEN c.other ELSE c.link

(* Three sites' prefixes make a URL of an empty link, too.                 *)
SiteUrl(c) == IF c.link = NoLink THEN SiteRoot ELSE c.link

(* A tweet is a job even when it has no URL at all.                        *)
Tweet(c) == Titled(c)
Post(c) == Linked(c)
LinkedInCard(c) == Linked(c)
DubizzleCard(c) == Titled(c)
NaukriGulfCard(c) == Titled(c)
GulfTalentCard(c) == Linked(c)
BaytCard(c) == Linked(c)
IndeedCard(c) == Titled(c) /\ (c.link # NoLink \/ c.other # NoLink)
IndeedUrl(c) == IF c.link # NoLink THEN c.link ELSE c.other
WorkableItem(c) == Linked(c)

(* The first anchor of a job on a page stands for it: without a title it   *)
(* hides the job.                                                          *)
FirstAnchors(cards) ==
  {i \in DOMAIN cards : Linked(cards[i]) /\ \A k \in 1..(i - 1) : cards[k].link # cards[i].link}

(* A page of Dubizzle without cards is read for its bare links, each at    *)
(* the first place where it stands.                                        *)
DubizzleLinks(cards) == {i \in FirstAnchors(cards) : Even(cards[i])}

-----------------------------------------------------------------------------
(* The steps of a run                                                      *)

BeginFetch ==
  /\ query' = 1 /\ pageNo' = 1 /\ batch' = {} /\ keys' = {} /\ jobs' = NoJobs
  /\ shown' = {} /\ garbled' = FALSE
  /\ run' \in {"searching"} \cup (IF scraper \in MayReturnAtOnce THEN {"returned"} ELSE {})

NextQuery ==
  /\ run' = IF query = Queries THEN "returned" ELSE run
  /\ query' = IF query = Queries THEN query ELSE query + 1
  /\ pageNo' = 1 /\ batch' = {}

NextPage ==
  /\ pageNo' = pageNo + 1
  /\ UNCHANGED <<run, query>>

(* What was found so far is lost with the exception.                       *)
Raise ==
  /\ run' = "raised"
  /\ batch' = {} /\ keys' = {} /\ jobs' = NoJobs
  /\ UNCHANGED <<query, pageNo>>

Searching(name) == scraper = name /\ run = "searching"
Sees(cards) == shown' = shown \cup Range(cards) /\ UNCHANGED garbled

(* {"jobs": null}, {"data": null}, a state object of another shape: what   *)
(* is read outside any try raises before a card is looked at.              *)
GarbledPage == garbled' = TRUE /\ UNCHANGED shown /\ Raise

Keep(cards, places) ==
  jobs' = [c \in Cards |-> jobs[c] + Cardinality({i \in places : cards[i] = c})]

(* for job in parsed: if key not in keys                                   *)
Unseen(cards, parsed, Key(_)) ==
  {i \in parsed : /\ Key(cards[i]) \notin keys
                  /\ \A k \in parsed : k < i => Key(cards[k]) # Key(cards[i])}

Collect(cards, parsed, Key(_)) ==
  /\ Keep(cards, Unseen(cards, parsed, Key))
  /\ keys' = keys \cup {Key(cards[i]) : i \in parsed}

(* A search that fails shows nothing; a card that raises is skipped.       *)
Guarded(name, IsJob(_), Key(_)) ==
  /\ Searching(name)
  /\ \E cards \in Answers :
       LET parsed == {i \in DOMAIN cards : Even(cards[i]) /\ IsJob(cards[i])}
       IN Sees(cards) /\ Collect(cards, parsed, Key)
  /\ NextQuery

FetchX == Guarded("x", Tweet, ApplyUrl)
FetchLinkedInPosts == Guarded("linkedin_posts", Post, ApplyUrl)
FetchNaukriGulf == Guarded("naukrigulf", NaukriGulfCard, SiteUrl)
FetchGulfTalent == Guarded("gulftalent", GulfTalentCard, LinkUrl)
FetchBayt == Guarded("bayt", BaytCard, LinkUrl)
FetchIndeed == Guarded("indeed", IndeedCard, IndeedUrl)
FetchGlassdoor == Guarded("glassdoor", Titled, SiteUrl)
FetchLinkedIn == Guarded("linkedin", LinkedInCard, LinkUrl)

FetchDubizzle ==
  /\ Searching("dubizzle")
  /\ \E cards \in Answers :
       /\ Sees(cards)
       /\ \/ Collect(cards, {i \in DOMAIN cards : Even(cards[i]) /\ DubizzleCard(cards[i])}, SiteUrl)
          \/ Collect(cards, DubizzleLinks(cards), SiteUrl)
  /\ NextQuery

(* Nothing is guarded: a card that raises ends the whole fetch.            *)
Intact(cards, parsed) == \A i \in parsed : Even(cards[i])

(* A page without anything new ends its category.                          *)
FetchWuzzuf ==
  /\ Searching("wuzzuf")
  /\ \/ GarbledPage
     \/ \E cards \in Answers :
          LET parsed == FirstAnchors(cards)
              ids == {cards[i].link : i \in parsed}
          IN /\ Sees(cards)
             /\ \/ ~Intact(cards, parsed) /\ Raise
                \/ /\ Intact(cards, parsed) /\ ids \subseteq batch
                   /\ NextQuery /\ UNCHANGED <<keys, jobs>>
                \/ /\ Intact(cards, parsed) /\ ~(ids \subseteq batch)
                   /\ Collect(cards, parsed, LinkUrl)
                   /\ IF pageNo = MaxPages THEN NextQuery
                      ELSE NextPage /\ batch' = batch \cup ids

(* Items are told apart by id; one without an id is always new, and one    *)
(* whose id was found before is not read at all.                           *)
ItemId(c) == c.other

Attempted(cards) ==
  {i \in DOMAIN cards :
     ItemId(cards[i]) # NoLink =>
       /\ ItemId(cards[i]) \notin keys
       /\ \A k \in 1..(i - 1) : WorkableItem(cards[k]) => ItemId(cards[k]) # ItemId(cards[i])}

FetchWorkableJobs ==
  /\ Searching("workable_jobs")
  /\ \/ GarbledPage
     \/ \E cards \in Answers, more \in BOOLEAN :
          LET items == {i \in DOMAIN cards : WorkableItem(cards[i])}
              nameless == {i \in items : ItemId(cards[i]) = NoLink}
              intact == Intact(cards, Attempted(cards))
          IN /\ Sees(cards)
             /\ \/ ~intact /\ Raise
                \/ /\ intact
                   /\ Keep(cards, nameless \cup Unseen(cards, items \ nameless, ItemId))
                   /\ keys' = keys \cup {ItemId(cards[i]) : i \in items \ nameless}
                   /\ IF more /\ pageNo < MaxPages
                      THEN NextPage /\ UNCHANGED batch ELSE NextQuery

(* Every item becomes a job, whatever it lacks, as often as it is found.   *)
FetchJSearch ==
  /\ Searching("jsearch")
  /\ \/ GarbledPage
     \/ \E cards \in Answers :
          /\ Sees(cards)
          /\ \/ ~Intact(cards, DOMAIN cards) /\ Raise
             \/ /\ Intact(cards, DOMAIN cards)
                /\ Keep(cards, DOMAIN cards) /\ UNCHANGED keys
                /\ NextQuery

FetchStep ==
  /\ \/ FetchX \/ FetchLinkedInPosts \/ FetchDubizzle \/ FetchNaukriGulf
     \/ FetchGulfTalent \/ FetchBayt \/ FetchIndeed \/ FetchGlassdoor
     \/ FetchLinkedIn \/ FetchWuzzuf \/ FetchWorkableJobs \/ FetchJSearch
  /\ UNCHANGED scraper

ScraperInit ==
  /\ scraper \in Scrapers
  /\ run = "idle" /\ query = 1 /\ pageNo = 1
  /\ batch = {} /\ keys = {} /\ jobs = NoJobs
  /\ shown = {} /\ garbled = FALSE

-----------------------------------------------------------------------------
(* The URL a job of this source has for the rest of the pipeline, and when *)
(* two cards are one job: items of Workable have an id.                    *)
JobUrl(c) ==
  CASE scraper \in {"x", "linkedin_posts"} /\ c.other # NoLink -> c.other
    [] scraper = "indeed" /\ c.link = NoLink -> c.other
    [] OTHER -> c.link

SameJob(c, d) ==
  IF scraper = "workable_jobs" /\ c.other # NoLink THEN c.other = d.other
  ELSE JobUrl(c) = JobUrl(d)

Jobs == {c \in Cards : jobs[c] > 0}

(* A card from which a subscriber could reach a job.  Before it on a page  *)
(* of Wuzzuf, or of bare links of Dubizzle, an anchor without a title (or, *)
(* for Dubizzle, one that cannot be read) may stand, which hides it.       *)
Worthy(c) ==
  /\ Linked(c) /\ Even(c)
  /\ scraper \in {"wuzzuf", "dubizzle"} => \A d \in shown : d.link = c.link => Titled(d)
  /\ scraper = "dubizzle" => \A d \in shown : d.link = c.link => Even(d)

(* A fetch that returns has lost no job a page showed it and, except for   *)
(* JSearch, returns none twice, whichever searches failed, whichever cards *)
(* could not be read and however often pages and searches repeat a job.    *)
EachOfferOnce ==
  run = "returned" =>
    /\ \A c \in shown : Worthy(c) => \E d \in Jobs : SameJob(c, d)
    /\ scraper # "jsearch" =>
         \A c, d \in Jobs :
           /\ SameJob(c, d)
           /\ scraper = "workable_jobs" => ItemId(c) # NoLink
           => c = d /\ jobs[c] = 1
=============================================================================
