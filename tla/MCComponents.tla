---------------------------- MODULE MCComponents ----------------------------
(***************************************************************************)
(* The parts that share no state, for TLC: one user's alerts, his records, *)
(* a fetcher and the circuit of its source, the connection pool, and the   *)
(* rules a job goes through.  No property spans two of them, so every      *)
(* behaviour moves one part, and the run explores the sum of their state   *)
(* spaces instead of the product.                                          *)
(***************************************************************************)
EXTENDS AlertWizard, UserRecords, SourceHealth, ConnectionPool, JobRules

CONSTANT senior

MCOptions == [topics |-> {General}, seniority |-> {senior},
              locations |-> {}, sources |-> {}]
MCLower == [v \in Values |-> IF v \in {"Acme", "ACME"} THEN "acme" ELSE v]
MCSymmetry == Permutations(AlertIds)

(* Cards: two of one job with different links, one that shares its link    *)
(* with an untitled one, one that cannot be read, one without a link.      *)
MCCard(title, link, other, odd) == [title |-> title, link |-> link, other |-> other, odd |-> odd]
MCCards ==
  {MCCard(TRUE, "u1", "", FALSE), MCCard(TRUE, "u2", "u1", FALSE),
   MCCard(FALSE, "u1", "", FALSE),
   MCCard(TRUE, "u2", "", TRUE), MCCard(TRUE, "", "", FALSE)}

MCOffer ==
  [source |-> "jsearch", original |-> "", complete |-> TRUE, keywords |-> <<"exact", "none">>,
   excluded |-> FALSE, fields |-> {}, levels |-> {}, seniority |-> "mid", place |-> {},
   country |-> "", isRemote |-> FALSE, remoteText |-> FALSE, title |-> {"go"}, company |-> {"acme"}]

(* Every place of up to two countries, stated or not, with every kind of   *)
(* source and remoteness; and one place with the other fields varied.      *)
MCOffers ==
  {[MCOffer EXCEPT !.source = s, !.place = p, !.country = c, !.isRemote = r, !.remoteText = t] :
     s \in {"jsearch", "remotive"}, p \in SUBSET {"EG", "SA", "GB"},
     c \in {"", "Egypt"}, r \in BOOLEAN, t \in BOOLEAN}
  \cup
  {[MCOffer EXCEPT !.complete = c, !.keywords = <<k, "partial">>, !.excluded = x, !.place = {"EG"}] :
     c \in BOOLEAN, k \in DOMAIN ScoreOf, x \in BOOLEAN}
  \cup
  {[MCOffer EXCEPT !.original = o, !.fields = f, !.levels = l, !.place = {"EG"}] :
     o \in {"", "LinkedIn"}, f \in SUBSET {"backend", "fullstack"}, l \in SUBSET {"senior", "intern"}}

MCAlert == [topics |-> {"general"}, seniority |-> {}, sources |-> {}, locations |-> {},
            keywords |-> {}, companies |-> {}, words |-> {}]
MCAlerts ==
  {[MCAlert EXCEPT !.topics = t, !.locations = l] :
     t \in {{}, {"general"}, {"egypt"}, {"backend", "saudi"}},
     l \in SUBSET {"remote", "EG", "GB"}}
  \cup
  {[MCAlert EXCEPT !.seniority = s, !.sources = o, !.keywords = k, !.companies = c] :
     s \in {{}, {"senior"}}, o \in {{}, {"linkedin"}}, k \in {{}, {"rust"}}, c \in {{}, {"acme"}}}
  \cup {[MCAlert EXCEPT !.words = {"go"}]}

VARIABLE focus   \* the part that moves

componentVars == <<wizardVars, recordsVars, healthVars, poolVars, rulesVars, focus>>

(* The fetcher and the stored alert are chosen only where they matter.     *)
Init ==
  /\ focus \in {"alerts", "link", "saved", "applied", "blacklist", "source", "pool", "rules"}
  /\ WizardInit /\ (focus # "alerts" => \A i \in AlertIds : alerts[i] = NoRow)
  /\ RecordsInit /\ PoolInit
  /\ RulesInit /\ HealthInit /\ (focus # "source" => scraper = "x")

Next ==
  /\ \/ focus = "alerts" /\ WizardNext
        /\ UNCHANGED <<recordsVars, healthVars, poolVars, rulesVars>>
     \/ focus = "link" /\ LinkNext
        /\ UNCHANGED <<wizardVars, savedVars, appliedVars, blacklist, healthVars, poolVars, rulesVars>>
     \/ focus = "saved" /\ SavedNext
        /\ UNCHANGED <<wizardVars, linkVars, appliedVars, blacklist, healthVars, poolVars, rulesVars>>
     \/ focus = "applied" /\ AppliedNext
        /\ UNCHANGED <<wizardVars, linkVars, savedVars, blacklist, healthVars, poolVars, rulesVars>>
     \/ focus = "blacklist" /\ BlacklistNext
        /\ UNCHANGED <<wizardVars, linkVars, savedVars, appliedVars, healthVars, poolVars, rulesVars>>
     \/ focus = "source" /\ HealthNext /\ UNCHANGED <<wizardVars, recordsVars, poolVars, rulesVars>>
     \/ focus = "pool" /\ PoolNext /\ UNCHANGED <<wizardVars, recordsVars, healthVars, rulesVars>>
     \/ focus = "rules" /\ RulesNext /\ UNCHANGED <<wizardVars, recordsVars, healthVars, poolVars>>
  /\ UNCHANGED focus

Spec == Init /\ [][Next]_componentVars
=============================================================================
