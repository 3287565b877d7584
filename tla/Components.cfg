SPECIFICATION Spec
CONSTANTS
  AlertIds = {a1, a2, a3}
  MaxAlerts = 3
  Options <- MCOptions
  senior = senior
  General = general
  Keywords = {k}
  AlertLimit = 2
  MaxFaults = 1
  Nobody = Nobody
  SaveJobs = {1, 2, 3, 4}
  PerPage = 2
  LastDay = 6
  Values = {"Acme", "ACME", "Other"}
  Lower <- MCLower
  Cards <- MCCards
  NoLink = ""
  SiteRoot = "root"
  Queries = 2
  MaxPages = 2
  PageSize = 2
  MaxRetries = 2
  FailureLimit = 3
  MaxDbErrors = 1
  Threads = {t1, t2}
  Pools = {q1, q2}
  NoPool = NoPool
  MaxConn = 1
  Offers <- MCOffers
  Alerts <- MCAlerts
SYMMETRY MCSymmetry
INVARIANTS
  WizardTypeOK
  PositionsPacked
  SubscribedIsNotified
  LeafingSkipsNothing
  StreakIsAChain
  BlacklistedOnce
  OnlyOddCardsTrip
  EachOfferOnce
  NothingLeaks
  GeographyAgrees
PROPERTIES
  ImplementsAlertList
  OverwriteUsesUpEdit
  EditKeepsKeywords
  StreakLostByAMissedDay
CHECK_DEADLOCK FALSE
