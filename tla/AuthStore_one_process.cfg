CONSTANTS
  w1 = w1
  w2 = w2
  Worker = {w1, w2}
  Store = {"s1"}
  StoreOf <- MCOneStore
  Token = {t1, t2}
  Target = {"a", "b"}
  Plan <- FewPlans
  PlanTarget <- FewPlanTarget
  PlanHash <- FewPlanHash
  InvalidPlan = "invalid"
  TTLs = {0, 1, 2}
  MaxTTL = 1
  MaxTime = 1
  MaxUses = 2
  NoWorker = NoWorker
  NoAuth = NoAuth
  NoRequest = NoRequest
CHECK_DEADLOCK FALSE
SPECIFICATION FairSpec
INVARIANTS TypeOK GrantIsAuthorized StoredIsBounded UsedAtMostOnce NothingLost
PROPERTIES OnlyMatchingConsumes ImplementsOneTimeToken EveryCallReturns
