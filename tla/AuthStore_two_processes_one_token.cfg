CONSTANTS
  w1 = w1
  w2 = w2
  Worker = {w1, w2}
  Store = {"s1", "s2"}
  StoreOf <- MCTwoStores
  Token = {t1, t2}
  Target = {"a", "b"}
  Plan <- MCPlan
  PlanTarget <- MCPlanTarget
  PlanHash <- MCPlanHash
  InvalidPlan = "invalid"
  TTLs = {0, 1, 2}
  MaxTTL = 1
  MaxTime = 1
  MaxUses = 2
  NoWorker = NoWorker
  NoAuth = NoAuth
  NoRequest = NoRequest
CHECK_DEADLOCK FALSE
SPECIFICATION Spec
SYMMETRY Symmetry
INVARIANTS UsedAtMostOnce
