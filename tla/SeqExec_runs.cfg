CONSTANTS
  r1 = r1
  r2 = r2
  Run = {r1, r2}
  Executor = {"x1"}
  ExecutorOf <- OneExecutor
  Key = {"A", "shift", "left"}
  Shift = "shift"
  Plan = {"hold", "wait", "keys", "text", "emoji", "mouse", "screen"}
  PlansOf <- MCPlansOf
  PlanActions <- MCPlanActions
  MaxDuration <- MCMaxDuration
  Expiries = {3}
  Millisecond = 2
  HasShortcut = TRUE
  MaxTime = 2
  NoRun = NoRun
CHECK_DEADLOCK FALSE
SPECIFICATION FairSpec
INVARIANTS JournalPrecedesDevice CleanupReleases RunsDoNotOverlap SuccessIsComplete
PROPERTIES EveryRunEnds
