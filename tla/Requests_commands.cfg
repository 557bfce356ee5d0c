CONSTANTS
  w1 = w1
  w2 = w2
  Worker = {w1, w2}
  Offered <- ReaderAndAnyone
  Cached = "hid"
  MaxRetries = 1
  MaxVersion = 2
  MaxCommands = 3
CHECK_DEADLOCK FALSE
SPECIFICATION FairSpec
INVARIANTS CacheIsCurrent WrittenOnce
PROPERTIES EveryRequestReturns
