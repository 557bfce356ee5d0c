CONSTANTS
  old = old
  new = new
  Process = {old, new}
  Outside = Outside
  NoProcess = NoProcess
  StoreSchemaVersion <- Versions
  Id = {"row"}
  Field = {"list", "name"}
  NoRow = NoRow
  NoAnswer = NoAnswer
  Refused = Refused
  Torn = Torn
  Shared = Shared
  Empty = Empty
  Stores <- AllAges
  Items <- Answers
  MaxCommands = 3
  MaxDeaths = 1
CHECK_DEADLOCK FALSE
SPECIFICATION Spec
INVARIANTS StampIsTrue
PROPERTIES NewerIsLeftAlone KeepsRows ReaderIsCurrent EveryUseReturns
