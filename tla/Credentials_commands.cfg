CONSTANTS
  p1 = p1
  p2 = p2
  Process = {p1, p2}
  Token = {"old", "new"}
  Old = "old"
  NoToken = "none"
  NoFile = NoFile
  Malformed = Malformed
  MaxLoose = 1
  MaxCommands = 2
CHECK_DEADLOCK FALSE
SYMMETRY Symmetry
SPECIFICATION Spec
INVARIANTS LoadIsAtomic WrittenIsLoaded
PROPERTIES SetNeverLogsOut
