CONSTANTS
  Process = {p1, p2}
  FlagSignature = {"flag"}
  BookSignature = {"book"}
  Family = {"f"}
  FamilyOf <- OneFamily
  Steps = {1, 2}
  TTL = 0
  MaxTime = 1
  MaxSightings = 2
  MaxBorn = 1
  Taught = Taught
  NoBook = NoBook
  NoRow = NoRow
  NoArg = NoArg
CHECK_DEADLOCK FALSE
SYMMETRY Symmetry
SPECIFICATION Spec
INVARIANTS MaterializedOnce
PROPERTIES TombstoneHolds FreshSightingSurvives ConfirmedFlagStays
