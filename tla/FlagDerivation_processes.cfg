CONSTANTS
  Invocation = {p1, p2}
  Session = {s1, s2}
  Window = 1
  DayLength = 2
  MaxAge = 0
  MaxTotal = 2
  Trouble = {"death", "disk", "store"}
  MaxTime = 2
  MaxEntries = 4
  MaxTogether = 3
  TroubleTogether = {"death"}
  NoFile = NoFile
  NoEntry = NoEntry
  Torn = Torn
  Junk = Junk
CHECK_DEADLOCK FALSE
SYMMETRY Symmetry
SPECIFICATION JournalSpec
INVARIANTS CountedOnce NotSkipped
PROPERTIES AppendIsReadable
