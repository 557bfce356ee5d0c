CONSTANTS
  p1 = p1
  p2 = p2
  Process = {p1, p2}
  Question <- Questions
  Words <- WordsOf
  Capital <- CapitalOf
  Split <- Cut
  Stopword = {"how"}
  Inside <- Substrings
  Resource = {"a", "b", "c"}
  Lesson <- Lessons
  Title <- Titles
  Template = {"kvm"}
  Makes <- MadeBy
  Alias <- Aliases
  TaughtPattern <- Patterns
  ExtractWindow = 2
  Limit = 2
  MaxCommands = 3
SYMMETRY Processes
CHECK_DEADLOCK FALSE
SPECIFICATION Spec
INVARIANTS TaughtIsRecalled Generalized
