CONSTANTS
  c1 = c1
  c2 = c2
  Cmd = {c1, c2}
  Kinds <- Meetings
  Port = {"p1", "p2"}
  PortOf <- Ports
  Control = "ControlRight"
  Enter = "Enter"
  OtherKey = {"KeyA", "ShiftLeft", "left"}
  Button = {"left"}
  Letter = "KeyA"
  Shift = "ShiftLeft"
  Left = "left"
  Picture = {"login", "desktop"}
  Readable = {"login"}
  Blank = "desktop"
  NoCmd = NoCmd
  NoPort = "none"
CHECK_DEADLOCK FALSE
SPECIFICATION AllFairSpec
INVARIANTS OneSelection VerifiedIsOnTarget GivenBack StorageOnMeansError ActsOnWhatWasAsked
 
