CONSTANTS
  c1 = c1
  c2 = c2
  Cmd = {c1, c2}
  Kinds <- SelectAndSwitch
  Port = {"p1", "p2"}
  PortOf <- Ports
  Control = "ControlRight"
  Enter = "Enter"
  OtherKey = {}
  Button = {}
  NoCmd = NoCmd
  NoPort = "none"
CHECK_DEADLOCK FALSE
SPECIFICATION Spec
INVARIANTS OneTypist
