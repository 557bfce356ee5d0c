-------------------------- MODULE MCDeviceCommands --------------------------
(* Small instances of DeviceCommands: which commands meet on the device.   *)
EXTENDS DeviceCommands, TLC

CONSTANTS c1, c2

Pairs(first, second) == {c1 :> a @@ c2 :> b : a \in first, b \in second}

Meetings ==
  Pairs({"select"}, {"select", "switch", "rearm", "keyboard_key", "keyboard_release_all"})
    \cup Pairs({"semantic"}, {"switch", "rearm"})
    \cup Pairs({"mcp_click"}, {"switch", "mouse_move", "kvm_mouse_click"})
    \cup Pairs({"observe"}, DOMAIN Program)

ObserveThenAct == Pairs({"observe"}, {"act_click", "act_press"})

Ports == [c \in Cmd |-> IF c = c2 THEN "p2" ELSE "p1"]
=============================================================================
