--------------------------- MODULE MCTargetSelect ---------------------------
(* A small instance of TargetSelect: a selection and a target-switch.      *)
EXTENDS TargetSelect, TLC

CONSTANTS c1, c2

SelectAndSwitch == {c1 :> "select" @@ c2 :> "switch"}

Ports == [c \in Cmd |-> IF c = c2 THEN "p2" ELSE "p1"]
=============================================================================
