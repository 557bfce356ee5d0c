----------------------------- MODULE MCSeqExec ------------------------------
(* Small instances of SeqExec: plans that between them use every action.   *)
EXTENDS SeqExec, TLC

CONSTANTS r1, r2

Char(k, kind) == [key |-> k, kind |-> kind]
KeyPress == [type |-> "key", key |-> "A"]
HoldKey == [type |-> "hold_key", key |-> "A", for |-> 1]
TypeA == [type |-> "text", chars |-> <<Char("A", "shifted")>>]
TypeAThenEmoji ==
  [type |-> "text", chars |-> <<Char("A", "plain"), Char("A", "unsupported")>>]
ClickOnce == [type |-> "mouse_click", key |-> "left", count |-> 1]
WaitLong == [type |-> "wait", for |-> 2]
Plain(type) == [type |-> type]

AllPlans ==
  [hold |-> <<HoldKey, WaitLong>>,
   wait |-> <<WaitLong>>,
   keys |-> <<KeyPress, Plain("release_all")>>,
   text |-> <<TypeA>>,
   emoji |-> <<TypeAThenEmoji>>,
   mouse |-> <<ClickOnce>>,
   screen |-> <<Plain("mouse_move"), Plain("assert_screen")>>]

MCPlanActions == [p \in Plan |-> AllPlans[p]]
MCMaxDuration == [p \in Plan |-> IF p \in {"hold", "wait"} THEN 5 ELSE 2]

MCPlansOf == (r1 :> Plan) @@ (r2 :> {"emoji"})

OneExecutor == [r \in Run |-> "x1"]
=============================================================================
