---------------------------- MODULE MCAuthStore -----------------------------
(* Small instances of AuthStore.  Three plans: "boot" and "bootAgain" hash *)
(* alike (Hash rounds MaxDuration down to a millisecond), "wipe" belongs   *)
(* to another target, "bad" does not validate.                             *)
EXTENDS AuthStore, TLC

CONSTANTS w1, w2

MCPlan == {"boot", "bootAgain", "wipe", "bad"}
MCPlanTarget == [p \in MCPlan |-> IF p = "wipe" THEN "b" ELSE "a"]
MCPlanHash ==
  [p \in MCPlan |-> CASE p \in {"boot", "bootAgain"} -> "h1"
                      [] p = "wipe" -> "h2"
                      [] p = "bad" -> InvalidPlan]

(* The plans of the run that also checks liveness, without "wipe". *)
FewPlans == MCPlan \ {"wipe"}
FewPlanTarget == [p \in FewPlans |-> MCPlanTarget[p]]
FewPlanHash == [p \in FewPlans |-> MCPlanHash[p]]

MCOneStore == [w \in Worker |-> "s1"]
MCTwoStores == (w1 :> "s1") @@ (w2 :> "s2")

Symmetry == Permutations(Token)
=============================================================================
