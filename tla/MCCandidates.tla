---------------------------- MODULE MCCandidates ----------------------------
(* Small instances of Candidates: flag corrections alone, or one with the  *)
(* synthesized playbook of the same family.                                *)
EXTENDS Candidates, TLC

OneFamily == [s \in Signature |-> "f"]

Symmetry == Permutations(Process)
=============================================================================
