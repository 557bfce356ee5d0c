-------------------------- MODULE MCFlagDerivation --------------------------
(* Small instances of FlagDerivation. *)
EXTENDS FlagDerivation

Symmetry == Permutations(Invocation) \cup Permutations(Session)
=============================================================================
