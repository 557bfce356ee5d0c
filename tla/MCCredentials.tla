---------------------------- MODULE MCCredentials ----------------------------
(* Small instances of Credentials. *)
EXTENDS Credentials, TLC

CONSTANTS p1, p2

Symmetry == Permutations(Process)
=============================================================================
