---------------------------- MODULE MCLocalStore ----------------------------
(* A small instance of LocalStore: two binaries, and a store of every age. *)
EXTENDS LocalStore, TLC

CONSTANTS old, new

Versions == old :> 8 @@ new :> 9

NoRows == [i \in Id |-> NoRow]
SomeRows == [i \in Id |-> [f \in Field |-> IF f = "list" THEN 2 ELSE 0]]

Aged(version, key, tables, columns, index) ==
  [version |-> version, key |-> key, tables |-> tables, columns |-> columns, index |-> index,
   rows |-> IF tables = 0 THEN NoRows ELSE SomeRows, indexed |-> IF tables = 0 THEN {} ELSE Id]

AllAges ==
  {Aged(0, FALSE, 0, FALSE, 0),      \* no file
   Aged(0, FALSE, 1, FALSE, 1), Aged(1, TRUE, 1, FALSE, 1), Aged(2, TRUE, 2, FALSE, 2),
   Aged(3, TRUE, 3, FALSE, 3), Aged(4, TRUE, 4, FALSE, 4), Aged(8, TRUE, 8, TRUE, 4),
   Aged(9, TRUE, 9, TRUE, 4), Aged(10, TRUE, 10, TRUE, 4)}

Answers == {[f \in Field |-> 1], [f \in Field |-> IF f = "list" THEN 0 ELSE 2]}
=============================================================================
