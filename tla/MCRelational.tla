---------------------------- MODULE MCRelational ----------------------------
(***************************************************************************)
(* Small instances of Relational.                                          *)
(***************************************************************************)
EXTENDS Relational, TLC

CONSTANTS t1, t2, a, b, x, y

Symmetry == Permutations(TableName) \cup Permutations(ColName) \cup Permutations(Num)
=============================================================================
