----------------------------- MODULE MCHistory -----------------------------
(***************************************************************************)
(* A small instance of History for TLC: a history of two runs, three runs  *)
(* to add and one that another version may have left.                      *)
(***************************************************************************)
EXTENDS History, TLC

\* Runs that are added are interchangeable, and so are shapes.
Symmetry == Permutations(Run \ Foreign) \cup Permutations(Shape)
=============================================================================
