---------------------------- MODULE MCTreeCache ----------------------------
(***************************************************************************)
(* TreeCache on small instances: the instances of the application, the     *)
(* slots within each and the writers are interchangeable.                  *)
(***************************************************************************)
EXTENDS TreeCache, TLC

Symmetry == Permutations(Proc) \cup Permutations(Slot) \cup Permutations(Writer)
=============================================================================
