---------------------------- MODULE MCCachedTrees ----------------------------
(***************************************************************************)
(* CachedTrees on small instances: ids, names and reads are only compared; *)
(* who is asked for is not.  What a finished read answered is looked at    *)
(* only in the step in which it does.                                      *)
(***************************************************************************)
EXTENDS CachedTrees, TLC

Symmetry == Permutations(DeptId \ Root) \cup Permutations(Name) \cup Permutations(Loader)

Silent ==
    <<db, loading, redis,
      [l \in Loader |-> [read[l] EXCEPT !.answer = Null]],
      [l \in Loader |-> IF read[l].pc = "idle" THEN {} ELSE during[l]]>>
=============================================================================
