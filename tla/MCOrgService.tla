---------------------------- MODULE MCOrgService ----------------------------
(***************************************************************************)
(* OrgService on small instances.  Ids, names and profiles are only ever   *)
(* compared, and so are interchangeable; slots are where Movers allows it. *)
(***************************************************************************)
EXTENDS OrgService, TLC

IdSymmetry ==
    Permutations(DeptId) \cup Permutations(EmpId) \cup Permutations(Name)
        \cup Permutations(Profile)

Symmetry == IdSymmetry \cup Permutations(Request)

\* What a request was answered is looked at by no property of some runs, and by
\* no action.
Unanswered(q) == IF q.pc = "idle" THEN Idle("none") ELSE q

Silent == <<tables, issued, [r \in Request |-> Unanswered(request[r])]>>
=============================================================================
