------------------------------ MODULE MCServer ------------------------------
(***************************************************************************)
(* Server on a small instance: one slot takes requests of every kind, the  *)
(* other a mutation and a read that it may have to be drained with.        *)
(***************************************************************************)
EXTENDS Server, TLC

CONSTANTS s1, s2

Slots == {s1, s2}

SlotRoutes == s1 :> Endpoints @@ s2 :> {"deleteEmp", "listEmps"}
=============================================================================
