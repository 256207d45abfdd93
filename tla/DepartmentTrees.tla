--------------------------- MODULE DepartmentTrees ---------------------------
(***************************************************************************)
(* Department trees, the DepartmentTreeResponse of GetDepartmentTree.      *)
(*                                                                         *)
(* A tree is a function from paths to nodes.  The path of a node is the    *)
(* sequence of ids from the root of the tree down to it, so a department   *)
(* that the recursion meets twice has two nodes.  The order of siblings,   *)
(* which no ORDER BY fixes, is left out.  The empty tree is no answer:     *)
(* there is no such department.                                            *)
(***************************************************************************)
EXTENDS OrgTables, Naturals, Sequences

CONSTANT MaxDepth       \* the largest depth that GetDepartmentTree lets through

ASSUME DepthAssumption == MaxDepth \in 1 .. 5

ASSUME NoListAssumption == Null \notin EmployeeTables

Path == UNION {[1 .. n -> DeptId] : n \in 1 .. MaxDepth + 1}

Bottom(p) == p[Len(p)]

Above(p) == p[Len(p) - 1]

\* A node without its children.  Null is the nil pointer of employees that are
\* not included; an empty list is an empty table.
Node == [row : Department, staff : EmployeeTables \cup {Null}]

StaffOf(emps, d) == Restrict(emps, Staff(emps, {d}))

\* The paths down from root that a tree of this depth shows.
PathsFrom(depts, root, depth) ==
    {p \in Path :
        /\ Len(p) <= depth + 1
        /\ p[1] = root
        /\ \A i \in 1 .. Len(p) : p[i] \in DOMAIN depts
        /\ \A i \in 1 .. Len(p) - 1 : depts[p[i + 1]].parent = p[i]}

\* The tree that q asks for, in one state t of the tables.
TreeIn(t, q) ==
    [p \in PathsFrom(t.depts, q.root, q.depth) |->
        [row |-> t.depts[Bottom(p)],
         staff |-> IF q.include THEN StaffOf(t.emps, Bottom(p)) ELSE Null]]

\* validCachedDepartmentTree: the cache takes the tree t for the request q.  Its checks for nil
\* slices are left out: the trees that are stored have none, and JSON keeps that so.
Valid(t, q) ==
    /\ <<q.root>> \in DOMAIN t
    /\ \A p \in DOMAIN t :
           /\ (t[p].staff # Null) = q.include
           /\ Len(p) <= q.depth + 1
           /\ Len(p) > 1 => t[p].row.parent = Above(p)

-----------------------------------------------------------------------------
(***************************************************************************)
(* How the tree t for the request q compares with the tables S that there  *)
(* have been while it was read.                                            *)
(***************************************************************************)

\* What has not changed is shown, whatever else has: a path that was there all
\* the time, and its node if that was the same all the time.
ShowsStable(t, q, S) ==
    \A p \in Path :
        (\A s \in S : p \in PathsFrom(s.depts, q.root, q.depth)) =>
            /\ p \in DOMAIN t
            /\ \A s \in S :
                   (\A u \in S : TreeIn(u, q)[p] = TreeIn(s, q)[p])
                   => t[p] = TreeIn(s, q)[p]

\* Each row, and the list of employees of each node, was there at some time.
ShowsOnly(t, S) ==
    \A p \in DOMAIN t :
        /\ \E s \in S : Bottom(p) \in DOMAIN s.depts /\ t[p].row = s.depts[Bottom(p)]
        /\ t[p].staff # Null => \E s \in S : t[p].staff = StaffOf(s.emps, Bottom(p))
=============================================================================
