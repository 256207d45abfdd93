------------------------------ MODULE OrgTables ------------------------------
(***************************************************************************)
(* The two PostgreSQL tables of the service, their constraints, and the    *)
(* statements the repositories run on them, as pure operators.             *)
(*                                                                         *)
(* A table is a function from the ids of the rows that exist to the rows.  *)
(* Names, employee profiles (full_name, position, hired_at together) and   *)
(* ids are opaque: the code only compares them.                            *)
(***************************************************************************)
EXTENDS Functions

CONSTANTS
    DeptId,     \* ids the BIGSERIAL sequence of departments can hand out
    EmpId,      \* ids the BIGSERIAL sequence of employees can hand out
    Name,       \* department names that pass validation
    Profile,    \* employee profiles that pass validation
    Null        \* SQL NULL, JSON null, a nil pointer

ASSUME NullAssumption == Null \notin DeptId \cup EmpId

Department == [name : Name, parent : DeptId \cup {Null}]

Employee == [dept : DeptId, profile : Profile]

DepartmentTables == UNION {[S -> Department] : S \in SUBSET DeptId}

EmployeeTables == UNION {[S -> Employee] : S \in SUBSET EmpId}

-----------------------------------------------------------------------------
(***************************************************************************)
(* The hierarchy.                                                          *)
(***************************************************************************)

Children(depts, d) == {c \in DOMAIN depts : depts[c].parent = d}

Staff(emps, D) == {e \in DOMAIN emps : emps[e].dept \in D}

ClosedBelow(depts, S) == \A c \in DOMAIN depts : depts[c].parent \in S => c \in S

\* d and everything below it: the least set of rows that holds d and is closed
\* under children.  Empty when d does not exist.
Subtree(depts, d) ==
    {x \in DOMAIN depts :
        /\ d \in DOMAIN depts
        /\ \A S \in SUBSET DOMAIN depts :
               d \in S /\ ClosedBelow(depts, S) => x \in S}

\* Every non-empty set of departments has one whose parent is outside the set:
\* no department is above itself.
Acyclic(depts) ==
    \A S \in SUBSET DOMAIN depts : S # {} => \E x \in S : depts[x].parent \notin S

-----------------------------------------------------------------------------
(***************************************************************************)
(* The constraints of migrations/.                                         *)
(***************************************************************************)

\* fk_departments_parent
ParentKey(depts) ==
    \A d \in DOMAIN depts : depts[d].parent \in DOMAIN depts \cup {Null}

\* fk_employees_department
DepartmentKey(depts, emps) == \A e \in DOMAIN emps : emps[e].dept \in DOMAIN depts

\* uq_departments_parent_name is partial (WHERE parent_id IS NOT NULL) ...
ParentNameIndex(depts) ==
    \A c, d \in DOMAIN depts :
        /\ c # d
        /\ depts[c].parent # Null
        /\ depts[c].parent = depts[d].parent
        => depts[c].name # depts[d].name

\* ... and uq_departments_root_name covers the roots, whose parent_id is NULL.
RootNameIndex(depts) ==
    \A c, d \in DOMAIN depts :
        /\ c # d
        /\ depts[c].parent = Null
        /\ depts[d].parent = Null
        => depts[c].name # depts[d].name

NameIndexes(depts) == ParentNameIndex(depts) /\ RootNameIndex(depts)

-----------------------------------------------------------------------------
(***************************************************************************)
(* The statements.                                                         *)
(***************************************************************************)

\* INSERT, and what gorm's Save does: UPDATE all columns of the row with this
\* id and, if there is none, INSERT it.
Put(table, id, row) ==
    [x \in DOMAIN table \cup {id} |-> IF x = id THEN row ELSE table[x]]

Remove(table, ids) == Restrict(table, DOMAIN table \ ids)

\* DELETE of departments with ON DELETE CASCADE.
CascadeEmployees(emps, D) == Remove(emps, Staff(emps, D))

\* UPDATE departments SET parent_id = to WHERE id IN kids
Reparent(depts, kids, to) ==
    [d \in DOMAIN depts |->
        IF d \in kids THEN [depts[d] EXCEPT !.parent = to] ELSE depts[d]]

\* UPDATE employees SET department_id = to WHERE id IN staff
Reassign(emps, staff, to) ==
    [e \in DOMAIN emps |->
        IF e \in staff THEN [emps[e] EXCEPT !.dept = to] ELSE emps[e]]

\* SELECT count(*) ... WHERE name AND parent_id, with or without id <> except
NameTaken(depts, name, parent, except) ==
    \E d \in DOMAIN depts \ {except} :
        depts[d].name = name /\ depts[d].parent = parent
=============================================================================
