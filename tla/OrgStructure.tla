---------------------------- MODULE OrgStructure ----------------------------
(***************************************************************************)
(* What the service promises about the organisation: every request that    *)
(* succeeds takes effect as ONE step on the tables, under the business     *)
(* rules of the service layer.  OrgService, where the same requests are    *)
(* sequences of database calls that interleave, is compared with this.     *)
(***************************************************************************)
EXTENDS OrgTables

VARIABLES
    departments,    \* the departments table
    employees,      \* the employees table
    issued          \* ids the two sequences have handed out

vars == <<departments, employees, issued>>

TypeOK ==
    /\ departments \in DepartmentTables
    /\ employees \in EmployeeTables
    /\ issued \subseteq DeptId \cup EmpId

\* The service starts on whatever organisation the database holds.
Init ==
    /\ departments \in DepartmentTables
    /\ employees \in EmployeeTables
    /\ ParentKey(departments)
    /\ NameIndexes(departments)
    /\ Acyclic(departments)
    /\ DepartmentKey(departments, employees)
    /\ issued = DOMAIN departments \cup DOMAIN employees

-----------------------------------------------------------------------------
CreateDepartment(d, name, parent) ==
    /\ d \notin issued
    /\ parent \in DOMAIN departments \cup {Null}
    /\ ~NameTaken(departments, name, parent, Null)
    /\ departments' = Put(departments, d, [name |-> name, parent |-> parent])
    /\ issued' = issued \cup {d}
    /\ UNCHANGED employees

\* Rename and move; an omitted field keeps its value.
PatchDepartment(d, name, parent) ==
    /\ d \in DOMAIN departments
    /\ \/ parent = departments[d].parent
       \/ parent = Null
       \/ parent \in DOMAIN departments \ Subtree(departments, d)
    /\ ~NameTaken(departments, name, parent, d)
    /\ departments' = Put(departments, d, [name |-> name, parent |-> parent])
    /\ UNCHANGED <<employees, issued>>

DeleteCascade(d) ==
    /\ d \in DOMAIN departments
    /\ LET gone == Subtree(departments, d)
       IN  /\ departments' = Remove(departments, gone)
           /\ employees' = CascadeEmployees(employees, gone)
    /\ UNCHANGED issued

\* Children and staff of d go to "to"; nothing but d disappears.
DeleteReassign(d, to) ==
    /\ d \in DOMAIN departments
    /\ to \in DOMAIN departments \ Subtree(departments, d)
    /\ LET moved == Reparent(departments, Children(departments, d), to)
       IN  /\ NameIndexes(moved)
           /\ departments' = Remove(moved, {d})
    /\ employees' = Reassign(employees, Staff(employees, {d}), to)
    /\ UNCHANGED issued

CreateEmployee(e, profile, dept) ==
    /\ e \notin issued
    /\ dept \in DOMAIN departments
    /\ employees' = Put(employees, e, [dept |-> dept, profile |-> profile])
    /\ issued' = issued \cup {e}
    /\ UNCHANGED departments

PatchEmployee(e, profile, dept) ==
    /\ e \in DOMAIN employees
    /\ dept \in DOMAIN departments
    /\ employees' = Put(employees, e, [dept |-> dept, profile |-> profile])
    /\ UNCHANGED <<departments, issued>>

DeleteEmployee(e) ==
    /\ e \in DOMAIN employees
    /\ employees' = Remove(employees, {e})
    /\ UNCHANGED <<departments, issued>>

\* The id of an INSERT that fails is not used again.
SkipId(x) ==
    /\ x \notin issued
    /\ issued' = issued \cup {x}
    /\ UNCHANGED <<departments, employees>>

Next ==
    \/ \E d \in DeptId, name \in Name, parent \in DeptId \cup {Null} :
           \/ CreateDepartment(d, name, parent)
           \/ PatchDepartment(d, name, parent)
    \/ \E d, to \in DeptId : DeleteCascade(d) \/ DeleteReassign(d, to)
    \/ \E e \in EmpId, profile \in Profile, dept \in DeptId :
           \/ CreateEmployee(e, profile, dept)
           \/ PatchEmployee(e, profile, dept)
    \/ \E e \in EmpId : DeleteEmployee(e)
    \/ \E x \in DeptId \cup EmpId : SkipId(x)

Spec == Init /\ [][Next]_vars

-----------------------------------------------------------------------------
(***************************************************************************)
(* Properties.                                                             *)
(***************************************************************************)

\* The hierarchy stays a forest, whatever moves and reassignments succeed: the
\* cycle check of PatchDepartment and DeleteDepartment is what keeps it so.
AcyclicHierarchy == Acyclic(departments)

\* Every parent_id and department_id names a department that exists, also
\* after a subtree or a reassigned department has been deleted.
ReferentialIntegrity ==
    /\ ParentKey(departments)
    /\ DepartmentKey(departments, employees)

\* Departments under one parent, and the root departments, have distinct names,
\* although two partial indexes share the job and reassign moves many at once.
SiblingNamesUnique ==
    \A c, d \in DOMAIN departments :
        c # d /\ departments[c].parent = departments[d].parent
        => departments[c].name # departments[d].name
=============================================================================
