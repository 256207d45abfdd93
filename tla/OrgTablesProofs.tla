--------------------------- MODULE OrgTablesProofs ---------------------------
(***************************************************************************)
(* Facts about the statements of OrgTables: what they return, and which    *)
(* constraints they keep.                                                  *)
(***************************************************************************)
EXTENDS OrgTables, TLAPS

\* What it is to be a table of rows in R with ids in I.
IsTable(t, I, R) ==
    /\ DOMAIN t \subseteq I
    /\ t = [x \in DOMAIN t |-> t[x]]
    /\ \A x \in DOMAIN t : t[x] \in R

LEMMA DepartmentTable ==
  ASSUME NEW t
  PROVE  t \in DepartmentTables <=> IsTable(t, DeptId, Department)
<1>1. t \in DepartmentTables => IsTable(t, DeptId, Department)
  BY DEF DepartmentTables, IsTable
<1>2. ASSUME IsTable(t, DeptId, Department) PROVE t \in DepartmentTables
  <2>1. t \in [DOMAIN t -> Department] /\ DOMAIN t \in SUBSET DeptId
    BY <1>2 DEF IsTable
  <2> QED
    BY <2>1 DEF DepartmentTables
<1> QED
  BY <1>1, <1>2

LEMMA EmployeeTable ==
  ASSUME NEW t
  PROVE  t \in EmployeeTables <=> IsTable(t, EmpId, Employee)
<1>1. t \in EmployeeTables => IsTable(t, EmpId, Employee)
  BY DEF EmployeeTables, IsTable
<1>2. ASSUME IsTable(t, EmpId, Employee) PROVE t \in EmployeeTables
  <2>1. t \in [DOMAIN t -> Employee] /\ DOMAIN t \in SUBSET EmpId
    BY <1>2 DEF IsTable
  <2> QED
    BY <2>1 DEF EmployeeTables
<1> QED
  BY <1>1, <1>2

-----------------------------------------------------------------------------
LEMMA PutRows ==
  ASSUME NEW t, NEW id, NEW row
  PROVE  /\ DOMAIN Put(t, id, row) = DOMAIN t \cup {id}
         /\ \A x \in DOMAIN Put(t, id, row) :
                Put(t, id, row)[x] = IF x = id THEN row ELSE t[x]
         /\ Put(t, id, row) = [x \in DOMAIN Put(t, id, row) |-> Put(t, id, row)[x]]
  BY DEF Put

LEMMA PutDepartment ==
  ASSUME NEW t \in DepartmentTables, NEW d \in DeptId, NEW row \in Department
  PROVE  Put(t, d, row) \in DepartmentTables
<1> DEFINE u == Put(t, d, row)
<1>1. IsTable(t, DeptId, Department)
  BY DepartmentTable
<1>2. IsTable(u, DeptId, Department)
  BY <1>1 DEF IsTable, Put
<1> HIDE DEF u
<1>3. u \in DepartmentTables
  BY <1>2, DepartmentTable
<1> QED
  BY <1>3 DEF u

LEMMA PutEmployee ==
  ASSUME NEW t \in EmployeeTables, NEW e \in EmpId, NEW row \in Employee
  PROVE  Put(t, e, row) \in EmployeeTables
<1> DEFINE u == Put(t, e, row)
<1>1. IsTable(t, EmpId, Employee)
  BY EmployeeTable
<1>2. IsTable(u, EmpId, Employee)
  BY <1>1 DEF IsTable, Put
<1> HIDE DEF u
<1>3. u \in EmployeeTables
  BY <1>2, EmployeeTable
<1> QED
  BY <1>3 DEF u

LEMMA RemoveRows ==
  ASSUME NEW t, NEW ids
  PROVE  /\ DOMAIN Remove(t, ids) = DOMAIN t \ ids
         /\ \A x \in DOMAIN t \ ids : Remove(t, ids)[x] = t[x]
         /\ Remove(t, ids) = [x \in DOMAIN Remove(t, ids) |-> Remove(t, ids)[x]]
  BY DEF Remove, Restrict

LEMMA RemoveDepartments ==
  ASSUME NEW t \in DepartmentTables, NEW D
  PROVE  Remove(t, D) \in DepartmentTables
<1> DEFINE u == Remove(t, D)
<1>1. IsTable(t, DeptId, Department)
  BY DepartmentTable
<1>2. IsTable(u, DeptId, Department)
  BY <1>1 DEF IsTable, Remove, Restrict
<1> HIDE DEF u
<1>3. u \in DepartmentTables
  BY <1>2, DepartmentTable
<1> QED
  BY <1>3 DEF u

LEMMA RemoveEmployees ==
  ASSUME NEW t \in EmployeeTables, NEW E
  PROVE  Remove(t, E) \in EmployeeTables
<1> DEFINE u == Remove(t, E)
<1>1. IsTable(t, EmpId, Employee)
  BY EmployeeTable
<1>2. IsTable(u, EmpId, Employee)
  BY <1>1 DEF IsTable, Remove, Restrict
<1> HIDE DEF u
<1>3. u \in EmployeeTables
  BY <1>2, EmployeeTable
<1> QED
  BY <1>3 DEF u

LEMMA ReparentRows ==
  ASSUME NEW t \in DepartmentTables, NEW kids, NEW to \in DeptId
  PROVE  /\ Reparent(t, kids, to) \in DepartmentTables
         /\ DOMAIN Reparent(t, kids, to) = DOMAIN t
         /\ \A d \in DOMAIN t :
                /\ Reparent(t, kids, to)[d].name = t[d].name
                /\ Reparent(t, kids, to)[d].parent = IF d \in kids THEN to ELSE t[d].parent
<1>1. IsTable(t, DeptId, Department)
  BY DepartmentTable
<1>2. ASSUME NEW d \in DOMAIN t
      PROVE  /\ Reparent(t, kids, to)[d] \in Department
             /\ Reparent(t, kids, to)[d].name = t[d].name
             /\ Reparent(t, kids, to)[d].parent = IF d \in kids THEN to ELSE t[d].parent
  <2>1. t[d] \in Department
    BY <1>1 DEF IsTable
  <2>2. Reparent(t, kids, to)[d] = IF d \in kids THEN [t[d] EXCEPT !.parent = to] ELSE t[d]
    BY DEF Reparent
  <2> QED
    BY <2>1, <2>2 DEF Department
<1>3. IsTable(Reparent(t, kids, to), DeptId, Department)
  BY <1>1, <1>2 DEF Reparent, IsTable
<1> QED
  BY <1>2, <1>3, DepartmentTable DEF Reparent

LEMMA ReassignRows ==
  ASSUME NEW t \in EmployeeTables, NEW staff, NEW to \in DeptId
  PROVE  /\ Reassign(t, staff, to) \in EmployeeTables
         /\ DOMAIN Reassign(t, staff, to) = DOMAIN t
         /\ \A e \in DOMAIN t :
                Reassign(t, staff, to)[e].dept = IF e \in staff THEN to ELSE t[e].dept
<1>1. IsTable(t, EmpId, Employee)
  BY EmployeeTable
<1>2. ASSUME NEW e \in DOMAIN t
      PROVE  /\ Reassign(t, staff, to)[e] \in Employee
             /\ Reassign(t, staff, to)[e].dept = IF e \in staff THEN to ELSE t[e].dept
  <2>1. t[e] \in Employee
    BY <1>1 DEF IsTable
  <2>2. Reassign(t, staff, to)[e] = IF e \in staff THEN [t[e] EXCEPT !.dept = to] ELSE t[e]
    BY DEF Reassign
  <2> QED
    BY <2>1, <2>2 DEF Employee
<1>3. IsTable(Reassign(t, staff, to), EmpId, Employee)
  BY <1>1, <1>2 DEF Reassign, IsTable
<1> QED
  BY <1>2, <1>3, EmployeeTable DEF Reassign

LEMMA CascadeRows ==
  ASSUME NEW t \in EmployeeTables, NEW D
  PROVE  /\ CascadeEmployees(t, D) \in EmployeeTables
         /\ DOMAIN CascadeEmployees(t, D) = {e \in DOMAIN t : t[e].dept \notin D}
         /\ \A e \in DOMAIN CascadeEmployees(t, D) : CascadeEmployees(t, D)[e] = t[e]
<1>1. CascadeEmployees(t, D) \in EmployeeTables
  BY RemoveEmployees DEF CascadeEmployees
<1> QED
  BY <1>1 DEF CascadeEmployees, Staff, Remove, Restrict

-----------------------------------------------------------------------------
(***************************************************************************)
(* The hierarchy.                                                          *)
(***************************************************************************)
LEMMA SubtreeClosed ==
  ASSUME NEW t, NEW d
  PROVE  /\ Subtree(t, d) \subseteq DOMAIN t
         /\ d \in DOMAIN t => d \in Subtree(t, d)
         /\ ClosedBelow(t, Subtree(t, d))
<1>1. ASSUME NEW c \in DOMAIN t, t[c].parent \in Subtree(t, d) PROVE c \in Subtree(t, d)
  <2>1. d \in DOMAIN t
    BY <1>1 DEF Subtree
  <2>2. ASSUME NEW S \in SUBSET DOMAIN t, d \in S, ClosedBelow(t, S) PROVE c \in S
    <3>1. t[c].parent \in S
      BY <1>1, <2>2 DEF Subtree
    <3> QED
      BY <2>2, <3>1 DEF ClosedBelow
  <2> QED
    BY <2>1, <2>2 DEF Subtree
<1>2. ClosedBelow(t, Subtree(t, d))
  BY <1>1 DEF ClosedBelow
<1> QED
  BY <1>2 DEF Subtree

LEMMA SubtreeUp ==
  ASSUME NEW t, NEW d, NEW x \in Subtree(t, d), x # d
  PROVE  t[x].parent \in Subtree(t, d)
<1> SUFFICES ASSUME t[x].parent \notin Subtree(t, d) PROVE FALSE
  OBVIOUS
<1> DEFINE S == Subtree(t, d) \ {x}
<1>1. d \in DOMAIN t /\ S \subseteq DOMAIN t
  BY DEF Subtree
<1>2. d \in S /\ ClosedBelow(t, S)
  BY <1>1, SubtreeClosed DEF ClosedBelow
<1>3. x \in S
  BY <1>1, <1>2 DEF Subtree
<1> QED
  BY <1>3

LEMMA SubtreeNested ==
  ASSUME NEW t, NEW d, NEW c \in Subtree(t, d), NEW x \in Subtree(t, c)
  PROVE  x \in Subtree(t, d)
<1> DEFINE S == Subtree(t, d)
<1>1. S \subseteq DOMAIN t /\ ClosedBelow(t, S) /\ c \in S
  BY SubtreeClosed
<1> HIDE DEF S
<1>2. x \in S
  BY <1>1 DEF Subtree
<1> QED
  BY <1>2 DEF S

\* A department is above its children, and all that is below them.
LEMMA SubtreeOfParent ==
  ASSUME NEW t, NEW c \in DOMAIN t, t[c].parent \in DOMAIN t, NEW x \in Subtree(t, c)
  PROVE  x \in Subtree(t, t[c].parent)
<1>1. c \in Subtree(t, t[c].parent)
  BY SubtreeClosed DEF ClosedBelow
<1> QED
  BY <1>1, SubtreeNested

LEMMA SubtreeRemove ==
  ASSUME NEW t, NEW D, ClosedBelow(t, D), NEW d
  PROVE  Subtree(Remove(t, D), d) = IF d \in D THEN {} ELSE Subtree(t, d) \ D
<1> DEFINE u == Remove(t, D)
<1>1. DOMAIN u = DOMAIN t \ D /\ \A x \in DOMAIN u : u[x] = t[x]
  BY DEF Remove, Restrict
<1> HIDE DEF u
<1>2. d \in D => Subtree(u, d) = {}
  BY <1>1 DEF Subtree
<1>3. ASSUME d \notin D, NEW x \in Subtree(u, d) PROVE x \in Subtree(t, d) \ D
  <2>1. d \in DOMAIN u /\ x \in DOMAIN u
    BY <1>3 DEF Subtree
  <2>2. ASSUME NEW S \in SUBSET DOMAIN t, d \in S, ClosedBelow(t, S) PROVE x \in S
    <3>1. d \in S \ D /\ S \ D \in SUBSET DOMAIN u /\ ClosedBelow(u, S \ D)
      BY <1>1, <1>3, <2>2 DEF ClosedBelow
    <3> QED
      BY <1>3, <3>1 DEF Subtree
  <2> QED
    BY <1>1, <2>1, <2>2 DEF Subtree
<1>4. ASSUME d \notin D, NEW x \in Subtree(t, d) \ D PROVE x \in Subtree(u, d)
  <2>1. d \in DOMAIN t /\ x \in DOMAIN t
    BY <1>4 DEF Subtree
  <2>2. ASSUME NEW S \in SUBSET DOMAIN u, d \in S, ClosedBelow(u, S) PROVE x \in S
    <3> DEFINE T == (S \cup D) \cap DOMAIN t
    <3>1. d \in T /\ T \in SUBSET DOMAIN t /\ ClosedBelow(t, T)
      BY <1>1, <2>1, <2>2 DEF ClosedBelow
    <3> HIDE DEF T
    <3>2. x \in T
      BY <1>4, <3>1 DEF Subtree
    <3> QED
      BY <1>4, <3>2 DEF T
  <2> QED
    BY <1>1, <1>4, <2>1, <2>2 DEF Subtree
<1>5. Subtree(u, d) = IF d \in D THEN {} ELSE Subtree(t, d) \ D
  BY <1>2, <1>3, <1>4
<1> QED
  BY <1>5 DEF u

\* A new row is below others, and nothing is below it.
LEMMA SubtreeInsert ==
  ASSUME NEW t, NEW c, NEW row, ParentKey(t), c \notin DOMAIN t, c # Null,
         NEW d, d # c, NEW x, x # c
  PROVE  x \in Subtree(Put(t, c, row), d) <=> x \in Subtree(t, d)
<1> DEFINE u == Put(t, c, row)
<1>1. /\ DOMAIN u = DOMAIN t \cup {c}
      /\ \A y \in DOMAIN t : u[y] = t[y] /\ t[y].parent # c
  BY DEF Put, ParentKey
<1> HIDE DEF u
<1>2. ASSUME x \in Subtree(u, d) PROVE x \in Subtree(t, d)
  <2>1. d \in DOMAIN t /\ x \in DOMAIN t
    BY <1>1, <1>2 DEF Subtree
  <2>2. ASSUME NEW S \in SUBSET DOMAIN t, d \in S, ClosedBelow(t, S) PROVE x \in S
    <3> DEFINE T == S \cup {c}
    <3>1. d \in T /\ T \in SUBSET DOMAIN u /\ ClosedBelow(u, T)
      BY <1>1, <2>2 DEF ClosedBelow
    <3> HIDE DEF T
    <3>2. x \in T
      BY <1>2, <3>1 DEF Subtree
    <3> QED
      BY <3>2 DEF T
  <2> QED
    BY <2>1, <2>2 DEF Subtree
<1>3. ASSUME x \in Subtree(t, d) PROVE x \in Subtree(u, d)
  <2>1. d \in DOMAIN t /\ x \in DOMAIN t
    BY <1>3 DEF Subtree
  <2>2. ASSUME NEW S \in SUBSET DOMAIN u, d \in S, ClosedBelow(u, S) PROVE x \in S
    <3> DEFINE T == S \ {c}
    <3>1. d \in T /\ T \in SUBSET DOMAIN t /\ ClosedBelow(t, T)
      BY <1>1, <2>2 DEF ClosedBelow
    <3> HIDE DEF T
    <3>2. x \in T
      BY <1>3, <3>1 DEF Subtree
    <3> QED
      BY <3>2 DEF T
  <2> QED
    BY <1>1, <2>1, <2>2 DEF Subtree
<1> QED
  BY <1>2, <1>3 DEF u

\* In a forest nobody is below itself.
LEMMA AcyclicParent ==
  ASSUME NEW t, Acyclic(t), NEW d \in DOMAIN t
  PROVE  t[d].parent \notin Subtree(t, d)
<1> DEFINE B == Subtree(t, d)
<1>1. B \subseteq DOMAIN t /\ d \in B
  BY SubtreeClosed
<1>2. PICK x \in B : t[x].parent \notin B
  BY <1>1 DEF Acyclic
<1>3. x = d
  BY <1>2, SubtreeUp
<1> QED
  BY <1>2, <1>3

\* Rows may go, and rows of a part D that is closed below may move out of it.
LEMMA AcyclicMove ==
  ASSUME NEW t, NEW u, NEW D,
         Acyclic(t), ClosedBelow(t, D),
         DOMAIN u \subseteq DOMAIN t,
         \A x \in DOMAIN u : \/ u[x].parent = t[x].parent
                             \/ x \in D /\ u[x].parent \notin D
  PROVE  Acyclic(u)
<1> SUFFICES ASSUME NEW S \in SUBSET DOMAIN u, S # {}, \A x \in S : u[x].parent \in S
             PROVE  FALSE
  BY DEF Acyclic
<1>1. CASE S \subseteq D
  <2>1. \A x \in S : t[x].parent \in S
    BY <1>1
  <2> QED
    BY <2>1 DEF Acyclic
<1>2. CASE ~(S \subseteq D)
  <2>1. \A x \in S \ D : t[x].parent \in S \ D
    BY DEF ClosedBelow
  <2>2. S \ D # {} /\ S \ D \subseteq DOMAIN t
    BY <1>2
  <2> QED
    BY <2>1, <2>2 DEF Acyclic
<1> QED
  BY <1>1, <1>2

\* A new row has no children, so it closes no cycle.
LEMMA AcyclicInsert ==
  ASSUME NEW t, NEW d, NEW row,
         Acyclic(t), ParentKey(t), d \notin DOMAIN t, d # Null, row.parent # d
  PROVE  Acyclic(Put(t, d, row))
<1> SUFFICES ASSUME NEW S \in SUBSET DOMAIN Put(t, d, row), S # {},
                    \A x \in S : Put(t, d, row)[x].parent \in S
             PROVE  FALSE
  BY DEF Acyclic
<1>1. \A x \in S \ {d} : t[x].parent \in S \ {d}
  BY DEF ParentKey, Put
<1>2. S \ {d} # {}
  BY DEF Put
<1>3. S \ {d} \subseteq DOMAIN t
  BY DEF Put
<1> QED
  BY <1>1, <1>2, <1>3 DEF Acyclic

-----------------------------------------------------------------------------
(***************************************************************************)
(* The constraints.                                                        *)
(***************************************************************************)
\* The two partial indexes together are one.
LEMMA NamesUnique ==
  ASSUME NEW t
  PROVE  NameIndexes(t) <=> \A c, d \in DOMAIN t :
             c # d /\ t[c].parent = t[d].parent => t[c].name # t[d].name
  BY DEF NameIndexes, ParentNameIndex, RootNameIndex

LEMMA RemoveKeepsNames ==
  ASSUME NEW t, NEW D, NameIndexes(t)
  PROVE  NameIndexes(Remove(t, D))
<1> DEFINE u == Remove(t, D)
<1>1. /\ \A c, d \in DOMAIN t : c # d /\ t[c].parent = t[d].parent => t[c].name # t[d].name
      /\ DOMAIN u \subseteq DOMAIN t
      /\ \A x \in DOMAIN u : u[x] = t[x]
  BY NamesUnique DEF Remove, Restrict
<1>2. \A c, d \in DOMAIN u : c # d /\ u[c].parent = u[d].parent => u[c].name # u[d].name
  BY <1>1
<1> HIDE DEF u
<1>3. NameIndexes(u)
  BY <1>2, NamesUnique
<1> QED
  BY <1>3 DEF u

\* What CheckName verifies is enough, if nothing happens in between.
LEMMA PutKeepsNames ==
  ASSUME NEW t, NEW d, NEW row, NameIndexes(t), ~NameTaken(t, row.name, row.parent, d)
  PROVE  NameIndexes(Put(t, d, row))
<1> DEFINE u == Put(t, d, row)
<1>1. \A b, c \in DOMAIN t : b # c /\ t[b].parent = t[c].parent => t[b].name # t[c].name
  BY NamesUnique
<1>2. /\ DOMAIN u = DOMAIN t \cup {d}
      /\ \A x \in DOMAIN u : u[x] = IF x = d THEN row ELSE t[x]
  BY DEF Put
<1>3. \A b \in DOMAIN t \ {d} : t[b].parent = row.parent => t[b].name # row.name
  BY DEF NameTaken
<1> HIDE DEF u
<1>4. \A b, c \in DOMAIN u : b # c /\ u[b].parent = u[c].parent => u[b].name # u[c].name
  BY <1>1, <1>2, <1>3
<1>5. NameIndexes(u)
  BY <1>4, NamesUnique
<1> QED
  BY <1>5 DEF u

LEMMA RemoveKeepsParents ==
  ASSUME NEW t, NEW D, ParentKey(t), ClosedBelow(t, D), Null \notin D
  PROVE  ParentKey(Remove(t, D))
  BY DEF ParentKey, ClosedBelow, Remove, Restrict

LEMMA CascadeKeepsKey ==
  ASSUME NEW t, NEW emps \in EmployeeTables, NEW D, DepartmentKey(t, emps)
  PROVE  DepartmentKey(Remove(t, D), CascadeEmployees(emps, D))
  BY DEF DepartmentKey, CascadeEmployees, Staff, Remove, Restrict
-----------------------------------------------------------------------------
(***************************************************************************)
(* Names, while children wait to be moved by a transaction in progress.    *)
(***************************************************************************)
LEMMA MovedNames ==
  ASSUME NEW t \in DepartmentTables, NEW kids, NEW to \in DeptId
  PROVE  NameIndexes(Reparent(t, kids, to)) <=>
             \A c, d \in DOMAIN t :
                 /\ c # d
                 /\ (IF c \in kids THEN to ELSE t[c].parent)
                        = (IF d \in kids THEN to ELSE t[d].parent)
                 => t[c].name # t[d].name
<1> DEFINE m == Reparent(t, kids, to)
<1>1. /\ DOMAIN m = DOMAIN t
      /\ \A d \in DOMAIN t : /\ m[d].name = t[d].name
                             /\ m[d].parent = IF d \in kids THEN to ELSE t[d].parent
  BY ReparentRows
<1> HIDE DEF m
<1>2. NameIndexes(m) <=>
          \A c, d \in DOMAIN m : c # d /\ m[c].parent = m[d].parent => m[c].name # m[d].name
  BY NamesUnique
<1>3. NameIndexes(m) <=>
          \A c, d \in DOMAIN t :
              /\ c # d
              /\ (IF c \in kids THEN to ELSE t[c].parent)
                     = (IF d \in kids THEN to ELSE t[d].parent)
              => t[c].name # t[d].name
  BY <1>1, <1>2
<1> QED
  BY <1>3 DEF m

\* A row is written whose name the moved children do not need.
LEMMA PendingPut ==
  ASSUME NEW t \in DepartmentTables, NEW d \in DeptId, NEW row \in Department,
         NEW kids \in SUBSET DOMAIN t, NEW to \in DeptId, d \notin kids,
         NameIndexes(Put(t, d, row)), NameIndexes(Reparent(t, kids, to)),
         \A k \in kids : t[k].name = row.name => row.parent # to
  PROVE  NameIndexes(Reparent(Put(t, d, row), kids, to))
<1> DEFINE u == Put(t, d, row)
<1>1. u \in DepartmentTables
  BY PutDepartment
<1>2. /\ DOMAIN u = DOMAIN t \cup {d}
      /\ u[d] = row
      /\ \A x \in DOMAIN t \ {d} : u[x] = t[x]
  BY DEF Put
<1>3. \A b, c \in DOMAIN u : b # c /\ u[b].parent = u[c].parent => u[b].name # u[c].name
  BY NamesUnique
<1>4. \A b, c \in DOMAIN t :
          /\ b # c
          /\ (IF b \in kids THEN to ELSE t[b].parent) = (IF c \in kids THEN to ELSE t[c].parent)
          => t[b].name # t[c].name
  BY MovedNames
<1> HIDE DEF u
<1>5. ASSUME NEW b \in DOMAIN u, NEW c \in DOMAIN u, b # c,
             (IF b \in kids THEN to ELSE u[b].parent) = (IF c \in kids THEN to ELSE u[c].parent)
      PROVE  u[b].name # u[c].name
  <2>1. CASE b # d /\ c # d
    BY <1>2, <1>4, <1>5, <2>1
  <2>2. CASE b = d
    BY <1>2, <1>3, <1>5, <2>2
  <2>3. CASE c = d
    BY <1>2, <1>3, <1>5, <2>3
  <2> QED
    BY <2>1, <2>2, <2>3
<1>6. NameIndexes(Reparent(u, kids, to))
  BY <1>1, <1>5, MovedNames
<1> QED
  BY <1>6 DEF u

\* Another transaction commits: the children of both keep apart.
LEMMA PendingCommit ==
  ASSUME NEW t \in DepartmentTables, NEW D,
         NEW mine, NEW to \in DeptId, NEW kids, NEW target \in DeptId,
         mine \cap kids = {},
         NameIndexes(Reparent(t, mine, to)), NameIndexes(Reparent(t, kids, target)),
         \A j \in mine, k \in kids : t[j].name = t[k].name => to # target
  PROVE  NameIndexes(Reparent(Remove(Reparent(t, mine, to), D), kids, target))
<1> DEFINE m == Reparent(t, mine, to)
           u == Remove(m, D)
<1>1. /\ m \in DepartmentTables
      /\ DOMAIN m = DOMAIN t
      /\ \A d \in DOMAIN t : /\ m[d].name = t[d].name
                             /\ m[d].parent = IF d \in mine THEN to ELSE t[d].parent
  BY ReparentRows
<1> HIDE DEF m
<1>2. u \in DepartmentTables
  BY <1>1, RemoveDepartments
<1>3. DOMAIN u \subseteq DOMAIN m /\ \A x \in DOMAIN u : u[x] = m[x]
  BY DEF Remove, Restrict
<1>4. \A b, c \in DOMAIN t :
          /\ b # c
          /\ (IF b \in mine THEN to ELSE t[b].parent) = (IF c \in mine THEN to ELSE t[c].parent)
          => t[b].name # t[c].name
  BY MovedNames DEF m
<1>5. \A b, c \in DOMAIN t :
          /\ b # c
          /\ (IF b \in kids THEN target ELSE t[b].parent)
                 = (IF c \in kids THEN target ELSE t[c].parent)
          => t[b].name # t[c].name
  BY MovedNames
<1> HIDE DEF u
<1>6. ASSUME NEW b \in DOMAIN u, NEW c \in DOMAIN u, b # c,
             (IF b \in kids THEN target ELSE u[b].parent)
                 = (IF c \in kids THEN target ELSE u[c].parent)
      PROVE  u[b].name # u[c].name
  <2>1. /\ b \in DOMAIN t /\ u[b].name = t[b].name
        /\ u[b].parent = IF b \in mine THEN to ELSE t[b].parent
    BY <1>1, <1>3
  <2>2. /\ c \in DOMAIN t /\ u[c].name = t[c].name
        /\ u[c].parent = IF c \in mine THEN to ELSE t[c].parent
    BY <1>1, <1>3
  <2>3. CASE b \in mine /\ c \in kids
    BY <1>6, <2>1, <2>2, <2>3
  <2>4. CASE b \in kids /\ c \in mine
    BY <1>6, <2>1, <2>2, <2>4
  <2>5. CASE b \notin kids /\ c \notin kids
    BY <1>4, <1>6, <2>1, <2>2, <2>5
  <2>6. CASE b \notin mine /\ c \notin mine
    BY <1>5, <1>6, <2>1, <2>2, <2>6
  <2> QED
    BY <2>3, <2>4, <2>5, <2>6
<1>7. NameIndexes(Reparent(u, kids, target))
  BY <1>2, <1>6, MovedNames
<1> QED
  BY <1>7 DEF u, m

LEMMA PendingRemove ==
  ASSUME NEW t \in DepartmentTables, NEW D, NEW kids, NEW to \in DeptId,
         NameIndexes(Reparent(t, kids, to))
  PROVE  NameIndexes(Reparent(Remove(t, D), kids, to))
<1> DEFINE u == Remove(t, D)
<1>1. u \in DepartmentTables
  BY RemoveDepartments
<1>2. DOMAIN u \subseteq DOMAIN t /\ \A x \in DOMAIN u : u[x] = t[x]
  BY DEF Remove, Restrict
<1>3. \A b, c \in DOMAIN t :
          /\ b # c
          /\ (IF b \in kids THEN to ELSE t[b].parent) = (IF c \in kids THEN to ELSE t[c].parent)
          => t[b].name # t[c].name
  BY MovedNames
<1> HIDE DEF u
<1>4. NameIndexes(Reparent(u, kids, to))
  BY <1>1, <1>2, <1>3, MovedNames
<1> QED
  BY <1>4 DEF u
=============================================================================
