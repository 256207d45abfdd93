---------------------------- MODULE TreeLoadProofs ----------------------------
(***************************************************************************)
(* Trees built while others move: what TreeLoad shows of them, for any ids,*)
(* any number of loads and of mutations.                                   *)
(***************************************************************************)
EXTENDS TreeLoad, OrgTablesProofs, SequenceTheorems

-----------------------------------------------------------------------------
(***************************************************************************)
(* Paths.                                                                  *)
(***************************************************************************)

LEMMA PathLen ==
  ASSUME NEW p \in Path
  PROVE  /\ p \in Seq(DeptId)
         /\ Len(p) \in 1 .. MaxDepth + 1
         /\ p \in [1 .. Len(p) -> DeptId]
         /\ Bottom(p) \in DeptId
<1>1. PICK n \in 1 .. MaxDepth + 1 : p \in [1 .. n -> DeptId]
  BY DEF Path
<1>2. p \in Seq(DeptId) /\ Len(p) = n
  BY <1>1, DepthAssumption
<1> QED
  BY <1>1, <1>2, DepthAssumption DEF Bottom

LEMMA IsPath ==
  ASSUME NEW p \in Seq(DeptId), Len(p) \in 1 .. MaxDepth + 1
  PROVE  p \in Path
<1>1. p \in [1 .. Len(p) -> DeptId]
  BY LenProperties
<1> QED
  BY <1>1 DEF Path

LEMMA RootPath ==
  ASSUME NEW d \in DeptId
  PROVE  <<d>> \in Path /\ Len(<<d>>) = 1 /\ Bottom(<<d>>) = d /\ <<d>>[1] = d
<1> DEFINE r == <<d>>
<1>1. r \in Seq(DeptId) /\ Len(r) = 1 /\ r[1] = d
  OBVIOUS
<1> HIDE DEF r
<1>2. Len(r) \in 1 .. MaxDepth + 1
  BY <1>1, DepthAssumption
<1>3. r \in Path
  BY <1>1, <1>2, IsPath
<1>4. Bottom(r) = d
  BY <1>1 DEF Bottom
<1> QED
  BY <1>1, <1>3, <1>4 DEF r

LEMMA ChildPath ==
  ASSUME NEW p \in Path, NEW c \in DeptId, Len(p) <= MaxDepth
  PROVE  /\ Append(p, c) \in Path
         /\ Len(Append(p, c)) = Len(p) + 1
         /\ Bottom(Append(p, c)) = c
         /\ Above(Append(p, c)) = Bottom(p)
         /\ \A i \in 1 .. Len(p) : Append(p, c)[i] = p[i]
<1>1. p \in Seq(DeptId) /\ Len(p) \in 1 .. MaxDepth + 1
  BY PathLen
<1> DEFINE o == Append(p, c)
<1>2. /\ o \in Seq(DeptId)
      /\ Len(o) = Len(p) + 1
      /\ \A i \in 1 .. Len(p) : o[i] = p[i]
      /\ o[Len(p) + 1] = c
  BY <1>1, AppendProperties
<1> HIDE DEF o
<1>3. o \in Path
  BY <1>1, <1>2, IsPath, DepthAssumption
<1>4. Bottom(o) = c /\ Above(o) = Bottom(p)
  BY <1>1, <1>2, DepthAssumption DEF Bottom, Above
<1> QED
  BY <1>2, <1>3, <1>4 DEF o

\* A path below the root is that of the department above, and one more.
LEMMA ParentPath ==
  ASSUME NEW p \in Path, Len(p) > 1
  PROVE  \E o \in Path, c \in DeptId :
             /\ p = Append(o, c)
             /\ Len(o) = Len(p) - 1
             /\ \A i \in 1 .. Len(o) : o[i] = p[i]
             /\ c = p[Len(p)]
<1> DEFINE m == Len(p) - 1
           o == SubSeq(p, 1, m)
           c == p[Len(p)]
<1>1. p \in Seq(DeptId) /\ Len(p) \in 1 .. MaxDepth + 1 /\ p \in [1 .. Len(p) -> DeptId]
  BY PathLen
<1>2. m \in 1 .. MaxDepth /\ Len(p) = m + 1 /\ \A i \in 1 .. m : p[i] \in DeptId
  BY <1>1, DepthAssumption
<1>3. c \in DeptId
  BY <1>1, DepthAssumption
<1>4. /\ o \in Seq(DeptId)
      /\ Len(o) = m
      /\ \A i \in 1 .. m : o[i] = p[i]
  BY <1>1, <1>2, DepthAssumption
<1> HIDE DEF o, c, m
<1>5. o \in Path
  BY <1>2, <1>4, IsPath, DepthAssumption
<1>6. p = Append(o, c)
  <2>1. /\ Append(o, c) \in Seq(DeptId)
        /\ Len(Append(o, c)) = m + 1
        /\ \A i \in 1 .. m : Append(o, c)[i] = o[i]
        /\ Append(o, c)[m + 1] = c
    BY <1>3, <1>4, AppendProperties
  <2>2. \A i \in 1 .. Len(p) : p[i] = Append(o, c)[i]
    BY <1>2, <1>4, <2>1, DepthAssumption DEF c
  <2> QED
    BY <1>1, <1>2, <2>1, <2>2, SeqEqual
<1> QED
  BY <1>2, <1>3, <1>4, <1>5, <1>6 DEF c, m

-----------------------------------------------------------------------------
(***************************************************************************)
(* Types.                                                                  *)
(***************************************************************************)

\* The rules of OrgStructure are those of OrgTables.
LEMMA OrgTypeIs ==
  Org!TypeOK <=> /\ departments \in DepartmentTables
                 /\ employees \in EmployeeTables
                 /\ issued \subseteq DeptId \cup EmpId
  BY DEF Org!TypeOK, Org!DepartmentTables, Org!EmployeeTables, Org!Department,
         Org!Employee, DepartmentTables, EmployeeTables, Department, Employee

LEMMA SameStatements ==
  /\ \A t, i, row : Org!Put(t, i, row) = Put(t, i, row)
  /\ \A t, D : Org!Remove(t, D) = Remove(t, D)
  /\ \A t, D : Org!CascadeEmployees(t, D) = CascadeEmployees(t, D)
  /\ \A t, D, to : Org!Reparent(t, D, to) = Reparent(t, D, to)
  /\ \A t, D, to : Org!Reassign(t, D, to) = Reassign(t, D, to)
  BY DEF Org!Put, Org!Remove, Org!CascadeEmployees, Org!Reparent, Org!Reassign,
         Org!Staff, Org!Restrict, Put, Remove, CascadeEmployees, Reparent, Reassign,
         Staff, Restrict

LEMMA OrgTypeNext ==
  ASSUME Org!TypeOK, Org!Next
  PROVE  Org!TypeOK'
<1>1. /\ departments \in DepartmentTables
      /\ employees \in EmployeeTables
      /\ issued \subseteq DeptId \cup EmpId
  BY OrgTypeIs
<1>2. /\ \A name \in Name, parent \in DeptId \cup {Null} :
             [name |-> name, parent |-> parent] \in Department
      /\ \A dept \in DeptId, profile \in Profile :
             [dept |-> dept, profile |-> profile] \in Employee
  BY DEF Department, Employee
<1> DEFINE Typed == /\ departments' \in DepartmentTables
                    /\ employees' \in EmployeeTables
                    /\ issued' \subseteq DeptId \cup EmpId
<1> HIDE DEF Typed
<1>3. ASSUME NEW d \in DeptId, NEW name \in Name, NEW parent \in DeptId \cup {Null},
             \/ Org!CreateDepartment(d, name, parent)
             \/ Org!PatchDepartment(d, name, parent)
      PROVE  Typed
  <2> DEFINE row == [name |-> name, parent |-> parent]
  <2>1. departments' = Put(departments, d, row)
    BY <1>3, SameStatements DEF Org!CreateDepartment, Org!PatchDepartment
  <2>2. employees' = employees /\ issued' \subseteq issued \cup {d}
    BY <1>3 DEF Org!CreateDepartment, Org!PatchDepartment
  <2>3. row \in Department
    BY <1>2
  <2> HIDE DEF row
  <2> QED
    BY <1>1, <2>1, <2>2, <2>3, PutDepartment DEF Typed
<1>4. ASSUME NEW d \in DeptId, Org!DeleteCascade(d)
      PROVE  Typed
  <2>1. PICK gone : /\ departments' = Remove(departments, gone)
                    /\ employees' = CascadeEmployees(employees, gone)
    BY <1>4, SameStatements DEF Org!DeleteCascade
  <2>2. issued' = issued
    BY <1>4 DEF Org!DeleteCascade
  <2> QED
    BY <1>1, <2>1, <2>2, RemoveDepartments, CascadeRows DEF Typed
<1>5. ASSUME NEW d \in DeptId, NEW to \in DeptId, Org!DeleteReassign(d, to)
      PROVE  Typed
  <2>1. PICK kids, staff : /\ departments' = Remove(Reparent(departments, kids, to), {d})
                           /\ employees' = Reassign(employees, staff, to)
    BY <1>5, SameStatements DEF Org!DeleteReassign
  <2>2. issued' = issued
    BY <1>5 DEF Org!DeleteReassign
  <2>3. Reparent(departments, kids, to) \in DepartmentTables
    BY <1>1, ReparentRows
  <2> QED
    BY <1>1, <2>1, <2>2, <2>3, RemoveDepartments, ReassignRows DEF Typed
<1>6. ASSUME NEW e \in EmpId, NEW profile \in Profile, NEW dept \in DeptId,
             \/ Org!CreateEmployee(e, profile, dept)
             \/ Org!PatchEmployee(e, profile, dept)
      PROVE  Typed
  <2> DEFINE row == [dept |-> dept, profile |-> profile]
  <2>1. employees' = Put(employees, e, row)
    BY <1>6, SameStatements DEF Org!CreateEmployee, Org!PatchEmployee
  <2>2. departments' = departments /\ issued' \subseteq issued \cup {e}
    BY <1>6 DEF Org!CreateEmployee, Org!PatchEmployee
  <2>3. row \in Employee
    BY <1>2
  <2> HIDE DEF row
  <2> QED
    BY <1>1, <2>1, <2>2, <2>3, PutEmployee DEF Typed
<1>7. ASSUME NEW e \in EmpId, Org!DeleteEmployee(e)
      PROVE  Typed
  <2>1. /\ employees' = Remove(employees, {e})
        /\ departments' = departments
        /\ issued' = issued
    BY <1>7, SameStatements DEF Org!DeleteEmployee
  <2> QED
    BY <1>1, <2>1, RemoveEmployees DEF Typed
<1>8. ASSUME NEW x \in DeptId \cup EmpId, Org!SkipId(x)
      PROVE  Typed
  BY <1>1, <1>8 DEF Typed, Org!SkipId
<1>9. Typed
  BY <1>3, <1>4, <1>5, <1>6, <1>7, <1>8 DEF Org!Next
<1> QED
  BY <1>9, OrgTypeIs DEF Typed, Org!TypeOK, Org!DepartmentTables, Org!EmployeeTables,
     Org!Department, Org!Employee, DepartmentTables, EmployeeTables, Department, Employee

-----------------------------------------------------------------------------
(***************************************************************************)
(* The inductive invariant, for one load q that has built the tree t, has  *)
(* the nodes rest still to read, and has met the tables S.                 *)
(***************************************************************************)

\* Each step of the path was there at some time.
PathWas(p, root, S) ==
    /\ p[1] = root
    /\ \A i \in 1 .. Len(p) :
           \E s \in S : /\ p[i] \in DOMAIN s.depts
                        /\ i > 1 => s.depts[p[i]].parent = p[i - 1]

\* The node n at p is of the tables S, and is whole when it has been read.
NodeOk(n, p, q, rest, S) ==
    /\ Len(p) <= q.depth + 1
    /\ PathWas(p, q.root, S)
    /\ \E s \in S : Bottom(p) \in DOMAIN s.depts /\ n.row = s.depts[Bottom(p)]
    /\ Len(p) > 1 => n.row.parent = Above(p)
    /\ n.staff # Null =>
           /\ q.include
           /\ \E s \in S : n.staff = StaffOf(s.emps, Bottom(p))
    /\ q.include /\ p \notin rest => n.staff # Null

\* A department that has been there all the time is shown below its parent.
Grown(t, q, rest, S) ==
    \A p \in DOMAIN t \ rest, c \in DeptId :
        /\ Len(p) <= q.depth
        /\ \A s \in S : c \in Children(s.depts, Bottom(p))
        => Append(p, c) \in DOMAIN t

Headed(t, q, S) ==
    /\ t = << >> \/ <<q.root>> \in DOMAIN t
    /\ (\A s \in S : q.root \in DOMAIN s.depts) => <<q.root>> \in DOMAIN t

TreeTyped(t) ==
    /\ DOMAIN t \subseteq Path
    /\ t = [p \in DOMAIN t |-> t[p]]
    /\ \A p \in DOMAIN t : t[p] \in Node

LoadOk(t, q, rest, S) ==
    /\ q \in LoadRecord
    /\ TreeTyped(t)
    /\ rest \subseteq DOMAIN t
    /\ (rest # {}) = (q.pc = "build")
    /\ q.pc = "idle" => t = << >>
    /\ q.pc # "idle" => q.root \in DeptId /\ S # {} /\ Headed(t, q, S)
    /\ \A p \in DOMAIN t : NodeOk(t[p], p, q, rest, S)
    /\ Grown(t, q, rest, S)

Ahead(q, rest) == [q EXCEPT !.pc = IF rest = {} THEN "done" ELSE "build"]

LEMMA AheadType ==
  ASSUME NEW q \in LoadRecord, NEW rest
  PROVE  /\ Ahead(q, rest) \in LoadRecord
         /\ Ahead(q, rest).root = q.root
         /\ Ahead(q, rest).depth = q.depth
         /\ Ahead(q, rest).include = q.include
         /\ Ahead(q, rest).pc = IF rest = {} THEN "done" ELSE "build"
  BY DEF Ahead, LoadRecord

LEMMA NewNodeType ==
  ASSUME NEW row \in Department
  PROVE  /\ NewNode(row) \in Node
         /\ NewNode(row).row = row
         /\ NewNode(row).staff = Null
  BY DEF NewNode, Node

LEMMA EmptyTree == DOMAIN << >> = {} /\ TreeTyped(<< >>)
<1>1. DOMAIN << >> = {}
  OBVIOUS
<1>2. << >> = [p \in DOMAIN << >> |-> << >>[p]]
  BY <1>1
<1> QED
  BY <1>1, <1>2 DEF TreeTyped

LEMMA NoLoadOk == LoadOk(<< >>, NoLoad, {}, {})
<1>1. NoLoad \in LoadRecord /\ NoLoad.pc = "idle"
  BY DepthAssumption DEF NoLoad, LoadRecord
<1> QED
  BY <1>1, EmptyTree DEF LoadOk, Grown

\* More tables only weaken what has to be shown, and allow more.
LEMMA LoadOkMore ==
  ASSUME NEW t, NEW q, NEW rest, NEW S, NEW x, LoadOk(t, q, rest, S)
  PROVE  LoadOk(t, q, rest, S \cup {x})
<1>1. \A p \in DOMAIN t : NodeOk(t[p], p, q, rest, S \cup {x})
  BY DEF LoadOk, NodeOk, PathWas
<1>2. Grown(t, q, rest, S \cup {x})
  BY DEF LoadOk, Grown
<1>3. q.pc # "idle" => Headed(t, q, S \cup {x})
  BY DEF LoadOk, Headed
<1> QED
  BY <1>1, <1>2, <1>3 DEF LoadOk

LEMMA StartOk ==
  ASSUME NEW D \in DepartmentTables, NEW d \in DeptId, NEW depth \in 1 .. MaxDepth,
         NEW include \in BOOLEAN, NEW s, s.depts = D,
         NEW found, found = {<<d>>} \cap {<<x>> : x \in DOMAIN D},
         NEW q, q = [pc |-> "build", root |-> d, depth |-> depth, include |-> include]
  PROVE  LoadOk([p \in found |-> NewNode(D[d])], Ahead(q, found), found, {s})
<1> DEFINE t == [p \in found |-> NewNode(D[d])]
           a == Ahead(q, found)
<1>1. /\ q \in LoadRecord
      /\ a \in LoadRecord
      /\ a.root = d
      /\ a.depth = depth
      /\ a.include = include
      /\ a.pc = IF found = {} THEN "done" ELSE "build"
  <2>1. q \in LoadRecord /\ q.root = d /\ q.depth = depth /\ q.include = include
    BY DEF LoadRecord
  <2> QED
    BY <2>1, AheadType
<1>2. <<d>> \in Path /\ Len(<<d>>) = 1 /\ Bottom(<<d>>) = d
  BY RootPath
<1>3. ASSUME NEW p \in found
      PROVE  p \in Path /\ Len(p) = 1 /\ Bottom(p) = d /\ d \in DOMAIN D
  <2>1. p = <<d>>
    OBVIOUS
  <2>2. PICK x \in DOMAIN D : p = <<x>>
    OBVIOUS
  <2>3. x = d
    BY <2>1, <2>2
  <2> QED
    BY <1>2, <2>1, <2>2, <2>3
<1>4. d \in DOMAIN D => <<d>> \in found
  OBVIOUS
<1>5. IsTable(D, DeptId, Department)
  BY DepartmentTable
<1>6. DOMAIN t = found /\ t = [p \in DOMAIN t |-> t[p]] /\ \A p \in found : t[p] = NewNode(D[d])
  OBVIOUS
<1> HIDE DEF t, a
<1>7. ASSUME NEW p \in found
      PROVE  t[p] \in Node /\ t[p].row = D[d] /\ t[p].staff = Null
  <2>1. D[d] \in Department
    BY <1>3, <1>5 DEF IsTable
  <2> QED
    BY <1>6, <2>1, NewNodeType
<1>8. TreeTyped(t)
  BY <1>3, <1>6, <1>7 DEF TreeTyped
<1>9. \A p \in found : NodeOk(t[p], p, a, found, {s})
  <2> SUFFICES ASSUME NEW p \in found PROVE NodeOk(t[p], p, a, found, {s})
    OBVIOUS
  <2>1. Len(p) <= a.depth + 1 /\ ~(Len(p) > 1)
    <3>1. Len(p) = 1 /\ a.depth = depth
      BY <1>1, <1>3
    <3>2. depth \in Nat
      BY DepthAssumption
    <3> QED
      BY <3>1, <3>2
  <2>2. Bottom(p) \in DOMAIN s.depts /\ t[p].row = s.depts[Bottom(p)]
    BY <1>3, <1>7
  <2>3. t[p].staff = Null
    BY <1>7
  <2>4. PathWas(p, a.root, {s})
    <3>1. Len(p) = 1 /\ p[1] = d /\ d \in DOMAIN s.depts /\ a.root = d
      BY <1>1, <1>3 DEF Bottom
    <3>2. \A i \in 1 .. Len(p) : i = 1
      BY <3>1
    <3> QED
      BY <3>1, <3>2 DEF PathWas
  <2> QED
    BY <2>1, <2>2, <2>3, <2>4 DEF NodeOk
<1>10. Headed(t, a, {s})
  <2> DEFINE r == <<d>>
  <2>1. ASSUME found = {} PROVE t = << >>
    <3> DEFINE e == << >>
    <3>1. DOMAIN e = {} /\ e = [p \in DOMAIN e |-> e[p]]
      BY EmptyTree DEF TreeTyped
    <3> HIDE DEF e
    <3>2. t = e
      BY <1>6, <2>1, <3>1
    <3> QED
      BY <3>2 DEF e
  <2>2. found # {} => r \in found
    OBVIOUS
  <2>3. d \in DOMAIN D => r \in DOMAIN t
    BY <1>4, <1>6
  <2>4. t = << >> \/ r \in DOMAIN t
    BY <1>6, <2>1, <2>2
  <2> HIDE DEF r
  <2>5. (\A x \in {s} : d \in DOMAIN x.depts) => r \in DOMAIN t
    BY <2>3
  <2> QED
    BY <1>1, <2>4, <2>5 DEF Headed, r
<1>11. Grown(t, a, found, {s})
  BY <1>6 DEF Grown
<1>12. LoadOk(t, a, found, {s})
  BY <1>1, <1>6, <1>8, <1>9, <1>10, <1>11 DEF LoadOk
<1> QED
  BY <1>12 DEF t, a

LEMMA StaffTyped ==
  ASSUME NEW E \in EmployeeTables, NEW d
  PROVE  StaffOf(E, d) \in EmployeeTables /\ StaffOf(E, d) # Null
<1> DEFINE u == StaffOf(E, d)
<1>1. IsTable(E, EmpId, Employee)
  BY EmployeeTable
<1>2. IsTable(u, EmpId, Employee)
  BY <1>1 DEF IsTable, StaffOf, Restrict, Staff
<1> HIDE DEF u
<1>3. u \in EmployeeTables
  BY <1>2, EmployeeTable
<1> QED
  BY <1>3, NoListAssumption DEF u

\* The employees of the node at p.
LEMMA StaffOk ==
  ASSUME NEW t, NEW q, NEW rest, NEW S, LoadOk(t, q, rest, S), NEW p \in rest,
         q.include, NEW s \in S, NEW E \in EmployeeTables, s.emps = E,
         NEW left, left = IF Deeper(q, p) THEN rest ELSE rest \ {p}
  PROVE  LoadOk([t EXCEPT ![p].staff = StaffOf(E, Bottom(p))], Ahead(q, left), left, S)
<1> DEFINE u == [t EXCEPT ![p].staff = StaffOf(E, Bottom(p))]
           a == Ahead(q, left)
<1>1. /\ a \in LoadRecord
      /\ a.root = q.root
      /\ a.depth = q.depth
      /\ a.include = q.include
      /\ a.pc = IF left = {} THEN "done" ELSE "build"
  BY AheadType DEF LoadOk
<1>2. /\ q \in LoadRecord
      /\ TreeTyped(t)
      /\ rest \subseteq DOMAIN t
      /\ \A o \in DOMAIN t : NodeOk(t[o], o, q, rest, S)
      /\ Grown(t, q, rest, S)
  BY DEF LoadOk
<1>3. q.root \in DeptId /\ Headed(t, q, S)
  BY DEF LoadOk
<1>4. p \in DOMAIN t /\ p \in Path /\ t[p] \in Node
  BY <1>2 DEF TreeTyped
<1>5. /\ DOMAIN u = DOMAIN t
      /\ u = [o \in DOMAIN u |-> u[o]]
      /\ \A o \in DOMAIN t \ {p} : u[o] = t[o]
      /\ u[p] = [t[p] EXCEPT !.staff = StaffOf(E, Bottom(p))]
  BY <1>2, <1>4 DEF TreeTyped
<1> HIDE DEF a, u
<1>6. /\ u[p] \in Node
      /\ u[p].row = t[p].row
      /\ u[p].staff = StaffOf(E, Bottom(p))
      /\ u[p].staff # Null
  BY <1>4, <1>5, StaffTyped DEF Node
<1>7. TreeTyped(u)
  BY <1>2, <1>5, <1>6 DEF TreeTyped
<1>8. ASSUME NEW o \in DOMAIN u PROVE NodeOk(u[o], o, a, left, S)
  <2>1. NodeOk(t[o], o, q, rest, S)
    BY <1>2, <1>5
  <2>2. CASE o = p
    BY <1>1, <1>6, <2>1, <2>2 DEF NodeOk
  <2>3. CASE o # p
    <3>1. u[o] = t[o] /\ (o \notin left => o \notin rest)
      BY <1>5, <2>3
    <3> QED
      BY <1>1, <2>1, <3>1 DEF NodeOk
  <2> QED
    BY <2>2, <2>3
<1>9. Grown(u, a, left, S)
  <2> SUFFICES ASSUME NEW o \in DOMAIN u \ left, NEW c \in DeptId,
                      Len(o) <= a.depth,
                      \A x \in S : c \in Children(x.depts, Bottom(o))
               PROVE  Append(o, c) \in DOMAIN u
    BY DEF Grown
  <2>1. o # p
    <3> SUFFICES ASSUME o = p PROVE FALSE
      OBVIOUS
    <3>1. Deeper(q, p)
      BY <1>1 DEF Deeper
    <3> QED
      BY <3>1
  <2>2. o \notin rest /\ o \in DOMAIN t
    BY <1>5, <2>1
  <2> QED
    BY <1>1, <1>2, <1>5, <2>2 DEF Grown
<1>10. Headed(u, a, S)
  <2>1. t # << >>
    BY <1>4, EmptyTree
  <2>2. <<q.root>> \in DOMAIN t
    BY <1>3, <2>1 DEF Headed
  <2> QED
    BY <1>1, <1>5, <2>2 DEF Headed
<1>11. left \subseteq DOMAIN u
  BY <1>2, <1>5
<1>12. a.root \in DeptId /\ a.pc # "idle" /\ (left # {}) = (a.pc = "build")
  BY <1>1, <1>3
<1>13. LoadOk(u, a, left, S)
  BY <1>1, <1>7, <1>8, <1>9, <1>10, <1>11, <1>12 DEF LoadOk
<1> QED
  BY <1>13 DEF u, a

\* The tree t with new nodes at kids, from the table D.
Wider(t, kids, D) ==
    [o \in DOMAIN t \cup kids |-> IF o \in kids THEN NewNode(D[Bottom(o)]) ELSE t[o]]

\* The children of the node at p.
LEMMA ChildrenOk ==
  ASSUME NEW t, NEW q, NEW rest, NEW S, LoadOk(t, q, rest, S), NEW p \in rest,
         Deeper(q, p), q.include => t[p].staff # Null,
         NEW s \in S, NEW D \in DepartmentTables, s.depts = D,
         NEW kids, kids = {Append(p, c) : c \in Children(D, Bottom(p))},
         NEW left, left = (rest \ {p}) \cup {o \in kids : Selects(q, o)}
  PROVE  LoadOk(Wider(t, kids, D), Ahead(q, left), left, S)
<1> DEFINE u == Wider(t, kids, D)
           a == Ahead(q, left)
<1>1. /\ a \in LoadRecord
      /\ a.root = q.root
      /\ a.depth = q.depth
      /\ a.include = q.include
      /\ a.pc = IF left = {} THEN "done" ELSE "build"
  BY AheadType DEF LoadOk
<1>2. /\ q \in LoadRecord
      /\ TreeTyped(t)
      /\ rest \subseteq DOMAIN t
      /\ \A o \in DOMAIN t : NodeOk(t[o], o, q, rest, S)
      /\ Grown(t, q, rest, S)
  BY DEF LoadOk
<1>3. q.root \in DeptId /\ Headed(t, q, S)
  BY DEF LoadOk
<1>4. p \in DOMAIN t /\ p \in Path
  BY <1>2 DEF TreeTyped
<1>5. /\ DOMAIN u = DOMAIN t \cup kids
      /\ u = [o \in DOMAIN u |-> u[o]]
      /\ \A o \in DOMAIN t \ kids : u[o] = t[o]
      /\ \A o \in kids : u[o] = NewNode(D[Bottom(o)])
  BY DEF Wider
<1> HIDE DEF a, u
<1>6. q.depth \in 1 .. MaxDepth /\ Len(p) <= q.depth /\ Len(p) \in Nat
  BY <1>2, <1>4, PathLen, DepthAssumption DEF LoadRecord, Deeper
<1>7. ASSUME NEW c \in Children(D, Bottom(p))
      PROVE  /\ Append(p, c) \in Path
             /\ Len(Append(p, c)) = Len(p) + 1
             /\ Bottom(Append(p, c)) = c
             /\ Above(Append(p, c)) = Bottom(p)
             /\ c \in DOMAIN D
             /\ D[c] \in Department
             /\ D[c].parent = Bottom(p)
  <2>1. IsTable(D, DeptId, Department)
    BY DepartmentTable
  <2>2. c \in DOMAIN D /\ c \in DeptId /\ D[c] \in Department
    BY <2>1 DEF IsTable, Children
  <2>3. Len(p) <= MaxDepth
    BY <1>6, DepthAssumption
  <2> QED
    BY <1>4, <2>2, <2>3, ChildPath DEF Children
<1>8. ASSUME NEW o \in kids
      PROVE  /\ o \in Path
             /\ Len(o) = Len(p) + 1
             /\ Bottom(o) \in DOMAIN D
             /\ u[o] \in Node
             /\ u[o].row = D[Bottom(o)]
             /\ u[o].row.parent = Above(o)
             /\ u[o].staff = Null
             /\ PathWas(o, q.root, S)
  <2>1. PICK c \in Children(D, Bottom(p)) : o = Append(p, c)
    OBVIOUS
  <2>2. /\ o \in Path
        /\ Len(o) = Len(p) + 1
        /\ Bottom(o) = c
        /\ Above(o) = Bottom(p)
        /\ c \in DOMAIN D
        /\ D[c] \in Department
        /\ D[c].parent = Bottom(p)
    BY <1>7, <2>1
  <2>3. u[o] = NewNode(D[c])
    BY <1>5, <2>2
  <2>4. PathWas(o, q.root, S)
    <3>1. PathWas(p, q.root, S)
      BY <1>2, <1>4 DEF NodeOk
    <3>2. /\ Len(p) \in Nat /\ Len(p) >= 1
          /\ \A i \in 1 .. Len(p) : o[i] = p[i]
          /\ o[Len(p) + 1] = c
          /\ p[Len(p)] = D[c].parent
      BY <1>4, <1>7, <2>1, <2>2, PathLen DEF Bottom
    <3>3. o[1] = q.root
      BY <3>1, <3>2 DEF PathWas
    <3>4. ASSUME NEW i \in 1 .. Len(p)
          PROVE  \E x \in S : /\ o[i] \in DOMAIN x.depts
                              /\ i > 1 => x.depts[o[i]].parent = o[i - 1]
      <4>1. o[i] = p[i] /\ (i > 1 => o[i - 1] = p[i - 1])
        BY <3>2
      <4> QED
        BY <3>1, <4>1 DEF PathWas
    <3>5. o[Len(p) + 1] \in DOMAIN s.depts /\ s.depts[o[Len(p) + 1]].parent = o[Len(p)]
      BY <2>2, <3>2
    <3>6. \A i \in 1 .. Len(o) : i \in 1 .. Len(p) \/ i = Len(p) + 1
      BY <2>2, <3>2
    <3> QED
      BY <3>2, <3>3, <3>4, <3>5, <3>6 DEF PathWas
  <2> QED
    BY <2>2, <2>3, <2>4, NewNodeType
<1>9. TreeTyped(u)
  BY <1>2, <1>5, <1>8 DEF TreeTyped
<1>10. ASSUME NEW o \in DOMAIN u PROVE NodeOk(u[o], o, a, left, S)
  <2>1. CASE o \in kids
    <3>1. Len(o) <= a.depth + 1
      BY <1>1, <1>6, <1>8, <2>1
    <3>2. a.include => o \in left
      BY <1>1, <2>1 DEF Selects
    <3> QED
      BY <1>1, <1>8, <2>1, <3>1, <3>2 DEF NodeOk
  <2>2. CASE o \notin kids
    <3>1. o \in DOMAIN t /\ u[o] = t[o] /\ NodeOk(t[o], o, q, rest, S)
      BY <1>2, <1>5, <2>2
    <3>2. q.include /\ o \notin left => t[o].staff # Null
      BY <3>1 DEF NodeOk
    <3> QED
      BY <1>1, <3>1, <3>2 DEF NodeOk
  <2> QED
    BY <2>1, <2>2
<1>11. Grown(u, a, left, S)
  <2> SUFFICES ASSUME NEW o \in DOMAIN u \ left, NEW c \in DeptId,
                      Len(o) <= a.depth,
                      \A x \in S : c \in Children(x.depts, Bottom(o))
               PROVE  Append(o, c) \in DOMAIN u
    BY DEF Grown
  <2>1. o \notin kids
    BY <1>1 DEF Selects, Deeper
  <2>2. CASE o = p
    BY <1>5, <2>2
  <2>3. CASE o # p
    BY <1>1, <1>2, <1>5, <2>1, <2>3 DEF Grown
  <2> QED
    BY <2>2, <2>3
<1>12. Headed(u, a, S)
  <2>1. t # << >>
    BY <1>4, EmptyTree
  <2>2. <<q.root>> \in DOMAIN t
    BY <1>3, <2>1 DEF Headed
  <2> QED
    BY <1>1, <1>5, <2>2 DEF Headed
<1>13. left \subseteq DOMAIN u
  BY <1>2, <1>5
<1>14. a.root \in DeptId /\ a.pc # "idle" /\ (left # {}) = (a.pc = "build")
  BY <1>1, <1>3
<1>15. LoadOk(u, a, left, S)
  BY <1>1, <1>9, <1>10, <1>11, <1>12, <1>13, <1>14 DEF LoadOk
<1> QED
  BY <1>15 DEF u, a

-----------------------------------------------------------------------------
(***************************************************************************)
(* The inductive invariant, and the steps.                                 *)
(***************************************************************************)

Slots ==
    /\ load = [l \in Loader |-> load[l]]
    /\ tree = [l \in Loader |-> tree[l]]
    /\ todo = [l \in Loader |-> todo[l]]
    /\ past = [l \in Loader |-> past[l]]

LoadsOk ==
    \A l \in Loader :
        /\ LoadOk(tree[l], load[l], todo[l], past[l])
        /\ load[l].pc = "build" => Tables \in past[l]

LoadInv ==
    /\ Org!TypeOK
    /\ writes \in Nat
    /\ Slots
    /\ LoadsOk

LEMMA LoadInvInit == LoadInit => LoadInv
<1> SUFFICES ASSUME LoadInit PROVE LoadInv
  OBVIOUS
<1>1. Org!TypeOK
  <2>1. IsTable(departments, DeptId, Department) /\ IsTable(employees, EmpId, Employee)
    BY DepartmentTable, EmployeeTable DEF LoadInit
  <2>2. issued \subseteq DeptId \cup EmpId
    BY <2>1 DEF LoadInit, IsTable
  <2> QED
    BY <2>2, OrgTypeIs DEF LoadInit
<1>2. writes \in Nat /\ Slots
  BY DEF LoadInit, Slots
<1>3. ASSUME NEW l \in Loader
      PROVE  /\ LoadOk(tree[l], load[l], todo[l], past[l])
             /\ load[l].pc # "build"
  <2>1. tree[l] = << >> /\ load[l] = NoLoad /\ todo[l] = {} /\ past[l] = {}
    BY DEF LoadInit
  <2> QED
    BY <2>1, NoLoadOk DEF NoLoad
<1> QED
  BY <1>1, <1>2, <1>3 DEF LoadInv, LoadsOk

\* A step of one load.
LEMMA OneLoad ==
  ASSUME LoadInv, NEW l \in Loader, NEW t, NEW q, NEW rest, NEW S,
         LoadOk(t, q, rest, S),
         q.pc = "build" => Tables \in S,
         load' = [load EXCEPT ![l] = q],
         tree' = [tree EXCEPT ![l] = t],
         todo' = [todo EXCEPT ![l] = rest],
         past' = [past EXCEPT ![l] = S],
         UNCHANGED db
  PROVE  LoadInv'
<1>1. Org!TypeOK' /\ writes' \in Nat /\ Tables' = Tables
  BY DEF LoadInv, db, Org!TypeOK, Tables
<1>2. Slots'
  BY DEF LoadInv, Slots
<1>3. ASSUME NEW m \in Loader
      PROVE  /\ LoadOk(tree'[m], load'[m], todo'[m], past'[m])
             /\ load'[m].pc = "build" => Tables' \in past'[m]
  <2>1. CASE m = l
    <3>1. tree'[m] = t /\ load'[m] = q /\ todo'[m] = rest /\ past'[m] = S
      BY <2>1 DEF LoadInv, Slots
    <3> QED
      BY <1>1, <3>1
  <2>2. CASE m # l
    <3>1. tree'[m] = tree[m] /\ load'[m] = load[m] /\ todo'[m] = todo[m] /\ past'[m] = past[m]
      BY <2>2 DEF LoadInv, Slots
    <3> QED
      BY <1>1, <3>1 DEF LoadInv, LoadsOk
  <2> QED
    BY <2>1, <2>2
<1> QED
  BY <1>1, <1>2, <1>3 DEF LoadInv, LoadsOk

LEMMA AdvanceInv ==
  ASSUME LoadInv, NEW l \in Loader, NEW q, NEW t, NEW rest, NEW S,
         LoadOk(t, Ahead(q, rest), rest, S), Tables \in S,
         Advance(l, q, t, rest), past' = [past EXCEPT ![l] = S], UNCHANGED db
  PROVE  LoadInv'
<1>1. /\ load' = [load EXCEPT ![l] = Ahead(q, rest)]
      /\ tree' = [tree EXCEPT ![l] = t]
      /\ todo' = [todo EXCEPT ![l] = rest]
  BY DEF Advance, Ahead
<1> QED
  BY <1>1, OneLoad

LEMMA TablesTyped ==
  ASSUME LoadInv
  PROVE  /\ Tables.depts = departments /\ departments \in DepartmentTables
         /\ Tables.emps = employees /\ employees \in EmployeeTables
  BY OrgTypeIs DEF LoadInv, Tables

LEMMA GetByIDInv ==
  ASSUME LoadInv, NEW l \in Loader, NEW d \in DeptId, NEW depth \in 1 .. MaxDepth,
         NEW include \in BOOLEAN, GetByID(l, d, depth, include)
  PROVE  LoadInv'
<1> DEFINE q == [pc |-> "build", root |-> d, depth |-> depth, include |-> include]
           found == {<<d>>} \cap {<<x>> : x \in DOMAIN departments}
           t == [p \in found |-> NewNode(departments[d])]
<1>1. LoadOk(t, Ahead(q, found), found, {Tables})
  BY StartOk, TablesTyped
<1>2. /\ Advance(l, q, t, found)
      /\ past' = [past EXCEPT ![l] = {Tables}]
      /\ UNCHANGED db
  BY DEF GetByID
<1> HIDE DEF q, found, t
<1> QED
  BY <1>1, <1>2, AdvanceInv

\* What a load that is at p has met.
LEMMA AtNode ==
  ASSUME LoadInv, NEW l \in Loader, NEW p \in todo[l]
  PROVE  /\ LoadOk(tree[l], load[l], todo[l], past[l])
         /\ Tables \in past[l]
         /\ past = [past EXCEPT ![l] = past[l]]
<1>1. LoadOk(tree[l], load[l], todo[l], past[l]) /\ load[l].pc = "build"
  BY DEF LoadInv, LoadsOk, LoadOk
<1> QED
  BY <1>1 DEF LoadInv, LoadsOk, Slots

LEMMA ListByDepartmentIDInv ==
  ASSUME LoadInv, NEW l \in Loader, NEW p \in todo[l], ListByDepartmentID(l, p)
  PROVE  LoadInv'
<1> DEFINE left == IF Deeper(load[l], p) THEN todo[l] ELSE todo[l] \ {p}
           t == [tree[l] EXCEPT ![p].staff = StaffOf(employees, Bottom(p))]
<1>1. load[l].include
  BY DEF ListByDepartmentID
<1>2. LoadOk(t, Ahead(load[l], left), left, past[l])
  <2>1. LoadOk(tree[l], load[l], todo[l], past[l]) /\ Tables \in past[l]
    BY AtNode
  <2>2. Tables.emps = employees /\ employees \in EmployeeTables
    BY TablesTyped
  <2> QED
    BY <1>1, <2>1, <2>2, StaffOk
<1>3. Advance(l, load[l], t, left) /\ UNCHANGED db /\ past' = past
  BY DEF ListByDepartmentID
<1> HIDE DEF left, t
<1> QED
  BY <1>2, <1>3, AtNode, AdvanceInv

LEMMA GetChildrenInv ==
  ASSUME LoadInv, NEW l \in Loader, NEW p \in todo[l], GetChildren(l, p)
  PROVE  LoadInv'
<1> DEFINE kids == KidsOf(Bottom(p), p)
           left == (todo[l] \ {p}) \cup {o \in kids : Selects(load[l], o)}
           t == Wider(tree[l], kids, departments)
<1>1. Deeper(load[l], p) /\ (load[l].include => tree[l][p].staff # Null)
  BY DEF GetChildren, AtChildren
<1>2. kids = {Append(p, c) : c \in Children(departments, Bottom(p))}
  BY DEF KidsOf
<1> HIDE DEF kids
<1>3. LoadOk(t, Ahead(load[l], left), left, past[l])
  <2>1. LoadOk(tree[l], load[l], todo[l], past[l]) /\ Tables \in past[l]
    BY AtNode
  <2>2. Tables.depts = departments /\ departments \in DepartmentTables
    BY TablesTyped
  <2> QED
    BY <1>1, <1>2, <2>1, <2>2, ChildrenOk
<1>4. Advance(l, load[l], t, left) /\ UNCHANGED db /\ past' = past
  BY DEF GetChildren, WithKids, Wider, kids
<1> HIDE DEF left, t
<1> QED
  BY <1>3, <1>4, AtNode, AdvanceInv

LEMMA ForgetInv ==
  ASSUME LoadInv, NEW l \in Loader, Forget(l), UNCHANGED db
  PROVE  LoadInv'
<1>1. NoLoad.pc # "build"
  BY DEF NoLoad
<1> QED
  BY <1>1, NoLoadOk, OneLoad DEF Forget

LEMMA MutateInv ==
  ASSUME LoadInv, Mutate
  PROVE  LoadInv'
<1>1. Org!TypeOK'
  BY OrgTypeNext DEF LoadInv, Mutate
<1>2. writes' \in Nat
  BY DEF LoadInv, Mutate
<1>3. Slots'
  BY DEF LoadInv, Slots, Mutate
<1>4. ASSUME NEW l \in Loader
      PROVE  /\ LoadOk(tree'[l], load'[l], todo'[l], past'[l])
             /\ load'[l].pc = "build" => Tables' \in past'[l]
  <2>1. load'[l] = load[l] /\ tree'[l] = tree[l] /\ todo'[l] = todo[l]
    BY DEF Mutate
  <2>2. past'[l] = IF load[l].pc = "build" THEN past[l] \cup {Tables'} ELSE past[l]
    BY DEF Mutate
  <2>3. LoadOk(tree[l], load[l], todo[l], past[l])
    BY DEF LoadInv, LoadsOk
  <2>4. LoadOk(tree[l], load[l], todo[l], past[l] \cup {Tables'})
    BY <2>3, LoadOkMore
  <2> QED
    BY <2>1, <2>2, <2>3, <2>4
<1> QED
  BY <1>1, <1>2, <1>3, <1>4 DEF LoadInv, LoadsOk

LEMMA LoadInvNext == LoadInv /\ [LoadNext]_loadVars => LoadInv'
<1> SUFFICES ASSUME LoadInv, [LoadNext]_loadVars PROVE LoadInv'
  OBVIOUS
<1>1. CASE UNCHANGED loadVars
  BY <1>1 DEF loadVars, LoadInv, Slots, LoadsOk, Tables, Org!TypeOK
<1>2. ASSUME NEW l \in Loader, NEW d \in DeptId, NEW depth \in 1 .. MaxDepth,
             NEW include \in BOOLEAN, GetByID(l, d, depth, include)
      PROVE  LoadInv'
  BY <1>2, GetByIDInv
<1>3. ASSUME NEW l \in Loader, Select(l)
      PROVE  LoadInv'
  BY <1>3, ListByDepartmentIDInv, GetChildrenInv DEF Select
<1>4. ASSUME NEW l \in Loader, SelectFails(l) \/ Return(l)
      PROVE  LoadInv'
  BY <1>4, ForgetInv DEF SelectFails, Return
<1>5. CASE Mutate
  BY <1>5, MutateInv
<1> QED
  BY <1>1, <1>2, <1>3, <1>4, <1>5 DEF LoadNext

LEMMA LoadInvariant == LoadSpec => []LoadInv
  BY LoadInvInit, LoadInvNext, PTL DEF LoadSpec

-----------------------------------------------------------------------------
(***************************************************************************)
(* What follows.                                                           *)
(***************************************************************************)

LEMMA LoadInvTypes == LoadInv => LoadTypeOK
<1> SUFFICES ASSUME LoadInv PROVE LoadTypeOK
  OBVIOUS
<1>1. ASSUME NEW l \in Loader
      PROVE  /\ load[l] \in LoadRecord
             /\ TreeTyped(tree[l])
             /\ todo[l] \subseteq DOMAIN tree[l]
             /\ (todo[l] # {}) = (load[l].pc = "build")
             /\ load[l].pc # "idle" => load[l].root \in DeptId
  BY DEF LoadInv, LoadsOk, LoadOk
<1>2. load \in [Loader -> LoadRecord] /\ todo \in [Loader -> SUBSET Path]
  BY <1>1 DEF LoadInv, Slots, TreeTyped
<1>3. tree = [l \in Loader |-> [p \in DOMAIN tree[l] |-> tree[l][p]]]
  BY <1>1 DEF LoadInv, Slots, TreeTyped
<1> QED
  BY <1>1, <1>2, <1>3 DEF LoadTypeOK, LoadInv, Slots, TreeTyped

\* The database, the loads and what they build keep their types.
THEOREM LoadTypeCorrect == LoadSpec => []LoadTypeOK
  BY LoadInvariant, LoadInvTypes, PTL

LEMMA OnlyOfThese ==
  ASSUME NEW t, NEW q, NEW rest, NEW S, LoadOk(t, q, rest, S)
  PROVE  ShowsOnly(t, S)
  BY DEF LoadOk, NodeOk, ShowsOnly

\* Nothing that was not committed while the load went on is shown (ShownWasThere).
THEOREM LoadShowsOnly == LoadSpec => []ShownWasThere
<1>1. LoadInv => ShownWasThere
  BY OnlyOfThese DEF LoadInv, LoadsOk, ShownWasThere
<1> QED
  BY <1>1, LoadInvariant, PTL

LEMMA WholeTreeValid ==
  ASSUME NEW t, NEW q, NEW S, LoadOk(t, q, {}, S), q.pc = "done", t # << >>
  PROVE  Valid(t, q)
<1>1. ASSUME NEW p \in DOMAIN t
      PROVE  /\ (t[p].staff # Null) = q.include
             /\ Len(p) <= q.depth + 1
             /\ Len(p) > 1 => t[p].row.parent = Above(p)
  <2>1. NodeOk(t[p], p, q, {}, S) /\ q.include \in BOOLEAN
    BY DEF LoadOk, LoadRecord
  <2> QED
    BY <2>1 DEF NodeOk
<1>2. <<q.root>> \in DOMAIN t
  BY DEF LoadOk, Headed
<1> QED
  BY <1>1, <1>2 DEF Valid

LEMMA DoneLoad ==
  ASSUME LoadInv, NEW l \in Loader, load[l].pc = "done"
  PROVE  LoadOk(tree[l], load[l], {}, past[l])
<1>1. LoadOk(tree[l], load[l], todo[l], past[l])
  BY DEF LoadInv, LoadsOk
<1>2. todo[l] = {}
  BY <1>1 DEF LoadOk
<1> QED
  BY <1>1, <1>2

\* The cache takes every tree that the recursion builds (BuiltTreesValid).
THEOREM LoadValid == LoadSpec => []BuiltTreesValid
<1>1. LoadInv => BuiltTreesValid
  BY DoneLoad, WholeTreeValid DEF BuiltTreesValid, Returned
<1> QED
  BY <1>1, LoadInvariant, PTL

\* The paths of n departments that were there all the time are shown.
Complete(t, q, S, n) ==
    \A p \in Path :
        Len(p) = n /\ (\A s \in S : p \in PathsFrom(s.depts, q.root, q.depth))
        => p \in DOMAIN t

LEMMA CompleteRoot ==
  ASSUME NEW t, NEW q, NEW S, LoadOk(t, q, {}, S), q.pc = "done"
  PROVE  Complete(t, q, S, 1)
<1> SUFFICES ASSUME NEW p \in Path, Len(p) = 1,
                    \A s \in S : p \in PathsFrom(s.depts, q.root, q.depth)
             PROVE  p \in DOMAIN t
  BY DEF Complete
<1>1. ASSUME NEW s \in S PROVE p[1] = q.root /\ p[1] \in DOMAIN s.depts
  <2>1. p \in PathsFrom(s.depts, q.root, q.depth)
    OBVIOUS
  <2>2. 1 \in 1 .. Len(p)
    OBVIOUS
  <2> QED
    BY <2>1, <2>2 DEF PathsFrom
<1>2. <<q.root>> \in DOMAIN t
  BY <1>1 DEF LoadOk, Headed
<1>3. p = <<q.root>>
  <2> DEFINE r == <<q.root>>
  <2>1. q.root \in DeptId /\ p \in Seq(DeptId) /\ p[1] = q.root
    BY <1>1, PathLen DEF LoadOk
  <2>2. r \in Seq(DeptId) /\ Len(r) = 1 /\ r[1] = q.root
    BY <2>1
  <2> HIDE DEF r
  <2>3. p = r
    BY <2>1, <2>2, SeqEqual
  <2> QED
    BY <2>3 DEF r
<1> QED
  BY <1>2, <1>3

LEMMA CompleteBelow ==
  ASSUME NEW t, NEW q, NEW S, LoadOk(t, q, {}, S), S # {},
         NEW n \in 1 .. MaxDepth, Complete(t, q, S, n)
  PROVE  Complete(t, q, S, n + 1)
<1> SUFFICES ASSUME NEW p \in Path, Len(p) = n + 1,
                    \A s \in S : p \in PathsFrom(s.depts, q.root, q.depth)
             PROVE  p \in DOMAIN t
  BY DEF Complete
<1>1. n \in Nat /\ n >= 1 /\ Len(p) > 1
  BY DepthAssumption
<1>2. PICK o \in Path, c \in DeptId :
          /\ p = Append(o, c)
          /\ Len(o) = Len(p) - 1
          /\ \A i \in 1 .. Len(o) : o[i] = p[i]
          /\ c = p[Len(p)]
  BY <1>1, ParentPath
<1>3. Len(o) = n /\ Bottom(o) = p[n] /\ c = p[n + 1]
  BY <1>1, <1>2 DEF Bottom
<1>4. ASSUME NEW s \in S
      PROVE  /\ o \in PathsFrom(s.depts, q.root, q.depth)
             /\ c \in Children(s.depts, Bottom(o))
             /\ n <= q.depth
  <2>1. /\ Len(p) <= q.depth + 1
        /\ p[1] = q.root
        /\ \A i \in 1 .. Len(p) : p[i] \in DOMAIN s.depts
        /\ \A i \in 1 .. Len(p) - 1 : s.depts[p[i + 1]].parent = p[i]
    BY DEF PathsFrom
  <2>2. q.depth \in Nat
    BY DepthAssumption DEF LoadOk, LoadRecord
  <2>3. n <= q.depth
    BY <1>1, <2>1, <2>2
  <2>4. c \in DOMAIN s.depts /\ s.depts[c].parent = Bottom(o)
    BY <1>1, <1>3, <2>1
  <2>5. /\ Len(o) <= q.depth + 1
        /\ o[1] = q.root
        /\ \A i \in 1 .. Len(o) : o[i] \in DOMAIN s.depts
        /\ \A i \in 1 .. Len(o) - 1 : s.depts[o[i + 1]].parent = o[i]
    <3>1. Len(o) <= q.depth + 1 /\ o[1] = p[1]
      BY <1>1, <1>2, <1>3, <2>2, <2>3
    <3>2. ASSUME NEW i \in 1 .. Len(o) PROVE o[i] \in DOMAIN s.depts
      BY <1>1, <1>2, <1>3, <2>1
    <3>3. ASSUME NEW i \in 1 .. Len(o) - 1 PROVE s.depts[o[i + 1]].parent = o[i]
      <4>1. i \in 1 .. Len(o) /\ i + 1 \in 1 .. Len(o) /\ i \in 1 .. Len(p) - 1
        BY <1>1, <1>3
      <4> QED
        BY <1>2, <2>1, <4>1
    <3> QED
      BY <2>1, <3>1, <3>2, <3>3
  <2> QED
    BY <2>3, <2>4, <2>5 DEF PathsFrom, Children
<1>5. o \in DOMAIN t
  BY <1>3, <1>4 DEF Complete
<1>6. Append(o, c) \in DOMAIN t
  <2>1. \A s \in S : c \in Children(s.depts, Bottom(o))
    BY <1>4
  <2>2. Len(o) <= q.depth
    BY <1>3, <1>4
  <2> QED
    BY <1>5, <2>1, <2>2 DEF LoadOk, Grown
<1> QED
  BY <1>2, <1>6

LEMMA CompleteAll ==
  ASSUME NEW t, NEW q, NEW S, LoadOk(t, q, {}, S), q.pc = "done"
  PROVE  \A n \in 1 .. MaxDepth + 1 : Complete(t, q, S, n)
<1>1. Complete(t, q, S, 1)
  BY CompleteRoot
<1>2. \A n \in 1 .. MaxDepth : Complete(t, q, S, n) => Complete(t, q, S, n + 1)
  BY CompleteBelow DEF LoadOk
<1> DEFINE C(n) == Complete(t, q, S, n)
<1> HIDE DEF C
<1>3. C(1) /\ \A n \in 1 .. MaxDepth : C(n) => C(n + 1)
  BY <1>1, <1>2 DEF C
<1>4. C(2)
  BY <1>3, DepthAssumption
<1>5. MaxDepth >= 2 => C(3)
  BY <1>3, <1>4, DepthAssumption
<1>6. MaxDepth >= 3 => C(4)
  BY <1>3, <1>5, DepthAssumption
<1>7. MaxDepth >= 4 => C(5)
  BY <1>3, <1>6, DepthAssumption
<1>8. MaxDepth >= 5 => C(6)
  BY <1>3, <1>7, DepthAssumption
<1>9. \A n \in 1 .. MaxDepth + 1 : C(n)
  BY <1>3, <1>4, <1>5, <1>6, <1>7, <1>8, DepthAssumption
<1> QED
  BY <1>9 DEF C

LEMMA StableIsShown ==
  ASSUME NEW t, NEW q, NEW S, LoadOk(t, q, {}, S), q.pc = "done"
  PROVE  ShowsStable(t, q, S)
<1> SUFFICES ASSUME NEW p \in Path,
                    \A s \in S : p \in PathsFrom(s.depts, q.root, q.depth)
             PROVE  /\ p \in DOMAIN t
                    /\ \A s \in S :
                           (\A u \in S : TreeIn(u, q)[p] = TreeIn(s, q)[p])
                           => t[p] = TreeIn(s, q)[p]
  BY DEF ShowsStable
<1>1. p \in DOMAIN t
  BY PathLen, CompleteAll DEF Complete
<1>2. ASSUME NEW u \in S
      PROVE  TreeIn(u, q)[p] =
                 [row |-> u.depts[Bottom(p)],
                  staff |-> IF q.include THEN StaffOf(u.emps, Bottom(p)) ELSE Null]
  BY DEF TreeIn
<1>3. ASSUME NEW s \in S, \A u \in S : TreeIn(u, q)[p] = TreeIn(s, q)[p]
      PROVE  t[p] = TreeIn(s, q)[p]
  <2>1. NodeOk(t[p], p, q, {}, S) /\ t[p] \in Node /\ q.include \in BOOLEAN
    BY <1>1 DEF LoadOk, TreeTyped, LoadRecord
  <2>2. ASSUME NEW u \in S
        PROVE  /\ u.depts[Bottom(p)] = s.depts[Bottom(p)]
               /\ q.include => StaffOf(u.emps, Bottom(p)) = StaffOf(s.emps, Bottom(p))
    <3> DEFINE F(x) == TreeIn(x, q)[p]
    <3>1. ASSUME NEW x \in S
          PROVE  /\ F(x).row = x.depts[Bottom(p)]
                 /\ q.include => F(x).staff = StaffOf(x.emps, Bottom(p))
      <4>1. F(x) = [row |-> x.depts[Bottom(p)],
                    staff |-> IF q.include THEN StaffOf(x.emps, Bottom(p)) ELSE Null]
        BY <1>2
      <4> HIDE DEF F
      <4> QED
        BY <4>1
    <3>2. F(u) = F(s)
      BY <1>3
    <3> HIDE DEF F
    <3> QED
      BY <3>1, <3>2
  <2>3. t[p].row = s.depts[Bottom(p)]
    BY <2>1, <2>2 DEF NodeOk
  <2>4. q.include => t[p].staff = StaffOf(s.emps, Bottom(p))
    BY <2>1, <2>2 DEF NodeOk
  <2>5. ~q.include => t[p].staff = Null
    BY <2>1 DEF NodeOk
  <2>6. t[p] = [row |-> t[p].row, staff |-> t[p].staff]
    BY <2>1 DEF Node
  <2> QED
    BY <1>2, <2>3, <2>4, <2>5, <2>6
<1> QED
  BY <1>1, <1>3

\* What stands still is shown, whatever moves (StablePathsShown).
THEOREM LoadShowsStable == LoadSpec => []StablePathsShown
<1>1. LoadInv => StablePathsShown
  BY DoneLoad, StableIsShown DEF StablePathsShown, Returned
<1> QED
  BY <1>1, LoadInvariant, PTL
=============================================================================
