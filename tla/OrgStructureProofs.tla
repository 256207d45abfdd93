-------------------------- MODULE OrgStructureProofs --------------------------
(***************************************************************************)
(* The promise of OrgStructure keeps the organisation sound: for every set *)
(* of ids, names and profiles, whatever requests succeed one after another.*)
(***************************************************************************)
EXTENDS OrgStructure, OrgTablesProofs

\* The inductive invariant: a new id must be unused, for a new department to be
\* without children.
Sound ==
    /\ TypeOK
    /\ DOMAIN departments \subseteq issued
    /\ ParentKey(departments)
    /\ DepartmentKey(departments, employees)
    /\ NameIndexes(departments)
    /\ Acyclic(departments)

LEMMA SoundInit == Init => Sound
<1> SUFFICES ASSUME Init PROVE Sound
  OBVIOUS
<1>1. DOMAIN departments \subseteq DeptId /\ DOMAIN employees \subseteq EmpId
  BY DepartmentTable, EmployeeTable DEF Init, IsTable
<1> QED
  BY <1>1 DEF Init, Sound, TypeOK

LEMMA CreateDepartmentSound ==
  ASSUME Sound, NEW d \in DeptId, NEW name \in Name, NEW parent \in DeptId \cup {Null},
         CreateDepartment(d, name, parent)
  PROVE  Sound'
<1> DEFINE row == [name |-> name, parent |-> parent]
<1>1. row \in Department /\ row.name = name /\ row.parent = parent
  BY DEF Department
<1> HIDE DEF row
<1>2. departments' = Put(departments, d, row)
  BY DEF CreateDepartment, row
<1>3. d \notin DOMAIN departments /\ d # Null /\ parent \in DOMAIN departments \cup {Null}
  BY NullAssumption DEF CreateDepartment, Sound
<1>4. TypeOK'
  BY <1>1, <1>2, PutDepartment DEF Sound, TypeOK, CreateDepartment
<1>5. DOMAIN departments' = DOMAIN departments \cup {d}
  BY <1>2 DEF Put
<1>6. Acyclic(departments')
  BY <1>1, <1>2, <1>3, AcyclicInsert DEF Sound
<1>7. ParentKey(departments')
  BY <1>1, <1>2, <1>3 DEF Sound, ParentKey, Put
<1>8. DepartmentKey(departments', employees')
  BY <1>5 DEF Sound, DepartmentKey, CreateDepartment
<1>9. NameIndexes(departments')
  <2>1. ~NameTaken(departments, name, parent, Null)
    BY DEF CreateDepartment
  <2>2. Null \notin DOMAIN departments
    BY NullAssumption, DepartmentTable DEF Sound, TypeOK, IsTable
  <2>3. ~NameTaken(departments, row.name, row.parent, d)
    BY <1>1, <2>1, <2>2 DEF NameTaken
  <2> QED
    BY <1>2, <2>3, PutKeepsNames DEF Sound
<1> QED
  BY <1>4, <1>5, <1>6, <1>7, <1>8, <1>9 DEF Sound, CreateDepartment

LEMMA PatchDepartmentSound ==
  ASSUME Sound, NEW d \in DeptId, NEW name \in Name, NEW parent \in DeptId \cup {Null},
         PatchDepartment(d, name, parent)
  PROVE  Sound'
<1> DEFINE row == [name |-> name, parent |-> parent]
           D == Subtree(departments, d)
<1>1. row \in Department /\ row.name = name /\ row.parent = parent
  BY DEF Department
<1> HIDE DEF row
<1>2. departments' = Put(departments, d, row) /\ d \in DOMAIN departments
  BY DEF PatchDepartment, row
<1>3. TypeOK'
  BY <1>1, <1>2, PutDepartment DEF Sound, TypeOK, PatchDepartment
<1>4. /\ DOMAIN departments' = DOMAIN departments
      /\ departments'[d] = row
      /\ \A x \in DOMAIN departments \ {d} : departments'[x] = departments[x]
  BY <1>2 DEF Put
<1>5. d \in D /\ D \subseteq DOMAIN departments /\ ClosedBelow(departments, D)
  BY <1>2, SubtreeClosed
<1>6. parent \in {departments[d].parent, Null} \cup (DOMAIN departments \ D)
  BY DEF PatchDepartment
<1>7. Null \notin D
  BY <1>5, NullAssumption, DepartmentTable DEF Sound, TypeOK, IsTable
<1> HIDE DEF D
<1>8. Acyclic(departments')
  <2>1. \A x \in DOMAIN departments' :
            \/ departments'[x].parent = departments[x].parent
            \/ x \in D /\ departments'[x].parent \notin D
    BY <1>1, <1>4, <1>5, <1>6, <1>7
  <2> QED
    BY <1>4, <1>5, <2>1, AcyclicMove DEF Sound
<1>9. ParentKey(departments')
  BY <1>1, <1>2, <1>4, <1>6 DEF Sound, ParentKey
<1>10. DepartmentKey(departments', employees')
  BY <1>4 DEF Sound, DepartmentKey, PatchDepartment
<1>11. NameIndexes(departments')
  <2>1. ~NameTaken(departments, row.name, row.parent, d)
    BY <1>1 DEF PatchDepartment
  <2> QED
    BY <1>2, <2>1, PutKeepsNames DEF Sound
<1> QED
  BY <1>3, <1>4, <1>8, <1>9, <1>10, <1>11 DEF Sound, PatchDepartment

LEMMA DeleteCascadeSound ==
  ASSUME Sound, NEW d \in DeptId, DeleteCascade(d)
  PROVE  Sound'
<1> DEFINE gone == Subtree(departments, d)
<1>1. /\ departments' = Remove(departments, gone)
      /\ employees' = CascadeEmployees(employees, gone)
      /\ issued' = issued
  BY DEF DeleteCascade
<1>2. gone \subseteq DOMAIN departments /\ ClosedBelow(departments, gone) /\ Null \notin gone
  BY SubtreeClosed, NullAssumption, DepartmentTable DEF Sound, TypeOK, IsTable
<1> HIDE DEF gone
<1>3. /\ DOMAIN departments' \subseteq DOMAIN departments
      /\ \A x \in DOMAIN departments' : departments'[x] = departments[x]
  BY <1>1 DEF Remove, Restrict
<1>4. TypeOK'
  BY <1>1, RemoveDepartments, CascadeRows DEF Sound, TypeOK
<1>5. Acyclic(departments')
  BY <1>2, <1>3, AcyclicMove DEF Sound
<1>6. ParentKey(departments')
  BY <1>1, <1>2, RemoveKeepsParents DEF Sound
<1>7. DepartmentKey(departments', employees')
  BY <1>1, CascadeKeepsKey DEF Sound, TypeOK
<1>8. NameIndexes(departments')
  BY <1>1, RemoveKeepsNames DEF Sound
<1> QED
  BY <1>1, <1>3, <1>4, <1>5, <1>6, <1>7, <1>8 DEF Sound

LEMMA DeleteReassignSound ==
  ASSUME Sound, NEW d \in DeptId, NEW to \in DeptId, DeleteReassign(d, to)
  PROVE  Sound'
<1> DEFINE kids == Children(departments, d)
           moved == Reparent(departments, kids, to)
           D == Subtree(departments, d)
           staff == Staff(employees, {d})
           hired == Reassign(employees, staff, to)
<1>1. /\ departments' = Remove(moved, {d})
      /\ employees' = hired
      /\ issued' = issued
      /\ NameIndexes(moved)
      /\ d \in DOMAIN departments /\ to \in DOMAIN departments \ D
  BY DEF DeleteReassign
<1>2. departments \in DepartmentTables /\ employees \in EmployeeTables
  BY DEF Sound, TypeOK
<1>3. /\ moved \in DepartmentTables
      /\ DOMAIN moved = DOMAIN departments
      /\ \A x \in DOMAIN departments :
             moved[x].parent = IF x \in kids THEN to ELSE departments[x].parent
  BY <1>2, ReparentRows
<1>4. /\ hired \in EmployeeTables
      /\ DOMAIN hired = DOMAIN employees
      /\ \A e \in DOMAIN employees : hired[e].dept = IF e \in staff THEN to ELSE employees[e].dept
  BY <1>2, ReassignRows
<1>5. d \in D /\ ClosedBelow(departments, D) /\ kids \subseteq D
  BY <1>1, SubtreeClosed DEF Children, ClosedBelow
<1>6. \A x \in DOMAIN departments : departments[x].parent = d <=> x \in kids
  BY DEF Children
<1>7. \A e \in DOMAIN employees : employees[e].dept = d <=> e \in staff
  BY DEF Staff
<1> HIDE DEF kids, moved, D, staff, hired
<1>8. /\ DOMAIN departments' = DOMAIN departments \ {d}
      /\ \A x \in DOMAIN departments' : departments'[x] = moved[x]
  BY <1>1, <1>3 DEF Remove, Restrict
<1>9. TypeOK'
  BY <1>1, <1>3, <1>4, RemoveDepartments DEF Sound, TypeOK
<1>10. Acyclic(departments')
  <2>1. \A x \in DOMAIN departments' :
            \/ departments'[x].parent = departments[x].parent
            \/ x \in D /\ departments'[x].parent \notin D
    BY <1>1, <1>3, <1>5, <1>8
  <2> QED
    BY <1>5, <1>8, <2>1, AcyclicMove DEF Sound
<1>11. to # d
  BY <1>1, <1>5
<1>12. ParentKey(departments')
  <2>1. ASSUME NEW x \in DOMAIN departments \ {d}
        PROVE  moved[x].parent \in (DOMAIN departments \ {d}) \cup {Null}
    <3>1. CASE x \in kids
      BY <1>1, <1>3, <1>11, <3>1
    <3>2. CASE x \notin kids
      BY <1>3, <1>6, <3>2 DEF Sound, ParentKey
    <3> QED
      BY <3>1, <3>2
  <2> QED
    BY <1>8, <2>1 DEF ParentKey
<1>13. DepartmentKey(departments', employees')
  BY <1>1, <1>4, <1>7, <1>8, <1>11 DEF Sound, DepartmentKey
<1>14. NameIndexes(departments')
  BY <1>1, RemoveKeepsNames
<1> QED
  BY <1>1, <1>8, <1>9, <1>10, <1>12, <1>13, <1>14 DEF Sound

LEMMA EmployeesSound ==
  ASSUME Sound, UNCHANGED departments, issued \subseteq issued',
         issued' \subseteq DeptId \cup EmpId,
         employees' \in EmployeeTables, DepartmentKey(departments, employees')
  PROVE  Sound'
  BY DEF Sound, TypeOK

LEMMA PutEmployeeSound ==
  ASSUME Sound, NEW e \in EmpId, NEW profile \in Profile, NEW dept \in DOMAIN departments,
         employees' = Put(employees, e, [dept |-> dept, profile |-> profile])
  PROVE  employees' \in EmployeeTables /\ DepartmentKey(departments, employees')
<1> DEFINE row == [dept |-> dept, profile |-> profile]
<1>1. row \in Employee /\ row.dept = dept
  BY DepartmentTable DEF Employee, Sound, TypeOK, IsTable
<1> HIDE DEF row
<1>2. employees' = Put(employees, e, row)
  BY DEF row
<1>3. employees' \in EmployeeTables
  BY <1>1, <1>2, PutEmployee DEF Sound, TypeOK
<1>4. DepartmentKey(departments, employees')
  BY <1>1, <1>2 DEF DepartmentKey, Put, Sound
<1> QED
  BY <1>3, <1>4

LEMMA SoundNext == Sound /\ [Next]_vars => Sound'
<1> SUFFICES ASSUME Sound, [Next]_vars PROVE Sound'
  OBVIOUS
<1>1. ASSUME NEW e \in EmpId, NEW profile \in Profile, NEW dept \in DeptId,
             CreateEmployee(e, profile, dept) \/ PatchEmployee(e, profile, dept)
      PROVE  Sound'
  BY <1>1, PutEmployeeSound, EmployeesSound
  DEF CreateEmployee, PatchEmployee, Sound, TypeOK
<1>2. ASSUME NEW e \in EmpId, DeleteEmployee(e) PROVE Sound'
  <2>1. employees' \in EmployeeTables
    BY <1>2, RemoveEmployees DEF DeleteEmployee, Sound, TypeOK
  <2>2. DepartmentKey(departments, employees')
    BY <1>2 DEF DeleteEmployee, DepartmentKey, Sound, Remove, Restrict
  <2> QED
    BY <1>2, <2>1, <2>2, EmployeesSound DEF DeleteEmployee, Sound, TypeOK
<1>3. ASSUME NEW x \in DeptId \cup EmpId, SkipId(x) PROVE Sound'
  BY <1>3, EmployeesSound DEF SkipId, Sound, TypeOK
<1>4. CASE UNCHANGED vars
  BY <1>4 DEF vars, Sound, TypeOK
<1> QED
  BY <1>1, <1>2, <1>3, <1>4, CreateDepartmentSound, PatchDepartmentSound,
     DeleteCascadeSound, DeleteReassignSound DEF Next

\* The tables hold rows of their types.
THEOREM StructureTypeCorrect == Spec => []TypeOK
<1>1. Sound => TypeOK
  BY DEF Sound
<1> QED
  BY SoundInit, SoundNext, <1>1, PTL DEF Spec

\* The hierarchy stays a forest: the rule that nothing moves into its own subtree,
\* for patch and reassign alike, is enough.
THEOREM StructureAcyclic == Spec => []AcyclicHierarchy
<1>1. Sound => AcyclicHierarchy
  BY DEF Sound, AcyclicHierarchy
<1> QED
  BY SoundInit, SoundNext, <1>1, PTL DEF Spec

\* No row refers to a department that is gone, after cascades and reassignments.
THEOREM StructureReferences == Spec => []ReferentialIntegrity
<1>1. Sound => ReferentialIntegrity
  BY DEF Sound, ReferentialIntegrity
<1> QED
  BY SoundInit, SoundNext, <1>1, PTL DEF Spec

\* Siblings and roots have distinct names.
THEOREM StructureNames == Spec => []SiblingNamesUnique
<1>1. Sound => SiblingNamesUnique
  BY NamesUnique DEF Sound, SiblingNamesUnique
<1> QED
  BY SoundInit, SoundNext, <1>1, PTL DEF Spec
=============================================================================
