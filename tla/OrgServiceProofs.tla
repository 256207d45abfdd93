--------------------------- MODULE OrgServiceProofs ---------------------------
(***************************************************************************)
(* Type correctness, references, names and pending transactions of         *)
(* OrgService, for any number of requests in flight on any organisation,   *)
(* and under which condition on the requests none of them gets a 500.      *)
(***************************************************************************)
EXTENDS OrgService, OrgTablesProofs

-----------------------------------------------------------------------------
(***************************************************************************)
(* The inductive invariant.                                                *)
(***************************************************************************)
InTransaction == {"staff", "drop"}

\* What a handler carries at each of its calls.
Shape(q) ==
    /\ q \in RequestRecord
    /\ q.op \in {"createDept", "patchDept"} => q.row \in Department
    /\ q.op = "patchEmp" => q.row \in [dept : DeptId, profile : Profile \cup {BadDate}]
    /\ q.pc = "write" /\ q.op \in {"createEmp", "patchEmp"} => q.row \in Employee
    /\ q.op \in {"patchDept", "reassign", "cascade"} => q.id \in DeptId
    /\ q.op \in {"patchEmp", "deleteEmp"} => q.id \in EmpId
    /\ q.op \in {"createDept", "createEmp"} => q.id = Null
    /\ q.op = "reassign" => q.target # q.id
    /\ q.pc \in {"target", "walk", "children", "staff", "drop"} => q.target \in DeptId
    /\ q.pc = "target" => q.op \in {"patchDept", "reassign", "patchEmp"}
    /\ q.pc = "walk" => q.op \in {"patchDept", "reassign"} /\ q.cur \in DeptId
    /\ q.pc = "unique" => q.op \in {"createDept", "patchDept"}
    /\ q.pc \in {"children", "staff", "drop"} => q.op = "reassign"
    /\ q.pc \notin InTransaction => q.kids = {}
    /\ q.pc # "drop" => q.staff = {}

Requests ==
    /\ request \in [Request -> RequestRecord]
    /\ \A r \in Request : Shape(request[r])

Tables ==
    /\ departments \in DepartmentTables
    /\ employees \in EmployeeTables
    /\ issued \subseteq DeptId \cup EmpId
    /\ ParentKey(departments)
    /\ DepartmentKey(departments, employees)
    /\ NameIndexes(departments)

\* A row may come back (Save inserts), but only under an id that has been issued:
\* no INSERT meets the id of a row, or of a row that a request has loaded.
Issued ==
    /\ DOMAIN departments \subseteq issued
    /\ DOMAIN employees \subseteq issued
    /\ \A r \in Request : request[r].id \in issued \cup {Null}

\* What the locks are for: no two transactions update the same row, or give two
\* rows of one name the same parent.
Apart ==
    \A r, s \in Request :
        r # s => /\ request[r].kids \cap request[s].kids = {}
                 /\ request[r].staff \cap request[s].staff = {}
                 /\ \A j \in request[r].kids, k \in request[s].kids :
                        departments[j].name = departments[k].name
                        => request[r].target # request[s].target

IInv ==
    /\ Requests
    /\ Tables
    /\ Issued
    /\ PendingReassignSound
    /\ Apart

-----------------------------------------------------------------------------
(***************************************************************************)
(* Steps that leave r outside of a transaction.                            *)
(***************************************************************************)
Quiet(r) ==
    /\ request' = [request EXCEPT ![r] = request'[r]]
    /\ Shape(request'[r])
    /\ request'[r].pc \notin InTransaction
    /\ request'[r].id \in issued' \cup {Null}

LEMMA IdleShape ==
  ASSUME NEW reply \in Replies
  PROVE  Shape(Idle(reply)) /\ Idle(reply).pc = "idle" /\ Idle(reply).id = Null
  BY DEF Shape, Idle, RequestRecord, PCs, InTransaction

LEMMA AnswerQuiet ==
  ASSUME Requests, NEW r \in Request, NEW reply \in Replies, Answer(r, reply)
  PROVE  Quiet(r)
<1>1. request'[r] = Idle(reply) /\ request' = [request EXCEPT ![r] = request'[r]]
  BY DEF Answer, Requests
<1> QED
  BY <1>1, IdleShape DEF Quiet, InTransaction

LEMMA CommittedQuiet ==
  ASSUME Requests, NEW r \in Request, Committed(r)
  PROVE  Quiet(r)
<1> DEFINE n == [Idle("none") EXCEPT !.pc = "bump"]
<1>1. CASE Answer(r, "internal")
  BY <1>1, AnswerQuiet DEF Replies
<1>2. CASE request' = [request EXCEPT ![r] = n]
  <2>1. request'[r] = n /\ request' = [request EXCEPT ![r] = request'[r]]
    BY <1>2 DEF Requests
  <2>2. Shape(n) /\ n.pc = "bump" /\ n.id = Null
    BY DEF Shape, Idle, RequestRecord, PCs, InTransaction, Replies
  <2> QED
    BY <2>1, <2>2 DEF Quiet, InTransaction
<1> QED
  BY <1>1, <1>2 DEF Committed

\* What Proceed is called with.
LEMMA ProceedQuiet ==
  ASSUME Requests, NEW r \in Request,
         NEW pc \in {"target", "unique", "write"}, NEW op \in DeptOps \cup EmpOps,
         NEW id \in DeptId \cup EmpId \cup {Null}, NEW target, NEW row,
         Proceed(r, pc, op, id, target, row),
         id \in issued' \cup {Null},
         target \in DeptId \cup {Null, Absent},
         row \in Department \cup [dept : DeptId, profile : Profile \cup {BadDate}] \cup {Null},
         op \in {"createDept", "patchDept"} => row \in Department,
         op = "patchEmp" => row \in [dept : DeptId, profile : Profile \cup {BadDate}],
         pc = "write" /\ op \in {"createEmp", "patchEmp"} => row \in Employee,
         op \in {"patchDept", "reassign", "cascade"} => id \in DeptId,
         op \in {"patchEmp", "deleteEmp"} => id \in EmpId,
         op \in {"createDept", "createEmp"} => id = Null,
         op = "reassign" => target # id,
         pc = "target" => op \in {"patchDept", "reassign", "patchEmp"} /\ target \in DeptId,
         pc = "unique" => op \in {"createDept", "patchDept"}
  PROVE  Quiet(r)
<1> DEFINE n == [Idle("none") EXCEPT !.pc = pc, !.op = op, !.id = id,
                                     !.target = target, !.row = row]
<1>1. request'[r] = n /\ request' = [request EXCEPT ![r] = request'[r]]
  BY DEF Proceed, Requests
<1>2. /\ n.pc = pc /\ n.op = op /\ n.id = id /\ n.target = target /\ n.row = row
      /\ n.cur = Null /\ n.kids = {} /\ n.staff = {}
  BY DEF Idle
<1>3. n \in RequestRecord
  BY DEF Idle, RequestRecord, PCs, Replies
<1> HIDE DEF n
<1>4. Shape(n)
  BY <1>2, <1>3 DEF Shape, InTransaction
<1>5. n.pc \notin InTransaction /\ n.id \in issued' \cup {Null}
  BY <1>2 DEF InTransaction
<1> QED
  BY <1>1, <1>4, <1>5 DEF Quiet

\* A read that keeps what the handler carries, and moves the walk to cur.
LEMMA WalkQuiet ==
  ASSUME Requests, Issued, issued' = issued, NEW r \in Request,
         NEW cur \in DeptId \cup {Null}, NEW pc \in {"walk", "children"},
         request[r].pc \in {"target", "walk"},
         request[r].op \in {"patchDept", "reassign"},
         pc = "walk" => cur \in DeptId,
         pc = "children" => request[r].op = "reassign",
         Continue(r, [request[r] EXCEPT !.cur = cur], pc)
  PROVE  Quiet(r)
<1> DEFINE q == request[r]
           n == [[q EXCEPT !.cur = cur] EXCEPT !.pc = pc]
<1>1. request'[r] = n /\ request' = [request EXCEPT ![r] = request'[r]]
  BY DEF Continue, Requests
<1>2. Shape(q) /\ q \in RequestRecord /\ q.id \in issued \cup {Null}
  BY DEF Requests, Issued, Shape
<1> HIDE DEF q
<1>3. /\ n.pc = pc /\ n.op = q.op /\ n.id = q.id /\ n.target = q.target /\ n.row = q.row
      /\ n.cur = cur /\ n.kids = q.kids /\ n.staff = q.staff
      /\ n \in RequestRecord
  BY <1>2 DEF RequestRecord, PCs
<1>4. q.pc \in {"target", "walk"} /\ q.op \in {"patchDept", "reassign"}
      /\ (pc = "children" => q.op = "reassign")
  BY DEF q
<1> HIDE DEF n
<1>5. Shape(n)
  BY <1>2, <1>3, <1>4 DEF Shape, InTransaction
<1>6. n.pc \notin InTransaction /\ n.id \in issued' \cup {Null}
  BY <1>2, <1>3 DEF InTransaction
<1> QED
  BY <1>1, <1>5, <1>6 DEF Quiet

-----------------------------------------------------------------------------
(***************************************************************************)
(* The arrival of a request.                                               *)
(***************************************************************************)
LEMMA DepartmentRow ==
  ASSUME Tables, NEW d \in DOMAIN departments
  PROVE  /\ d \in DeptId
         /\ departments[d] \in Department
         /\ departments[d].name \in Name
         /\ departments[d].parent \in DOMAIN departments \cup {Null}
         /\ departments[d].parent \in DeptId \cup {Null}
<1>1. IsTable(departments, DeptId, Department)
  BY DepartmentTable DEF Tables
<1>2. departments[d] \in Department /\ d \in DeptId
  BY <1>1 DEF IsTable
<1>3. departments[d].parent \in DOMAIN departments \cup {Null}
  BY DEF Tables, ParentKey
<1> QED
  BY <1>2, <1>3 DEF Department

LEMMA EmployeeRow ==
  ASSUME Tables, NEW e \in DOMAIN employees
  PROVE  e \in EmpId /\ employees[e] \in Employee
<1>1. IsTable(employees, EmpId, Employee)
  BY EmployeeTable DEF Tables
<1> QED
  BY <1>1 DEF IsTable

LEMMA CreateDepartmentQuiet ==
  ASSUME IInv, NEW r \in Request, "createDept" \in DeptOps,
         NEW text \in Name \cup BadName, NEW target \in DeptId \cup {Null} \cup BadId,
         CreateDepartment(r, text, target)
  PROVE  Quiet(r) /\ UNCHANGED <<tables, issued>>
<1>1. UNCHANGED <<tables, issued>>
  BY DEF CreateDepartment, Arriving
<1>2. CASE Answer(r, "invalid") \/ Answer(r, "not_found")
  BY <1>1, <1>2, AnswerQuiet DEF IInv, Replies
<1>3. CASE /\ text # Blank
           /\ target \in DOMAIN departments \cup {Null}
           /\ Proceed(r, "unique", "createDept", Null, Null, [name |-> text, parent |-> target])
  <2> DEFINE row == [name |-> text, parent |-> target]
  <2>1. target \in DeptId \cup {Null} /\ text \in Name
    BY <1>3, DepartmentRow DEF IInv, BadName
  <2>2. row \in Department
    BY <2>1 DEF Department
  <2>3. Requests /\ Proceed(r, "unique", "createDept", Null, Null, row)
    BY <1>3 DEF IInv
  <2> HIDE DEF row
  <2>4. Quiet(r)
    BY <2>2, <2>3, ProceedQuiet
  <2> QED
    BY <1>1, <2>4
<1> QED
  BY <1>2, <1>3 DEF CreateDepartment

LEMMA PatchDepartmentQuiet ==
  ASSUME IInv, NEW r \in Request, "patchDept" \in DeptOps,
         NEW id \in DeptId, NEW text \in Name \cup {Absent} \cup BadName,
         NEW target \in DeptId \cup {Null, Absent} \cup BadId,
         PatchDepartment(r, id, text, target)
  PROVE  Quiet(r) /\ UNCHANGED <<tables, issued>>
<1>1. UNCHANGED <<tables, issued>>
  BY DEF PatchDepartment, Arriving
<1>2. Requests /\ Tables /\ Issued
  BY DEF IInv
<1>3. CASE Answer(r, "invalid") \/ Answer(r, "not_found")
  BY <1>1, <1>2, <1>3, AnswerQuiet DEF Replies
<1>4. CASE ~(Answer(r, "invalid") \/ Answer(r, "not_found"))
  <2> DEFINE old == departments[id]
             name == IF text = Absent THEN old.name ELSE text
  <2>1. /\ id \in DOMAIN departments
        /\ text # Blank
        /\ \/ /\ target \in DeptId
              /\ Proceed(r, "target", "patchDept", id, target, [old EXCEPT !.name = name])
           \/ /\ target = Null
              /\ Proceed(r, "unique", "patchDept", id, Null, [name |-> name, parent |-> Null])
           \/ /\ target = Absent
              /\ Proceed(r, "unique", "patchDept", id, Absent, [old EXCEPT !.name = name])
    BY <1>4 DEF PatchDepartment
  <2>2. old \in Department /\ id \in issued' \cup {Null}
    BY <1>1, <1>2, <2>1, DepartmentRow DEF Issued
  <2>3. name \in Name
    BY <2>1, <2>2 DEF Department, BadName
  <2> HIDE DEF name, old
  <2>4. [old EXCEPT !.name = name] \in Department /\ [name |-> name, parent |-> Null] \in Department
    BY <2>2, <2>3 DEF Department
  <2>5. \E pc \in {"target", "unique"}, to \in DeptId \cup {Null, Absent}, row \in Department :
            /\ Proceed(r, pc, "patchDept", id, to, row)
            /\ pc = "target" => to \in DeptId
    BY <2>1, <2>4
  <2>6. PICK pc \in {"target", "unique"}, to \in DeptId \cup {Null, Absent}, row \in Department :
            /\ Proceed(r, pc, "patchDept", id, to, row)
            /\ pc = "target" => to \in DeptId
    BY <2>5
  <2>7. Quiet(r)
    BY <1>2, <2>2, <2>6, ProceedQuiet
  <2> QED
    BY <1>1, <2>7
<1> QED
  BY <1>3, <1>4

LEMMA DeleteDepartmentQuiet ==
  ASSUME IInv, NEW r \in Request, NEW id \in DeptId,
         NEW mode \in DeptOps \cap {"cascade", "reassign", "otherMode"},
         NEW target \in DeptId \cup {Absent} \cup BadId,
         DeleteDepartment(r, id, mode, target)
  PROVE  Quiet(r) /\ UNCHANGED <<tables, issued>>
<1>1. UNCHANGED <<tables, issued>>
  BY DEF DeleteDepartment, Arriving
<1>2. Requests /\ Issued
  BY DEF IInv
<1>3. CASE Answer(r, "invalid") \/ Answer(r, "not_found")
  BY <1>1, <1>2, <1>3, AnswerQuiet DEF Replies
<1>4. CASE /\ id \in DOMAIN departments
           /\ mode = "cascade"
           /\ Proceed(r, "write", "cascade", id, Null, Null)
  <2>1. id \in issued'
    BY <1>1, <1>2, <1>4 DEF Issued
  <2>2. Quiet(r)
    BY <1>2, <1>4, <2>1, ProceedQuiet
  <2> QED
    BY <1>1, <2>2
<1>5. CASE /\ id \in DOMAIN departments
           /\ target # Zero
           /\ mode = "reassign" /\ target \notin {Absent, id}
           /\ Proceed(r, "target", "reassign", id, target, Null)
  <2>1. id \in issued'
    BY <1>1, <1>2, <1>5 DEF Issued
  <2>2. target \in DeptId
    BY <1>5 DEF BadId
  <2>3. Quiet(r)
    BY <1>2, <1>5, <2>1, <2>2, ProceedQuiet
  <2> QED
    BY <1>1, <2>3
<1> QED
  BY <1>3, <1>4, <1>5 DEF DeleteDepartment

LEMMA CreateEmployeeQuiet ==
  ASSUME IInv, NEW r \in Request, "createEmp" \in EmpOps,
         NEW text \in Profile \cup BadProfile, NEW target \in DeptId \cup BadId,
         CreateEmployee(r, text, target)
  PROVE  Quiet(r) /\ UNCHANGED <<tables, issued>>
<1>1. UNCHANGED <<tables, issued>>
  BY DEF CreateEmployee, Arriving
<1>2. Requests /\ Tables
  BY DEF IInv
<1>3. CASE Answer(r, "invalid") \/ Answer(r, "not_found")
  BY <1>1, <1>2, <1>3, AnswerQuiet DEF Replies
<1>4. CASE /\ text \in Profile
           /\ target \in DOMAIN departments
           /\ Proceed(r, "write", "createEmp", Null, Null, [dept |-> target, profile |-> text])
  <2> DEFINE row == [dept |-> target, profile |-> text]
  <2>1. row \in Employee /\ row \in [dept : DeptId, profile : Profile \cup {BadDate}]
    BY <1>2, <1>4, DepartmentRow DEF Employee
  <2>2. Proceed(r, "write", "createEmp", Null, Null, row)
    BY <1>4
  <2> HIDE DEF row
  <2>3. Quiet(r)
    BY <1>2, <2>1, <2>2, ProceedQuiet
  <2> QED
    BY <1>1, <2>3
<1> QED
  BY <1>3, <1>4 DEF CreateEmployee

LEMMA PatchEmployeeQuiet ==
  ASSUME IInv, NEW r \in Request, "patchEmp" \in EmpOps,
         NEW id \in EmpId, NEW text \in Profile \cup {Absent} \cup BadProfile,
         NEW target \in DeptId \cup {Null, Absent} \cup BadId,
         PatchEmployee(r, id, text, target)
  PROVE  Quiet(r) /\ UNCHANGED <<tables, issued>>
<1>1. UNCHANGED <<tables, issued>>
  BY DEF PatchEmployee, Arriving
<1>2. Requests /\ Tables /\ Issued
  BY DEF IInv
<1>3. CASE Answer(r, "invalid") \/ Answer(r, "not_found")
  BY <1>1, <1>2, <1>3, AnswerQuiet DEF Replies
<1>4. CASE ~(Answer(r, "invalid") \/ Answer(r, "not_found"))
  <2> DEFINE row == [employees[id] EXCEPT !.profile = IF text = Absent THEN @ ELSE text]
             rows == [dept : DeptId, profile : Profile \cup {BadDate}]
  <2>1. /\ id \in DOMAIN employees
        /\ text # Blank
        /\ \/ /\ target \in DeptId
              /\ Proceed(r, "target", "patchEmp", id, target, row)
           \/ /\ target = Absent /\ text \notin {Absent, BadDate}
              /\ Proceed(r, "write", "patchEmp", id, Absent, row)
    BY <1>4 DEF PatchEmployee
  <2>2. employees[id] \in Employee /\ id \in issued'
    BY <1>1, <1>2, <2>1, EmployeeRow DEF Issued
  <2>3. text # Absent => text \in Profile \cup {BadDate}
    BY <2>1 DEF BadProfile
  <2>4. /\ row \in rows
        /\ text \notin {Absent, BadDate} => row \in Employee
    BY <2>2, <2>3 DEF Employee
  <2> HIDE DEF row
  <2>5. CASE /\ target \in DeptId
             /\ Proceed(r, "target", "patchEmp", id, target, row)
    BY <1>1, <1>2, <2>2, <2>4, <2>5, ProceedQuiet
  <2>6. CASE /\ target = Absent /\ text \notin {Absent, BadDate}
             /\ Proceed(r, "write", "patchEmp", id, Absent, row)
    BY <1>1, <1>2, <2>2, <2>4, <2>6, ProceedQuiet
  <2> QED
    BY <1>1, <2>1, <2>5, <2>6
<1> QED
  BY <1>3, <1>4

LEMMA DeleteEmployeeQuiet ==
  ASSUME IInv, NEW r \in Request, "deleteEmp" \in EmpOps, NEW id \in EmpId,
         DeleteEmployee(r, id)
  PROVE  Quiet(r) /\ UNCHANGED <<tables, issued>>
<1>1. UNCHANGED <<tables, issued>>
  BY DEF DeleteEmployee, Arriving
<1>2. Requests /\ Issued
  BY DEF IInv
<1>3. CASE Answer(r, "not_found")
  BY <1>1, <1>2, <1>3, AnswerQuiet DEF Replies
<1>4. CASE id \in DOMAIN employees /\ Proceed(r, "write", "deleteEmp", id, Null, Null)
  <2>1. id \in issued'
    BY <1>1, <1>2, <1>4 DEF Issued
  <2>2. Quiet(r)
    BY <1>2, <1>4, <2>1, ProceedQuiet
  <2> QED
    BY <1>1, <2>2
<1> QED
  BY <1>3, <1>4 DEF DeleteEmployee

LEMMA ArriveQuiet ==
  ASSUME IInv, NEW r \in Request, Arrive(r)
  PROVE  Quiet(r) /\ UNCHANGED <<tables, issued>>
  BY CreateDepartmentQuiet, PatchDepartmentQuiet, DeleteDepartmentQuiet,
     CreateEmployeeQuiet, PatchEmployeeQuiet, DeleteEmployeeQuiet DEF Arrive

-----------------------------------------------------------------------------
(***************************************************************************)
(* The reads, and the steps that end a request.                            *)
(***************************************************************************)
LEMMA LoadTargetQuiet ==
  ASSUME IInv, NEW r \in Request, LoadTarget(r)
  PROVE  Quiet(r) /\ UNCHANGED <<tables, issued>>
<1> DEFINE q == request[r]
           row == [q.row EXCEPT !.dept = q.target]
<1>1. q.pc = "target" /\ UNCHANGED <<tables, issued>>
  BY DEF LoadTarget, Reading
<1>2. Requests /\ Issued /\ Shape(q) /\ q \in RequestRecord
  BY DEF IInv, Requests, Shape
<1>3. CASE Answer(r, "not_found") \/ Answer(r, "invalid")
  BY <1>1, <1>2, <1>3, AnswerQuiet DEF Replies
<1>4. CASE /\ q.op \in {"patchDept", "reassign"}
           /\ Continue(r, [q EXCEPT !.cur = q.target], "walk")
  <2>1. q.target \in DeptId
    BY <1>1, <1>2 DEF Shape
  <2>2. Quiet(r)
    BY <1>1, <1>2, <1>4, <2>1, WalkQuiet
  <2> QED
    BY <1>1, <2>2
<1>5. CASE /\ q.op = "patchEmp" /\ q.row.profile # BadDate
           /\ Proceed(r, "write", q.op, q.id, Null, row)
  <2>1. /\ q.row \in [dept : DeptId, profile : Profile \cup {BadDate}]
        /\ q.target \in DeptId
        /\ q.id \in EmpId
        /\ q.op \in DeptOps \cup EmpOps
    BY <1>1, <1>2, <1>5 DEF Shape, RequestRecord
  <2>2. row \in Employee /\ row \in [dept : DeptId, profile : Profile \cup {BadDate}]
    BY <1>5, <2>1 DEF Employee
  <2>3. q.id \in issued' \cup {Null}
    BY <1>1, <1>2 DEF Issued
  <2> HIDE DEF row
  <2>4. Quiet(r)
    BY <1>2, <1>5, <2>1, <2>2, <2>3, ProceedQuiet
  <2> QED
    BY <1>1, <2>4
<1> QED
  BY <1>3, <1>4, <1>5 DEF LoadTarget

LEMMA WouldCreateCycleQuiet ==
  ASSUME IInv, NEW r \in Request, WouldCreateCycle(r)
  PROVE  Quiet(r) /\ UNCHANGED <<tables, issued>>
<1> DEFINE q == request[r]
           above == departments[q.cur].parent
           row == [q.row EXCEPT !.parent = q.target]
<1>1. q.pc = "walk" /\ UNCHANGED <<tables, issued>>
  BY DEF WouldCreateCycle, Reading
<1>2. Requests /\ Tables /\ Issued /\ Shape(q) /\ q \in RequestRecord
  BY DEF IInv, Requests, Shape
<1>3. q.op \in {"patchDept", "reassign"} /\ q.target \in DeptId
  BY <1>1, <1>2 DEF Shape
<1>4. CASE Answer(r, "cycle") \/ Answer(r, "internal")
  BY <1>1, <1>2, <1>4, AnswerQuiet DEF Replies
<1>5. CASE /\ q.cur \in DOMAIN departments /\ above # Null
           /\ Continue(r, [q EXCEPT !.cur = above], "walk")
  <2>1. above \in DeptId
    BY <1>2, <1>5, DepartmentRow
  <2> HIDE DEF above
  <2>2. Quiet(r)
    BY <1>1, <1>2, <1>3, <1>5, <2>1, WalkQuiet
  <2> QED
    BY <1>1, <2>2
<1>6. CASE q.op = "reassign" /\ Continue(r, [q EXCEPT !.cur = Null], "children")
  BY <1>1, <1>2, <1>3, <1>6, WalkQuiet
<1>7. CASE q.op = "patchDept" /\ Proceed(r, "unique", q.op, q.id, Null, row)
  <2>1. q.row \in Department /\ q.id \in DeptId /\ q.op \in DeptOps \cup EmpOps
    BY <1>2, <1>7 DEF Shape, RequestRecord
  <2>2. row \in Department
    BY <1>3, <2>1 DEF Department
  <2>3. q.id \in issued' \cup {Null}
    BY <1>1, <1>2 DEF Issued
  <2> HIDE DEF row
  <2>4. Quiet(r)
    BY <1>2, <1>7, <2>1, <2>2, <2>3, ProceedQuiet
  <2> QED
    BY <1>1, <2>4
<1> QED
  BY <1>4, <1>5, <1>6, <1>7 DEF WouldCreateCycle, Above

LEMMA CheckNameQuiet ==
  ASSUME IInv, NEW r \in Request, CheckName(r)
  PROVE  Quiet(r) /\ UNCHANGED <<tables, issued>>
<1> DEFINE q == request[r]
           n == [q EXCEPT !.pc = "write"]
<1>1. q.pc = "unique" /\ UNCHANGED <<tables, issued>>
  BY DEF CheckName, Reading
<1>2. Requests /\ Issued /\ Shape(q) /\ q \in RequestRecord /\ q.id \in issued \cup {Null}
  BY DEF IInv, Requests, Shape, Issued
<1>3. CASE Answer(r, "conflict")
  BY <1>1, <1>2, <1>3, AnswerQuiet DEF Replies
<1>4. CASE Continue(r, q, "write")
  <2>1. request'[r] = n /\ request' = [request EXCEPT ![r] = request'[r]]
    BY <1>2, <1>4 DEF Continue, Requests
  <2> HIDE DEF q
  <2>2. /\ n.pc = "write" /\ n.op = q.op /\ n.id = q.id /\ n.target = q.target
        /\ n.row = q.row /\ n.kids = q.kids /\ n.staff = q.staff
        /\ n \in RequestRecord
    BY <1>2 DEF RequestRecord, PCs
  <2> HIDE DEF n
  <2>3. Shape(n)
    BY <1>1, <1>2, <2>2 DEF Shape, InTransaction
  <2>4. n.pc \notin InTransaction /\ n.id \in issued' \cup {Null}
    BY <1>1, <1>2, <2>2 DEF InTransaction
  <2> QED
    BY <1>1, <2>1, <2>3, <2>4 DEF Quiet
<1> QED
  BY <1>3, <1>4 DEF CheckName

LEMMA ReadQuiet ==
  ASSUME IInv, NEW r \in Request, Read(r)
  PROVE  Quiet(r) /\ UNCHANGED <<tables, issued>>
  BY LoadTargetQuiet, WouldCreateCycleQuiet, CheckNameQuiet DEF Read

LEMMA EndQuiet ==
  ASSUME IInv, NEW r \in Request, DeadlockVictim(r) \/ StatementFails(r) \/ Bump(r)
  PROVE  Quiet(r) /\ UNCHANGED <<tables, issued>>
  BY AnswerQuiet DEF DeadlockVictim, StatementFails, Bump, IInv, Replies

-----------------------------------------------------------------------------
(***************************************************************************)
(* What r must leave alone for the transactions of the others: the rows    *)
(* they have updated, the department those refer to, and their names.      *)
(***************************************************************************)
Undisturbed(r) ==
    \A s \in Request \ {r} :
        LET q == request[s] IN
        q.pc \in InTransaction =>
            /\ \A k \in q.kids :
                   k \in DOMAIN departments' /\ departments'[k] = departments[k]
            /\ \A e \in q.staff :
                   e \in DOMAIN employees' /\ employees'[e] = employees[e]
            /\ q.kids # {} \/ q.staff # {} => q.target \in DOMAIN departments'
            /\ NameIndexes(Reparent(departments', q.kids, q.target))

IssuedRows ==
    /\ DOMAIN departments \subseteq issued
    /\ DOMAIN employees \subseteq issued

\* A step of r outside of a transaction that leaves the others alone.
LEMMA QuietKeeps ==
  ASSUME IInv, NEW r \in Request, Quiet(r), Undisturbed(r),
         Tables', IssuedRows', issued \subseteq issued'
  PROVE  IInv'
<1>1. Requests /\ Issued /\ PendingReassignSound /\ Apart
  BY DEF IInv
<1>2. /\ \A s \in Request \ {r} : request'[s] = request[s]
      /\ request' = [request EXCEPT ![r] = request'[r]]
      /\ Shape(request'[r])
      /\ request'[r].id \in issued' \cup {Null}
      /\ request'[r].kids = {} /\ request'[r].staff = {}
      /\ request'[r].pc \notin InTransaction
  <2>1. Shape(request'[r]) /\ request'[r].pc \notin InTransaction
    BY DEF Quiet
  <2>2. request'[r].kids = {} /\ request'[r].staff = {}
    BY <2>1 DEF Shape, InTransaction
  <2> QED
    BY <1>1, <2>1, <2>2 DEF Quiet, Requests
<1>3. Requests'
  BY <1>1, <1>2 DEF Requests, Shape
<1>4. Issued'
  BY <1>1, <1>2 DEF Issued, IssuedRows
<1>5. PendingReassignSound'
  <2> SUFFICES ASSUME NEW s \in Request, request'[s].pc \in InTransaction
               PROVE  LET q == request'[s]
                          moved == Reparent(departments', q.kids, q.target)
                      IN  /\ q.kids \subseteq Children(departments', q.id)
                          /\ q.staff \subseteq Staff(employees', {q.id})
                          /\ q.kids # {} \/ q.staff # {} => q.target \in DOMAIN departments'
                          /\ NameIndexes(moved)
    BY DEF PendingReassignSound, InTransaction
  <2>1. s # r /\ request'[s] = request[s] /\ request[s].pc \in InTransaction
    BY <1>2
  <2> DEFINE q == request[s]
  <2>2. q.kids \subseteq Children(departments, q.id) /\ q.staff \subseteq Staff(employees, {q.id})
    BY <1>1, <2>1 DEF PendingReassignSound, InTransaction
  <2>3. /\ \A k \in q.kids : k \in DOMAIN departments' /\ departments'[k] = departments[k]
        /\ \A e \in q.staff : e \in DOMAIN employees' /\ employees'[e] = employees[e]
        /\ q.kids # {} \/ q.staff # {} => q.target \in DOMAIN departments'
        /\ NameIndexes(Reparent(departments', q.kids, q.target))
    BY <2>1 DEF Undisturbed
  <2> HIDE DEF q
  <2>4. q.kids \subseteq Children(departments', q.id) /\ q.staff \subseteq Staff(employees', {q.id})
    BY <2>2, <2>3 DEF Children, Staff
  <2> QED
    BY <2>1, <2>3, <2>4 DEF q
<1>6. Apart'
  <2> SUFFICES ASSUME NEW a \in Request, NEW b \in Request, a # b
               PROVE  /\ request'[a].kids \cap request'[b].kids = {}
                      /\ request'[a].staff \cap request'[b].staff = {}
                      /\ \A j \in request'[a].kids, k \in request'[b].kids :
                             departments'[j].name = departments'[k].name
                             => request'[a].target # request'[b].target
    BY DEF Apart
  <2>1. CASE a = r \/ b = r
    BY <1>2, <2>1
  <2>2. CASE a # r /\ b # r
    <3>1. request'[a] = request[a] /\ request'[b] = request[b]
      BY <1>2, <2>2
    <3>2. \A s \in {a, b} : \A k \in request[s].kids : departments'[k] = departments[k]
      <4>1. \A s \in {a, b} : request[s].pc \notin InTransaction => request[s].kids = {}
        BY <1>1 DEF Requests, Shape
      <4> QED
        BY <2>2, <4>1 DEF Undisturbed
    <3> QED
      BY <1>1, <3>1, <3>2 DEF Apart
  <2> QED
    BY <2>1, <2>2
<1> QED
  BY <1>3, <1>4, <1>5, <1>6 DEF IInv

\* The tables are left alone altogether.
LEMMA ReadKeeps ==
  ASSUME IInv, NEW r \in Request, Quiet(r), UNCHANGED tables,
         issued \subseteq issued', issued' \subseteq DeptId \cup EmpId
  PROVE  IInv'
<1>1. Tables' /\ IssuedRows'
  BY DEF IInv, Tables, Issued, IssuedRows, tables
<1>2. Undisturbed(r)
  <2> SUFFICES ASSUME NEW s \in Request \ {r}, request[s].pc \in InTransaction
               PROVE  LET q == request[s] IN
                      /\ q.kids \subseteq DOMAIN departments
                      /\ q.staff \subseteq DOMAIN employees
                      /\ q.kids # {} \/ q.staff # {} => q.target \in DOMAIN departments
                      /\ NameIndexes(Reparent(departments, q.kids, q.target))
    BY DEF Undisturbed, tables
  <2> QED
    BY DEF IInv, PendingReassignSound, Children, Staff, InTransaction
<1> QED
  BY <1>1, <1>2, QuietKeeps

-----------------------------------------------------------------------------
(***************************************************************************)
(* What another transaction holds.                                         *)
(***************************************************************************)
LEMMA Held ==
  ASSUME IInv, NEW r \in Request, NEW s \in Request \ {r}, request[s].pc \in InTransaction
  PROVE  LET q == request[s] IN
         /\ q.kids \subseteq DOMAIN departments
         /\ q.staff \subseteq DOMAIN employees
         /\ q.kids # {} \/ q.staff # {} => q.target \in DOMAIN departments
         /\ q.target \in DeptId
         /\ NameIndexes(Reparent(departments, q.kids, q.target))
<1>1. /\ request[s].kids \subseteq Children(departments, request[s].id)
      /\ request[s].staff \subseteq Staff(employees, {request[s].id})
      /\ request[s].kids # {} \/ request[s].staff # {} =>
             request[s].target \in DOMAIN departments
      /\ NameIndexes(Reparent(departments, request[s].kids, request[s].target))
  BY DEF IInv, PendingReassignSound, InTransaction
<1>2. request[s].target \in DeptId
  BY DEF IInv, Requests, Shape, InTransaction
<1> QED
  BY <1>1, <1>2 DEF Children, Staff

\* The locks of an UPDATE or INSERT.
LEMMA EntersLocks ==
  ASSUME NEW id, NEW row
  PROVE  /\ Lock(id, Entry(row.name, row.parent), "enter", 1) \in Enters(id, row)
         /\ id \in DOMAIN departments => Lock(id, id, "update", 1) \in Enters(id, row)
         /\ id \in DOMAIN departments /\ row.parent \notin {Null, departments[id].parent}
                => Lock(row.parent, row.parent, "share", 2) \in Enters(id, row)
  BY DEF Enters

LEMMA JoinsLocks ==
  ASSUME NEW id \in DOMAIN employees, NEW row
  PROVE  /\ Lock(id, id, "update", 1) \in Joins(id, row)
         /\ row.dept # employees[id].dept
                => Lock(row.dept, row.dept, "share", 2) \in Joins(id, row)
  BY DEF Joins

LEMMA MovesKidsLocks ==
  ASSUME Tables, NEW kids \in SUBSET DOMAIN departments, NEW to \in DeptId, NEW k \in kids
  PROVE  /\ Lock(k, k, "update", 1) \in MovesKids(kids, to)
         /\ Lock(k, Entry(departments[k].name, to), "enter", 1) \in MovesKids(kids, to)
         /\ departments[k].parent # to => Lock(to, to, "share", 2) \in MovesKids(kids, to)
<1> DEFINE row == [departments[k] EXCEPT !.parent = to]
<1>1. row.name = departments[k].name /\ row.parent = to /\ to # Null
  BY DepartmentRow, NullAssumption DEF Department
<1>2. Enters(k, row) \subseteq MovesKids(kids, to)
  BY DEF MovesKids
<1> HIDE DEF row
<1> QED
  BY <1>1, <1>2, EntersLocks

LEMMA MovesStaffLocks ==
  ASSUME Tables, NEW staff \in SUBSET DOMAIN employees, NEW to \in DeptId, NEW e \in staff
  PROVE  /\ Lock(e, e, "update", 1) \in MovesStaff(staff, to)
         /\ employees[e].dept # to => Lock(to, to, "share", 2) \in MovesStaff(staff, to)
<1> DEFINE row == [employees[e] EXCEPT !.dept = to]
<1>1. row.dept = to
  BY EmployeeRow DEF Employee
<1>2. Joins(e, row) \subseteq MovesStaff(staff, to)
  BY DEF MovesStaff
<1> HIDE DEF row
<1> QED
  BY <1>1, <1>2, JoinsLocks

LEMMA DeletesLocks ==
  ASSUME NEW depts, NEW emps, NEW id
  PROVE  /\ \A d \in Subtree(depts, id) : \E n : Lock(d, d, "delete", n) \in Deletes(depts, emps, id)
         /\ \A e \in Staff(emps, Subtree(depts, id)) :
                \E n : Lock(e, e, "delete", n) \in Deletes(depts, emps, id)
  BY DEF Deletes

\* The statements, and the locks that they take.
LEMMA TakesOf ==
  ASSUME NEW q
  PROVE  /\ q.pc = "children" =>
                Takes(q) = MovesKids(Children(departments, q.id), q.target)
         /\ q.pc = "staff" => Takes(q) = MovesStaff(Staff(employees, {q.id}), q.target)
         /\ q.pc = "drop" =>
                Takes(q) = Deletes(Reparent(departments, q.kids, q.target),
                                   Reassign(employees, q.staff, q.target), q.id)
         /\ q.pc = "write" =>
                /\ q.op \in {"createDept", "patchDept"} => Takes(q) = Enters(q.id, q.row)
                /\ q.op \in {"createEmp", "patchEmp"} => Takes(q) = Joins(q.id, q.row)
                /\ q.op = "cascade" => Takes(q) = Deletes(departments, employees, q.id)
                /\ q.op = "deleteEmp" => Takes(q) = {Lock(q.id, q.id, "delete", 1)}
                /\ q.op \notin {"createDept", "patchDept", "createEmp", "patchEmp",
                               "cascade", "deleteEmp"} => Takes(q) = {}
         /\ q.pc \notin Statements => Takes(q) = {}
  BY DEF Takes, Statements

\* What a transaction in progress holds.
LEMMA HoldsLocks ==
  ASSUME IInv, NEW s \in Request, request[s].pc \in InTransaction
  PROVE  LET q == request[s] IN
         /\ \A k \in q.kids :
                /\ Lock(k, k, "update", 1) \in Holds(q)
                /\ Lock(k, Entry(departments[k].name, q.target), "enter", 1) \in Holds(q)
         /\ \A e \in q.staff : Lock(e, e, "update", 1) \in Holds(q)
         /\ q.kids # {} \/ q.staff # {} => Lock(q.target, q.target, "share", 2) \in Holds(q)
<1> DEFINE q == request[s]
<1>1. /\ q.kids \subseteq Children(departments, q.id)
      /\ q.staff \subseteq Staff(employees, {q.id})
  BY DEF IInv, PendingReassignSound, InTransaction
<1>2. q.target \in DeptId /\ q.target # q.id
  BY DEF IInv, Requests, Shape, InTransaction
<1>3. /\ q.kids \in SUBSET DOMAIN departments /\ \A k \in q.kids : departments[k].parent = q.id
      /\ q.staff \in SUBSET DOMAIN employees /\ \A e \in q.staff : employees[e].dept = q.id
  BY <1>1 DEF Children, Staff
<1>4. Tables
  BY DEF IInv
<1> HIDE DEF q
<1>5. ASSUME NEW k \in q.kids
      PROVE  /\ Lock(k, k, "update", 1) \in Holds(q)
             /\ Lock(k, Entry(departments[k].name, q.target), "enter", 1) \in Holds(q)
             /\ Lock(q.target, q.target, "share", 2) \in Holds(q)
  BY <1>2, <1>3, <1>4, MovesKidsLocks DEF Holds
<1>6. ASSUME NEW e \in q.staff
      PROVE  /\ Lock(e, e, "update", 1) \in Holds(q)
             /\ Lock(q.target, q.target, "share", 2) \in Holds(q)
  BY <1>2, <1>3, <1>4, MovesStaffLocks DEF Holds
<1> QED
  BY <1>5, <1>6 DEF q

\* What r may lock is not what the others hold.
LEMMA Grants ==
  ASSUME IInv, NEW r \in Request, Granted(r), NEW s \in Request \ {r},
         NEW row, NEW item, NEW mode, NEW turn, Lock(row, item, mode, turn) \in Takes(request[r])
  PROVE  LET q == request[s] IN
         /\ mode \in {"update", "delete"} => item \notin q.kids /\ item \notin q.staff
         /\ mode = "enter" => \A k \in q.kids : item # Entry(departments[k].name, q.target)
         /\ mode = "delete" /\ (q.kids # {} \/ q.staff # {}) => item # q.target
<1> DEFINE q == request[s]
<1>1. CASE q.pc \notin InTransaction
  <2>1. q.kids = {} /\ q.staff = {}
    BY <1>1 DEF IInv, Requests, Shape, InTransaction
  <2> QED
    BY <2>1
<1>2. CASE q.pc \in InTransaction
  <2>1. \A held \in Holds(q) : ~Excludes(held, Lock(row, item, mode, turn))
    BY <1>2 DEF Granted, Others, InTransaction
  <2>2. \A x, y, m, n : Lock(x, y, m, n) \in Holds(q) =>
            ~(y = item /\ <<m, mode>> \in
                {<<"update", "update">>, <<"update", "delete">>, <<"share", "delete">>,
                 <<"enter", "enter">>})
    BY <2>1 DEF Excludes, Lock
  <2> QED
    BY <1>2, <2>2, HoldsLocks
<1> QED
  BY <1>1, <1>2

\* The row d that r writes, and the index entry of its new contents, are no
\* transaction's.
RowFree(r, d, row) ==
    \A s \in Request \ {r} :
        LET q == request[s] IN
        /\ d \notin q.kids
        /\ \A k \in q.kids : departments[k].name = row.name => row.parent # q.target

StaffFree(r, staff) == \A s \in Request \ {r} : staff \cap request[s].staff = {}

\* Nor are the rows that r deletes, or referred to.
CanDelete(r, D, staff) ==
    /\ StaffFree(r, staff)
    /\ \A s \in Request \ {r} :
           LET q == request[s] IN
           /\ D \cap q.kids = {}
           /\ q.kids # {} \/ q.staff # {} => q.target \notin D

LEMMA GrantedRow ==
  ASSUME IInv, NEW r \in Request, Granted(r), request[r].pc = "write",
         request[r].op \in {"createDept", "patchDept"}
  PROVE  RowFree(r, request[r].id, request[r].row)
<1> DEFINE d == request[r].id
           row == request[r].row
<1>1. Takes(request[r]) = Enters(d, row)
  BY TakesOf
<1>2. SUFFICES ASSUME NEW s \in Request \ {r}
               PROVE  /\ d \notin request[s].kids
                      /\ \A k \in request[s].kids : departments[k].name = row.name
                                                   => row.parent # request[s].target
  BY DEF RowFree
<1>3. \A k \in request[s].kids : k \in DOMAIN departments
  BY Held DEF IInv, Requests, Shape, InTransaction
<1>4. d \in DOMAIN departments => d \notin request[s].kids
  BY <1>1, EntersLocks, Grants
<1>5. \A k \in request[s].kids : Entry(row.name, row.parent) # Entry(departments[k].name, request[s].target)
  BY <1>1, EntersLocks, Grants
<1> QED
  BY <1>3, <1>4, <1>5 DEF Entry

LEMMA GrantedEmployee ==
  ASSUME IInv, NEW r \in Request, Granted(r), request[r].pc = "write",
         request[r].op \in {"createEmp", "patchEmp", "deleteEmp"}
  PROVE  StaffFree(r, {request[r].id})
<1> DEFINE e == request[r].id
<1>1. SUFFICES ASSUME NEW s \in Request \ {r}, e \in request[s].staff PROVE FALSE
  BY DEF StaffFree
<1>2. e \in DOMAIN employees
  BY <1>1, Held DEF IInv, Requests, Shape, InTransaction
<1>3. CASE request[r].op \in {"createEmp", "patchEmp"}
  <2>1. Takes(request[r]) = Joins(e, request[r].row)
    BY <1>3, TakesOf
  <2> QED
    BY <1>1, <1>2, <2>1, JoinsLocks, Grants
<1>4. CASE request[r].op = "deleteEmp"
  <2>1. Lock(e, e, "delete", 1) \in Takes(request[r])
    BY <1>4, TakesOf
  <2> QED
    BY <1>1, <2>1, Grants
<1> QED
  BY <1>3, <1>4

LEMMA GrantedDelete ==
  ASSUME IInv, NEW r \in Request, Granted(r), NEW depts, NEW emps, NEW id,
         Takes(request[r]) = Deletes(depts, emps, id)
  PROVE  CanDelete(r, Subtree(depts, id), Staff(emps, Subtree(depts, id)))
<1> DEFINE D == Subtree(depts, id)
           staff == Staff(emps, D)
<1>1. SUFFICES ASSUME NEW s \in Request \ {r}
               PROVE  /\ \A d \in D : d \notin request[s].kids
                      /\ \A e \in staff : e \notin request[s].staff
                      /\ request[s].kids # {} \/ request[s].staff # {} =>
                             \A d \in D : d # request[s].target
  BY DEF CanDelete, StaffFree
<1>2. ASSUME NEW d \in D
      PROVE  /\ d \notin request[s].kids
             /\ request[s].kids # {} \/ request[s].staff # {} => d # request[s].target
  <2>1. PICK n : Lock(d, d, "delete", n) \in Takes(request[r])
    BY DeletesLocks
  <2> QED
    BY <2>1, Grants
<1>3. ASSUME NEW e \in staff PROVE e \notin request[s].staff
  <2>1. PICK n : Lock(e, e, "delete", n) \in Takes(request[r])
    BY DeletesLocks
  <2> QED
    BY <2>1, Grants
<1> QED
  BY <1>2, <1>3

-----------------------------------------------------------------------------
(***************************************************************************)
(* INSERT and Save.                                                        *)
(***************************************************************************)
LEMMA WriteDepartmentKeeps ==
  ASSUME IInv, NEW r \in Request, NEW d \in DeptId, NEW row \in Department,
         RowFree(r, d, row),
         issued \subseteq issued', issued' \subseteq DeptId \cup EmpId, d \in issued',
         WriteDepartments(r, Put(departments, d, row))
  PROVE  IInv'
<1> DEFINE t == Put(departments, d, row)
<1>1. Requests /\ Tables /\ Issued
  BY DEF IInv
<1>2. CASE UNCHANGED tables /\ (Answer(r, "conflict") \/ Answer(r, "internal"))
  BY <1>1, <1>2, AnswerQuiet, ReadKeeps DEF Replies
<1>3. CASE /\ NameIndexes(t) /\ ParentKey(t)
           /\ departments' = t
           /\ UNCHANGED employees
           /\ Committed(r)
  <2>1. /\ t \in DepartmentTables
        /\ DOMAIN t = DOMAIN departments \cup {d}
        /\ \A x \in DOMAIN departments \ {d} : t[x] = departments[x]
    BY <1>1, PutDepartment DEF Tables, Put
  <2>2. Tables' /\ IssuedRows'
    BY <1>1, <1>3, <2>1 DEF Tables, DepartmentKey, Issued, IssuedRows
  <2>3. Undisturbed(r)
    <3> SUFFICES ASSUME NEW s \in Request \ {r}, request[s].pc \in InTransaction
                 PROVE  LET q == request[s] IN
                        /\ \A k \in q.kids :
                               k \in DOMAIN departments' /\ departments'[k] = departments[k]
                        /\ \A e \in q.staff :
                               e \in DOMAIN employees' /\ employees'[e] = employees[e]
                        /\ q.kids # {} \/ q.staff # {} => q.target \in DOMAIN departments'
                        /\ NameIndexes(Reparent(departments', q.kids, q.target))
      BY DEF Undisturbed
    <3> DEFINE kids == request[s].kids
               to == request[s].target
    <3>1. /\ kids \subseteq DOMAIN departments
          /\ request[s].staff \subseteq DOMAIN employees
          /\ kids # {} \/ request[s].staff # {} => to \in DOMAIN departments
          /\ to \in DeptId
          /\ NameIndexes(Reparent(departments, kids, to))
      BY Held
    <3>2. /\ d \notin kids
          /\ \A k \in kids : departments[k].name = row.name => row.parent # to
      BY DEF RowFree
    <3> HIDE DEF kids, to
    <3>3. NameIndexes(Reparent(t, kids, to))
      BY <1>1, <1>3, <3>1, <3>2, PendingPut DEF Tables
    <3>4. \A k \in kids : k \in DOMAIN t /\ t[k] = departments[k]
      BY <2>1, <3>1, <3>2
    <3> HIDE DEF t
    <3> QED
      BY <1>3, <2>1, <3>1, <3>3, <3>4 DEF kids, to
  <2>4. Quiet(r)
    BY <1>1, <1>3, CommittedQuiet
  <2> QED
    BY <2>2, <2>3, <2>4, QuietKeeps
<1> QED
  BY <1>2, <1>3 DEF WriteDepartments

LEMMA InsertDepartmentKeeps ==
  ASSUME IInv, NEW r \in Request, Granted(r), InsertDepartment(r)
  PROVE  IInv'
<1> DEFINE row == request[r].row
<1>1. PICK d \in DeptId \ issued :
          issued' = issued \cup {d} /\ WriteDepartments(r, Put(departments, d, row))
  BY DEF InsertDepartment
<1>2. row \in Department
  BY DEF InsertDepartment, Writing, IInv, Requests, Shape
<1>3. RowFree(r, d, row)
  <2>1. \A s \in Request \ {r} : request[s].kids \subseteq DOMAIN departments
    BY Held DEF IInv, Requests, Shape, InTransaction
  <2>2. d \notin DOMAIN departments
    BY DEF IInv, Issued
  <2>3. RowFree(r, request[r].id, row)
    BY GrantedRow DEF InsertDepartment, Writing
  <2> QED
    BY <2>1, <2>2, <2>3 DEF RowFree
<1>4. issued \subseteq issued' /\ issued' \subseteq DeptId \cup EmpId /\ d \in issued'
  BY <1>1 DEF IInv, Tables
<1> HIDE DEF row
<1> QED
  BY <1>1, <1>2, <1>3, <1>4, WriteDepartmentKeeps

LEMMA SaveDepartmentKeeps ==
  ASSUME IInv, NEW r \in Request, Granted(r), SaveDepartment(r)
  PROVE  IInv'
<1> DEFINE row == request[r].row
           d == request[r].id
<1>1. /\ RowFree(r, d, row)
      /\ WriteDepartments(r, Put(departments, d, row))
      /\ issued' = issued
      /\ request[r].op = "patchDept"
  BY GrantedRow DEF SaveDepartment, Writing
<1>2. row \in Department /\ d \in DeptId
  BY <1>1 DEF IInv, Requests, Shape
<1>3. d \in issued' /\ issued' \subseteq DeptId \cup EmpId
  BY <1>1, <1>2, NullAssumption DEF IInv, Tables, Issued
<1> HIDE DEF row, d
<1> QED
  BY <1>1, <1>2, <1>3, WriteDepartmentKeeps

LEMMA WriteEmployeeKeeps ==
  ASSUME IInv, NEW r \in Request, NEW e \in EmpId, NEW row \in Employee,
         StaffFree(r, {e}),
         issued \subseteq issued', issued' \subseteq DeptId \cup EmpId, e \in issued',
         WriteEmployees(r, Put(employees, e, row))
  PROVE  IInv'
<1> DEFINE t == Put(employees, e, row)
<1>1. Requests /\ Tables /\ Issued
  BY DEF IInv
<1>2. CASE UNCHANGED tables /\ Answer(r, "internal")
  BY <1>1, <1>2, AnswerQuiet, ReadKeeps DEF Replies
<1>3. CASE /\ DepartmentKey(departments, t)
           /\ employees' = t
           /\ UNCHANGED departments
           /\ Committed(r)
  <2>1. /\ t \in EmployeeTables
        /\ DOMAIN t = DOMAIN employees \cup {e}
        /\ \A x \in DOMAIN employees \ {e} : t[x] = employees[x]
    BY <1>1, PutEmployee DEF Tables, Put
  <2>2. Tables' /\ IssuedRows'
    BY <1>1, <1>3, <2>1 DEF Tables, Issued, IssuedRows
  <2>3. Undisturbed(r)
    <3> HIDE DEF t
    <3>1. \A s \in Request \ {r} : e \notin request[s].staff
      BY DEF StaffFree
    <3> QED
      BY <1>3, <2>1, <3>1, Held DEF Undisturbed
  <2>4. Quiet(r)
    BY <1>1, <1>3, CommittedQuiet
  <2> QED
    BY <2>2, <2>3, <2>4, QuietKeeps
<1> QED
  BY <1>2, <1>3 DEF WriteEmployees

LEMMA InsertEmployeeKeeps ==
  ASSUME IInv, NEW r \in Request, InsertEmployee(r)
  PROVE  IInv'
<1> DEFINE row == request[r].row
<1>1. PICK e \in EmpId \ issued :
          issued' = issued \cup {e} /\ WriteEmployees(r, Put(employees, e, row))
  BY DEF InsertEmployee
<1>2. row \in Employee
  BY DEF InsertEmployee, Writing, IInv, Requests, Shape
<1>3. StaffFree(r, {e})
  <2>1. \A s \in Request \ {r} : request[s].staff \subseteq DOMAIN employees
    BY Held DEF IInv, Requests, Shape, InTransaction
  <2>2. e \notin DOMAIN employees
    BY DEF IInv, Issued
  <2> QED
    BY <2>1, <2>2 DEF StaffFree
<1>4. issued \subseteq issued' /\ issued' \subseteq DeptId \cup EmpId /\ e \in issued'
  BY <1>1 DEF IInv, Tables
<1> HIDE DEF row
<1> QED
  BY <1>1, <1>2, <1>3, <1>4, WriteEmployeeKeeps

LEMMA SaveEmployeeKeeps ==
  ASSUME IInv, NEW r \in Request, Granted(r), SaveEmployee(r)
  PROVE  IInv'
<1> DEFINE row == request[r].row
           e == request[r].id
<1>1. /\ StaffFree(r, {e})
      /\ WriteEmployees(r, Put(employees, e, row))
      /\ issued' = issued
      /\ request[r].op = "patchEmp" /\ request[r].pc = "write"
  BY GrantedEmployee DEF SaveEmployee, Writing
<1>2. row \in Employee /\ e \in EmpId
  BY <1>1 DEF IInv, Requests, Shape
<1>3. e \in issued' /\ issued' \subseteq DeptId \cup EmpId
  BY <1>1, <1>2, NullAssumption DEF IInv, Tables, Issued
<1> HIDE DEF row, e
<1> QED
  BY <1>1, <1>2, <1>3, WriteEmployeeKeeps

-----------------------------------------------------------------------------
(***************************************************************************)
(* The deletions.                                                          *)
(***************************************************************************)
LEMMA DeleteEmployeeRowKeeps ==
  ASSUME IInv, NEW r \in Request, Granted(r), DeleteEmployeeRow(r)
  PROVE  IInv'
<1> DEFINE e == request[r].id
           t == Remove(employees, {e})
<1>1. /\ \A s \in Request \ {r} : e \notin request[s].staff
      /\ employees' = t
      /\ Committed(r)
      /\ departments' = departments /\ issued' = issued
  BY GrantedEmployee DEF DeleteEmployeeRow, Writing, StaffFree
<1>2. Requests /\ Tables /\ Issued
  BY DEF IInv
<1>3. /\ t \in EmployeeTables
      /\ DOMAIN t = DOMAIN employees \ {e}
      /\ \A x \in DOMAIN employees \ {e} : t[x] = employees[x]
  BY <1>2, RemoveEmployees DEF Tables, Remove, Restrict
<1> HIDE DEF t
<1>4. Tables' /\ IssuedRows'
  BY <1>1, <1>2, <1>3 DEF Tables, DepartmentKey, Issued, IssuedRows
<1>5. Undisturbed(r)
  BY <1>1, <1>3, Held DEF Undisturbed
<1>6. Quiet(r)
  BY <1>1, <1>2, CommittedQuiet
<1> QED
  BY <1>1, <1>4, <1>5, <1>6, QuietKeeps

\* A part D of the hierarchy that is closed below goes, with its staff, after
\* the children and the staff of a transaction have been moved out of it.
LEMMA DeleteKeeps ==
  ASSUME IInv, NEW r \in Request,
         NEW mine \in SUBSET DOMAIN departments, NEW staff, NEW to \in DeptId,
         NEW m, m = Reparent(departments, mine, to),
         NEW moved, moved = Reassign(employees, staff, to),
         NEW D, D \subseteq DOMAIN departments, ClosedBelow(m, D),
         mine # {} \/ staff # {} => to \in DOMAIN departments,
         NameIndexes(m),
         \A s \in Request \ {r} : /\ mine \cap request[s].kids = {}
                                 /\ staff \cap request[s].staff = {}
                                 /\ \A j \in mine, k \in request[s].kids :
                                        departments[j].name = departments[k].name
                                        => to # request[s].target,
         CanDelete(r, D, Staff(moved, D)),
         departments' = Remove(m, D),
         employees' = CascadeEmployees(moved, D),
         issued' = issued,
         Committed(r)
  PROVE  IInv'
<1>1. Requests /\ Tables /\ Issued
  BY DEF IInv
<1>2. /\ m \in DepartmentTables
      /\ DOMAIN m = DOMAIN departments
      /\ \A d \in DOMAIN departments :
             m[d].parent = IF d \in mine THEN to ELSE departments[d].parent
  BY <1>1, ReparentRows DEF Tables
<1>3. /\ moved \in EmployeeTables
      /\ DOMAIN moved = DOMAIN employees
      /\ \A e \in DOMAIN employees :
             moved[e].dept = IF e \in staff THEN to ELSE employees[e].dept
  BY <1>1, ReassignRows DEF Tables
<1>4. /\ \A d \in DOMAIN departments \ mine : m[d] = departments[d]
      /\ \A e \in DOMAIN employees \ staff : moved[e] = employees[e]
  BY DEF Reparent, Reassign
<1>5. ParentKey(m)
  <2>1. ASSUME NEW d \in DOMAIN departments
        PROVE  m[d].parent \in DOMAIN departments \cup {Null}
    BY <1>1, <1>2, DepartmentRow
  <2> QED
    BY <1>2, <2>1 DEF ParentKey
<1>6. DepartmentKey(m, moved)
  BY <1>1, <1>2, <1>3 DEF DepartmentKey, Tables
<1>7. Null \notin D
  BY <1>1, NullAssumption, DepartmentRow
<1>8. /\ departments' \in DepartmentTables
      /\ DOMAIN departments' = DOMAIN departments \ D
      /\ \A d \in DOMAIN departments \ D : departments'[d] = m[d]
  BY <1>2, RemoveDepartments DEF Remove, Restrict
<1>9. /\ employees' \in EmployeeTables
      /\ DOMAIN employees' = {e \in DOMAIN moved : moved[e].dept \notin D}
      /\ \A e \in DOMAIN employees' : employees'[e] = moved[e]
  <2>1. CascadeEmployees(moved, D) \in EmployeeTables
    BY <1>3, CascadeRows
  <2> QED
    BY <2>1 DEF CascadeEmployees, Staff, Remove, Restrict
<1>10. Tables'
  BY <1>1, <1>2, <1>3, <1>5, <1>6, <1>7, <1>8, <1>9,
     RemoveKeepsParents, CascadeKeepsKey, RemoveKeepsNames DEF Tables
<1>11. IssuedRows'
  BY <1>1, <1>3, <1>8, <1>9 DEF Issued, IssuedRows
<1>12. Undisturbed(r)
  <2> SUFFICES ASSUME NEW s \in Request \ {r}, request[s].pc \in InTransaction
               PROVE  LET q == request[s] IN
                      /\ \A k \in q.kids :
                             k \in DOMAIN departments' /\ departments'[k] = departments[k]
                      /\ \A e \in q.staff :
                             e \in DOMAIN employees' /\ employees'[e] = employees[e]
                      /\ q.kids # {} \/ q.staff # {} => q.target \in DOMAIN departments'
                      /\ NameIndexes(Reparent(departments', q.kids, q.target))
    BY DEF Undisturbed
  <2> DEFINE q == request[s]
  <2>1. /\ q.kids \subseteq DOMAIN departments
        /\ q.staff \subseteq DOMAIN employees
        /\ q.kids # {} \/ q.staff # {} => q.target \in DOMAIN departments
        /\ q.target \in DeptId
        /\ NameIndexes(Reparent(departments, q.kids, q.target))
    BY Held
  <2>2. /\ mine \cap q.kids = {}
        /\ staff \cap q.staff = {}
        /\ \A j \in mine, k \in q.kids :
               departments[j].name = departments[k].name => to # q.target
    OBVIOUS
  <2>3. /\ D \cap q.kids = {}
        /\ Staff(moved, D) \cap q.staff = {}
        /\ q.kids # {} \/ q.staff # {} => q.target \notin D
    BY DEF CanDelete, StaffFree
  <2> HIDE DEF q
  <2>4. \A k \in q.kids : k \in DOMAIN departments' /\ departments'[k] = departments[k]
    BY <1>4, <1>8, <2>1, <2>2, <2>3
  <2>5. \A e \in q.staff : e \in DOMAIN employees' /\ employees'[e] = employees[e]
    <3>1. \A e \in q.staff : e \notin Staff(moved, D)
      BY <2>3
    <3> QED
      BY <1>3, <1>4, <1>9, <2>1, <2>2, <3>1 DEF Staff
  <2>6. q.kids # {} \/ q.staff # {} => q.target \in DOMAIN departments'
    BY <1>8, <2>1, <2>3
  <2>7. NameIndexes(Reparent(departments', q.kids, q.target))
    BY <1>1, <2>1, <2>2, PendingCommit DEF Tables
  <2> QED
    BY <2>4, <2>5, <2>6, <2>7 DEF q
<1>13. Quiet(r)
  BY <1>1, CommittedQuiet
<1> QED
  BY <1>10, <1>11, <1>12, <1>13, QuietKeeps

LEMMA DeleteDepartmentRowKeeps ==
  ASSUME IInv, NEW r \in Request, Granted(r), DeleteDepartmentRow(r)
  PROVE  IInv'
<1> DEFINE d == request[r].id
           gone == Subtree(departments, d)
<1>1. /\ departments' = Remove(departments, gone)
      /\ employees' = CascadeEmployees(employees, gone)
      /\ Committed(r)
      /\ issued' = issued
      /\ request[r].op = "cascade" /\ request[r].pc = "write"
  BY DEF DeleteDepartmentRow, Writing
<1>granted. CanDelete(r, gone, Staff(employees, gone))
  <2>1. Takes(request[r]) = Deletes(departments, employees, d)
    BY <1>1, TakesOf
  <2> QED
    BY <2>1, GrantedDelete
<1>2. d \in DeptId
  BY <1>1 DEF IInv, Requests, Shape
<1>3. departments = Reparent(departments, {}, d) /\ employees = Reassign(employees, {}, d)
  <2>1. IsTable(departments, DeptId, Department) /\ IsTable(employees, EmpId, Employee)
    BY DepartmentTable, EmployeeTable DEF IInv, Tables
  <2> QED
    BY <2>1 DEF IsTable, Reparent, Reassign
<1>4. gone \subseteq DOMAIN departments /\ ClosedBelow(departments, gone)
  BY SubtreeClosed
<1>5. NameIndexes(departments)
  BY DEF IInv, Tables
<1> HIDE DEF d, gone
<1> QED
  BY <1>1, <1>2, <1>3, <1>4, <1>5, <1>granted, DeleteKeeps

-----------------------------------------------------------------------------
(***************************************************************************)
(* The three statements of ReassignAndDelete.                              *)
(***************************************************************************)
LEMMA DropAndCommitKeeps ==
  ASSUME IInv, NEW r \in Request, Granted(r), DropAndCommit(r)
  PROVE  IInv'
<1> DEFINE q == request[r]
           m == Reparent(departments, q.kids, q.target)
           moved == Reassign(employees, q.staff, q.target)
           D == Dropped(q)
<1>1. /\ q.pc = "drop"
      /\ departments' = Remove(m, D)
      /\ employees' = CascadeEmployees(moved, D)
      /\ Committed(r)
      /\ issued' = issued
  BY DEF DropAndCommit
<1>granted. CanDelete(r, D, Staff(moved, D))
  <2>1. Takes(q) = Deletes(m, moved, q.id)
    BY <1>1, TakesOf
  <2> QED
    BY <2>1, GrantedDelete DEF Dropped
<1>2. /\ q.kids \subseteq DOMAIN departments
      /\ q.kids # {} \/ q.staff # {} => q.target \in DOMAIN departments
      /\ NameIndexes(m)
  BY <1>1 DEF IInv, PendingReassignSound, Children
<1>3. q.target \in DeptId
  BY <1>1 DEF IInv, Requests, Shape
<1>4. DOMAIN m = DOMAIN departments
  BY DEF Reparent
<1>5. D \subseteq DOMAIN departments /\ ClosedBelow(m, D)
  BY <1>4, SubtreeClosed DEF Dropped
<1>6. \A s \in Request \ {r} :
          /\ q.kids \cap request[s].kids = {}
          /\ q.staff \cap request[s].staff = {}
          /\ \A j \in q.kids, k \in request[s].kids :
                 departments[j].name = departments[k].name => q.target # request[s].target
  BY DEF IInv, Apart
<1> DEFINE mine == q.kids
           staff == q.staff
           to == q.target
<1>7. /\ mine \in SUBSET DOMAIN departments /\ to \in DeptId
      /\ m = Reparent(departments, mine, to)
      /\ moved = Reassign(employees, staff, to)
      /\ mine # {} \/ staff # {} => to \in DOMAIN departments
      /\ \A s \in Request \ {r} :
             /\ mine \cap request[s].kids = {}
             /\ staff \cap request[s].staff = {}
             /\ \A j \in mine, k \in request[s].kids :
                    departments[j].name = departments[k].name => to # request[s].target
  BY <1>2, <1>3, <1>6
<1> HIDE DEF q, m, moved, D, mine, staff, to
<1> QED
  BY <1>1, <1>2, <1>5, <1>7, <1>granted, DeleteKeeps

\* What r, in a transaction with the state n of its handler, has updated so far
\* is in order, and apart from what the others have updated.
InOrder(n) ==
    /\ n.kids \subseteq Children(departments, n.id)
    /\ n.staff \subseteq Staff(employees, {n.id})
    /\ n.kids # {} \/ n.staff # {} => n.target \in DOMAIN departments
    /\ NameIndexes(Reparent(departments, n.kids, n.target))

ApartFromOthers(r, n) ==
    \A s \in Request \ {r} :
        /\ n.kids \cap request[s].kids = {}
        /\ n.staff \cap request[s].staff = {}
        /\ \A j \in n.kids, k \in request[s].kids :
               departments[j].name = departments[k].name => n.target # request[s].target

\* A statement of the transaction of r that adds to what r has updated.
LEMMA UpdateKeeps ==
  ASSUME IInv, UNCHANGED <<tables, issued>>, NEW r \in Request, NEW n,
         request' = [request EXCEPT ![r] = n],
         Shape(n), n.id = request[r].id, InOrder(n), ApartFromOthers(r, n)
  PROVE  IInv'
<1>1. Requests /\ Tables /\ Issued /\ PendingReassignSound /\ Apart
  BY DEF IInv
<1>2. request'[r] = n /\ \A s \in Request \ {r} : request'[s] = request[s]
  BY <1>1 DEF Requests
<1>3. Requests'
  BY <1>1, <1>2 DEF Requests, Shape
<1>4. Tables' /\ Issued'
  BY <1>1, <1>2 DEF Tables, Issued, tables
<1>5. PendingReassignSound'
  <2> SUFFICES ASSUME NEW s \in Request, request'[s].pc \in {"staff", "drop"}
               PROVE  LET q == request'[s]
                          was == Reparent(departments, q.kids, q.target)
                      IN  /\ q.kids \subseteq Children(departments, q.id)
                          /\ q.staff \subseteq Staff(employees, {q.id})
                          /\ q.kids # {} \/ q.staff # {} => q.target \in DOMAIN departments
                          /\ NameIndexes(was)
    BY DEF PendingReassignSound, tables
  <2>1. CASE s = r
    BY <1>2, <2>1 DEF InOrder
  <2>2. CASE s # r
    BY <1>1, <1>2, <2>2 DEF PendingReassignSound
  <2> QED
    BY <2>1, <2>2
<1>6. Apart'
  <2> SUFFICES ASSUME NEW a \in Request, NEW b \in Request, a # b
               PROVE  /\ request'[a].kids \cap request'[b].kids = {}
                      /\ request'[a].staff \cap request'[b].staff = {}
                      /\ \A j \in request'[a].kids, k \in request'[b].kids :
                             departments[j].name = departments[k].name
                             => request'[a].target # request'[b].target
    BY DEF Apart, tables
  <2>1. CASE a = r
    BY <1>2, <2>1 DEF ApartFromOthers
  <2>2. CASE b = r
    BY <1>2, <2>2 DEF ApartFromOthers
  <2>3. CASE a # r /\ b # r
    BY <1>1, <1>2, <2>3 DEF Apart
  <2> QED
    BY <2>1, <2>2, <2>3
<1> QED
  BY <1>3, <1>4, <1>5, <1>6 DEF IInv

\* The rows that r is about to move are no other transaction's, nor is what they
\* will be called.
LEMMA GrantedMove ==
  ASSUME IInv, NEW r \in Request, Granted(r)
  PROVE  LET q == request[r]
             kids == Children(departments, q.id)
         IN  /\ q.pc = "children" =>
                    \A s \in Request \ {r} :
                        /\ kids \cap request[s].kids = {}
                        /\ \A j \in kids, k \in request[s].kids :
                               departments[j].name = departments[k].name
                               => q.target # request[s].target
             /\ q.pc = "staff" => StaffFree(r, Staff(employees, {q.id}))
<1> DEFINE q == request[r]
           kids == Children(departments, q.id)
           staff == Staff(employees, {q.id})
<1>1. /\ kids \in SUBSET DOMAIN departments
      /\ staff \in SUBSET DOMAIN employees
      /\ q.pc \in {"children", "staff"} => q.target \in DeptId
      /\ Tables
  BY DEF Children, Staff, IInv, Requests, Shape
<1>2. ASSUME q.pc = "children", NEW s \in Request \ {r}
      PROVE  /\ \A j \in kids : j \notin request[s].kids
             /\ \A j \in kids, k \in request[s].kids :
                    Entry(departments[j].name, q.target)
                    # Entry(departments[k].name, request[s].target)
  <2>1. Takes(q) = MovesKids(kids, q.target)
    BY <1>2, TakesOf
  <2>2. \A j \in kids : /\ Lock(j, j, "update", 1) \in Takes(q)
                        /\ Lock(j, Entry(departments[j].name, q.target), "enter", 1) \in Takes(q)
    BY <1>1, <1>2, <2>1, MovesKidsLocks
  <2> QED
    BY <2>2, Grants
<1>3. ASSUME q.pc = "staff", NEW s \in Request \ {r}, NEW e \in staff
      PROVE  e \notin request[s].staff
  <2>1. Takes(q) = MovesStaff(staff, q.target)
    BY <1>3, TakesOf
  <2>2. Lock(e, e, "update", 1) \in Takes(q)
    BY <1>1, <1>3, <2>1, MovesStaffLocks
  <2> QED
    BY <2>2, Grants
<1> QED
  BY <1>2, <1>3 DEF StaffFree, Entry

LEMMA MoveChildrenKeeps ==
  ASSUME IInv, NEW r \in Request, Granted(r), MoveChildren(r)
  PROVE  IInv'
<1> DEFINE q == request[r]
           kids == Children(departments, q.id)
           n == [[q EXCEPT !.kids = kids] EXCEPT !.pc = "staff"]
<1>1. /\ q.pc = "children"
      /\ UNCHANGED <<tables, issued>>
  BY DEF MoveChildren
<1>2. Requests /\ Tables /\ Issued
  BY DEF IInv
<1>3. CASE Answer(r, "conflict") \/ Answer(r, "internal")
  BY <1>1, <1>2, <1>3, AnswerQuiet, ReadKeeps DEF Replies, Tables
<1>4. CASE /\ NameIndexes(Reparent(departments, kids, q.target))
           /\ kids = {} \/ q.target \in DOMAIN departments
           /\ Continue(r, [q EXCEPT !.kids = kids], "staff")
  <2>1. Shape(q) /\ q \in RequestRecord
    BY <1>2 DEF Requests, Shape
  <2>2. kids \subseteq DeptId
    BY <1>2, DepartmentRow DEF Children
  <2>3. \A s \in Request \ {r} :
            /\ kids \cap request[s].kids = {}
            /\ \A j \in kids, k \in request[s].kids :
                   departments[j].name = departments[k].name => q.target # request[s].target
    BY <1>1, GrantedMove
  <2>4. request' = [request EXCEPT ![r] = n]
    BY <1>4 DEF Continue
  <2>5. kids \subseteq Children(departments, q.id)
    OBVIOUS
  <2> HIDE DEF q, kids
  <2>6. /\ n.pc = "staff" /\ n.op = q.op /\ n.id = q.id /\ n.target = q.target
        /\ n.row = q.row /\ n.kids = kids /\ n.staff = q.staff
        /\ n \in RequestRecord
    BY <2>1, <2>2 DEF RequestRecord, PCs
  <2>7. q.staff = {}
    BY <1>1, <2>1 DEF Shape
  <2> HIDE DEF n
  <2>8. Shape(n)
    BY <1>1, <2>1, <2>6, <2>7 DEF Shape, InTransaction
  <2>9. n.id = request[r].id
    BY <2>6 DEF q
  <2>10. InOrder(n)
    BY <1>4, <2>5, <2>6, <2>7 DEF InOrder
  <2>11. ApartFromOthers(r, n)
    BY <2>3, <2>6, <2>7 DEF ApartFromOthers
  <2> QED
    BY <1>1, <2>4, <2>8, <2>9, <2>10, <2>11, UpdateKeeps
<1> QED
  BY <1>3, <1>4 DEF MoveChildren

LEMMA MoveStaffKeeps ==
  ASSUME IInv, NEW r \in Request, Granted(r), MoveStaff(r)
  PROVE  IInv'
<1> DEFINE q == request[r]
           staff == Staff(employees, {q.id})
           n == [[q EXCEPT !.staff = staff] EXCEPT !.pc = "drop"]
<1>1. /\ q.pc = "staff"
      /\ UNCHANGED <<tables, issued>>
  BY DEF MoveStaff
<1>2. Requests /\ Tables /\ Issued
  BY DEF IInv
<1>3. CASE Answer(r, "internal")
  BY <1>1, <1>2, <1>3, AnswerQuiet, ReadKeeps DEF Replies, Tables
<1>4. CASE /\ staff = {} \/ q.target \in DOMAIN departments
           /\ Continue(r, [q EXCEPT !.staff = staff], "drop")
  <2>1. Shape(q) /\ q \in RequestRecord
    BY <1>2 DEF Requests, Shape
  <2>2. staff \subseteq EmpId
    BY <1>2, EmployeeRow DEF Staff
  <2>3. \A s \in Request \ {r} :
            /\ q.kids \cap request[s].kids = {}
            /\ staff \cap request[s].staff = {}
            /\ \A j \in q.kids, k \in request[s].kids :
                   departments[j].name = departments[k].name => q.target # request[s].target
    BY <1>1, GrantedMove DEF IInv, Apart, StaffFree
  <2>4. request' = [request EXCEPT ![r] = n]
    BY <1>4 DEF Continue
  <2>5. /\ q.kids \subseteq Children(departments, q.id)
        /\ q.kids # {} => q.target \in DOMAIN departments
        /\ NameIndexes(Reparent(departments, q.kids, q.target))
    BY <1>1 DEF IInv, PendingReassignSound
  <2>6. staff \subseteq Staff(employees, {q.id})
    OBVIOUS
  <2> HIDE DEF q, staff
  <2>7. /\ n.pc = "drop" /\ n.op = q.op /\ n.id = q.id /\ n.target = q.target
        /\ n.row = q.row /\ n.kids = q.kids /\ n.staff = staff
        /\ n \in RequestRecord
    BY <2>1, <2>2 DEF RequestRecord, PCs
  <2> HIDE DEF n
  <2>8. Shape(n)
    BY <1>1, <2>1, <2>7 DEF Shape, InTransaction
  <2>9. n.id = request[r].id
    BY <2>7 DEF q
  <2>10. InOrder(n)
    BY <1>4, <2>5, <2>6, <2>7 DEF InOrder
  <2>11. ApartFromOthers(r, n)
    BY <2>3, <2>7 DEF ApartFromOthers
  <2> QED
    BY <1>1, <2>4, <2>8, <2>9, <2>10, <2>11, UpdateKeeps
<1> QED
  BY <1>3, <1>4 DEF MoveStaff

-----------------------------------------------------------------------------
(***************************************************************************)
(* The theorems.                                                           *)
(***************************************************************************)
LEMMA InitIInv ==
  ASSUME Init
  PROVE  IInv
<1>1. /\ departments \in DepartmentTables
      /\ employees \in EmployeeTables
      /\ ParentKey(departments) /\ NameIndexes(departments)
      /\ DepartmentKey(departments, employees)
      /\ issued = DOMAIN departments \cup DOMAIN employees
  BY DEF Init, Abstract!Init, Abstract!DepartmentTables, DepartmentTables,
         Abstract!Department, Department, Abstract!EmployeeTables, EmployeeTables,
         Abstract!Employee, Employee, Abstract!ParentKey, ParentKey,
         Abstract!NameIndexes, NameIndexes, Abstract!ParentNameIndex, ParentNameIndex,
         Abstract!RootNameIndex, RootNameIndex, Abstract!DepartmentKey, DepartmentKey
<1>2. DOMAIN departments \subseteq DeptId /\ DOMAIN employees \subseteq EmpId
  BY <1>1, DepartmentTable, EmployeeTable DEF IsTable
<1>3. \A r \in Request : request[r] = Idle("none")
  BY DEF Init
<1>4. request \in [Request -> RequestRecord] /\ \A r \in Request : Shape(request[r])
  <2>1. Shape(Idle("none")) /\ Idle("none") \in RequestRecord
    BY IdleShape DEF Shape, Replies
  <2> QED
    BY <1>3, <2>1 DEF Init
<1>5. \A r \in Request : /\ request[r].pc = "idle" /\ request[r].id = Null
                        /\ request[r].kids = {} /\ request[r].staff = {}
  BY <1>3 DEF Idle
<1>6. Requests /\ Tables /\ Issued
  BY <1>1, <1>2, <1>4, <1>5 DEF Requests, Tables, Issued
<1>7. PendingReassignSound /\ Apart
  BY <1>5 DEF PendingReassignSound, Apart
<1> QED
  BY <1>6, <1>7 DEF IInv

LEMMA StepIInv ==
  ASSUME IInv, [Next]_vars
  PROVE  IInv'
<1>1. CASE UNCHANGED vars
  <2>1. Requests' /\ Tables' /\ Issued'
    BY <1>1 DEF IInv, vars, Requests, Tables, Issued
  <2>2. PendingReassignSound' /\ Apart'
    BY <1>1 DEF IInv, vars, PendingReassignSound, Apart
  <2> QED
    BY <2>1, <2>2 DEF IInv
<1>2. ASSUME NEW r \in Request, Arrive(r) \/ Read(r) \/ DeadlockVictim(r)
                                \/ StatementFails(r) \/ Bump(r)
      PROVE  IInv'
  <2>1. Quiet(r) /\ UNCHANGED <<tables, issued>>
    BY <1>2, ArriveQuiet, ReadQuiet, EndQuiet
  <2> QED
    BY <2>1, ReadKeeps DEF IInv, Tables
<1>3. ASSUME NEW r \in Request, Write(r)
      PROVE  IInv'
  BY <1>3, InsertDepartmentKeeps, SaveDepartmentKeeps, DeleteDepartmentRowKeeps,
     InsertEmployeeKeeps, SaveEmployeeKeeps, DeleteEmployeeRowKeeps,
     MoveChildrenKeeps, MoveStaffKeeps, DropAndCommitKeeps DEF Write
<1> QED
  BY <1>1, <1>2, <1>3 DEF Next

LEMMA Invariance == Spec => []IInv
<1>1. Init => IInv
  BY InitIInv
<1>2. IInv /\ [Next]_vars => IInv'
  BY StepIInv
<1> QED
  BY <1>1, <1>2, PTL DEF Spec

\* Rows have their columns and handlers carry what their calls need, for any
\* number of requests in flight.
THEOREM ServiceTypeCorrect == Spec => []TypeOK
<1>1. IInv => TypeOK
  BY DEF IInv, Requests, Tables, TypeOK
<1> QED
  BY <1>1, Invariance, PTL

\* However the calls of any number of requests interleave, and whichever of them
\* fail, every parent_id and department_id names a department that exists.
THEOREM ServiceReferences == Spec => []ReferentialIntegrity
<1>1. IInv => ReferentialIntegrity
  BY DEF IInv, Tables, ReferentialIntegrity, Abstract!ReferentialIntegrity,
         Abstract!ParentKey, ParentKey, Abstract!DepartmentKey, DepartmentKey
<1> QED
  BY <1>1, Invariance, PTL

\* Siblings and roots keep distinct names, although the check of the name and the
\* write are separate calls and ReassignAndDelete moves many departments at once.
THEOREM ServiceNames == Spec => []SiblingNamesUnique
<1>1. IInv => SiblingNamesUnique
  BY NamesUnique DEF IInv, Tables, SiblingNamesUnique, Abstract!SiblingNamesUnique
<1> QED
  BY <1>1, Invariance, PTL

\* What the transactions of ReassignAndDelete have updated stays valid until they
\* commit: no other request takes a row, the target or a name away from them.
THEOREM ServicePending == Spec => []PendingReassignSound
<1>1. IInv => PendingReassignSound
  BY DEF IInv
<1> QED
  BY <1>1, Invariance, PTL

-----------------------------------------------------------------------------
(***************************************************************************)
(* If nobody deletes what somebody else refers to, nothing that a request  *)
(* has looked up is gone when it is used, so no statement fails in a way   *)
(* that nobody maps.                                                       *)
(***************************************************************************)
\* What the calls that q has still to make refer to is there.
Backed(q) ==
    /\ q.pc = "walk" => q.cur \in DOMAIN departments
    /\ q.pc \in {"walk", "children", "staff", "drop"} => q.target \in DOMAIN departments
    /\ q.pc \in {"unique", "write"} /\ q.op \in {"createDept", "patchDept"}
           => q.row.parent \in DOMAIN departments \cup {Null}
    /\ q.pc = "write" /\ q.op \in {"createEmp", "patchEmp"}
           => q.row.dept \in DOMAIN departments
    /\ q.reply # "internal"

\* A request that answers, or has committed, refers to nothing any more.
LEMMA EndBacked ==
  ASSUME Requests, NEW r \in Request, NEW reply \in Replies \ {"internal"},
         Answer(r, reply) \/ (~StoreFails /\ Committed(r))
  PROVE  Backed(request[r])'
<1>1. request'[r] = Idle(reply) \/ request'[r] = [Idle("none") EXCEPT !.pc = "bump"]
  BY DEF Answer, Committed, Requests
<1>2. /\ request'[r].pc \in {"idle", "bump"}
      /\ request'[r].reply # "internal"
  BY <1>1 DEF Idle
<1> QED
  BY <1>2 DEF Backed

\* The calls that Proceed prepares.
LEMMA ProceedBacked ==
  ASSUME Requests, departments' = departments, NEW r \in Request,
         NEW pc \in {"target", "unique", "write"}, NEW op, NEW id, NEW target, NEW row,
         Proceed(r, pc, op, id, target, row),
         op \in {"createDept", "patchDept"} /\ pc # "target"
             => row.parent \in DOMAIN departments \cup {Null},
         op \in {"createEmp", "patchEmp"} /\ pc = "write"
             => row.dept \in DOMAIN departments
  PROVE  Backed(request[r])'
<1>1. /\ request'[r].pc = pc /\ request'[r].op = op
      /\ request'[r].row = row /\ request'[r].reply = "none"
  BY DEF Proceed, Requests, Idle
<1> QED
  BY <1>1 DEF Backed

LEMMA ArriveBacked ==
  ASSUME IInv, NEW r \in Request, Arrive(r)
  PROVE  Backed(request[r])'
<1>1. departments' = departments /\ Requests /\ Tables
  BY DEF Arrive, CreateDepartment, PatchDepartment, DeleteDepartment, CreateEmployee,
         PatchEmployee, DeleteEmployee, Arriving, tables, IInv
<1>2. \A d \in DOMAIN departments : departments[d].parent \in DOMAIN departments \cup {Null}
  BY <1>1 DEF Tables, ParentKey
<1>3. \A e \in DOMAIN employees : employees[e].dept \in DOMAIN departments
  BY <1>1 DEF Tables, DepartmentKey
<1>4. \A reply \in {"ok", "not_found", "conflict", "cycle", "invalid"} :
          Answer(r, reply) => Backed(request[r])'
  BY <1>1, EndBacked DEF Replies
<1>5. ASSUME NEW text, NEW target, CreateDepartment(r, text, target)
      PROVE  Backed(request[r])'
  <2>1. CASE Proceed(r, "unique", "createDept", Null, Null, [name |-> text, parent |-> target])
             /\ target \in DOMAIN departments \cup {Null}
    BY <1>1, <2>1, ProceedBacked
  <2> QED
    BY <1>4, <1>5, <2>1 DEF CreateDepartment
<1>6. ASSUME NEW id \in DeptId, NEW text, NEW target, PatchDepartment(r, id, text, target)
      PROVE  Backed(request[r])'
  <2> DEFINE old == departments[id]
             name == IF text = Absent THEN old.name ELSE text
  <2>1. CASE Proceed(r, "target", "patchDept", id, target, [old EXCEPT !.name = name])
    BY <1>1, <2>1, ProceedBacked
  <2>2. CASE Proceed(r, "unique", "patchDept", id, Null, [name |-> name, parent |-> Null])
    BY <1>1, <2>2, ProceedBacked
  <2>3. CASE id \in DOMAIN departments
             /\ Proceed(r, "unique", "patchDept", id, Absent, [old EXCEPT !.name = name])
    <3>1. old \in Department
      BY <1>1, <2>3, DepartmentTable DEF Tables, IsTable
    <3>2. [old EXCEPT !.name = name].parent = old.parent
      BY <3>1 DEF Department
    <3> QED
      BY <1>1, <1>2, <2>3, <3>2, ProceedBacked
  <2> QED
    BY <1>4, <1>6, <2>1, <2>2, <2>3 DEF PatchDepartment
<1>7. ASSUME NEW id, NEW mode, NEW target, DeleteDepartment(r, id, mode, target)
      PROVE  Backed(request[r])'
  <2>1. CASE Proceed(r, "write", "cascade", id, Null, Null)
    BY <1>1, <2>1, ProceedBacked
  <2>2. CASE Proceed(r, "target", "reassign", id, target, Null)
    BY <1>1, <2>2, ProceedBacked
  <2> QED
    BY <1>4, <1>7, <2>1, <2>2 DEF DeleteDepartment
<1>8. ASSUME NEW text, NEW target, CreateEmployee(r, text, target)
      PROVE  Backed(request[r])'
  <2>1. CASE Proceed(r, "write", "createEmp", Null, Null, [dept |-> target, profile |-> text])
             /\ target \in DOMAIN departments
    BY <1>1, <2>1, ProceedBacked
  <2> QED
    BY <1>4, <1>8, <2>1 DEF CreateEmployee
<1>9. ASSUME NEW id, NEW text, NEW target, PatchEmployee(r, id, text, target)
      PROVE  Backed(request[r])'
  <2> DEFINE row == [employees[id] EXCEPT !.profile = IF text = Absent THEN @ ELSE text]
  <2>1. CASE Proceed(r, "target", "patchEmp", id, target, row)
    BY <1>1, <2>1, ProceedBacked
  <2>2. CASE id \in DOMAIN employees /\ Proceed(r, "write", "patchEmp", id, Absent, row)
    <3>1. employees[id] \in Employee
      BY <1>1, <2>2, EmployeeTable DEF Tables, IsTable
    <3>2. row.dept = employees[id].dept
      BY <3>1 DEF Employee
    <3> QED
      BY <1>1, <1>3, <2>2, <3>2, ProceedBacked
  <2> QED
    BY <1>4, <1>9, <2>1, <2>2 DEF PatchEmployee
<1>10. ASSUME NEW id, DeleteEmployee(r, id) PROVE Backed(request[r])'
  <2>1. CASE Proceed(r, "write", "deleteEmp", id, Null, Null)
    BY <1>1, <2>1, ProceedBacked
  <2> QED
    BY <1>4, <1>10, <2>1 DEF DeleteEmployee
<1> QED
  BY <1>5, <1>6, <1>7, <1>8, <1>9, <1>10 DEF Arrive

\* A call of the walk keeps what the handler carries.
LEMMA WalkBacked ==
  ASSUME Requests, departments' = departments, NEW r \in Request, Backed(request[r]),
         NEW cur, NEW pc \in {"walk", "children"},
         Continue(r, [request[r] EXCEPT !.cur = cur], pc),
         request[r].target \in DOMAIN departments,
         pc = "walk" => cur \in DOMAIN departments
  PROVE  Backed(request[r])'
<1>1. request[r] \in RequestRecord
  BY DEF Requests
<1>2. /\ request'[r].pc = pc /\ request'[r].target = request[r].target
      /\ request'[r].cur = cur /\ request'[r].reply = request[r].reply
  BY <1>1 DEF Continue, Requests, RequestRecord
<1> QED
  BY <1>2 DEF Backed

LEMMA ReadBacked ==
  ASSUME IInv, NEW r \in Request, Backed(request[r]), Read(r)
  PROVE  Backed(request[r])'
<1> DEFINE q == request[r]
<1>1. departments' = departments /\ Requests /\ Tables
  BY DEF Read, LoadTarget, WouldCreateCycle, CheckName, Reading, tables, IInv
<1>2. q \in RequestRecord /\ Shape(q)
  BY <1>1 DEF Requests
<1>3. \A d \in DOMAIN departments : departments[d].parent \in DOMAIN departments \cup {Null}
  BY <1>1 DEF Tables, ParentKey
<1>4. \A reply \in {"ok", "not_found", "conflict", "cycle", "invalid"} :
          Answer(r, reply) => Backed(request[r])'
  BY <1>1, EndBacked DEF Replies
<1>6. ASSUME LoadTarget(r) PROVE Backed(request[r])'
  <2>1. q.pc = "target" /\ q.target \in DeptId
    BY <1>2, <1>6 DEF LoadTarget, Reading, Shape
  <2>2. CASE /\ q.target \in DOMAIN departments
             /\ Continue(r, [q EXCEPT !.cur = q.target], "walk")
    BY <1>1, <2>2, WalkBacked
  <2>3. CASE /\ q.target \in DOMAIN departments
             /\ q.op = "patchEmp"
             /\ Proceed(r, "write", q.op, q.id, Null, [q.row EXCEPT !.dept = q.target])
    <3>1. q.row \in [dept : DeptId, profile : Profile \cup {BadDate}]
      BY <1>2, <2>3 DEF Shape
    <3>2. [q.row EXCEPT !.dept = q.target].dept = q.target
      BY <3>1
    <3> QED
      BY <1>1, <2>3, <3>2, ProceedBacked
  <2> QED
    BY <1>4, <1>6, <2>2, <2>3 DEF LoadTarget
<1>7. ASSUME WouldCreateCycle(r) PROVE Backed(request[r])'
  <2> DEFINE above == departments[q.cur].parent
  <2>1. /\ q.pc = "walk"
        /\ q.cur \in DOMAIN departments /\ q.target \in DOMAIN departments
    BY <1>7 DEF WouldCreateCycle, Reading, Backed
  <2>2. above \in DOMAIN departments \cup {Null} /\ above \in DeptId \cup {Null}
    BY <1>1, <1>3, <2>1, DepartmentTable DEF Tables, IsTable
  <2>3. CASE above # Null /\ Continue(r, [q EXCEPT !.cur = above], "walk")
    BY <1>1, <2>1, <2>2, <2>3, WalkBacked
  <2>4. CASE Continue(r, [q EXCEPT !.cur = Null], "children")
    BY <1>1, <2>1, <2>4, WalkBacked
  <2>5. CASE /\ q.op = "patchDept"
             /\ Proceed(r, "unique", q.op, q.id, Null, [q.row EXCEPT !.parent = q.target])
    <3>1. q.row \in Department
      BY <1>2, <2>5 DEF Shape
    <3>2. [q.row EXCEPT !.parent = q.target].parent = q.target
      BY <3>1 DEF Department
    <3> QED
      BY <1>1, <2>1, <2>5, <3>2, ProceedBacked
  <2> QED
    BY <1>4, <1>7, <2>1, <2>3, <2>4, <2>5 DEF WouldCreateCycle, Above
<1>8. ASSUME CheckName(r) PROVE Backed(request[r])'
  <2>1. q.pc = "unique" /\ q.op \in {"createDept", "patchDept"}
    BY <1>2, <1>8 DEF CheckName, Reading, Shape
  <2>2. CASE Continue(r, q, "write")
    <3>1. /\ request'[r].pc = "write" /\ request'[r].op = q.op
          /\ request'[r].row = q.row /\ request'[r].reply = q.reply
      BY <1>1, <1>2, <2>2 DEF Continue, Requests, RequestRecord
    <3> QED
      BY <1>1, <2>1, <3>1 DEF Backed
  <2> QED
    BY <1>4, <1>8, <2>2 DEF CheckName
<1> QED
  BY <1>6, <1>7, <1>8 DEF Read

\* An INSERT or Save meets the parent that has been looked up, so a foreign key
\* is never violated.
LEMMA WriteBacked ==
  ASSUME ~StoreFails, IInv, NEW r \in Request, Backed(request[r]), Write(r)
  PROVE  Backed(request[r])'
<1> DEFINE q == request[r]
<1>1. Requests /\ Tables
  BY DEF IInv
<1>2. q \in RequestRecord /\ Shape(q) /\ q.reply # "internal"
  BY <1>1 DEF Requests, Backed
<1>3. /\ \A reply \in {"ok", "not_found", "conflict", "cycle", "invalid"} :
             Answer(r, reply) => Backed(request[r])'
      /\ Committed(r) => Backed(request[r])'
  BY <1>1, EndBacked DEF Replies
<1>4. ASSUME NEW d \in DeptId, q.op \in {"createDept", "patchDept"}, q.pc = "write",
             WriteDepartments(r, Put(departments, d, q.row))
      PROVE  Backed(request[r])'
  <2>1. q.row.parent \in DOMAIN departments \cup {Null}
    BY <1>4 DEF Backed
  <2>2. \A x \in DOMAIN departments : departments[x].parent \in DOMAIN departments \cup {Null}
    BY <1>1 DEF Tables, ParentKey
  <2>3. ParentKey(Put(departments, d, q.row))
    BY <2>1, <2>2 DEF Put, ParentKey
  <2> QED
    BY <1>3, <1>4, <2>3 DEF WriteDepartments
<1>5. ASSUME NEW e \in EmpId, q.op \in {"createEmp", "patchEmp"}, q.pc = "write",
             WriteEmployees(r, Put(employees, e, q.row))
      PROVE  Backed(request[r])'
  <2>1. q.row.dept \in DOMAIN departments
    BY <1>5 DEF Backed
  <2>2. \A x \in DOMAIN employees : employees[x].dept \in DOMAIN departments
    BY <1>1 DEF Tables, DepartmentKey
  <2>3. DepartmentKey(departments, Put(employees, e, q.row))
    BY <2>1, <2>2 DEF Put, DepartmentKey
  <2> QED
    BY <1>3, <1>5, <2>3 DEF WriteEmployees
<1>6. ASSUME InsertDepartment(r) PROVE Backed(request[r])'
  BY <1>4, <1>6 DEF InsertDepartment, Writing
<1>7. ASSUME SaveDepartment(r) PROVE Backed(request[r])'
  BY <1>2, <1>4, <1>7 DEF SaveDepartment, Writing, Shape
<1>8. ASSUME InsertEmployee(r) PROVE Backed(request[r])'
  BY <1>5, <1>8 DEF InsertEmployee, Writing
<1>9. ASSUME SaveEmployee(r) PROVE Backed(request[r])'
  BY <1>2, <1>5, <1>9 DEF SaveEmployee, Writing, Shape
<1>10. ASSUME MoveChildren(r) PROVE Backed(request[r])'
  <2> DEFINE n == [q EXCEPT !.kids = Children(departments, q.id)]
  <2>1. q.target \in DOMAIN departments /\ departments' = departments
    BY <1>10 DEF MoveChildren, Backed, tables
  <2>2. CASE Continue(r, n, "staff")
    <3>1. Children(departments, q.id) \subseteq DeptId
      BY <1>1, DepartmentTable DEF Tables, IsTable, Children
    <3>2. n \in RequestRecord /\ n.target = q.target /\ n.reply = q.reply
      BY <1>2, <3>1 DEF RequestRecord
    <3>3. request'[r].pc = "staff" /\ request'[r].target = q.target
          /\ request'[r].reply = q.reply
      BY <1>1, <2>2, <3>2 DEF Continue, Requests, RequestRecord
    <3> QED
      BY <1>2, <2>1, <3>3 DEF Backed
  <2> QED
    BY <1>3, <1>10, <2>1, <2>2 DEF MoveChildren
<1>11. ASSUME MoveStaff(r) PROVE Backed(request[r])'
  <2> DEFINE n == [q EXCEPT !.staff = Staff(employees, {q.id})]
  <2>1. q.target \in DOMAIN departments /\ departments' = departments
    BY <1>11 DEF MoveStaff, Backed, tables
  <2>2. CASE Continue(r, n, "drop")
    <3>1. Staff(employees, {q.id}) \subseteq EmpId
      BY <1>1, EmployeeTable DEF Tables, IsTable, Staff
    <3>2. n \in RequestRecord /\ n.target = q.target /\ n.reply = q.reply
      BY <1>2, <3>1 DEF RequestRecord
    <3>3. request'[r].pc = "drop" /\ request'[r].target = q.target
          /\ request'[r].reply = q.reply
      BY <1>1, <2>2, <3>2 DEF Continue, Requests, RequestRecord
    <3> QED
      BY <1>2, <2>1, <3>3 DEF Backed
  <2> QED
    BY <1>3, <1>11, <2>1, <2>2 DEF MoveStaff
<1>12. ASSUME DeleteDepartmentRow(r) \/ DeleteEmployeeRow(r) \/ DropAndCommit(r)
       PROVE  Backed(request[r])'
  BY <1>3, <1>12 DEF DeleteDepartmentRow, DeleteEmployeeRow, DropAndCommit
<1> QED
  BY <1>6, <1>7, <1>8, <1>9, <1>10, <1>11, <1>12 DEF Write

\* A step is one request's, and leaves the others where they are.
LEMMA OneAtATime ==
  ASSUME Requests, NEW r \in Request, NEW s \in Request, s # r,
         \/ Arrive(s) \/ Read(s) \/ Write(s)
         \/ DeadlockVictim(s) \/ StatementFails(s) \/ Bump(s)
  PROVE  request'[r] = request[r]
<1>1. ASSUME NEW n, request' = [request EXCEPT ![s] = n] PROVE request'[r] = request[r]
  BY <1>1 DEF Requests
<1>2. ASSUME NEW reply, Answer(s, reply) PROVE request'[r] = request[r]
  BY <1>1, <1>2 DEF Answer
<1>3. ASSUME NEW pc, NEW op, NEW id, NEW target, NEW row, Proceed(s, pc, op, id, target, row)
      PROVE  request'[r] = request[r]
  BY <1>1, <1>3 DEF Proceed
<1>4. ASSUME NEW q, NEW pc, Continue(s, q, pc) PROVE request'[r] = request[r]
  BY <1>1, <1>4 DEF Continue
<1>5. CASE Committed(s)
  BY <1>1, <1>2, <1>5 DEF Committed
<1>6. CASE Arrive(s)
  BY <1>2, <1>3, <1>6 DEF Arrive, CreateDepartment, PatchDepartment, DeleteDepartment,
     CreateEmployee, PatchEmployee, DeleteEmployee
<1>7. CASE Read(s)
  BY <1>2, <1>3, <1>4, <1>7 DEF Read, LoadTarget, WouldCreateCycle, CheckName
<1>8. CASE Write(s)
  BY <1>2, <1>4, <1>5, <1>8 DEF Write, InsertDepartment, SaveDepartment, WriteDepartments,
     DeleteDepartmentRow, InsertEmployee, SaveEmployee, WriteEmployees,
     DeleteEmployeeRow, MoveChildren, MoveStaff, DropAndCommit
<1>9. CASE DeadlockVictim(s) \/ StatementFails(s) \/ Bump(s)
  BY <1>2, <1>9 DEF DeadlockVictim, StatementFails, Bump
<1> QED
  BY <1>6, <1>7, <1>8, <1>9

\* A statement deletes no departments but those that it is said to delete.
LEMMA StepDeletes ==
  ASSUME IInv, NEW r \in Request,
         \/ Arrive(r) \/ Read(r) \/ Write(r)
         \/ DeadlockVictim(r) \/ StatementFails(r) \/ Bump(r)
  PROVE  DOMAIN departments \ Deleting(request[r]) \subseteq DOMAIN departments'
<1> DEFINE q == request[r]
<1>1. DOMAIN departments \subseteq DeptId
  BY DepartmentTable DEF IInv, Tables, IsTable
<1>2. CASE ~Write(r)
  BY <1>2, ArriveQuiet, ReadQuiet, EndQuiet DEF tables
<1>3. CASE InsertDepartment(r) \/ SaveDepartment(r)
  BY <1>3 DEF InsertDepartment, SaveDepartment, WriteDepartments, Put, tables
<1>4. CASE InsertEmployee(r) \/ SaveEmployee(r) \/ DeleteEmployeeRow(r) \/ MoveChildren(r) \/ MoveStaff(r)
  BY <1>4 DEF InsertEmployee, SaveEmployee, WriteEmployees, DeleteEmployeeRow, MoveChildren,
     MoveStaff, tables
<1>5. CASE DeleteDepartmentRow(r)
  <2>1. q.op = "cascade" /\ departments' = Remove(departments, Subtree(departments, q.id))
    BY <1>5 DEF DeleteDepartmentRow, Writing
  <2> QED
    BY <1>1, <2>1 DEF Deleting, Remove, Restrict
<1>6. CASE DropAndCommit(r)
  <2>1. /\ q.pc = "drop"
        /\ departments' = Remove(Reparent(departments, q.kids, q.target), Dropped(q))
    BY <1>6 DEF DropAndCommit
  <2> QED
    BY <1>1, <2>1 DEF Deleting, Remove, Restrict, Reparent
<1> QED
  BY <1>2, <1>3, <1>4, <1>5, <1>6 DEF Write

\* What a request looked up stays there while another one takes a step.
LEMMA OthersBacked ==
  ASSUME Requests, NEW s \in Request, Backed(request[s]), request'[s] = request[s],
         NEW gone, DOMAIN departments \ gone \subseteq DOMAIN departments',
         gone \cap RefersTo(request[s]) = {}
  PROVE  Backed(request[s])'
<1> DEFINE q == request[s]
<1>1. Shape(q) /\ q \in RequestRecord
  BY DEF Requests
<1>2. \A d \in RefersTo(q) : d \in DOMAIN departments => d \in DOMAIN departments'
  OBVIOUS
<1>3. q.pc = "walk" => q.cur \in RefersTo(q)
  BY <1>1 DEF Shape, RefersTo
<1>4. q.pc \in {"walk", "children", "staff", "drop"} => q.target \in RefersTo(q)
  BY <1>1 DEF Shape, RefersTo
<1>5. q.pc \in {"unique", "write"} /\ q.op \in {"createDept", "patchDept"}
          => q.row.parent \in RefersTo(q) \cup {Null}
  BY <1>1 DEF Shape, RefersTo, Department
<1>6. q.pc = "write" /\ q.op \in {"createEmp", "patchEmp"} => q.row.dept \in RefersTo(q)
  BY <1>1 DEF Shape, RefersTo, Employee
<1> QED
  BY <1>2, <1>3, <1>4, <1>5, <1>6 DEF Backed

\* Only a statement that deletes locks for deletion.
LEMMA DeleteLocks ==
  ASSUME Requests, Tables, NEW s \in Request,
         NEW l \in Holds(request[s]) \cup Takes(request[s]), l.mode = "delete"
  PROVE  l.item \in Deleting(request[s]) \cup EmpId
<1> DEFINE q == request[s]
<1>1. /\ \A id, row : \A k \in Enters(id, row) \cup Joins(id, row) : k.mode # "delete"
      /\ \A kids, staff, to : \A k \in MovesKids(kids, to) \cup MovesStaff(staff, to) : k.mode # "delete"
  <2>1. \A id, row : \A k \in Enters(id, row) \cup Joins(id, row) : k.mode # "delete"
    BY DEF Enters, Joins, Lock
  <2>2. \A kids, to : \A k \in MovesKids(kids, to) : \E id, row : k \in Enters(id, row)
    BY DEF MovesKids
  <2>3. \A staff, to : \A k \in MovesStaff(staff, to) : \E id, row : k \in Joins(id, row)
    BY DEF MovesStaff
  <2> QED
    BY <2>1, <2>2, <2>3
<1>2. l \in Takes(q) /\ Takes(q) # {}
  BY <1>1 DEF Holds
<1>3. \A depts, emps, id : \A k \in Deletes(depts, emps, id) :
          k.mode = "delete" => k.item \in Subtree(depts, id) \cup DOMAIN emps
  <2> TAKE depts, emps, id
  <2> TAKE k \in Deletes(depts, emps, id)
  <2>1. \/ \E d \in Subtree(depts, id) : \E n : k = Lock(d, d, "delete", n)
        \/ \E d, y, n : k = Lock(d, y, "leave", n)
        \/ \E e \in DOMAIN emps : \E n : k = Lock(e, e, "delete", n)
    BY DEF Deletes, Staff
  <2> QED
    BY <2>1 DEF Lock
<1>4. Shape(q) /\ DOMAIN departments \subseteq DeptId /\ DOMAIN employees \subseteq EmpId
  BY DepartmentTable, EmployeeTable DEF Requests, Tables, IsTable
<1>5. CASE q.pc = "write" /\ q.op = "cascade"
  <2>1. l.item \in Subtree(departments, q.id) \cup DOMAIN employees
    BY <1>2, <1>3, <1>5, TakesOf
  <2>2. Subtree(departments, q.id) \subseteq Deleting(q)
    BY <1>4, <1>5, SubtreeClosed DEF Deleting
  <2> QED
    BY <1>4, <2>1, <2>2
<1>6. CASE q.pc = "drop"
  <2> DEFINE moved == Reassign(employees, q.staff, q.target)
  <2>1. l.item \in Dropped(q) \cup DOMAIN moved
    BY <1>2, <1>3, <1>6, TakesOf DEF Dropped
  <2>2. DOMAIN moved = DOMAIN employees /\ Dropped(q) \subseteq DOMAIN departments
    BY SubtreeClosed DEF Reassign, Dropped, Reparent
  <2>3. Dropped(q) \subseteq Deleting(q)
    BY <1>4, <1>6, <2>2 DEF Deleting
  <2> QED
    BY <1>4, <2>1, <2>2, <2>3
<1>7. CASE q.pc = "write" /\ q.op = "deleteEmp"
  <2>1. l = Lock(q.id, q.id, "delete", 1)
    BY <1>2, <1>7, TakesOf
  <2> QED
    BY <1>4, <1>7, <2>1 DEF Shape, Lock
<1>8. CASE ~(q.pc = "drop" \/ (q.pc = "write" /\ q.op \in {"cascade", "deleteEmp"}))
  <2>1. \/ \E id, row : l \in Enters(id, row) \cup Joins(id, row)
        \/ \E kids, staff, to : l \in MovesKids(kids, to) \cup MovesStaff(staff, to)
    <3>1. q.pc \in Statements
      BY <1>2, TakesOf
    <3>2. CASE q.pc = "write" /\ q.op \in {"createDept", "patchDept", "createEmp", "patchEmp"}
      <4>1. Takes(q) = Enters(q.id, q.row) \/ Takes(q) = Joins(q.id, q.row)
        BY <3>2, TakesOf
      <4> QED
        BY <1>2, <4>1
    <3>3. CASE q.pc = "children"
      <4>1. Takes(q) = MovesKids(Children(departments, q.id), q.target)
        BY <3>3, TakesOf
      <4> QED
        BY <1>2, <4>1
    <3>4. CASE q.pc = "staff"
      <4>1. Takes(q) = MovesStaff(Staff(employees, {q.id}), q.target)
        BY <3>4, TakesOf
      <4> QED
        BY <1>2, <4>1
    <3>5. q.pc = "write" => q.op \in {"createDept", "patchDept", "createEmp", "patchEmp"}
      BY <1>2, <1>8, TakesOf
    <3> QED
      BY <1>8, <3>1, <3>2, <3>3, <3>4, <3>5 DEF Statements
  <2> QED
    BY <1>1, <2>1
<1> QED
  BY <1>5, <1>6, <1>7, <1>8

\* The locks of a request that writes no department that is there: the first is of a
\* new entry or of an employee, a second one only keeps the department referred to.
LEMMA SmallTakes ==
  ASSUME Requests, Tables, NEW s \in Request, request[s].pc \in Statements,
         request[s].op \notin {"patchDept", "cascade", "reassign"}
  PROVE  /\ Holds(request[s]) = {}
         /\ \A l \in Takes(request[s]) :
                \/ l.mode = "share" /\ l.item \in RefersTo(request[s])
                \/ /\ l.turn = 1
                   /\ \A k \in Takes(request[s]) \ {l} :
                          k.turn = 2 /\ (l.mode = "enter" => k.row # l.row)
<1> DEFINE q == request[s]
<1>1. /\ Shape(q) /\ q.pc = "write" /\ q.kids = {} /\ q.staff = {}
      /\ q.op \in {"createDept", "createEmp", "patchEmp", "deleteEmp"} \/ Takes(q) = {}
  BY TakesOf DEF Requests, Shape, Statements, InTransaction
<1>2. Holds(q) = {}
  BY <1>1 DEF Holds, MovesKids, MovesStaff
<1>3. CASE Takes(q) = {}
  BY <1>2, <1>3
<1>4. CASE q.op = "createDept"
  <2> DEFINE p == q.row.parent
             first == Lock(q.id, Entry(q.row.name, p), "enter", 1)
  <2>1. q.id = Null /\ p \in DeptId \cup {Null} /\ Null \notin DeptId
    BY <1>1, <1>4, NullAssumption DEF Shape, Department
  <2>2. q.id \notin DOMAIN departments
    BY <2>1, DepartmentTable DEF Tables, IsTable
  <2>3. \A l \in Takes(q) : l = first \/ (p # Null /\ l = Lock(p, p, "share", 2))
    <3>1. \A id, row : id \notin DOMAIN departments =>
              \A l \in Enters(id, row) :
                  \/ l = Lock(id, Entry(row.name, row.parent), "enter", 1)
                  \/ row.parent # Null /\ l = Lock(row.parent, row.parent, "share", 2)
      BY DEF Enters
    <3>2. Takes(q) = Enters(q.id, q.row)
      BY <1>1, <1>4, TakesOf
    <3> QED
      BY <2>2, <3>1, <3>2
  <2>4. p # Null => p \in RefersTo(q)
    BY <1>1, <1>4, <2>1 DEF RefersTo
  <2> QED
    BY <1>2, <2>1, <2>3, <2>4 DEF Lock
<1>5. CASE q.op \in {"createEmp", "patchEmp"}
  <2> DEFINE d == q.row.dept
  <2>1. d \in RefersTo(q)
    BY <1>1, <1>5 DEF Shape, Employee, RefersTo
  <2>2. \A l \in Takes(q) : l = Lock(q.id, q.id, "update", 1) \/ l = Lock(d, d, "share", 2)
    <3>1. \A id, row : \A l \in Joins(id, row) :
              l = Lock(id, id, "update", 1) \/ l = Lock(row.dept, row.dept, "share", 2)
      BY DEF Joins
    <3>2. Takes(q) = Joins(q.id, q.row)
      BY <1>1, <1>5, TakesOf
    <3> QED
      BY <3>1, <3>2
  <2> QED
    BY <1>2, <2>1, <2>2 DEF Lock
<1>6. CASE q.op = "deleteEmp"
  <2>1. Takes(q) = {Lock(q.id, q.id, "delete", 1)}
    BY <1>1, <1>6, TakesOf
  <2> QED
    BY <1>2, <2>1 DEF Lock
<1> QED
  BY <1>1, <1>3, <1>4, <1>5, <1>6

\* With at most one request that writes departments that are there nobody waits for
\* anybody else: the others have nothing yet when they come to a lock that is taken.
LEMMA NoDeadlock ==
  ASSUME LookupsStand, IInv, NEW S \in SUBSET {s \in Request : request[s].pc \in Statements},
         NEW r \in S, Deadlocked(S)
  PROVE  FALSE
<1> DEFINE Moves(s) == request[s].op \in {"patchDept", "cascade", "reassign"}
<1>1. PICK w \in [S -> UNION {Waits(S, s) : s \in S}] :
          \A s \in S :
              /\ w[s].of = s
              /\ \E t \in S \ {s} :
                     \E held \in w[t].has \cup w[t].may : Excludes(held, w[s].for)
  BY DEF Deadlocked
<1>2. ASSUME NEW s \in S, ~Moves(s)
      PROVE  w[s].has \cup w[s].may = {}
  <2> DEFINE takes == Takes(request[s])
             others == UNION {Holds(request[t]) \cup Takes(request[t]) : t \in S \ {s}}
  <2>1. PICK l \in takes :
            /\ \E held \in others : Excludes(held, l)
            /\ w[s].has = Holds(request[s]) \cup
                   {k \in takes \ {l} : k.turn < l.turn \/ (k.row = l.row /\ l.mode = "enter")}
            /\ w[s].may = {k \in takes : k.turn = l.turn /\ k.row # l.row}
    <3>1. PICK u \in S : w[s] \in Waits(S, u)
      BY <1>1
    <3>2. u = s
      BY <1>1, <3>1 DEF Waits
    <3> QED
      BY <3>1, <3>2 DEF Waits
  <2>2. ~(l.mode = "share" /\ l.item \in RefersTo(request[s]))
    <3> SUFFICES ASSUME l.mode = "share", l.item \in RefersTo(request[s]) PROVE FALSE
      OBVIOUS
    <3>1. PICK t \in S \ {s} :
              \E held \in Holds(request[t]) \cup Takes(request[t]) : Excludes(held, l)
      BY <2>1
    <3>2. PICK held \in Holds(request[t]) \cup Takes(request[t]) :
              held.mode = "delete" /\ held.item = l.item
      BY <3>1 DEF Excludes
    <3>3. l.item \in Deleting(request[t]) \cup EmpId
      BY <3>2, DeleteLocks DEF IInv
    <3>4. l.item \in DeptId
      BY DEF RefersTo
    <3> QED
      BY <3>3, <3>4, IdAssumption DEF LookupsStand
  <2>3. /\ Holds(request[s]) = {}
        /\ l.turn = 1
        /\ \A k \in takes \ {l} : k.turn = 2 /\ (l.mode = "enter" => k.row # l.row)
    BY <1>2, <2>2, SmallTakes DEF IInv
  <2> QED
    BY <2>1, <2>3
<1>3. ASSUME NEW s \in S PROVE \E t \in S \ {s} : Moves(t)
  BY <1>1, <1>2
<1>4. PICK t \in S \ {r} : Moves(t)
  BY <1>3
<1>5. PICK u \in S \ {t} : Moves(u)
  BY <1>3
<1> QED
  BY <1>4, <1>5 DEF LookupsStand

LEMMA StepBacked ==
  ASSUME ~StoreFails, LookupsStand, IInv, \A s \in Request : Backed(request[s]),
         NEW r \in Request, NEW s \in Request,
         \/ Arrive(r) \/ Read(r) \/ Write(r)
         \/ DeadlockVictim(r) \/ StatementFails(r) \/ Bump(r)
  PROVE  Backed(request[s])'
<1>1. ~StatementFails(r)
  BY DEF StatementFails
<1>2. ~DeadlockVictim(r)
  BY NoDeadlock DEF DeadlockVictim
<1>3. Bump(r) => Backed(request[r])'
  BY EndBacked DEF Bump, IInv, Replies
<1>4. CASE s = r
  BY <1>1, <1>2, <1>3, <1>4, ArriveBacked, ReadBacked, WriteBacked
<1>5. CASE s # r
  <2>1. request'[s] = request[s]
    BY <1>5, OneAtATime DEF IInv
  <2>2. Deleting(request[r]) \cap RefersTo(request[s]) = {}
    BY <1>5 DEF LookupsStand
  <2> QED
    BY <2>1, <2>2, StepDeletes, OthersBacked DEF IInv
<1> QED
  BY <1>4, <1>5

\* As long as nobody deletes what another request refers to, and the database
\* answers, nobody gets a 500 from the walk of WouldCreateCycle or from a foreign
\* key, however the requests interleave.
THEOREM ServiceNoInternalError ==
    ~StoreFails /\ Spec /\ []LookupsStand => []NoInternalError
<1> SUFFICES ASSUME ~StoreFails PROVE Spec /\ []LookupsStand => []NoInternalError
  OBVIOUS
<1> DEFINE AllBacked == \A r \in Request : Backed(request[r])
<1>1. Init => IInv /\ AllBacked
  <2>1. Idle("none").pc = "idle" /\ Idle("none").reply = "none"
    BY DEF Idle
  <2> QED
    BY <2>1, InitIInv DEF Init, Backed
<1>2. IInv /\ AllBacked /\ LookupsStand /\ [Next]_vars => IInv' /\ AllBacked'
  <2> SUFFICES ASSUME IInv, AllBacked, LookupsStand, [Next]_vars PROVE IInv' /\ AllBacked'
    OBVIOUS
  <2>1. CASE UNCHANGED vars
    BY <2>1, StepIInv DEF vars, tables, Backed
  <2>2. CASE Next
    BY <2>2, StepIInv, StepBacked DEF Next
  <2> QED
    BY <2>1, <2>2
<1>3. AllBacked => NoInternalError
  BY DEF Backed, NoInternalError
<1> HIDE DEF AllBacked
<1> QED
  BY <1>1, <1>2, <1>3, PTL DEF Spec
=============================================================================
