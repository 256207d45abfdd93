----------------------------- MODULE OrgService -----------------------------
(***************************************************************************)
(* The mutating requests of DepartmentService and EmployeeService as they  *)
(* run: each handler is a sequence of repository calls, every call is one  *)
(* statement that PostgreSQL (READ COMMITTED) executes atomically, and the *)
(* calls of different requests interleave.  Only ReassignAndDelete is a    *)
(* transaction of several statements; the rows it has updated stay locked, *)
(* and invisible to the others, until it commits.                          *)
(*                                                                         *)
(* External, modelled from the calls the repositories make:                *)
(*  - PostgreSQL: statement atomicity, row locks (an UPDATE excludes other *)
(*    writers of the row, a foreign key reference excludes its deletion),  *)
(*    unique index entries that wait for a transaction in progress,        *)
(*    foreign keys, ON DELETE CASCADE;                                     *)
(*  - gorm: Save writes every column and inserts the row when the UPDATE   *)
(*    found none; TranslateError gives ErrDuplicatedKey on a unique index  *)
(*    and another error on a foreign key.                                  *)
(***************************************************************************)
EXTENDS OrgTables, FiniteSets, Naturals

CONSTANTS
    Request,        \* slots for requests in flight (goroutines of all instances)
    Movers,         \* the slots allowed to patch or reassign departments
    DeptOps,        \* which department requests clients send
    EmpOps,         \* which employee requests clients send
    Absent,         \* a field the JSON body does not have
    Blank,          \* a string that RequiredString rejects
    BadDate,        \* a hired_at that time.Parse rejects
    Zero,           \* the id 0, which no row has
    Slips,          \* the malformed values among these that clients do send
    StoreFails      \* may a statement fail for a reason of its own?

ASSUME OpsAssumption ==
    /\ DeptOps \subseteq {"createDept", "patchDept", "cascade", "reassign", "otherMode"}
    /\ EmpOps \subseteq {"createEmp", "patchEmp", "deleteEmp"}
    /\ Movers \subseteq Request
    /\ Slips \subseteq {Blank, BadDate, Zero}
    /\ StoreFails \in BOOLEAN

\* An id tells the table: issued and the locks go by it.
ASSUME IdAssumption == DeptId \cap EmpId = {}

\* The handlers tell a field that is absent from one that is null, or an id.
ASSUME AbsentAssumption == Absent \notin DeptId \cup {Null}

VARIABLES
    departments,    \* committed rows of departments
    employees,      \* committed rows of employees
    issued,         \* ids the two sequences have handed out
    request         \* what each slot is doing

tables == <<departments, employees>>
vars == <<departments, employees, issued, request>>

Abstract == INSTANCE OrgStructure

-----------------------------------------------------------------------------
(***************************************************************************)
(* A request in flight.  pc names the repository call it makes next:       *)
(*   target   GetByID of the new parent, reassign target or new department *)
(*   walk     one GetByID of WouldCreateCycle, of the department cur       *)
(*   unique   ExistsByNameAndParent[ExceptID]                              *)
(*   write    Create, Save, DeleteByID                                     *)
(*   children, staff, drop   the three statements of ReassignAndDelete     *)
(*   bump     bumpDepartmentTreeEpoch, after which the client is answered  *)
(* Fields that no later call reads are back at their initial value.        *)
(***************************************************************************)
Idle(reply) ==
    [pc |-> "idle", op |-> "none", id |-> Null, target |-> Null, row |-> Null,
     cur |-> Null, kids |-> {}, staff |-> {}, reply |-> reply]

PCs == {"idle", "target", "walk", "unique", "write", "children", "staff", "drop", "bump"}

Replies == {"none", "ok", "not_found", "conflict", "cycle", "invalid", "internal"}

RequestRecord ==
    [pc : PCs,
     op : {"none"} \cup DeptOps \cup EmpOps,
     id : DeptId \cup EmpId \cup {Null},
     target : DeptId \cup {Null, Absent},
     row : Department \cup [dept : DeptId, profile : Profile \cup {BadDate}] \cup {Null},
     cur : DeptId \cup {Null},
     kids : SUBSET DeptId,
     staff : SUBSET EmpId,
     reply : Replies]

TypeOK ==
    /\ departments \in DepartmentTables
    /\ employees \in EmployeeTables
    /\ issued \subseteq DeptId \cup EmpId
    /\ request \in [Request -> RequestRecord]

Init ==
    /\ Abstract!Init
    /\ request = [r \in Request |-> Idle("none")]

\* r has what it needs to make the calls from pc on.
Proceed(r, pc, op, id, target, row) ==
    request' = [request EXCEPT ![r] =
        [Idle("none") EXCEPT !.pc = pc, !.op = op, !.id = id,
                             !.target = target, !.row = row]]

\* r goes on to the call named pc with the state of its handler in q.
Continue(r, q, pc) == request' = [request EXCEPT ![r] = [q EXCEPT !.pc = pc]]

\* r answers its client.
Answer(r, reply) == request' = [request EXCEPT ![r] = Idle(reply)]

\* The write of r has committed.  Only the epoch bump and the answer remain, unless
\* the result of the statement or COMMIT is lost: then r takes it for a failure.
Committed(r) ==
    \/ request' = [request EXCEPT ![r] = [Idle("none") EXCEPT !.pc = "bump"]]
    \/ StoreFails /\ Answer(r, "internal")

-----------------------------------------------------------------------------
(***************************************************************************)
(* Locks.  A transaction holds what its statements have locked until it    *)
(* ends.  A statement locks one thing after the other: those of an earlier *)
(* turn first, those of one turn in any order, but for each row the row    *)
(* itself before its new index entry.                                      *)
(***************************************************************************)
Lock(row, item, mode, turn) == [row |-> row, item |-> item, mode |-> mode, turn |-> turn]

Entry(name, parent) == <<name, parent>>

\* Who takes the lock "wanted" has to wait while somebody else has "held".
Excludes(held, wanted) ==
    /\ held.item = wanted.item
    /\ <<held.mode, wanted.mode>> \in
           {<<"update", "update">>, <<"update", "delete">>, <<"delete", "update">>,
            <<"delete", "delete">>, <<"delete", "share">>, <<"share", "delete">>,
            <<"enter", "enter">>, <<"leave", "enter">>}

\* A row takes a new index entry and gives up the one it has.  The foreign key of
\* a reference that is new is checked last.
Enters(id, row) ==
    LET here == {id} \cap DOMAIN departments
        has == {departments[d].parent : d \in here}
    IN  {Lock(id, Entry(row.name, row.parent), "enter", 1)}
            \cup {Lock(d, d, "update", 1) : d \in here}
            \cup {Lock(d, Entry(departments[d].name, departments[d].parent), "leave", 1) :
                    d \in here}
            \cup {Lock(p, p, "share", 2) : p \in {row.parent} \ ({Null} \cup has)}

Joins(id, row) ==
    LET here == {id} \cap DOMAIN employees
        has == {employees[e].dept : e \in here}
    IN  {Lock(e, e, "update", 1) : e \in here}
            \cup {Lock(d, d, "share", 2) : d \in {row.dept} \ has}

MovesKids(kids, to) == UNION {Enters(k, [departments[k] EXCEPT !.parent = to]) : k \in kids}

MovesStaff(staff, to) == UNION {Joins(e, [employees[e] EXCEPT !.dept = to]) : e \in staff}

\* The cascade goes down level by level.
Deletes(depts, emps, id) ==
    LET gone == Subtree(depts, id)
        level == [d \in gone |-> IF d = id THEN 0
                                 ELSE Cardinality({a \in gone : d \in Subtree(depts, a)})]
    IN  {Lock(d, d, "delete", level[d]) : d \in gone}
            \cup {Lock(d, Entry(depts[d].name, depts[d].parent), "leave", level[d]) : d \in gone}
            \cup {Lock(e, e, "delete", level[emps[e].dept] + 1) : e \in Staff(emps, gone)}

\* What the DELETE of a reassign takes with it, in the view of its transaction.
Dropped(q) == Subtree(Reparent(departments, q.kids, q.target), q.id)

\* The locks of the transaction of q so far, and those of the statement it runs next.
Holds(q) == MovesKids(q.kids, q.target) \cup MovesStaff(q.staff, q.target)

Takes(q) ==
    CASE q.pc = "children" -> MovesKids(Children(departments, q.id), q.target)
      [] q.pc = "staff" -> MovesStaff(Staff(employees, {q.id}), q.target)
      [] q.pc = "drop" -> Deletes(Reparent(departments, q.kids, q.target),
                                  Reassign(employees, q.staff, q.target), q.id)
      [] q.pc = "write" /\ q.op \in {"createDept", "patchDept"} -> Enters(q.id, q.row)
      [] q.pc = "write" /\ q.op \in {"createEmp", "patchEmp"} -> Joins(q.id, q.row)
      [] q.pc = "write" /\ q.op = "cascade" -> Deletes(departments, employees, q.id)
      [] q.pc = "write" /\ q.op = "deleteEmp" -> {Lock(q.id, q.id, "delete", 1)}
      [] OTHER -> {}

\* The calls that take locks.
Statements == {"write", "children", "staff", "drop"}

\* Mutant: no transaction, nothing is locked.
NobodyElse(r) == {}

Others(r) == {s \in Request \ {r} : request[s].pc \in {"staff", "drop"}}

\* No transaction in progress holds what the statement of r has to lock.
Granted(r) ==
    \A s \in Others(r) :
        \A held \in Holds(request[s]), wanted \in Takes(request[r]) : ~Excludes(held, wanted)

\* Where the statement of s may have to wait for somebody else in S: the lock it
\* comes to, what it has by then for certain, and what it may have besides.
Waits(S, s) ==
    LET q == request[s]
        takes == Takes(q)
        others == UNION {Holds(request[t]) \cup Takes(request[t]) : t \in S \ {s}}
        before(l) == {k \in takes \ {l} :
                          k.turn < l.turn \/ (k.row = l.row /\ l.mode = "enter")}
    IN  {[of |-> s, for |-> l,
          has |-> Holds(q) \cup before(l),
          may |-> {k \in takes : k.turn = l.turn /\ k.row # l.row}] :
            l \in {k \in takes : \E held \in others : Excludes(held, k)}}

\* Everybody in S can come to wait for what somebody else in S has.
Deadlocked(S) ==
    \E w \in [S -> UNION {Waits(S, s) : s \in S}] :
        \A s \in S :
            /\ w[s].of = s
            /\ \E t \in S \ {s} :
                   \E held \in w[t].has \cup w[t].may : Excludes(held, w[s].for)
            /\ \A t \in S \ {s} :
                   \A a \in w[s].has, b \in w[t].has : ~Excludes(a, b)

-----------------------------------------------------------------------------
(***************************************************************************)
(* Arrival: the input is chosen, the handler and the service check what    *)
(* they can without the database, and the first repository call is made.   *)
(***************************************************************************)
BadName == Slips \cap {Blank}
BadProfile == Slips \cap {Blank, BadDate}
BadId == Slips \cap {Zero}

Arriving(r) ==
    /\ request[r].pc = "idle"
    /\ UNCHANGED <<tables, issued>>

\* Bound: requests are admitted only while the model has ids left for them.
IdLeft(ids, op) ==
    Cardinality(ids \ issued) > Cardinality({s \in Request : request[s].op = op})

CreateDepartment(r, text, target) ==
    /\ Arriving(r)
    /\ IdLeft(DeptId, "createDept")
    /\ \/ (text = Blank \/ target = Zero) /\ Answer(r, "invalid")
       \/ /\ text # Blank
          /\ target \in DeptId \ DOMAIN departments
          /\ Answer(r, "not_found")
       \/ /\ text # Blank
          /\ target \in DOMAIN departments \cup {Null}
          /\ Proceed(r, "unique", "createDept", Null, Null, [name |-> text, parent |-> target])

\* Mutant: the row is not looked up, and a parent_id that is absent counts as null.
PatchDepartmentBlindly(r, id, text, target) ==
    /\ Arriving(r)
    /\ text \in Name
    /\ Proceed(r, "unique", "patchDept", id, target, [name |-> text, parent |-> Null])

PatchDepartment(r, id, text, target) ==
    /\ Arriving(r)
    /\ \/ id \notin DOMAIN departments /\ Answer(r, "not_found")
       \/ /\ id \in DOMAIN departments
          /\ \/ text = Absent /\ target = Absent
             \/ text = Blank
             \/ target \in {Zero, id}
          /\ Answer(r, "invalid")
       \/ /\ id \in DOMAIN departments
          /\ text # Absent \/ target # Absent
          /\ text # Blank
          /\ target \notin {Zero, id}
          /\ LET old == departments[id]
                 name == IF text = Absent THEN old.name ELSE text
             IN  \/ /\ target \in DeptId
                    /\ Proceed(r, "target", "patchDept", id, target, [old EXCEPT !.name = name])
                 \/ /\ target = Null
                    /\ Proceed(r, "unique", "patchDept", id, Null, [name |-> name, parent |-> Null])
                 \/ /\ target = Absent
                    /\ Proceed(r, "unique", "patchDept", id, Absent, [old EXCEPT !.name = name])

DeleteDepartment(r, id, mode, target) ==
    /\ Arriving(r)
    /\ \/ target = Zero /\ Answer(r, "invalid")
       \/ target # Zero /\ id \notin DOMAIN departments /\ Answer(r, "not_found")
       \/ /\ target # Zero /\ id \in DOMAIN departments
          /\ \/ mode = "cascade" /\ Proceed(r, "write", "cascade", id, Null, Null)
             \/ /\ mode = "reassign" /\ target \notin {Absent, id}
                /\ Proceed(r, "target", "reassign", id, target, Null)
             \/ /\ mode = "reassign" /\ target \in {Absent, id}
                /\ Answer(r, "invalid")
             \/ mode = "otherMode" /\ Answer(r, "invalid")

CreateEmployee(r, text, target) ==
    /\ Arriving(r)
    /\ IdLeft(EmpId, "createEmp")
    /\ \/ (text \in {Blank, BadDate} \/ target = Zero) /\ Answer(r, "invalid")
       \/ /\ text \in Profile
          /\ target \in DeptId \ DOMAIN departments
          /\ Answer(r, "not_found")
       \/ /\ text \in Profile
          /\ target \in DOMAIN departments
          /\ Proceed(r, "write", "createEmp", Null, Null, [dept |-> target, profile |-> text])

\* The hired_at of the body is parsed last, after the department is looked up.
PatchEmployee(r, id, text, target) ==
    /\ Arriving(r)
    /\ \/ text = Absent /\ target = Absent /\ Answer(r, "invalid")
       \/ /\ text # Absent \/ target # Absent
          /\ id \notin DOMAIN employees
          /\ Answer(r, "not_found")
       \/ /\ id \in DOMAIN employees
          /\ \/ text = Blank
             \/ target \in {Null, Zero}
             \/ text = BadDate /\ target = Absent
          /\ Answer(r, "invalid")
       \/ /\ id \in DOMAIN employees
          /\ text # Blank
          /\ LET row == [employees[id] EXCEPT !.profile = IF text = Absent THEN @ ELSE text]
             IN  \/ /\ target \in DeptId
                    /\ Proceed(r, "target", "patchEmp", id, target, row)
                 \/ /\ target = Absent /\ text \notin {Absent, BadDate}
                    /\ Proceed(r, "write", "patchEmp", id, Absent, row)

DeleteEmployee(r, id) ==
    /\ Arriving(r)
    /\ \/ id \notin DOMAIN employees /\ Answer(r, "not_found")
       \/ id \in DOMAIN employees /\ Proceed(r, "write", "deleteEmp", id, Null, Null)

Arrive(r) ==
    \/ /\ "createDept" \in DeptOps
       /\ \E text \in Name \cup BadName, target \in DeptId \cup {Null} \cup BadId :
              CreateDepartment(r, text, target)
    \/ /\ "patchDept" \in DeptOps /\ r \in Movers
       /\ \E id \in DeptId, text \in Name \cup {Absent} \cup BadName,
             target \in DeptId \cup {Null, Absent} \cup BadId :
              PatchDepartment(r, id, text, target)
    \/ \E id \in DeptId, mode \in DeptOps \cap {"cascade", "reassign", "otherMode"},
          target \in DeptId \cup {Absent} \cup BadId :
           /\ mode = "reassign" => r \in Movers
           /\ DeleteDepartment(r, id, mode, target)
    \/ /\ "createEmp" \in EmpOps
       /\ \E text \in Profile \cup BadProfile, target \in DeptId \cup BadId :
              CreateEmployee(r, text, target)
    \/ /\ "patchEmp" \in EmpOps
       /\ \E id \in EmpId, text \in Profile \cup {Absent} \cup BadProfile,
             target \in DeptId \cup {Null, Absent} \cup BadId :
              PatchEmployee(r, id, text, target)
    \/ /\ "deleteEmp" \in EmpOps
       /\ \E id \in EmpId : DeleteEmployee(r, id)

-----------------------------------------------------------------------------
(***************************************************************************)
(* The reads that follow.                                                  *)
(***************************************************************************)
Reading(r, pc) ==
    /\ request[r].pc = pc
    /\ UNCHANGED <<tables, issued>>

\* Mutants: the result of the lookup is not looked at, and the walk starts at the
\* target as in the code, or at the department itself.
LoadTargetBlindly(r, start) ==
    LET q == request[r] IN
    /\ Reading(r, "target")
    /\ \/ q.op # "patchEmp" /\ Continue(r, [q EXCEPT !.cur = start], "walk")
       \/ /\ q.op = "patchEmp"
          /\ Proceed(r, "write", q.op, q.id, Null, [q.row EXCEPT !.dept = q.target])

LoadTargetUnchecked(r) == LoadTargetBlindly(r, request[r].target)

LoadTargetSwapped(r) == LoadTargetBlindly(r, request[r].id)

\* The other department exists?  Then patch and reassign of a department walk
\* up from it.
LoadTarget(r) ==
    LET q == request[r] IN
    /\ Reading(r, "target")
    /\ \/ q.target \notin DOMAIN departments /\ Answer(r, "not_found")
       \/ /\ q.target \in DOMAIN departments
          /\ \/ /\ q.op \in {"patchDept", "reassign"}
                /\ Continue(r, [q EXCEPT !.cur = q.target], "walk")
             \/ q.op = "patchEmp" /\ q.row.profile = BadDate /\ Answer(r, "invalid")
             \/ /\ q.op = "patchEmp" /\ q.row.profile # BadDate
                /\ Proceed(r, "write", q.op, q.id, Null, [q.row EXCEPT !.dept = q.target])

\* Mutants: the walk looks at the target alone, or does not move on.
NothingAbove(d) == Null

ItselfAbove(d) == d

\* The parent_id of the row that GetByID of the walk has returned.
Above(d) == departments[d].parent

\* One turn of the loop that climbs from the target.  A row that has vanished
\* meanwhile ends it with storage.ErrNotFound, which nobody maps.
WouldCreateCycle(r) ==
    LET q == request[r] IN
    /\ Reading(r, "walk")
    /\ \/ q.cur = q.id /\ Answer(r, "cycle")
       \/ q.cur # q.id /\ q.cur \notin DOMAIN departments /\ Answer(r, "internal")
       \/ /\ q.cur # q.id
          /\ q.cur \in DOMAIN departments
          /\ LET above == Above(q.cur) IN
             \/ above # Null /\ Continue(r, [q EXCEPT !.cur = above], "walk")
             \/ /\ above = Null /\ q.op = "reassign"
                /\ Continue(r, [q EXCEPT !.cur = Null], "children")
             \/ /\ above = Null /\ q.op = "patchDept"
                /\ Proceed(r, "unique", q.op, q.id, Null, [q.row EXCEPT !.parent = q.target])

\* Mutant: the name is looked up without "id <> ?".
CheckNameOfAll(r) ==
    LET q == request[r]
        taken == NameTaken(departments, q.row.name, q.row.parent, Null)
    IN
    /\ Reading(r, "unique")
    /\ \/ taken /\ Answer(r, "conflict")
       \/ ~taken /\ Continue(r, q, "write")

CheckName(r) ==
    LET q == request[r]
        taken == NameTaken(departments, q.row.name, q.row.parent, q.id)
    IN
    /\ Reading(r, "unique")
    /\ \/ taken /\ Answer(r, "conflict")
       \/ ~taken /\ Continue(r, q, "write")

-----------------------------------------------------------------------------
(***************************************************************************)
(* Writes.                                                                 *)
(***************************************************************************)
Writing(r, ops) == request[r].pc = "write" /\ request[r].op \in ops

\* Mutants: the tables are written without constraints.
WriteDepartmentsUnchecked(r, t) ==
    departments' = t /\ UNCHANGED employees /\ Committed(r)

WriteEmployeesUnchecked(r, t) ==
    employees' = t /\ UNCHANGED departments /\ Committed(r)

\* The outcome of INSERT or Save when it leaves the table t behind:
\* ErrAlreadyExists is mapped, a foreign key violation is not.
WriteDepartments(r, t) ==
    \/ ~NameIndexes(t) /\ Answer(r, "conflict") /\ UNCHANGED tables
    \/ NameIndexes(t) /\ ~ParentKey(t) /\ Answer(r, "internal") /\ UNCHANGED tables
    \/ /\ NameIndexes(t) /\ ParentKey(t)
       /\ departments' = t
       /\ UNCHANGED employees
       /\ Committed(r)

WriteEmployees(r, t) ==
    \/ ~DepartmentKey(departments, t) /\ Answer(r, "internal") /\ UNCHANGED tables
    \/ /\ DepartmentKey(departments, t)
       /\ employees' = t
       /\ UNCHANGED departments
       /\ Committed(r)

\* The sequence hands out an id even if the INSERT then fails.
InsertDepartment(r) ==
    LET row == request[r].row IN
    /\ Writing(r, {"createDept"})
    /\ \E d \in DeptId \ issued :
           /\ issued' = issued \cup {d}
           /\ WriteDepartments(r, Put(departments, d, row))

\* All columns of the row as it was loaded, with the patched ones replaced.
SaveDepartment(r) ==
    LET q == request[r] IN
    /\ Writing(r, {"patchDept"})
    /\ WriteDepartments(r, Put(departments, q.id, q.row))
    /\ UNCHANGED issued

\* A row that has vanished meanwhile is no error: nothing is deleted.
DeleteDepartmentRow(r) ==
    LET gone == Subtree(departments, request[r].id) IN
    /\ Writing(r, {"cascade"})
    /\ departments' = Remove(departments, gone)
    /\ employees' = CascadeEmployees(employees, gone)
    /\ Committed(r)
    /\ UNCHANGED issued

InsertEmployee(r) ==
    /\ Writing(r, {"createEmp"})
    /\ \E e \in EmpId \ issued :
           /\ issued' = issued \cup {e}
           /\ WriteEmployees(r, Put(employees, e, request[r].row))

SaveEmployee(r) ==
    LET q == request[r] IN
    /\ Writing(r, {"patchEmp"})
    /\ WriteEmployees(r, Put(employees, q.id, q.row))
    /\ UNCHANGED issued

DeleteEmployeeRow(r) ==
    LET id == request[r].id IN
    /\ Writing(r, {"deleteEmp"})
    /\ employees' = Remove(employees, {id})
    /\ Committed(r)
    /\ UNCHANGED <<departments, issued>>

-----------------------------------------------------------------------------
(***************************************************************************)
(* ReassignAndDelete: a transaction of three statements.  What the first   *)
(* two have updated is kept in kids and staff until the third commits.     *)
(***************************************************************************)
\* Mutant: the first statement runs outside the transaction.
MoveChildrenAtOnce(r) ==
    LET q == request[r]
        kids == Children(departments, q.id)
    IN
    /\ q.pc = "children"
    /\ departments' = Reparent(departments, kids, q.target)
    /\ Continue(r, q, "staff")
    /\ UNCHANGED <<employees, issued>>

MoveChildren(r) ==
    LET q == request[r]
        kids == Children(departments, q.id)
    IN
    /\ q.pc = "children"
    /\ \/ /\ ~NameIndexes(Reparent(departments, kids, q.target))
          /\ Answer(r, "conflict")
       \/ /\ NameIndexes(Reparent(departments, kids, q.target))
          /\ kids # {} /\ q.target \notin DOMAIN departments
          /\ Answer(r, "internal")
       \/ /\ NameIndexes(Reparent(departments, kids, q.target))
          /\ kids = {} \/ q.target \in DOMAIN departments
          /\ Continue(r, [q EXCEPT !.kids = kids], "staff")
    /\ UNCHANGED <<tables, issued>>

\* Mutant: the employees are left to the cascade.
MoveNobody(r) ==
    /\ request[r].pc = "staff"
    /\ Continue(r, request[r], "drop")
    /\ UNCHANGED <<tables, issued>>

MoveStaff(r) ==
    LET q == request[r]
        staff == Staff(employees, {q.id})
    IN
    /\ q.pc = "staff"
    /\ \/ /\ staff # {} /\ q.target \notin DOMAIN departments
          /\ Answer(r, "internal")
       \/ /\ staff = {} \/ q.target \in DOMAIN departments
          /\ Continue(r, [q EXCEPT !.staff = staff], "drop")
    /\ UNCHANGED <<tables, issued>>

DropAndCommit(r) ==
    LET q == request[r]
        staff == Reassign(employees, q.staff, q.target)
    IN
    /\ q.pc = "drop"
    /\ departments' = Remove(Reparent(departments, q.kids, q.target), Dropped(q))
    /\ employees' = CascadeEmployees(staff, Dropped(q))
    /\ Committed(r)
    /\ UNCHANGED issued

\* PostgreSQL rolls one of the transactions back that wait for each other.
DeadlockVictim(r) ==
    /\ \E S \in SUBSET {s \in Request : request[s].pc \in Statements} :
           r \in S /\ Deadlocked(S)
    /\ Answer(r, "internal")
    /\ UNCHANGED <<tables, issued>>

\* A call fails and has no effect: connection lost, statement cancelled, deadline
\* passed.  A transaction in progress is rolled back.
StatementFails(r) ==
    /\ StoreFails
    /\ request[r].pc \notin {"idle", "bump"}
    /\ Answer(r, "internal")
    /\ UNCHANGED <<tables, issued>>

\* The result of Increment is ignored: the client gets its 2xx.
Bump(r) ==
    /\ request[r].pc = "bump"
    /\ Answer(r, "ok")
    /\ UNCHANGED <<tables, issued>>

-----------------------------------------------------------------------------
Read(r) == LoadTarget(r) \/ WouldCreateCycle(r) \/ CheckName(r)

\* The statements that PostgreSQL makes wait for locks.
Write(r) ==
    /\ Granted(r)
    /\ \/ InsertDepartment(r)
       \/ SaveDepartment(r)
       \/ DeleteDepartmentRow(r)
       \/ InsertEmployee(r)
       \/ SaveEmployee(r)
       \/ DeleteEmployeeRow(r)
       \/ MoveChildren(r)
       \/ MoveStaff(r)
       \/ DropAndCommit(r)

Next ==
    \E r \in Request :
        Arrive(r) \/ Read(r) \/ Write(r) \/ DeadlockVictim(r) \/ StatementFails(r) \/ Bump(r)

Spec == Init /\ [][Next]_vars

\* Handlers run on (the Go scheduler), PostgreSQL grants a lock to the requests
\* queued for it in turn, and looks for deadlocks where somebody waits.
Fairness ==
    \A r \in Request :
        /\ WF_vars(Read(r))
        /\ SF_vars(Write(r))
        /\ WF_vars(~Granted(r) /\ DeadlockVictim(r))
        /\ WF_vars(Bump(r))

FairSpec == Spec /\ Fairness

-----------------------------------------------------------------------------
(***************************************************************************)
(* Which requests may overlap without harm.  Nothing in the code keeps the *)
(* others apart: these are conditions on the clients.                      *)
(***************************************************************************)
Moving == {"patchDept", "reassign"}

MovesApart ==
    \A r, s \in Request : request[r].op \in Moving /\ request[s].op \in Moving => r = s

\* Besides, what a patch is about to save is not deleted under it, and nothing
\* is about to join a department that a reassign is emptying.
NoClash ==
    /\ MovesApart
    /\ \A r, s \in Request :
           LET p == request[r]
               q == request[s]
           IN  /\ p.op = "patchDept" /\ q.op = "cascade"
                      => p.id \notin Subtree(departments, q.id)
               /\ p.op = "patchEmp" /\ q.op = "cascade"
                      => p.id \notin Staff(employees, Subtree(departments, q.id))
               /\ p.op = "patchEmp" /\ q.op = "deleteEmp" => p.id # q.id
               /\ p.pc = "write" /\ p.op = "createDept" /\ q.pc \in {"children", "staff", "drop"}
                      => p.row.parent # q.id
               /\ p.pc = "write" /\ p.op \in {"createEmp", "patchEmp"} /\ q.pc \in {"staff", "drop"}
                      => p.row.dept # q.id

\* The departments that the calls q has still to make refer to.
RefersTo(q) ==
    {d \in DeptId :
        \/ q.pc = "walk" /\ d = q.cur
        \/ q.pc \in {"walk", "children", "staff", "drop"} /\ d = q.target
        \/ q.pc \in {"unique", "write"} /\ q.op \in {"createDept", "patchDept"} /\ d = q.row.parent
        \/ q.pc = "write" /\ q.op \in {"createEmp", "patchEmp"} /\ d = q.row.dept}

\* The departments that q is about to delete.
Deleting(q) ==
    {d \in DeptId :
        \/ q.op = "cascade" /\ d \in Subtree(departments, q.id)
        \/ q.pc = "drop" /\ d \in Dropped(q)}

\* Nobody deletes what somebody else has looked up and still refers to, and of the
\* requests that write departments that are there, two of which might deadlock, at
\* most one is in flight.
LookupsStand ==
    \A r, s \in Request : r # s =>
        /\ Deleting(request[r]) \cap RefersTo(request[s]) = {}
        /\ ~ {request[r].op, request[s].op} \subseteq {"patchDept", "cascade", "reassign"}

\* The behaviours of Spec in which no requests clash.
CalmSpec == Init /\ [][Next /\ NoClash']_vars

-----------------------------------------------------------------------------
(***************************************************************************)
(* Properties.                                                             *)
(***************************************************************************)

\* Every parent_id and department_id names a department that exists, however
\* checks, writes, cascades and reassignments of several requests interleave.
ReferentialIntegrity == Abstract!ReferentialIntegrity

\* Siblings and roots have distinct names although CheckName and the write it
\* guards are separate calls: the two partial indexes close the gap.
SiblingNamesUnique == Abstract!SiblingNamesUnique

\* The hierarchy stays a forest.  The check that keeps it so, WouldCreateCycle,
\* is a walk of separate reads before the write, so this needs MovesApart, while
\* creates, cascades and the rest interleave.
AcyclicHierarchy == Abstract!AcyclicHierarchy

\* What ReassignAndDelete has updated is still there, below the department it
\* deletes, until it commits, and committing breaks neither names nor parents.
PendingReassignSound ==
    \A r \in Request :
        LET q == request[r]
            moved == Reparent(departments, q.kids, q.target)
        IN  q.pc \in {"staff", "drop"} =>
                /\ q.kids \subseteq Children(departments, q.id)
                /\ q.staff \subseteq Staff(employees, {q.id})
                /\ q.kids # {} \/ q.staff # {} => q.target \in DOMAIN departments
                /\ NameIndexes(moved)

\* A reassign that commits leaves what it has moved below the target.  The target was
\* looked up, and seen to be outside of the department, statements ago.
ReassignKeepsMoved ==
    [][\A r \in Request :
           LET q == request[r] IN
           q.pc = "drop" /\ request'[r] # q /\ tables' # tables =>
               /\ \A k \in q.kids :
                      k \in DOMAIN departments' /\ departments'[k].parent = q.target
               /\ \A e \in q.staff :
                      e \in DOMAIN employees' /\ employees'[e].dept = q.target]_vars

\* A move or reassignment is refused as a cycle only if the target really is
\* below the department, or has been deleted during the walk.
CycleRefusalJustified ==
    [][\A r \in Request :
           request[r].pc = "walk" /\ request'[r].reply = "cycle"
           => request[r].target \in Subtree(departments, request[r].id)
                                    \cup (DeptId \ DOMAIN departments)]_vars

\* A 409 is given only for a name that a committed row really has under that
\* parent.  To a reassign that row may be the department it deletes: its own name
\* counts when its children go to its parent.
ConflictJustified ==
    [][\A r \in Request :
           LET q == request[r] IN
           q.pc # "idle" /\ request'[r].reply = "conflict" =>
               IF q.op = "reassign"
               THEN \E k \in Children(departments, q.id) :
                        NameTaken(departments, departments[k].name, q.target, k)
               ELSE NameTaken(departments, q.row.name, q.row.parent, q.id)]_vars

\* No client ever gets a 500: every violation that the constraints would report
\* is found by a check of the service before.  This needs LookupsStand, which
\* holds of requests one at a time, and a database that answers.
NoInternalError == \A r \in Request : request[r].reply # "internal"

\* Every request is answered: the walk ends, and waiting for locks does too.
EveryRequestAnswered ==
    \A r \in Request : request[r].pc # "idle" ~> request[r].pc = "idle"

\* A PATCH without parent_id leaves the parent of the department alone, one
\* without department_id the department of the employee.
OmittedFieldsKept ==
    [][\A r \in Request :
           LET q == request[r]
               omitted == q.pc = "write" /\ q.target = Absent /\ request'[r] # q
           IN  /\ omitted /\ q.op = "patchDept" /\ q.id \in DOMAIN departments
                   => departments'[q.id].parent = departments[q.id].parent
               /\ omitted /\ q.op = "patchEmp" /\ q.id \in DOMAIN employees
                   => employees'[q.id].dept = employees[q.id].dept]_vars

\* A department that has been deleted does not come back.
DeletedStaysDeleted ==
    [][\A d \in (DeptId \cap issued) \ DOMAIN departments :
           d \notin DOMAIN departments']_vars

\* Reassign deletes the one department: children and employees move.
ReassignDeletesOne ==
    [][\A r \in Request :
           request[r].pc = "drop" /\ request'[r] # request[r] /\ tables' # tables
           => /\ DOMAIN departments' = DOMAIN departments \ {request[r].id}
              /\ DOMAIN employees' = DOMAIN employees]_vars

\* Requests that overlap without a clash look as if each took effect at once.
Atomic == Abstract!Spec
=============================================================================
