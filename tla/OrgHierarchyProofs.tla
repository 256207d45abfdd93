-------------------------- MODULE OrgHierarchyProofs --------------------------
(***************************************************************************)
(* The hierarchy of OrgService stays a forest if the departments are moved *)
(* by one request at a time, while any number of creates, cascades and     *)
(* employee requests interleave with its walk and its write.               *)
(* A reassign that commits then leaves what it has moved below its target. *)
(* Requests that overlap without a clash implement OrgStructure, and a 409 *)
(* tells the truth.                                                        *)
(***************************************************************************)
EXTENDS OrgServiceProofs

OneMover == \A r, s \in Movers : r = s

-----------------------------------------------------------------------------
(***************************************************************************)
(* The invariant, of a request q on the departments t with the ids I       *)
(* issued.  cur is above the target, and inside the subtree of id as long  *)
(* as the target is: so the walk that reaches a root has shown that the    *)
(* target is outside.  Others only add leaves, with ids that nobody knows  *)
(* yet, and remove whole subtrees, which keeps all of this true.           *)
(***************************************************************************)
Walked(q, t) ==
    q.pc = "walk" =>
        /\ q.target \in DOMAIN t => q.target \in Subtree(t, q.cur)
        /\ q.target \in Subtree(t, q.id) => q.cur \in Subtree(t, q.id)

Cleared(q, t) ==
    q.pc \in {"children", "staff", "drop"} => q.target \notin Subtree(t, q.id)

Placed(q, t, I) ==
    q.op = "patchDept" /\ q.pc \in {"unique", "write"} =>
        /\ q.row.parent \in I \cup {Null}
        /\ q.row.parent # q.id
        /\ q.row.parent \notin Subtree(t, q.id)

OnPath(q, t, I) ==
    /\ q.pc \in {"target", "walk"} => q.target # q.id /\ q.reply = "none"
    /\ q.pc \in {"walk", "children", "staff", "drop"} => q.target \in I
    /\ Walked(q, t)
    /\ Cleared(q, t)
    /\ Placed(q, t, I)

\* The parent of a new department has been issued, so it is not the new one.
Known(q, I) == q.op = "createDept" => q.row.parent \in I \cup {Null}

Forest ==
    /\ Acyclic(departments)
    /\ \A r \in Request :
           /\ request[r].op \in Moving => r \in Movers /\ OnPath(request[r], departments, issued)
           /\ Known(request[r], issued)

-----------------------------------------------------------------------------
(***************************************************************************)
(* What the others do to the tables.                                       *)
(***************************************************************************)
LEMMA PathInsert ==
  ASSUME NEW q, Shape(q), q.op \in Moving,
         NEW t \in DepartmentTables, ParentKey(t), NEW I, DOMAIN t \subseteq I, q.id \in I,
         NEW c \in DeptId \ I, NEW row, OnPath(q, t, I)
  PROVE  OnPath(q, Put(t, c, row), I \cup {c})
<1> DEFINE u == Put(t, c, row)
<1>1. DOMAIN u = DOMAIN t \cup {c} /\ c \notin DOMAIN t /\ c # Null /\ q.id # c
  BY NullAssumption DEF Put
<1>2. \A d, x : d # c /\ x # c => (x \in Subtree(u, d) <=> x \in Subtree(t, d))
  BY <1>1, SubtreeInsert
<1>3. \A d, x : x \in Subtree(t, d) => d # c /\ x # c
  BY <1>1 DEF Subtree
<1> HIDE DEF u
<1>4. Walked(q, u)
  BY <1>1, <1>2, <1>3 DEF OnPath, Walked
<1>5. Cleared(q, u)
  BY <1>1, <1>2, <1>3 DEF OnPath, Cleared
<1>6. Placed(q, u, I \cup {c})
  BY <1>1, <1>2, <1>3 DEF OnPath, Placed
<1>7. OnPath(q, u, I \cup {c})
  BY <1>4, <1>5, <1>6 DEF OnPath
<1> QED
  BY <1>7 DEF u

LEMMA PathRemove ==
  ASSUME NEW q, NEW t, NEW D, ClosedBelow(t, D), NEW I, OnPath(q, t, I)
  PROVE  OnPath(q, Remove(t, D), I)
<1> DEFINE u == Remove(t, D)
<1>1. DOMAIN u = DOMAIN t \ D
  BY DEF Remove, Restrict
<1>2. \A d : Subtree(u, d) = IF d \in D THEN {} ELSE Subtree(t, d) \ D
  BY SubtreeRemove
<1> HIDE DEF u
<1>3. ASSUME q.pc = "walk", q.target \in DOMAIN u
      PROVE  q.target \in Subtree(u, q.cur) /\ q.cur \notin D
  <2>1. q.target \in Subtree(t, q.cur) /\ q.target \notin D
    BY <1>1, <1>3 DEF OnPath, Walked
  <2>2. q.cur \notin D
    <3> SUFFICES ASSUME q.cur \in D PROVE q.target \in D
      BY <2>1
    <3> DEFINE S == D \cap DOMAIN t
    <3>1. q.cur \in S /\ S \in SUBSET DOMAIN t /\ ClosedBelow(t, S)
      BY <2>1 DEF Subtree, ClosedBelow
    <3> HIDE DEF S
    <3>2. q.target \in S
      BY <2>1, <3>1 DEF Subtree
    <3> QED
      BY <3>2 DEF S
  <2> QED
    BY <1>2, <2>1, <2>2
<1>4. Walked(q, u)
  <2> SUFFICES ASSUME q.pc = "walk", q.target \in Subtree(u, q.id)
               PROVE  q.cur \in Subtree(u, q.id)
    BY <1>3 DEF Walked
  <2>1. q.target \in DOMAIN u
    BY DEF Subtree
  <2>2. q.cur \notin D
    BY <1>3, <2>1
  <2> QED
    BY <1>2, <2>2 DEF OnPath, Walked
<1>5. Cleared(q, u)
  BY <1>2 DEF OnPath, Cleared
<1>6. Placed(q, u, I)
  BY <1>2 DEF OnPath, Placed
<1>7. OnPath(q, u, I)
  BY <1>4, <1>5, <1>6 DEF OnPath
<1> QED
  BY <1>7 DEF u

\* What a step leaves to show: where r is now, and where the others still are.
OwnPath(r) ==
    /\ request'[r].op \in Moving
        => r \in Movers /\ OnPath(request'[r], departments', issued')
    /\ Known(request'[r], issued')

OthersPath(r) ==
    /\ issued \subseteq issued'
    /\ \A s \in Request \ {r} :
           request[s].op \in Moving => OnPath(request[s], departments', issued')

LEMMA ForestStep ==
  ASSUME Requests, Forest, NEW r \in Request,
         request' = [request EXCEPT ![r] = request'[r]],
         Acyclic(departments'), OwnPath(r), OthersPath(r)
  PROVE  Forest'
<1>1. \A s \in Request \ {r} : request'[s] = request[s]
  BY DEF Requests
<1> QED
  BY <1>1 DEF Forest, OwnPath, OthersPath, Known

LEMMA TablesKept ==
  ASSUME Forest, NEW r \in Request, departments' = departments, issued \subseteq issued'
  PROVE  Acyclic(departments') /\ OthersPath(r)
<1>1. ASSUME NEW q, OnPath(q, departments, issued) PROVE OnPath(q, departments, issued')
  <2>1. Placed(q, departments, issued')
    BY <1>1 DEF OnPath, Placed
  <2> QED
    BY <1>1, <2>1 DEF OnPath
<1> QED
  BY <1>1 DEF Forest, OthersPath

\* A request that only ends, or is no move, is on no path.
LEMMA EndedPath ==
  ASSUME Requests, NEW r \in Request,
         Committed(r) \/ \E reply \in Replies : Answer(r, reply)
  PROVE  /\ request' = [request EXCEPT ![r] = request'[r]]
         /\ request'[r].op = "none"
         /\ OwnPath(r)
<1>1. request' = [request EXCEPT ![r] = request'[r]] /\ request'[r].op = "none"
  BY DEF Committed, Answer, Requests, Idle
<1> QED
  BY <1>1 DEF OwnPath, Moving, Known

LEMMA ProceedFields ==
  ASSUME Requests, NEW r \in Request, NEW pc, NEW op, NEW id, NEW target, NEW row,
         Proceed(r, pc, op, id, target, row)
  PROVE  /\ request' = [request EXCEPT ![r] = request'[r]]
         /\ request'[r].pc = pc /\ request'[r].op = op /\ request'[r].id = id
         /\ request'[r].target = target /\ request'[r].row = row
         /\ request'[r].reply = "none"
  BY DEF Proceed, Requests, Idle

-----------------------------------------------------------------------------
(***************************************************************************)
(* The arrival of a move.                                                  *)
(***************************************************************************)
LEMMA PatchDepartmentPath ==
  ASSUME IInv, Forest, NEW r \in Movers, r \in Request,
         NEW id \in DeptId, NEW text, NEW target \in DeptId \cup {Null, Absent} \cup BadId,
         PatchDepartment(r, id, text, target)
  PROVE  OwnPath(r)
<1>1. Requests /\ Tables /\ Issued /\ departments' = departments /\ issued' = issued
  BY DEF IInv, PatchDepartment, Arriving, tables
<1>2. CASE Answer(r, "invalid") \/ Answer(r, "not_found")
  BY <1>1, <1>2, EndedPath DEF Replies
<1> DEFINE old == departments[id]
           name == IF text = Absent THEN old.name ELSE text
           n == request'[r]
<1>3. CASE target # id /\ Proceed(r, "target", "patchDept", id, target, [old EXCEPT !.name = name])
  <2>1. /\ n.pc = "target" /\ n.op = "patchDept" /\ n.target = target /\ n.id = id
        /\ n.reply = "none"
    BY <1>1, <1>3, ProceedFields
  <2> QED
    BY <1>3, <2>1 DEF OwnPath, OnPath, Walked, Cleared, Placed, Known
<1>4. CASE Proceed(r, "unique", "patchDept", id, Null, [name |-> name, parent |-> Null])
  <2>1. n.pc = "unique" /\ n.op = "patchDept" /\ n.row.parent = Null /\ n.id = id
    BY <1>1, <1>4, ProceedFields
  <2>2. Null \notin Subtree(departments, id)
    BY <1>1, NullAssumption, SubtreeClosed, DepartmentRow
  <2> QED
    BY <1>1, <2>1, <2>2, NullAssumption DEF OwnPath, OnPath, Walked, Cleared, Placed, Known
<1>5. CASE /\ id \in DOMAIN departments
           /\ Proceed(r, "unique", "patchDept", id, Absent, [old EXCEPT !.name = name])
  <2>1. n.pc = "unique" /\ n.op = "patchDept" /\ n.id = id /\ n.row = [old EXCEPT !.name = name]
    BY <1>1, <1>5, ProceedFields
  <2>2. n.row.parent = old.parent /\ old.parent \in DOMAIN departments \cup {Null}
    BY <1>1, <1>5, <2>1, DepartmentRow DEF Department
  <2>3. old.parent \notin Subtree(departments, id) /\ id \in Subtree(departments, id)
    BY <1>5, AcyclicParent, SubtreeClosed DEF Forest
  <2> QED
    BY <1>1, <2>1, <2>2, <2>3 DEF OwnPath, OnPath, Walked, Cleared, Placed, Known, Issued
<1> QED
  BY <1>2, <1>3, <1>4, <1>5 DEF PatchDepartment

LEMMA DeleteDepartmentPath ==
  ASSUME Requests, NEW r \in Request, NEW id, NEW mode, NEW target,
         mode = "reassign" => r \in Movers,
         DeleteDepartment(r, id, mode, target)
  PROVE  OwnPath(r)
<1> DEFINE n == request'[r]
<1>1. CASE Answer(r, "invalid") \/ Answer(r, "not_found")
  BY <1>1, EndedPath DEF Replies
<1>2. CASE Proceed(r, "write", "cascade", id, Null, Null)
  <2>1. n.op = "cascade"
    BY <1>2, ProceedFields
  <2> QED
    BY <2>1 DEF OwnPath, Moving, Known
<1>3. CASE /\ mode = "reassign" /\ target # id
           /\ Proceed(r, "target", "reassign", id, target, Null)
  <2>1. n.pc = "target" /\ n.target = target /\ n.id = id /\ n.reply = "none" /\ n.op = "reassign"
    BY <1>3, ProceedFields
  <2> QED
    BY <1>3, <2>1 DEF OwnPath, OnPath, Walked, Cleared, Placed, Known
<1> QED
  BY <1>1, <1>2, <1>3 DEF DeleteDepartment

LEMMA OtherArrivalPath ==
  ASSUME Requests, Issued, NEW r \in Request, NEW id, NEW text, NEW target,
         \/ CreateDepartment(r, text, target)
         \/ CreateEmployee(r, text, target)
         \/ PatchEmployee(r, id, text, target)
         \/ DeleteEmployee(r, id)
  PROVE  OwnPath(r)
<1>1. CASE \E reply \in Replies : Answer(r, reply)
  BY <1>1, EndedPath
<1>2. ASSUME NEW pc, NEW op, op \notin Moving, NEW i, NEW to, NEW row,
             Proceed(r, pc, op, i, to, row),
             op = "createDept" => row.parent \in issued' \cup {Null}
      PROVE  OwnPath(r)
  BY <1>2, ProceedFields DEF OwnPath, Known
<1>3. CASE CreateDepartment(r, text, target)
  <2> DEFINE row == [name |-> text, parent |-> target]
  <2>1. CASE /\ target \in DOMAIN departments \cup {Null}
             /\ Proceed(r, "unique", "createDept", Null, Null, row)
    <3>1. row.parent \in issued' \cup {Null}
      BY <1>3, <2>1 DEF CreateDepartment, Arriving, Issued
    <3> HIDE DEF row
    <3> QED
      BY <1>2, <2>1, <3>1 DEF Moving
  <2> QED
    BY <1>1, <1>3, <2>1 DEF CreateDepartment, Replies
<1>4. CASE CreateEmployee(r, text, target)
  BY <1>1, <1>2, <1>4 DEF CreateEmployee, Moving, Replies
<1>5. CASE PatchEmployee(r, id, text, target)
  BY <1>1, <1>2, <1>5 DEF PatchEmployee, Moving, Replies
<1>6. CASE DeleteEmployee(r, id)
  BY <1>1, <1>2, <1>6 DEF DeleteEmployee, Moving, Replies
<1> QED
  BY <1>3, <1>4, <1>5, <1>6

LEMMA ArriveForest ==
  ASSUME IInv, Forest, NEW r \in Request, Arrive(r)
  PROVE  Forest'
<1>1. Quiet(r) /\ UNCHANGED <<tables, issued>> /\ Requests /\ Issued
  BY ArriveQuiet DEF IInv
<1>2. OwnPath(r)
  BY <1>1, PatchDepartmentPath, DeleteDepartmentPath, OtherArrivalPath DEF Arrive
<1>3. Acyclic(departments') /\ OthersPath(r)
  BY <1>1, TablesKept DEF tables
<1> QED
  BY <1>1, <1>2, <1>3, ForestStep DEF Quiet

-----------------------------------------------------------------------------
(***************************************************************************)
(* The reads.                                                              *)
(***************************************************************************)
\* What Continue with cur, kids and staff leaves of the request.
LEMMA ContinueFields ==
  ASSUME Requests, NEW r \in Request, NEW q \in RequestRecord, NEW pc, Continue(r, q, pc)
  PROVE  /\ request' = [request EXCEPT ![r] = request'[r]]
         /\ request'[r].pc = pc /\ request'[r].op = q.op /\ request'[r].id = q.id
         /\ request'[r].target = q.target /\ request'[r].row = q.row
         /\ request'[r].cur = q.cur /\ request'[r].reply = q.reply
  BY DEF Continue, Requests, RequestRecord

LEMMA LoadTargetPath ==
  ASSUME IInv, Forest, NEW r \in Request, LoadTarget(r)
  PROVE  OwnPath(r)
<1> DEFINE q == request[r]
           n == request'[r]
<1>1. /\ Requests /\ Tables /\ Issued /\ q.pc = "target" /\ q \in RequestRecord
      /\ departments' = departments /\ issued' = issued
  BY DEF IInv, Requests, LoadTarget, Reading, tables
<1>2. CASE Answer(r, "not_found") \/ Answer(r, "invalid")
  BY <1>1, <1>2, EndedPath DEF Replies
<1>3. CASE /\ q.target \in DOMAIN departments
           /\ q.op \in Moving
           /\ Continue(r, [q EXCEPT !.cur = q.target], "walk")
  <2> DEFINE p == [q EXCEPT !.cur = q.target]
  <2>1. q.target \in DeptId
    BY <1>1, <1>3, DepartmentRow
  <2>2. /\ p \in RequestRecord /\ p.op = q.op /\ p.id = q.id /\ p.target = q.target
        /\ p.cur = q.target /\ p.reply = q.reply
        /\ Continue(r, p, "walk")
    BY <1>1, <1>3, <2>1 DEF RequestRecord
  <2> HIDE DEF p
  <2>3. /\ n.pc = "walk" /\ n.op = q.op /\ n.id = q.id /\ n.target = q.target
        /\ n.cur = q.target /\ n.reply = q.reply
    BY <1>1, <2>2, ContinueFields
  <2>4. r \in Movers /\ q.target # q.id /\ q.reply = "none" /\ q.target \in issued
    BY <1>1, <1>3 DEF Forest, OnPath, Issued
  <2>5. q.target \in Subtree(departments, q.target)
    BY <1>3, SubtreeClosed
  <2> HIDE DEF q, n
  <2>6. OnPath(n, departments, issued)
    BY <2>3, <2>4, <2>5 DEF OnPath, Walked, Cleared, Placed
  <2>7. Known(n, issued)
    BY <1>3, <2>3 DEF Known, Moving
  <2> QED
    BY <1>1, <2>4, <2>6, <2>7 DEF OwnPath, n
<1>4. CASE /\ q.op = "patchEmp"
           /\ Proceed(r, "write", q.op, q.id, Null, [q.row EXCEPT !.dept = q.target])
  <2>1. n.op = "patchEmp"
    BY <1>1, <1>4, ProceedFields
  <2> QED
    BY <2>1 DEF OwnPath, Moving, Known
<1> QED
  BY <1>2, <1>3, <1>4 DEF LoadTarget, Moving

LEMMA WouldCreateCyclePath ==
  ASSUME IInv, Forest, NEW r \in Request, WouldCreateCycle(r)
  PROVE  OwnPath(r)
<1> DEFINE q == request[r]
           n == request'[r]
           above == departments[q.cur].parent
<1>1. /\ Requests /\ Tables /\ Issued /\ q.pc = "walk" /\ q \in RequestRecord
      /\ departments' = departments /\ issued' = issued
      /\ Shape(q)
  BY DEF IInv, Requests, WouldCreateCycle, Reading, tables
<1>2. /\ q.op \in Moving
      /\ r \in Movers
      /\ q.target # q.id /\ q.reply = "none" /\ q.target \in issued
      /\ q.target \in DOMAIN departments => q.target \in Subtree(departments, q.cur)
      /\ q.target \in Subtree(departments, q.id) => q.cur \in Subtree(departments, q.id)
  BY <1>1 DEF Shape, Moving, Forest, OnPath, Walked
<1>3. CASE Answer(r, "cycle") \/ Answer(r, "internal")
  BY <1>1, <1>3, EndedPath DEF Replies
<1>4. CASE /\ q.cur # q.id /\ q.cur \in DOMAIN departments /\ above # Null
           /\ Continue(r, [q EXCEPT !.cur = above], "walk")
  <2> DEFINE p == [q EXCEPT !.cur = above]
  <2>1. above \in DOMAIN departments /\ above \in DeptId
    BY <1>1, <1>4, DepartmentRow
  <2>2. q.target \in DOMAIN departments => q.target \in Subtree(departments, above)
    BY <1>2, <1>4, <2>1, SubtreeOfParent
  <2>3. q.target \in Subtree(departments, q.id) => above \in Subtree(departments, q.id)
    BY <1>2, <1>4, SubtreeUp
  <2> HIDE DEF above
  <2>4. /\ p \in RequestRecord /\ p.op = q.op /\ p.id = q.id /\ p.target = q.target
        /\ p.cur = above /\ p.reply = q.reply
        /\ Continue(r, p, "walk")
    BY <1>1, <1>4, <2>1 DEF RequestRecord
  <2> HIDE DEF p
  <2>5. /\ n.pc = "walk" /\ n.op = q.op /\ n.id = q.id /\ n.target = q.target
        /\ n.cur = above /\ n.reply = q.reply
    BY <1>1, <2>4, ContinueFields
  <2> HIDE DEF q, n
  <2>6. OnPath(n, departments, issued)
    BY <1>2, <2>2, <2>3, <2>5 DEF OnPath, Walked, Cleared, Placed
  <2>7. Known(n, issued)
    BY <1>2, <2>5 DEF Known, Moving
  <2> QED
    BY <1>1, <1>2, <2>6, <2>7 DEF OwnPath, n
<1>5. CASE /\ q.cur # q.id /\ q.cur \in DOMAIN departments /\ above = Null
           /\ \/ q.op = "reassign" /\ Continue(r, [q EXCEPT !.cur = Null], "children")
              \/ /\ q.op = "patchDept"
                 /\ Proceed(r, "unique", q.op, q.id, Null, [q.row EXCEPT !.parent = q.target])
  <2>1. q.target \notin Subtree(departments, q.id)
    <3> SUFFICES ASSUME q.target \in Subtree(departments, q.id) PROVE FALSE
      OBVIOUS
    <3>1. above \in Subtree(departments, q.id)
      BY <1>2, <1>5, SubtreeUp
    <3>2. Subtree(departments, q.id) \subseteq DeptId
      BY <1>1, SubtreeClosed, DepartmentRow
    <3> QED
      BY <1>5, <3>1, <3>2, NullAssumption
  <2>2. CASE q.op = "reassign" /\ Continue(r, [q EXCEPT !.cur = Null], "children")
    <3> DEFINE p == [q EXCEPT !.cur = Null]
    <3>1. /\ p \in RequestRecord /\ p.op = q.op /\ p.id = q.id /\ p.target = q.target
          /\ Continue(r, p, "children")
      BY <1>1, <2>2 DEF RequestRecord
    <3> HIDE DEF p
    <3>2. n.pc = "children" /\ n.op = q.op /\ n.id = q.id /\ n.target = q.target
      BY <1>1, <3>1, ContinueFields
    <3> HIDE DEF q, n
    <3>3. OnPath(n, departments, issued)
      BY <1>2, <2>1, <3>2 DEF OnPath, Walked, Cleared, Placed
    <3>4. Known(n, issued)
      BY <1>2, <3>2 DEF Known, Moving
    <3> QED
      BY <1>1, <1>2, <3>3, <3>4 DEF OwnPath, n
  <2>3. CASE /\ q.op = "patchDept"
             /\ Proceed(r, "unique", q.op, q.id, Null, [q.row EXCEPT !.parent = q.target])
    <3> DEFINE row == [q.row EXCEPT !.parent = q.target]
    <3>1. row.parent = q.target
      <4>1. q.row \in Department
        BY <1>1, <2>3 DEF Shape
      <4> QED
        BY <4>1 DEF Department
    <3> HIDE DEF row
    <3>2. n.pc = "unique" /\ n.op = q.op /\ n.id = q.id /\ n.row = row
      BY <1>1, <2>3, ProceedFields DEF row
    <3> HIDE DEF q, n
    <3>3. OnPath(n, departments, issued)
      BY <1>2, <2>1, <3>1, <3>2 DEF OnPath, Walked, Cleared, Placed
    <3>4. Known(n, issued)
      BY <1>2, <3>2 DEF Known, Moving
    <3> QED
      BY <1>1, <1>2, <3>3, <3>4 DEF OwnPath, n
  <2> QED
    BY <1>5, <2>2, <2>3
<1> QED
  BY <1>3, <1>4, <1>5 DEF WouldCreateCycle, Above

LEMMA CheckNamePath ==
  ASSUME IInv, Forest, NEW r \in Request, CheckName(r)
  PROVE  OwnPath(r)
<1> DEFINE q == request[r]
           n == request'[r]
<1>1. /\ Requests /\ q.pc = "unique" /\ q \in RequestRecord
      /\ departments' = departments /\ issued' = issued
  BY DEF IInv, Requests, CheckName, Reading, tables
<1>2. CASE Answer(r, "conflict")
  BY <1>1, <1>2, EndedPath DEF Replies
<1>3. CASE Continue(r, q, "write")
  <2>1. n.pc = "write" /\ n.op = q.op /\ n.id = q.id /\ n.row = q.row
    BY <1>1, <1>3, ContinueFields
  <2>2. /\ q.op \in Moving => r \in Movers /\ Placed(q, departments, issued)
        /\ Known(q, issued)
    BY DEF Forest, OnPath
  <2> HIDE DEF q, n
  <2>3. q.op \in Moving => OnPath(n, departments, issued)
    BY <1>1, <2>1, <2>2 DEF OnPath, Walked, Cleared, Placed
  <2>4. Known(n, issued)
    BY <2>1, <2>2 DEF Known
  <2> QED
    BY <1>1, <2>1, <2>2, <2>3, <2>4 DEF OwnPath, n
<1> QED
  BY <1>2, <1>3 DEF CheckName

LEMMA ReadForest ==
  ASSUME IInv, Forest, NEW r \in Request,
         Read(r) \/ DeadlockVictim(r) \/ StatementFails(r) \/ Bump(r)
  PROVE  Forest'
<1>1. Quiet(r) /\ UNCHANGED <<tables, issued>> /\ Requests
  BY ReadQuiet, EndQuiet DEF IInv
<1>2. OwnPath(r)
  <2>1. CASE Read(r)
    BY <2>1, LoadTargetPath, WouldCreateCyclePath, CheckNamePath DEF Read
  <2>2. CASE DeadlockVictim(r) \/ StatementFails(r) \/ Bump(r)
    BY <1>1, <2>2, EndedPath DEF DeadlockVictim, StatementFails, Bump, Replies
  <2> QED
    BY <2>1, <2>2
<1>3. Acyclic(departments') /\ OthersPath(r)
  BY <1>1, TablesKept DEF tables
<1> QED
  BY <1>1, <1>2, <1>3, ForestStep DEF Quiet

-----------------------------------------------------------------------------
(***************************************************************************)
(* The writes.                                                             *)
(***************************************************************************)
LEMMA InsertDepartmentForest ==
  ASSUME IInv, Forest, NEW r \in Request, InsertDepartment(r)
  PROVE  Forest'
<1> DEFINE row == request[r].row
           t == departments
<1>1. Requests /\ Tables /\ Issued
  BY DEF IInv
<1>2. PICK c \in DeptId \ issued :
          issued' = issued \cup {c} /\ WriteDepartments(r, Put(t, c, row))
  BY DEF InsertDepartment
<1>3. /\ request' = [request EXCEPT ![r] = request'[r]]
      /\ OwnPath(r)
  BY <1>1, <1>2, EndedPath DEF WriteDepartments, Replies
<1>4. CASE departments' = t
  BY <1>1, <1>2, <1>3, <1>4, TablesKept, ForestStep
<1>5. CASE departments' = Put(t, c, row)
  <2>1. c \notin DOMAIN t /\ c # Null
    BY <1>1, NullAssumption DEF Issued
  <2>2. row.parent # c
    BY <2>1 DEF InsertDepartment, Writing, Forest, Known
  <2>3. Acyclic(departments')
    BY <1>1, <1>5, <2>1, <2>2, AcyclicInsert DEF Forest, Tables
  <2>4. ASSUME NEW s \in Request \ {r}, request[s].op \in Moving
        PROVE  OnPath(request[s], departments', issued')
    <3> DEFINE q == request[s]
    <3>1. Shape(q) /\ q.op \in Moving /\ OnPath(q, t, issued)
      BY <1>1, <2>4 DEF Requests, Forest
    <3>2. q.id \in issued
      BY <1>1, <3>1, NullAssumption DEF Issued, Shape, Moving
    <3>3. t \in DepartmentTables /\ ParentKey(t) /\ DOMAIN t \subseteq issued
      BY <1>1 DEF Tables, Issued
    <3> HIDE DEF q, row, t
    <3>4. OnPath(q, Put(t, c, row), issued \cup {c})
      BY <3>1, <3>2, <3>3, PathInsert
    <3> QED
      BY <1>2, <1>5, <3>4 DEF q
  <2>5. OthersPath(r)
    BY <1>2, <2>4 DEF OthersPath
  <2> QED
    BY <1>1, <1>3, <2>3, <2>5, ForestStep
<1> QED
  BY <1>2, <1>4, <1>5 DEF WriteDepartments, tables

\* Nobody else is on a path while r moves something.
LEMMA AlonePath ==
  ASSUME MovesApart, Forest, NEW r \in Request, request[r].op \in Moving, issued' = issued
  PROVE  OthersPath(r)
  BY DEF MovesApart, Forest, OthersPath

LEMMA SaveDepartmentForest ==
  ASSUME MovesApart, IInv, Forest, NEW r \in Request, SaveDepartment(r)
  PROVE  Forest'
<1> DEFINE q == request[r]
           t == departments
           D == Subtree(t, q.id)
           u == Put(t, q.id, q.row)
<1>1. Requests /\ Tables /\ Issued
  BY DEF IInv
<1>2. /\ q.op = "patchDept" /\ q.pc = "write" /\ issued' = issued
      /\ WriteDepartments(r, u)
  BY DEF SaveDepartment, Writing
<1>3. /\ request' = [request EXCEPT ![r] = request'[r]]
      /\ OwnPath(r)
  BY <1>1, <1>2, EndedPath DEF WriteDepartments, Replies
<1>4. OthersPath(r)
  BY <1>2, AlonePath DEF Moving
<1>5. q.id \in DeptId /\ q.row.parent # q.id /\ q.row.parent \notin D
  BY <1>1, <1>2 DEF Requests, Shape, Forest, OnPath, Placed, Moving
<1>6. Acyclic(u)
  <2>1. CASE q.id \in DOMAIN t
    <3>1. q.id \in D /\ ClosedBelow(t, D)
      BY <2>1, SubtreeClosed
    <3>2. DOMAIN u = DOMAIN t
      BY <2>1 DEF Put
    <3>3. \A x \in DOMAIN u : \/ u[x].parent = t[x].parent
                              \/ x \in D /\ u[x].parent \notin D
      BY <1>5, <3>1 DEF Put
    <3>4. Acyclic(t)
      BY DEF Forest
    <3> HIDE DEF u, D, t
    <3> QED
      BY <3>1, <3>2, <3>3, <3>4, AcyclicMove
  <2>2. CASE q.id \notin DOMAIN t
    BY <1>1, <1>5, <2>2, NullAssumption, AcyclicInsert DEF Forest, Tables
  <2> QED
    BY <2>1, <2>2
<1>7. departments' = t \/ departments' = u
  BY <1>2 DEF WriteDepartments, tables
<1>8. Acyclic(departments')
  BY <1>6, <1>7 DEF Forest
<1> QED
  BY <1>1, <1>3, <1>4, <1>8, ForestStep

LEMMA DeleteDepartmentRowForest ==
  ASSUME IInv, Forest, NEW r \in Request, DeleteDepartmentRow(r)
  PROVE  Forest'
<1> DEFINE t == departments
           gone == Subtree(t, request[r].id)
           u == Remove(t, gone)
<1>1. Requests /\ departments' = u /\ issued' = issued /\ Committed(r)
  BY DEF IInv, DeleteDepartmentRow
<1>2. /\ request' = [request EXCEPT ![r] = request'[r]]
      /\ OwnPath(r)
  BY <1>1, EndedPath
<1>3. ClosedBelow(t, gone)
  BY SubtreeClosed
<1> HIDE DEF gone
<1>4. Acyclic(u)
  <2>1. DOMAIN u \subseteq DOMAIN t /\ \A x \in DOMAIN u : u[x].parent = t[x].parent
    BY DEF Remove, Restrict
  <2> HIDE DEF u
  <2> QED
    BY <1>3, <2>1, AcyclicMove DEF Forest
<1>5. OthersPath(r)
  <2>1. \A s \in Request : request[s].op \in Moving => OnPath(request[s], t, issued)
    BY DEF Forest
  <2>2. \A s \in Request : request[s].op \in Moving => OnPath(request[s], u, issued)
    BY <1>3, <2>1, PathRemove
  <2> QED
    BY <1>1, <2>2 DEF OthersPath
<1> QED
  BY <1>1, <1>2, <1>4, <1>5, ForestStep

LEMMA EmployeeWriteForest ==
  ASSUME IInv, Forest, NEW r \in Request,
         InsertEmployee(r) \/ SaveEmployee(r) \/ DeleteEmployeeRow(r)
  PROVE  Forest'
<1>1. Requests /\ departments' = departments /\ issued \subseteq issued'
  BY DEF IInv, InsertEmployee, SaveEmployee, DeleteEmployeeRow, WriteEmployees, tables
<1>2. Committed(r) \/ \E reply \in Replies : Answer(r, reply)
  BY DEF InsertEmployee, SaveEmployee, DeleteEmployeeRow, WriteEmployees, Replies
<1>3. request' = [request EXCEPT ![r] = request'[r]] /\ OwnPath(r)
  BY <1>1, <1>2, EndedPath
<1> QED
  BY <1>1, <1>3, TablesKept, ForestStep

LEMMA TransactionForest ==
  ASSUME IInv, Forest, NEW r \in Request, MoveChildren(r) \/ MoveStaff(r)
  PROVE  Forest'
<1> DEFINE q == request[r]
           n == request'[r]
           kids == Children(departments, q.id)
           staff == Staff(employees, {q.id})
<1>1. /\ Requests /\ Tables /\ Shape(q) /\ q \in RequestRecord
      /\ departments' = departments /\ issued' = issued
      /\ q.pc \in {"children", "staff"}
  BY DEF IInv, Requests, MoveChildren, MoveStaff, tables
<1>2. Acyclic(departments') /\ OthersPath(r)
  BY <1>1, TablesKept
<1>3. CASE Answer(r, "conflict") \/ Answer(r, "internal")
  BY <1>1, <1>2, <1>3, EndedPath, ForestStep DEF Replies
<1>4. ASSUME NEW p \in RequestRecord, NEW pc \in {"staff", "drop"}, Continue(r, p, pc),
             p.op = q.op, p.id = q.id, p.target = q.target
      PROVE  Forest'
  <2>1. /\ request' = [request EXCEPT ![r] = n]
        /\ n.pc = pc /\ n.op = q.op /\ n.id = q.id /\ n.target = q.target
    BY <1>1, <1>4, ContinueFields
  <2>2. /\ q.op = "reassign" /\ r \in Movers /\ q.target \in issued
        /\ q.target \notin Subtree(departments, q.id)
    BY <1>1 DEF Shape, Forest, OnPath, Cleared, Moving
  <2> HIDE DEF q, n
  <2>3. OnPath(n, departments, issued)
    BY <2>1, <2>2 DEF OnPath, Walked, Cleared, Placed
  <2>4. Known(n, issued)
    BY <2>1, <2>2 DEF Known
  <2>5. OwnPath(r)
    BY <1>1, <2>2, <2>3, <2>4 DEF OwnPath, n
  <2> QED
    BY <1>1, <1>2, <2>1, <2>5, ForestStep DEF n
<1>5. CASE Continue(r, [q EXCEPT !.kids = kids], "staff")
  <2> DEFINE p == [q EXCEPT !.kids = kids]
  <2>1. kids \subseteq DeptId
    BY <1>1, DepartmentRow DEF Children
  <2>2. /\ p \in RequestRecord /\ p.op = q.op /\ p.id = q.id /\ p.target = q.target
        /\ Continue(r, p, "staff")
    BY <1>1, <1>5, <2>1 DEF RequestRecord
  <2> HIDE DEF p
  <2> QED
    BY <1>4, <2>2
<1>6. CASE Continue(r, [q EXCEPT !.staff = staff], "drop")
  <2> DEFINE p == [q EXCEPT !.staff = staff]
  <2>1. staff \subseteq EmpId
    BY <1>1, EmployeeRow DEF Staff
  <2>2. /\ p \in RequestRecord /\ p.op = q.op /\ p.id = q.id /\ p.target = q.target
        /\ Continue(r, p, "drop")
    BY <1>1, <1>6, <2>1 DEF RequestRecord
  <2> HIDE DEF p
  <2> QED
    BY <1>4, <2>2
<1> QED
  BY <1>3, <1>5, <1>6 DEF MoveChildren, MoveStaff

LEMMA DropAndCommitForest ==
  ASSUME MovesApart, IInv, Forest, NEW r \in Request, DropAndCommit(r)
  PROVE  Forest'
<1> DEFINE q == request[r]
           t == departments
           D == Subtree(t, q.id)
           m == Reparent(t, q.kids, q.target)
           u == Remove(m, Dropped(q))
<1>1. /\ Requests /\ Tables /\ q.pc = "drop" /\ q.op = "reassign" /\ q.target \in DeptId
      /\ departments' = u /\ issued' = issued /\ Committed(r)
  BY DEF IInv, DropAndCommit, Requests, Shape
<1>2. request' = [request EXCEPT ![r] = request'[r]] /\ OwnPath(r)
  BY <1>1, EndedPath
<1>3. OthersPath(r)
  BY <1>1, AlonePath DEF Moving
<1>4. /\ DOMAIN m = DOMAIN t
      /\ \A x \in DOMAIN t : m[x].parent = IF x \in q.kids THEN q.target ELSE t[x].parent
  BY <1>1, ReparentRows DEF Tables
<1>5. ASSUME NEW x \in q.kids PROVE x \in D
  <2>1. x \in DOMAIN t /\ t[x].parent = q.id
    BY <1>1 DEF IInv, PendingReassignSound, Children
  <2>2. q.id \in DOMAIN t
    <3>1. q.id \in DeptId
      BY <1>1 DEF Requests, Shape
    <3> QED
      BY <1>1, <2>1, <3>1, NullAssumption DEF Tables, ParentKey
  <2> QED
    BY <2>1, <2>2, SubtreeClosed DEF ClosedBelow
<1>6. q.target \notin D
  BY <1>1 DEF Forest, OnPath, Cleared, Moving
<1>7. DOMAIN u \subseteq DOMAIN m /\ \A x \in DOMAIN u : u[x] = m[x]
  BY DEF Remove, Restrict
<1>8. ClosedBelow(t, D) /\ Acyclic(t)
  BY SubtreeClosed DEF Forest
<1> HIDE DEF u, m, D
<1>9. \A x \in DOMAIN u : \/ u[x].parent = t[x].parent
                          \/ x \in D /\ u[x].parent \notin D
  BY <1>4, <1>5, <1>6, <1>7
<1>10. Acyclic(u)
  BY <1>4, <1>7, <1>8, <1>9, AcyclicMove
<1> QED
  BY <1>1, <1>2, <1>3, <1>10, ForestStep

-----------------------------------------------------------------------------
(***************************************************************************)
(* The theorems.                                                           *)
(***************************************************************************)
LEMMA InitForest ==
  ASSUME Init
  PROVE  Forest
<1>1. Acyclic(departments)
  BY DEF Init, Abstract!Init, Abstract!Acyclic, Acyclic
<1>2. \A r \in Request : request[r].op = "none"
  BY DEF Init, Idle
<1> QED
  BY <1>1, <1>2 DEF Forest, Moving, Known

LEMMA StepForest ==
  ASSUME MovesApart, IInv, Forest, [Next]_vars
  PROVE  Forest'
<1>1. CASE UNCHANGED vars
  BY <1>1 DEF Forest, vars
<1>2. ASSUME NEW r \in Request, Write(r)
      PROVE  Forest'
  BY <1>2, InsertDepartmentForest, SaveDepartmentForest, DeleteDepartmentRowForest,
     EmployeeWriteForest, TransactionForest, DropAndCommitForest DEF Write
<1> QED
  BY <1>1, <1>2, ArriveForest, ReadForest DEF Next

\* If moves and reassignments do not overlap, the separate reads of
\* WouldCreateCycle are enough to keep the hierarchy a forest, whatever creates,
\* cascades and failures interleave with them.
THEOREM HierarchyAcyclic == Spec /\ []MovesApart => []AcyclicHierarchy
<1>1. Init => IInv /\ Forest
  BY InitIInv, InitForest
<1>2. IInv /\ Forest /\ MovesApart /\ [Next]_vars => IInv' /\ Forest'
  BY StepIInv, StepForest
<1>3. Forest => AcyclicHierarchy
  BY DEF Forest, AcyclicHierarchy, Abstract!AcyclicHierarchy, Abstract!Acyclic, Acyclic
<1> QED
  BY <1>1, <1>2, <1>3, PTL DEF Spec

\* It is enough that only one slot is given the requests that move departments.
THEOREM OneMoverMovesApart == OneMover /\ Spec => []MovesApart
<1> SUFFICES ASSUME OneMover PROVE Spec => []MovesApart
  OBVIOUS
<1>1. Init => IInv /\ Forest
  BY InitIInv, InitForest
<1>2. Forest => MovesApart
  BY DEF Forest, OneMover, MovesApart
<1>3. IInv /\ Forest /\ [Next]_vars => IInv' /\ Forest'
  BY <1>2, StepIInv, StepForest
<1> QED
  BY <1>1, <1>2, <1>3, PTL DEF Spec

\* If moves do not overlap, one is refused as a cycle only for a target that is
\* below the department, or that a cascade has taken away during the walk.
THEOREM HierarchyRefusals == Spec /\ []MovesApart => CycleRefusalJustified
<1> DEFINE Justified ==
        \A r \in Request :
            request[r].pc = "walk" /\ request'[r].reply = "cycle"
            => request[r].target \in Subtree(departments, request[r].id)
                                     \cup (DeptId \ DOMAIN departments)
<1>1. Init => IInv /\ Forest
  BY InitIInv, InitForest
<1>2. IInv /\ Forest /\ MovesApart /\ [Next]_vars => IInv' /\ Forest'
  BY StepIInv, StepForest
<1>3. IInv /\ Forest /\ [Next]_vars => [Justified]_vars
  <2> SUFFICES ASSUME IInv, Forest, Next,
                      NEW r \in Request, request[r].pc = "walk", request'[r].reply = "cycle"
               PROVE  request[r].target \in Subtree(departments, request[r].id)
                                            \cup (DeptId \ DOMAIN departments)
    BY DEF Justified
  <2> DEFINE q == request[r]
  <2>1. /\ q.op \in Moving /\ q.target \in DeptId /\ q.reply = "none"
        /\ q.target \in DOMAIN departments => q.target \in Subtree(departments, q.cur)
    BY DEF IInv, Requests, Shape, Moving, Forest, OnPath, Walked
  <2>2. q.cur = q.id
    <3>1. PICK s \in Request :
              \/ Arrive(s) \/ Read(s) \/ Write(s)
              \/ DeadlockVictim(s) \/ StatementFails(s) \/ Bump(s)
      BY DEF Next
    <3>2. s = r
      BY <2>1, <3>1, OneAtATime DEF IInv
    <3>3. request \in [Request -> RequestRecord]
      BY DEF IInv, Requests
    <3>4. ASSUME NEW reply, reply # "cycle" PROVE ~Answer(r, reply)
      BY <3>3, <3>4 DEF Answer, Idle
    <3>5. WouldCreateCycle(r)
      <4>1. ~Arrive(r)
        BY DEF Arrive, Arriving, CreateDepartment, PatchDepartment, DeleteDepartment,
               CreateEmployee, PatchEmployee, DeleteEmployee
      <4>2. ~Write(r)
        BY DEF Write, Writing, InsertDepartment, SaveDepartment, DeleteDepartmentRow,
               InsertEmployee, SaveEmployee, DeleteEmployeeRow,
               MoveChildren, MoveStaff, DropAndCommit
      <4>3. ~(DeadlockVictim(r) \/ StatementFails(r) \/ Bump(r))
        BY <3>4 DEF DeadlockVictim, StatementFails, Bump
      <4>4. ~LoadTarget(r) /\ ~CheckName(r)
        BY DEF LoadTarget, CheckName, Reading
      <4> QED
        BY <3>1, <3>2, <4>1, <4>2, <4>3, <4>4 DEF Read
    <3>6. ASSUME NEW cur \in DeptId \cup {Null}, NEW pc
          PROVE  ~Continue(r, [q EXCEPT !.cur = cur], pc)
      <4> DEFINE p == [q EXCEPT !.cur = cur]
      <4>1. p \in RequestRecord /\ p.reply = "none"
        BY <2>1, <3>3 DEF RequestRecord
      <4> HIDE DEF p
      <4>2. ~Continue(r, p, pc)
        <5> SUFFICES ASSUME Continue(r, p, pc) PROVE FALSE
          OBVIOUS
        <5>1. request'[r].reply = "none"
          BY <4>1, ContinueFields DEF IInv
        <5> QED
          BY <5>1
      <4> QED
        BY <4>2 DEF p
    <3>7. ASSUME NEW pc, NEW op, NEW id, NEW target, NEW row
          PROVE  ~Proceed(r, pc, op, id, target, row)
      BY ProceedFields DEF IInv
    <3>8. q.cur \in DOMAIN departments => departments[q.cur].parent \in DeptId \cup {Null}
      BY DepartmentRow DEF IInv
    <3> QED
      BY <3>4, <3>5, <3>6, <3>7, <3>8 DEF WouldCreateCycle, Above
  <2> QED
    BY <2>1, <2>2
<1> QED
  BY <1>1, <1>2, <1>3, PTL DEF Spec, CycleRefusalJustified

\* The only step that writes the tables and is made at the third statement.
LEMMA WritesAtDrop ==
  ASSUME IInv, NEW r \in Request, request[r].pc = "drop", tables' # tables,
         \/ Arrive(r) \/ Read(r) \/ Write(r)
         \/ DeadlockVictim(r) \/ StatementFails(r) \/ Bump(r)
  PROVE  DropAndCommit(r)
<1>1. Write(r)
  BY ArriveQuiet, ReadQuiet, EndQuiet
<1> QED
  BY <1>1 DEF Write, Writing, InsertDepartment, SaveDepartment, DeleteDepartmentRow,
     InsertEmployee, SaveEmployee, DeleteEmployeeRow, MoveChildren, MoveStaff

\* The target is outside of what the third statement deletes, and so are the
\* children that are below it by then.
LEMMA MovedOut ==
  ASSUME IInv, Forest, NEW r \in Request, request[r].pc = "drop"
  PROVE  LET q == request[r] IN
         /\ q.kids \cap Dropped(q) = {}
         /\ q.target \notin Dropped(q)
<1> DEFINE q == request[r]
           t == departments
           m == Reparent(t, q.kids, q.target)
           D == Subtree(t, q.id)
           V == D \ q.kids
<1>1. /\ Tables /\ q.op = "reassign" /\ q.id \in DeptId /\ q.target \in DeptId
      /\ Acyclic(t) /\ q.target \notin D
      /\ q.kids \subseteq Children(t, q.id)
  BY DEF IInv, Requests, Shape, Forest, OnPath, Cleared, Moving, PendingReassignSound
<1>2. CASE q.id \notin DOMAIN t
  <2>1. Dropped(q) = {}
    BY <1>2 DEF Dropped, Subtree, Reparent
  <2> QED
    BY <2>1
<1>3. CASE q.id \in DOMAIN t
  <2>1. /\ DOMAIN m = DOMAIN t
        /\ \A x \in DOMAIN t : m[x].parent = IF x \in q.kids THEN q.target ELSE t[x].parent
    BY <1>1, ReparentRows DEF Tables
  <2>2. D \subseteq DOMAIN t /\ q.id \in D /\ ClosedBelow(t, D)
    BY <1>3, SubtreeClosed
  <2>3. q.id \notin q.kids
    BY <1>1, <1>3, <2>2, AcyclicParent DEF Children
  <2> HIDE DEF m, D
  <2>4. ClosedBelow(m, V)
    BY <1>1, <2>1, <2>2 DEF ClosedBelow
  <2>5. q.id \in V /\ V \in SUBSET DOMAIN m
    BY <2>1, <2>2, <2>3
  <2>6. Subtree(m, q.id) \subseteq V
    BY <2>4, <2>5 DEF Subtree
  <2>7. Dropped(q) = Subtree(m, q.id)
    BY DEF Dropped, m
  <2> QED
    BY <1>1, <2>6, <2>7
<1> QED
  BY <1>2, <1>3

\* If moves do not overlap, what a reassign has moved is below the target when it
\* has committed, although the target was checked before its transaction began.
THEOREM ReassignMoves == Spec /\ []MovesApart => ReassignKeepsMoved
<1> DEFINE Kept(r) ==
        LET q == request[r] IN
        q.pc = "drop" /\ request'[r] # q /\ tables' # tables =>
            /\ \A k \in q.kids : k \in DOMAIN departments' /\ departments'[k].parent = q.target
            /\ \A e \in q.staff : e \in DOMAIN employees' /\ employees'[e].dept = q.target
<1>1. Init => IInv /\ Forest
  BY InitIInv, InitForest
<1>2. IInv /\ Forest /\ MovesApart /\ [Next]_vars => IInv' /\ Forest'
  BY StepIInv, StepForest
<1>3. IInv /\ Forest /\ [Next]_vars => [\A r \in Request : Kept(r)]_vars
  <2> SUFFICES ASSUME IInv, Forest, NEW s \in Request,
                      \/ Arrive(s) \/ Read(s) \/ Write(s)
                      \/ DeadlockVictim(s) \/ StatementFails(s) \/ Bump(s),
                      NEW r \in Request, request[r].pc = "drop",
                      request'[r] # request[r], tables' # tables
               PROVE  LET q == request[r] IN
                      /\ \A k \in q.kids :
                             k \in DOMAIN departments' /\ departments'[k].parent = q.target
                      /\ \A e \in q.staff :
                             e \in DOMAIN employees' /\ employees'[e].dept = q.target
    BY DEF Next
  <2> DEFINE q == request[r]
             m == Reparent(departments, q.kids, q.target)
             moved == Reassign(employees, q.staff, q.target)
             gone == Dropped(q)
  <2>1. DropAndCommit(r)
    <3>1. s = r
      BY OneAtATime DEF IInv
    <3> QED
      BY <3>1, WritesAtDrop
  <2>2. /\ departments' = Remove(m, gone)
        /\ employees' = CascadeEmployees(moved, gone)
    BY <2>1 DEF DropAndCommit
  <2>3. /\ Tables /\ q.target \in DeptId
        /\ q.kids \subseteq DOMAIN departments /\ q.staff \subseteq DOMAIN employees
    BY DEF IInv, Requests, Shape, PendingReassignSound, Children, Staff
  <2>4. q.kids \cap gone = {} /\ q.target \notin gone
    BY MovedOut
  <2>5. /\ moved \in EmployeeTables /\ DOMAIN moved = DOMAIN employees
        /\ \A e \in q.staff : moved[e].dept = q.target
    BY <2>3, ReassignRows DEF Tables
  <2>6. DOMAIN m = DOMAIN departments /\ \A k \in q.kids : m[k].parent = q.target
    BY <2>3, ReparentRows DEF Tables
  <2> HIDE DEF q, m, moved, gone
  <2>7. \A k \in q.kids : k \in DOMAIN departments' /\ departments'[k].parent = q.target
    <3>1. /\ DOMAIN departments' = DOMAIN m \ gone
          /\ \A x \in DOMAIN m \ gone : departments'[x] = m[x]
      BY <2>2 DEF Remove, Restrict
    <3> QED
      BY <2>3, <2>4, <2>6, <3>1
  <2>8. \A e \in q.staff : e \in DOMAIN employees' /\ employees'[e].dept = q.target
    <3>1. /\ DOMAIN employees' = {e \in DOMAIN moved : moved[e].dept \notin gone}
          /\ \A e \in DOMAIN employees' : employees'[e] = moved[e]
      BY <2>2, <2>5, CascadeRows
    <3> QED
      BY <2>3, <2>4, <2>5, <3>1
  <2> QED
    BY <2>7, <2>8 DEF q
<1> HIDE DEF Kept
<1>4. [][\A r \in Request : Kept(r)]_vars => ReassignKeepsMoved
  BY DEF Kept, ReassignKeepsMoved
<1> QED
  BY <1>1, <1>2, <1>3, <1>4, PTL DEF Spec

-----------------------------------------------------------------------------
(***************************************************************************)
(* Requests that overlap without a clash implement OrgStructure: the calls *)
(* before the write leave the tables alone, and the write is the step of   *)
(* the business rules, because what it relies on is steady: the row that a *)
(* patch saves is still there, and a reassignment has moved all the        *)
(* children and employees that there are.                                  *)
(***************************************************************************)
Steady(q) ==
    /\ q.op = "patchDept" => q.id \in DOMAIN departments
    /\ q.op = "patchEmp" => q.id \in DOMAIN employees
    /\ q.pc \in {"staff", "drop"} => q.kids = Children(departments, q.id)
    /\ q.pc = "drop" => q.staff = Staff(employees, {q.id})

LEMMA EndSteady ==
  ASSUME Requests, NEW r \in Request,
         Committed(r) \/ \E reply \in Replies : Answer(r, reply)
  PROVE  Steady(request[r])'
<1>1. request'[r].op = "none" /\ request'[r].pc \in {"idle", "bump"}
  BY DEF Committed, Answer, Requests, Idle
<1> QED
  BY <1>1 DEF Steady

LEMMA ProceedSteady ==
  ASSUME Requests, tables' = tables, NEW r \in Request,
         NEW pc \in {"target", "unique", "write"}, NEW op, NEW id, NEW target, NEW row,
         Proceed(r, pc, op, id, target, row),
         op = "patchDept" => id \in DOMAIN departments,
         op = "patchEmp" => id \in DOMAIN employees
  PROVE  Steady(request[r])'
<1>1. request'[r].pc = pc /\ request'[r].op = op /\ request'[r].id = id
  BY DEF Proceed, Requests, Idle
<1> QED
  BY <1>1 DEF Steady, tables

LEMMA ArriveSteady ==
  ASSUME Requests, NEW r \in Request, Arrive(r)
  PROVE  Steady(request[r])'
<1>1. tables' = tables
  BY DEF Arrive, CreateDepartment, PatchDepartment, DeleteDepartment, CreateEmployee,
         PatchEmployee, DeleteEmployee, Arriving
<1>2. \A reply \in {"not_found", "invalid"} : Answer(r, reply) => Steady(request[r])'
  BY EndSteady DEF Replies
<1>3. ASSUME NEW text, NEW target, CreateDepartment(r, text, target)
      PROVE  Steady(request[r])'
  BY <1>1, <1>2, <1>3, ProceedSteady DEF CreateDepartment
<1>4. ASSUME NEW id, NEW text, NEW target, PatchDepartment(r, id, text, target)
      PROVE  Steady(request[r])'
  BY <1>1, <1>2, <1>4, ProceedSteady DEF PatchDepartment
<1>5. ASSUME NEW id, NEW mode, NEW target, DeleteDepartment(r, id, mode, target)
      PROVE  Steady(request[r])'
  BY <1>1, <1>2, <1>5, ProceedSteady DEF DeleteDepartment
<1>6. ASSUME NEW text, NEW target, CreateEmployee(r, text, target)
      PROVE  Steady(request[r])'
  BY <1>1, <1>2, <1>6, ProceedSteady DEF CreateEmployee
<1>7. ASSUME NEW id, NEW text, NEW target, PatchEmployee(r, id, text, target)
      PROVE  Steady(request[r])'
  BY <1>1, <1>2, <1>7, ProceedSteady DEF PatchEmployee
<1>8. ASSUME NEW id, DeleteEmployee(r, id) PROVE Steady(request[r])'
  BY <1>1, <1>2, <1>8, ProceedSteady DEF DeleteEmployee
<1> QED
  BY <1>3, <1>4, <1>5, <1>6, <1>7, <1>8 DEF Arrive

LEMMA ReadSteady ==
  ASSUME Requests, NEW r \in Request, Steady(request[r]), Read(r)
  PROVE  Steady(request[r])'
<1> DEFINE q == request[r]
<1>1. tables' = tables
  BY DEF Read, LoadTarget, WouldCreateCycle, CheckName, Reading
<1>2. q \in RequestRecord
  BY DEF Requests
<1>3. \A reply \in {"not_found", "conflict", "cycle", "invalid", "internal"} :
          Answer(r, reply) => Steady(request[r])'
  BY EndSteady DEF Replies
<1>4. ASSUME NEW cur, NEW pc \in {"walk", "children"},
             Continue(r, [q EXCEPT !.cur = cur], pc)
      PROVE  Steady(request[r])'
  <2>1. request'[r].pc = pc /\ request'[r].op = q.op /\ request'[r].id = q.id
    BY <1>2, <1>4 DEF Continue, Requests, RequestRecord
  <2> QED
    BY <1>1, <2>1 DEF Steady, tables
<1>5. ASSUME Continue(r, q, "write") PROVE Steady(request[r])'
  <2>1. request'[r].pc = "write" /\ request'[r].op = q.op /\ request'[r].id = q.id
    BY <1>2, <1>5 DEF Continue, Requests, RequestRecord
  <2> QED
    BY <1>1, <2>1 DEF Steady, tables
<1>6. ASSUME NEW pc \in {"unique", "write"}, NEW target, NEW row,
             Proceed(r, pc, q.op, q.id, target, row)
      PROVE  Steady(request[r])'
  <2>1. /\ q.op = "patchDept" => q.id \in DOMAIN departments
        /\ q.op = "patchEmp" => q.id \in DOMAIN employees
    BY DEF Steady
  <2> HIDE DEF q
  <2> QED
    BY <1>1, <1>6, <2>1, ProceedSteady
<1>7. CASE LoadTarget(r)
  BY <1>3, <1>4, <1>6, <1>7 DEF LoadTarget
<1>8. CASE WouldCreateCycle(r)
  BY <1>3, <1>4, <1>6, <1>8 DEF WouldCreateCycle
<1>9. CASE CheckName(r)
  BY <1>3, <1>5, <1>9 DEF CheckName
<1> QED
  BY <1>7, <1>8, <1>9 DEF Read

LEMMA WriteSteady ==
  ASSUME IInv, NEW r \in Request, Steady(request[r]), Write(r)
  PROVE  Steady(request[r])'
<1> DEFINE q == request[r]
<1>1. Requests /\ q \in RequestRecord
  BY DEF IInv, Requests
<1>2. /\ \A reply \in {"conflict", "internal"} : Answer(r, reply) => Steady(request[r])'
      /\ Committed(r) => Steady(request[r])'
  BY <1>1, EndSteady DEF Replies
<1>3. CASE MoveChildren(r)
  <2> DEFINE kids == Children(departments, q.id)
  <2>1. tables' = tables
    BY <1>3 DEF MoveChildren
  <2>2. ASSUME Continue(r, [q EXCEPT !.kids = kids], "staff") PROVE Steady(request[r])'
    <3>1. /\ request'[r].pc = "staff" /\ request'[r].op = q.op /\ request'[r].id = q.id
          /\ request'[r].kids = kids
      BY <1>1, <2>2 DEF Continue, Requests, RequestRecord
    <3> QED
      BY <2>1, <3>1 DEF Steady, tables, Children
  <2> QED
    BY <1>2, <1>3, <2>2 DEF MoveChildren
<1>4. CASE MoveStaff(r)
  <2> DEFINE staff == Staff(employees, {q.id})
  <2>1. tables' = tables /\ q.pc = "staff"
    BY <1>4 DEF MoveStaff
  <2>2. ASSUME Continue(r, [q EXCEPT !.staff = staff], "drop") PROVE Steady(request[r])'
    <3>1. /\ request'[r].pc = "drop" /\ request'[r].op = q.op /\ request'[r].id = q.id
          /\ request'[r].kids = q.kids /\ request'[r].staff = staff
      BY <1>1, <2>2 DEF Continue, Requests, RequestRecord
    <3> QED
      BY <2>1, <3>1 DEF Steady, tables, Children, Staff
  <2> QED
    BY <1>2, <1>4, <2>2 DEF MoveStaff
<1>5. CASE InsertDepartment(r) \/ SaveDepartment(r) \/ InsertEmployee(r) \/ SaveEmployee(r)
  BY <1>2, <1>5 DEF InsertDepartment, SaveDepartment, WriteDepartments, InsertEmployee,
     SaveEmployee, WriteEmployees
<1>6. CASE DeleteDepartmentRow(r) \/ DeleteEmployeeRow(r) \/ DropAndCommit(r)
  BY <1>2, <1>6 DEF DeleteDepartmentRow, DeleteEmployeeRow, DropAndCommit
<1> QED
  BY <1>3, <1>4, <1>5, <1>6 DEF Write

-----------------------------------------------------------------------------
\* The statements of OrgStructure are those of OrgService.
LEMMA SameStatements ==
  /\ \A t, id, row : Abstract!Put(t, id, row) = Put(t, id, row)
  /\ \A t, d : Abstract!Subtree(t, d) = Subtree(t, d)
  /\ \A t, d : Abstract!Children(t, d) = Children(t, d)
  /\ \A t, D : Abstract!Staff(t, D) = Staff(t, D)
  /\ \A t, D : Abstract!Remove(t, D) = Remove(t, D)
  /\ \A t, D : Abstract!CascadeEmployees(t, D) = CascadeEmployees(t, D)
  /\ \A t, D, to : Abstract!Reparent(t, D, to) = Reparent(t, D, to)
  /\ \A t, D, to : Abstract!Reassign(t, D, to) = Reassign(t, D, to)
  /\ \A t : Abstract!NameIndexes(t) <=> NameIndexes(t)
  /\ \A t, name, parent, d :
         Abstract!NameTaken(t, name, parent, d) <=> NameTaken(t, name, parent, d)
<1>1. \A t, id, row : Abstract!Put(t, id, row) = Put(t, id, row)
  BY DEF Abstract!Put, Put
<1>2. \A t, d : Abstract!Subtree(t, d) = Subtree(t, d)
  BY DEF Abstract!Subtree, Subtree, Abstract!ClosedBelow, ClosedBelow
<1>3. \A t, d : Abstract!Children(t, d) = Children(t, d)
  BY DEF Abstract!Children, Children
<1>4. \A t, D : Abstract!Staff(t, D) = Staff(t, D)
  BY DEF Abstract!Staff, Staff
<1>5. \A t, D : Abstract!Remove(t, D) = Remove(t, D)
  BY DEF Abstract!Remove, Remove, Abstract!Restrict, Restrict
<1>6. \A t, D : Abstract!CascadeEmployees(t, D) = CascadeEmployees(t, D)
  BY <1>4, <1>5 DEF Abstract!CascadeEmployees, CascadeEmployees
<1>7. \A t, D, to : Abstract!Reparent(t, D, to) = Reparent(t, D, to)
  BY DEF Abstract!Reparent, Reparent
<1>8. \A t, D, to : Abstract!Reassign(t, D, to) = Reassign(t, D, to)
  BY DEF Abstract!Reassign, Reassign
<1>9. \A t : Abstract!NameIndexes(t) <=> NameIndexes(t)
  BY DEF Abstract!NameIndexes, NameIndexes, Abstract!ParentNameIndex, ParentNameIndex,
         Abstract!RootNameIndex, RootNameIndex
<1>10. \A t, name, parent, d :
           Abstract!NameTaken(t, name, parent, d) <=> NameTaken(t, name, parent, d)
  BY DEF Abstract!NameTaken, NameTaken
<1> QED
  BY <1>1, <1>2, <1>3, <1>4, <1>5, <1>6, <1>7, <1>8, <1>9, <1>10

\* The index would have refused what NameTaken sees.
LEMMA NameFree ==
  ASSUME NEW t, NEW d, NEW row, NameIndexes(Put(t, d, row))
  PROVE  ~NameTaken(t, row.name, row.parent, d)
<1> DEFINE u == Put(t, d, row)
<1>1. \A b, c \in DOMAIN u : b # c /\ u[b].parent = u[c].parent => u[b].name # u[c].name
  BY NamesUnique
<1>2. /\ DOMAIN u = DOMAIN t \cup {d} /\ u[d] = row
      /\ \A x \in DOMAIN t : x # d => u[x] = t[x]
  BY DEF Put
<1> HIDE DEF u
<1> QED
  BY <1>1, <1>2 DEF NameTaken

\* A department whose children have moved elsewhere is dropped alone.
LEMMA DroppedAlone ==
  ASSUME NEW t \in DepartmentTables, NEW d \in DOMAIN t, NEW to \in DeptId, to # d
  PROVE  Subtree(Reparent(t, Children(t, d), to), d) = {d}
<1> DEFINE u == Reparent(t, Children(t, d), to)
<1>1. DOMAIN u = DOMAIN t /\ \A x \in DOMAIN u : u[x].parent # d
  BY ReparentRows DEF Children
<1> HIDE DEF u
<1>2. ClosedBelow(u, {d}) /\ {d} \in SUBSET DOMAIN u
  BY <1>1 DEF ClosedBelow
<1>3. Subtree(u, d) = {d}
  BY <1>1, <1>2, SubtreeClosed DEF Subtree
<1> QED
  BY <1>3 DEF u

\* So are the employees that have moved: the cascade finds none.
LEMMA NobodyDropped ==
  ASSUME NEW t \in EmployeeTables, NEW d, NEW to \in DeptId, to # d
  PROVE  CascadeEmployees(Reassign(t, Staff(t, {d}), to), {d}) = Reassign(t, Staff(t, {d}), to)
<1> DEFINE u == Reassign(t, Staff(t, {d}), to)
<1>1. \A e \in DOMAIN u : u[e].dept # d
  BY ReassignRows DEF Staff
<1>2. u = [x \in DOMAIN u |-> u[x]]
  BY DEF Reassign
<1> HIDE DEF u
<1>3. Staff(u, {d}) = {}
  BY <1>1 DEF Staff
<1>4. CascadeEmployees(u, {d}) = u
  BY <1>2, <1>3 DEF CascadeEmployees, Remove, Restrict
<1> QED
  BY <1>4 DEF u

\* A statement that finds no row leaves the table as it is.
LEMMA NothingTouched ==
  ASSUME NEW t, t = [x \in DOMAIN t |-> t[x]], NEW D, D \cap DOMAIN t = {}, NEW to
  PROVE  Remove(t, D) = t /\ Reparent(t, D, to) = t /\ Reassign(t, D, to) = t
<1>1. DOMAIN t \ D = DOMAIN t
  OBVIOUS
<1>2. Remove(t, D) = t
  BY <1>1 DEF Remove, Restrict
<1>3. Reparent(t, D, to) = t
  <2>1. Reparent(t, D, to) = [x \in DOMAIN t |-> t[x]]
    BY DEF Reparent
  <2> QED
    BY <2>1
<1>4. Reassign(t, D, to) = t
  <2>1. Reassign(t, D, to) = [x \in DOMAIN t |-> t[x]]
    BY DEF Reassign
  <2> QED
    BY <2>1
<1> QED
  BY <1>2, <1>3, <1>4

LEMMA TablesAreFunctions ==
  ASSUME Tables
  PROVE  /\ departments = [x \in DOMAIN departments |-> departments[x]]
         /\ employees = [x \in DOMAIN employees |-> employees[x]]
  BY DEF Tables, DepartmentTables, EmployeeTables

\* Nothing is below a department that is gone, and nobody works there.
LEMMA NothingBelow ==
  ASSUME Tables, NEW d \in DeptId, d \notin DOMAIN departments
  PROVE  /\ Children(departments, d) = {}
         /\ Staff(employees, {d}) = {}
         /\ Subtree(departments, d) = {}
<1>1. Children(departments, d) = {}
  BY NullAssumption DEF Tables, ParentKey, Children
<1>2. Staff(employees, {d}) = {}
  BY DEF Tables, DepartmentKey, Staff
<1> QED
  BY <1>1, <1>2 DEF Subtree

\* What the transaction that has moved everybody does when it commits: nothing,
\* if the department has been deleted meanwhile.
LEMMA DropEffect ==
  ASSUME IInv, Forest, NEW r \in Request, Steady(request[r]), DropAndCommit(r)
  PROVE  LET q == request[r]
             kids == Children(departments, q.id)
             moved == Reparent(departments, kids, q.target)
             staff == Staff(employees, {q.id})
         IN  /\ q.op = "reassign" /\ q.id \in DeptId /\ q.target \in DeptId
             /\ q.target \notin Subtree(departments, q.id)
             /\ kids # {} \/ staff # {} => q.target \in DOMAIN departments
             /\ issued' = issued
             /\ q.id \in DOMAIN departments =>
                    /\ NameIndexes(moved)
                    /\ Subtree(moved, q.id) = {q.id}
                    /\ departments' = Remove(moved, {q.id})
                    /\ employees' = Reassign(employees, staff, q.target)
             /\ q.id \notin DOMAIN departments =>
                    departments' = departments /\ employees' = employees
<1> DEFINE q == request[r]
           kids == Children(departments, q.id)
           moved == Reparent(departments, kids, q.target)
           staff == Staff(employees, {q.id})
<1>1. /\ q.pc = "drop" /\ q.op = "reassign" /\ q.id \in DeptId /\ q.target \in DeptId
      /\ q.target \notin Subtree(departments, q.id)
      /\ q.kids = kids /\ q.staff = staff
      /\ Tables
  BY DEF IInv, Requests, Shape, DropAndCommit, Steady, Forest, Moving, OnPath, Cleared
<1>2. /\ kids # {} \/ staff # {} => q.target \in DOMAIN departments
      /\ NameIndexes(moved)
  BY <1>1 DEF IInv, PendingReassignSound
<1>3. Dropped(q) = Subtree(moved, q.id)
  BY <1>1 DEF Dropped
<1>4. /\ departments' = Remove(moved, Dropped(q))
      /\ employees' = CascadeEmployees(Reassign(employees, staff, q.target), Dropped(q))
      /\ issued' = issued
  BY <1>1 DEF DropAndCommit
<1>5. CASE q.id \in DOMAIN departments
  <2>1. q.target # q.id
    BY <1>1, <1>5, SubtreeClosed
  <2>2. Subtree(moved, q.id) = {q.id}
    BY <1>1, <1>5, <2>1, DroppedAlone DEF Tables
  <2>3. employees' = Reassign(employees, staff, q.target)
    <3>1. employees \in EmployeeTables /\ Dropped(q) = {q.id}
      BY <1>1, <1>3, <2>2 DEF Tables
    <3>2. CascadeEmployees(Reassign(employees, staff, q.target), {q.id})
              = Reassign(employees, staff, q.target)
      BY <1>1, <2>1, <3>1, NobodyDropped
    <3> QED
      BY <1>4, <3>1, <3>2
  <2> QED
    BY <1>1, <1>2, <1>3, <1>4, <1>5, <2>2, <2>3
<1>6. CASE q.id \notin DOMAIN departments
  <2>1. kids = {} /\ staff = {} /\ Subtree(departments, q.id) = {}
    BY <1>1, <1>6, NothingBelow
  <2>2. moved = departments /\ Reassign(employees, staff, q.target) = employees
    <3>1. Reparent(departments, {}, q.target) = departments
      BY <1>1, TablesAreFunctions, NothingTouched
    <3>2. Reassign(employees, {}, q.target) = employees
      BY <1>1, TablesAreFunctions, NothingTouched
    <3> QED
      BY <2>1, <3>1, <3>2
  <2>3. Dropped(q) = {}
    BY <1>3, <2>1, <2>2
  <2>4. Staff(employees, {}) = {}
    BY DEF Staff
  <2>5. Remove(departments, {}) = departments /\ Remove(employees, {}) = employees
    BY <1>1, TablesAreFunctions, NothingTouched
  <2>6. departments' = departments /\ employees' = employees
    BY <1>4, <2>2, <2>3, <2>4, <2>5 DEF CascadeEmployees
  <2> QED
    BY <1>1, <1>2, <1>4, <1>6, <2>6
<1> QED
  BY <1>5, <1>6

-----------------------------------------------------------------------------
(***************************************************************************)
(* What a write of r leaves of the others, s, when they do not clash.      *)
(***************************************************************************)
Untouched(s) ==
    /\ request[s].op = "patchDept" => request[s].id \in DOMAIN departments'
    /\ request[s].op = "patchEmp" => request[s].id \in DOMAIN employees'
    /\ request[s].pc \in {"staff", "drop"}
           => Children(departments', request[s].id) = Children(departments, request[s].id)
    /\ request[s].pc = "drop"
           => Staff(employees', {request[s].id}) = Staff(employees, {request[s].id})

LEMMA UntouchedSteady ==
  ASSUME NEW s, Steady(request[s]), Untouched(s), request'[s] = request[s]
  PROVE  Steady(request[s])'
  BY DEF Steady, Untouched

LEMMA InsertDepartmentUntouched ==
  ASSUME IInv, NoClash, NEW r \in Request, NEW s \in Request, s # r, Steady(request[s]),
         InsertDepartment(r)
  PROVE  Untouched(s)
<1> DEFINE row == request[r].row
<1>1. PICK d \in DeptId \ issued : WriteDepartments(r, Put(departments, d, row))
  BY DEF InsertDepartment
<1>2. request[r].pc = "write" /\ request[r].op = "createDept"
  BY DEF InsertDepartment, Writing
<1>3. CASE tables' = tables
  BY <1>3 DEF tables, Untouched, Steady
<1>4. CASE departments' = Put(departments, d, row) /\ employees' = employees
  <2>1. DOMAIN departments' = DOMAIN departments \cup {d}
    BY <1>4 DEF Put
  <2>2. ASSUME request[s].pc \in {"staff", "drop"}
        PROVE  Children(departments', request[s].id) = Children(departments, request[s].id)
    <3>1. row.parent # request[s].id
      BY <1>2, <2>2 DEF NoClash
    <3>2. d \notin DOMAIN departments
      BY DEF IInv, Issued
    <3> QED
      BY <1>4, <3>1, <3>2 DEF Put, Children
  <2> QED
    BY <1>4, <2>1, <2>2 DEF Untouched, Steady
<1> QED
  BY <1>1, <1>3, <1>4 DEF WriteDepartments

\* While r moves something, s does not.
LEMMA OthersStill ==
  ASSUME Requests, MovesApart, NEW r \in Request, NEW s \in Request, s # r,
         request[r].op \in Moving
  PROVE  request[s].op # "patchDept" /\ request[s].pc \notin {"staff", "drop"}
  BY DEF Requests, Shape, MovesApart, Moving

LEMMA SaveDepartmentUntouched ==
  ASSUME IInv, NoClash, NEW r \in Request, NEW s \in Request, s # r, Steady(request[s]),
         SaveDepartment(r)
  PROVE  Untouched(s)
<1>1. request[r].op \in Moving /\ employees' = employees
  BY DEF SaveDepartment, Writing, WriteDepartments, tables, Moving
<1>2. request[s].op # "patchDept" /\ request[s].pc \notin {"staff", "drop"}
  BY <1>1, OthersStill DEF IInv, NoClash
<1> QED
  BY <1>1, <1>2 DEF Untouched, Steady

LEMMA DeleteDepartmentRowUntouched ==
  ASSUME IInv, NoClash, NEW r \in Request, NEW s \in Request, s # r, Steady(request[s]),
         Granted(r), DeleteDepartmentRow(r)
  PROVE  Untouched(s)
<1> DEFINE q == request[s]
           gone == Subtree(departments, request[r].id)
           lost == Staff(employees, gone)
<1>1. /\ departments' = Remove(departments, gone) /\ employees' = Remove(employees, lost)
      /\ request[r].op = "cascade" /\ request[r].pc = "write"
  BY DEF DeleteDepartmentRow, Writing, CascadeEmployees
<1>2. /\ q.op = "patchDept" => q.id \notin gone
      /\ q.op = "patchEmp" => q.id \notin lost
  BY <1>1 DEF NoClash
<1>3. q.kids \cap gone = {} /\ q.staff \cap lost = {}
  <2>1. CanDelete(r, gone, lost)
    BY <1>1, TakesOf, GrantedDelete
  <2> QED
    BY <2>1 DEF CanDelete, StaffFree
<1> HIDE DEF gone, lost
<1>4. /\ DOMAIN departments' = DOMAIN departments \ gone
      /\ \A x \in DOMAIN departments' : departments'[x] = departments[x]
      /\ DOMAIN employees' = DOMAIN employees \ lost
      /\ \A x \in DOMAIN employees' : employees'[x] = employees[x]
  BY <1>1 DEF Remove, Restrict
<1>5. q.op = "patchDept" => q.id \in DOMAIN departments'
  BY <1>2, <1>4 DEF Steady
<1>6. q.op = "patchEmp" => q.id \in DOMAIN employees'
  BY <1>2, <1>4 DEF Steady
<1>7. q.pc \in {"staff", "drop"} => Children(departments', q.id) = Children(departments, q.id)
  <2> SUFFICES ASSUME q.pc \in {"staff", "drop"}
               PROVE  Children(departments', q.id) = Children(departments, q.id)
    OBVIOUS
  <2>1. Children(departments, q.id) \cap gone = {}
    BY <1>3 DEF Steady
  <2> QED
    BY <1>4, <2>1 DEF Children
<1>8. q.pc = "drop" => Staff(employees', {q.id}) = Staff(employees, {q.id})
  <2> SUFFICES ASSUME q.pc = "drop"
               PROVE  Staff(employees', {q.id}) = Staff(employees, {q.id})
    OBVIOUS
  <2>1. Staff(employees, {q.id}) \cap lost = {}
    BY <1>3 DEF Steady
  <2> QED
    BY <1>4, <2>1 DEF Staff
<1> QED
  BY <1>5, <1>6, <1>7, <1>8 DEF Untouched

\* An employee written by r is none of those that s has moved, and joins another
\* department.
LEMMA WriteEmployeeUntouched ==
  ASSUME IInv, NoClash, NEW r \in Request, NEW s \in Request, s # r, Steady(request[s]),
         request[r].pc = "write", request[r].op \in {"createEmp", "patchEmp"},
         NEW e, StaffFree(r, {e}),
         WriteEmployees(r, Put(employees, e, request[r].row))
  PROVE  Untouched(s)
<1> DEFINE row == request[r].row
           q == request[s]
<1>1. CASE tables' = tables
  BY <1>1 DEF tables, Untouched, Steady
<1>2. CASE employees' = Put(employees, e, row) /\ departments' = departments
  <2>1. DOMAIN employees' = DOMAIN employees \cup {e}
    BY <1>2 DEF Put
  <2>2. ASSUME q.pc = "drop" PROVE Staff(employees', {q.id}) = Staff(employees, {q.id})
    <3>1. row.dept # q.id
      BY <2>2 DEF NoClash
    <3>2. e \notin Staff(employees, {q.id})
      BY <2>2 DEF Steady, StaffFree
    <3> QED
      BY <1>2, <3>1, <3>2 DEF Put, Staff
  <2> QED
    BY <1>2, <2>1, <2>2 DEF Untouched, Steady
<1> QED
  BY <1>1, <1>2 DEF WriteEmployees

LEMMA InsertEmployeeUntouched ==
  ASSUME IInv, NoClash, NEW r \in Request, NEW s \in Request, s # r, Steady(request[s]),
         InsertEmployee(r)
  PROVE  Untouched(s)
<1>1. PICK e \in EmpId \ issued : WriteEmployees(r, Put(employees, e, request[r].row))
  BY DEF InsertEmployee
<1>2. request[r].pc = "write" /\ request[r].op = "createEmp"
  BY DEF InsertEmployee, Writing
<1>3. StaffFree(r, {e})
  <2>1. \A h \in Request \ {r} : request[h].staff \subseteq DOMAIN employees
    BY Held DEF IInv, Requests, Shape, InTransaction
  <2>2. e \notin DOMAIN employees
    BY DEF IInv, Issued
  <2> QED
    BY <2>1, <2>2 DEF StaffFree
<1> QED
  BY <1>1, <1>2, <1>3, WriteEmployeeUntouched

LEMMA DeleteEmployeeRowUntouched ==
  ASSUME IInv, NoClash, NEW r \in Request, NEW s \in Request, s # r, Steady(request[s]),
         Granted(r), DeleteEmployeeRow(r)
  PROVE  Untouched(s)
<1> DEFINE q == request[s]
           e == request[r].id
<1>1. /\ employees' = Remove(employees, {e}) /\ departments' = departments
      /\ StaffFree(r, {e}) /\ request[r].op = "deleteEmp"
  BY GrantedEmployee DEF DeleteEmployeeRow, Writing
<1>2. /\ DOMAIN employees' = DOMAIN employees \ {e}
      /\ \A x \in DOMAIN employees' : employees'[x] = employees[x]
  BY <1>1 DEF Remove, Restrict
<1>3. q.op = "patchEmp" => q.id # e
  BY <1>1 DEF NoClash
<1>4. q.pc = "drop" => e \notin Staff(employees, {q.id})
  BY <1>1 DEF Steady, StaffFree
<1>5. q.pc = "drop" => Staff(employees', {q.id}) = Staff(employees, {q.id})
  BY <1>2, <1>4 DEF Staff
<1> QED
  BY <1>1, <1>2, <1>3, <1>5 DEF Untouched, Steady

\* A reassignment takes nobody away, so the employee that s patches stays.
LEMMA DropAndCommitUntouched ==
  ASSUME IInv, Forest, NoClash, NEW r \in Request, NEW s \in Request, s # r,
         Steady(request[r]), Steady(request[s]), DropAndCommit(r)
  PROVE  Untouched(s)
<1>1. request[r].op \in Moving
  BY DropEffect DEF Moving
<1>2. request[s].op # "patchDept" /\ request[s].pc \notin {"staff", "drop"}
  BY <1>1, OthersStill DEF IInv, NoClash
<1>3. DOMAIN employees' = DOMAIN employees
  BY DropEffect DEF Reassign
<1> QED
  BY <1>2, <1>3 DEF Untouched, Steady

LEMMA StepSteady ==
  ASSUME IInv, Forest, NoClash, \A r \in Request : Steady(request[r]), [Next]_vars
  PROVE  \A r \in Request : Steady(request[r])'
<1>1. CASE UNCHANGED vars
  BY <1>1 DEF vars, Steady
<1>2. ASSUME NEW r \in Request, NEW s \in Request,
             \/ Arrive(r) \/ Read(r) \/ Write(r)
             \/ DeadlockVictim(r) \/ StatementFails(r) \/ Bump(r)
      PROVE  Steady(request[s])'
  <2>1. CASE s = r
    <3>1. Bump(r) \/ DeadlockVictim(r) \/ StatementFails(r) => Steady(request[r])'
      BY EndSteady DEF Bump, DeadlockVictim, StatementFails, IInv, Replies
    <3> QED
      BY <1>2, <2>1, <3>1, ArriveSteady, ReadSteady, WriteSteady DEF IInv
  <2>2. CASE s # r
    <3>1. request'[s] = request[s]
      BY <1>2, <2>2, OneAtATime DEF IInv
    <3>2. tables' = tables => Untouched(s)
      BY DEF tables, Untouched, Steady
    <3>3. CASE ~Write(r)
      <4>1. tables' = tables
        BY <1>2, <3>3, ArriveQuiet, ReadQuiet, EndQuiet
      <4> QED
        BY <3>1, <3>2, <4>1, UntouchedSteady
    <3>4. CASE Write(r)
      <4>1. MoveChildren(r) \/ MoveStaff(r) => tables' = tables
        BY DEF MoveChildren, MoveStaff
      <4>2. SaveEmployee(r) => Untouched(s)
        BY <2>2, <3>4, GrantedEmployee, WriteEmployeeUntouched DEF SaveEmployee, Writing, Write
      <4>3. Untouched(s)
        BY <2>2, <3>2, <3>4, <4>1, <4>2, InsertDepartmentUntouched, SaveDepartmentUntouched,
           DeleteDepartmentRowUntouched, InsertEmployeeUntouched,
           DeleteEmployeeRowUntouched, DropAndCommitUntouched DEF Write
      <4> QED
        BY <3>1, <4>3, UntouchedSteady
    <3> QED
      BY <3>3, <3>4
  <2> QED
    BY <2>1, <2>2
<1> QED
  BY <1>1, <1>2 DEF Next

LEMMA InitSteady ==
  ASSUME Init
  PROVE  \A r \in Request : Steady(request[r])
<1>1. Idle("none").pc = "idle" /\ Idle("none").op = "none"
  BY DEF Idle
<1> QED
  BY <1>1 DEF Init, Steady

-----------------------------------------------------------------------------
(***************************************************************************)
(* Each write is the step of the business rules, or leaves no trace.       *)
(***************************************************************************)
Same == departments' = departments /\ employees' = employees /\ issued' = issued

Settled(r) == IInv /\ Forest /\ Steady(request[r])

LEMMA InsertDepartmentAtomic ==
  ASSUME NEW r \in Request, Settled(r), InsertDepartment(r)
  PROVE  Abstract!Next
<1> DEFINE row == request[r].row
<1>1. /\ row \in Department /\ row = [name |-> row.name, parent |-> row.parent]
      /\ Known(request[r], issued) /\ request[r].op = "createDept"
  BY DEF Settled, IInv, Requests, Shape, InsertDepartment, Writing, Department, Forest
<1>2. PICK d \in DeptId \ issued :
          issued' = issued \cup {d} /\ WriteDepartments(r, Put(departments, d, row))
  BY DEF InsertDepartment
<1>3. CASE departments' = departments /\ employees' = employees
  BY <1>2, <1>3 DEF Abstract!Next, Abstract!SkipId
<1>4. CASE /\ NameIndexes(Put(departments, d, row))
           /\ ParentKey(Put(departments, d, row))
           /\ departments' = Put(departments, d, row)
           /\ UNCHANGED employees
  <2>1. ~NameTaken(departments, row.name, row.parent, Null)
    <3>1. DOMAIN departments \subseteq issued
      BY DEF Settled, IInv, Issued
    <3> QED
      BY <1>2, <1>4, <3>1, NameFree DEF NameTaken
  <2>2. row.parent \in DOMAIN departments \cup {Null}
    <3>1. row.parent \in DOMAIN departments \cup {d, Null}
      BY <1>4 DEF ParentKey, Put
    <3>2. row.parent # d
      BY <1>1, <1>2, NullAssumption DEF Known
    <3> QED
      BY <3>1, <3>2
  <2>3. Abstract!CreateDepartment(d, row.name, row.parent)
    BY <1>1, <1>2, <1>4, <2>1, <2>2, SameStatements DEF Abstract!CreateDepartment
  <2>4. row.name \in Name /\ row.parent \in DeptId \cup {Null}
    BY <1>1 DEF Department
  <2> QED
    BY <2>3, <2>4 DEF Abstract!Next
<1> QED
  BY <1>2, <1>3, <1>4 DEF WriteDepartments, tables

LEMMA SaveDepartmentAtomic ==
  ASSUME NEW r \in Request, Settled(r), SaveDepartment(r)
  PROVE  Abstract!Next \/ Same
<1> DEFINE q == request[r]
           row == q.row
<1>1. /\ q.op = "patchDept" /\ q.pc = "write"
      /\ q.id \in DeptId /\ q.id \in DOMAIN departments
      /\ row \in Department
      /\ row.parent \notin Subtree(departments, q.id)
  BY DEF Settled, IInv, Requests, Shape, SaveDepartment, Writing, Steady,
         Forest, Moving, OnPath, Placed
<1>2. CASE /\ NameIndexes(Put(departments, q.id, row))
           /\ ParentKey(Put(departments, q.id, row))
           /\ departments' = Put(departments, q.id, row)
           /\ UNCHANGED <<employees, issued>>
  <2>1. row = [name |-> row.name, parent |-> row.parent]
        /\ row.name \in Name /\ row.parent \in DeptId \cup {Null}
    BY <1>1 DEF Department
  <2>2. ~NameTaken(departments, row.name, row.parent, q.id)
    BY <1>2, NameFree
  <2>3. row.parent \in DOMAIN departments \cup {Null}
    BY <1>1, <1>2 DEF ParentKey, Put
  <2>4. Abstract!PatchDepartment(q.id, row.name, row.parent)
    BY <1>1, <1>2, <2>1, <2>2, <2>3, SameStatements DEF Abstract!PatchDepartment
  <2> QED
    BY <1>1, <2>1, <2>4 DEF Abstract!Next
<1> QED
  BY <1>2 DEF SaveDepartment, WriteDepartments, tables, Same

LEMMA DeleteDepartmentRowAtomic ==
  ASSUME NEW r \in Request, Settled(r), DeleteDepartmentRow(r)
  PROVE  Abstract!Next \/ Same
<1> DEFINE q == request[r]
<1>1. q.id \in DeptId /\ Tables
  BY DEF Settled, IInv, Requests, Shape, DeleteDepartmentRow, Writing
<1>2. CASE q.id \in DOMAIN departments
  <2>1. Abstract!DeleteCascade(q.id)
    BY <1>2, SameStatements DEF Abstract!DeleteCascade, DeleteDepartmentRow
  <2> QED
    BY <1>1, <2>1 DEF Abstract!Next
<1>3. CASE q.id \notin DOMAIN departments
  <2>1. Subtree(departments, q.id) = {}
    BY <1>1, <1>3, NothingBelow
  <2>2. Remove(departments, {}) = departments /\ Remove(employees, {}) = employees
    BY <1>1, TablesAreFunctions, NothingTouched
  <2>3. Staff(employees, {}) = {}
    BY DEF Staff
  <2> QED
    BY <2>1, <2>2, <2>3 DEF DeleteDepartmentRow, CascadeEmployees, Same
<1> QED
  BY <1>2, <1>3

LEMMA InsertEmployeeAtomic ==
  ASSUME NEW r \in Request, Settled(r), InsertEmployee(r)
  PROVE  Abstract!Next
<1> DEFINE row == request[r].row
<1>1. /\ row \in Employee /\ row = [dept |-> row.dept, profile |-> row.profile]
  BY DEF Settled, IInv, Requests, Shape, InsertEmployee, Writing, Employee
<1>2. PICK e \in EmpId \ issued :
          issued' = issued \cup {e} /\ WriteEmployees(r, Put(employees, e, row))
  BY DEF InsertEmployee
<1>3. CASE departments' = departments /\ employees' = employees
  BY <1>2, <1>3 DEF Abstract!Next, Abstract!SkipId
<1>4. CASE /\ DepartmentKey(departments, Put(employees, e, row))
           /\ employees' = Put(employees, e, row)
           /\ UNCHANGED departments
  <2>1. row.dept \in DOMAIN departments
    BY <1>4 DEF DepartmentKey, Put
  <2>2. Abstract!CreateEmployee(e, row.profile, row.dept)
    BY <1>1, <1>2, <1>4, <2>1, SameStatements DEF Abstract!CreateEmployee
  <2>3. row.profile \in Profile /\ row.dept \in DeptId
    BY <1>1 DEF Employee
  <2> QED
    BY <2>2, <2>3 DEF Abstract!Next
<1> QED
  BY <1>2, <1>3, <1>4 DEF WriteEmployees, tables

LEMMA SaveEmployeeAtomic ==
  ASSUME NEW r \in Request, Settled(r), SaveEmployee(r)
  PROVE  Abstract!Next \/ Same
<1> DEFINE q == request[r]
           row == q.row
<1>1. /\ q.id \in EmpId /\ q.id \in DOMAIN employees
      /\ row \in Employee
  BY DEF Settled, IInv, Requests, Shape, SaveEmployee, Writing, Steady
<1>2. CASE /\ DepartmentKey(departments, Put(employees, q.id, row))
           /\ employees' = Put(employees, q.id, row)
           /\ UNCHANGED <<departments, issued>>
  <2>1. row = [dept |-> row.dept, profile |-> row.profile]
        /\ row.profile \in Profile /\ row.dept \in DeptId
    BY <1>1 DEF Employee
  <2>2. row.dept \in DOMAIN departments
    BY <1>2 DEF DepartmentKey, Put
  <2>3. Abstract!PatchEmployee(q.id, row.profile, row.dept)
    BY <1>1, <1>2, <2>1, <2>2, SameStatements DEF Abstract!PatchEmployee
  <2> QED
    BY <1>1, <2>1, <2>3 DEF Abstract!Next
<1> QED
  BY <1>2 DEF SaveEmployee, WriteEmployees, tables, Same

LEMMA DeleteEmployeeRowAtomic ==
  ASSUME NEW r \in Request, Settled(r), DeleteEmployeeRow(r)
  PROVE  Abstract!Next \/ Same
<1> DEFINE q == request[r]
<1>1. q.id \in EmpId /\ Tables
  BY DEF Settled, IInv, Requests, Shape, DeleteEmployeeRow, Writing
<1>2. CASE q.id \in DOMAIN employees
  <2>1. Abstract!DeleteEmployee(q.id)
    BY <1>2, SameStatements DEF Abstract!DeleteEmployee, DeleteEmployeeRow
  <2> QED
    BY <1>1, <2>1 DEF Abstract!Next
<1>3. CASE q.id \notin DOMAIN employees
  <2>1. Remove(employees, {q.id}) = employees
    BY <1>1, <1>3, TablesAreFunctions, NothingTouched
  <2> QED
    BY <2>1 DEF DeleteEmployeeRow, Same
<1> QED
  BY <1>2, <1>3

\* A reassign whose target has been deleted had nobody to move: it is a cascade
\* that takes the one department.
LEMMA DropAndCommitAtomic ==
  ASSUME NEW r \in Request, Settled(r), DropAndCommit(r)
  PROVE  Abstract!Next \/ Same
<1> DEFINE q == request[r]
           kids == Children(departments, q.id)
           moved == Reparent(departments, kids, q.target)
           staff == Staff(employees, {q.id})
<1>1. /\ q.id \in DeptId /\ q.target \in DeptId
      /\ q.target \notin Subtree(departments, q.id)
      /\ kids # {} \/ staff # {} => q.target \in DOMAIN departments
      /\ issued' = issued
      /\ q.id \in DOMAIN departments =>
             /\ NameIndexes(moved)
             /\ Subtree(moved, q.id) = {q.id}
             /\ departments' = Remove(moved, {q.id})
             /\ employees' = Reassign(employees, staff, q.target)
      /\ q.id \notin DOMAIN departments => Same
  BY DropEffect DEF Settled, Same
<1>2. CASE q.id \in DOMAIN departments /\ q.target \in DOMAIN departments
  <2>1. Abstract!DeleteReassign(q.id, q.target)
    BY <1>1, <1>2, SameStatements DEF Abstract!DeleteReassign
  <2> QED
    BY <1>1, <2>1 DEF Abstract!Next
<1>3. CASE q.id \in DOMAIN departments /\ q.target \notin DOMAIN departments
  <2>1. kids = {} /\ staff = {}
    BY <1>1, <1>3
  <2>2. /\ Reparent(departments, {}, q.target) = departments
        /\ Reassign(employees, {}, q.target) = employees
        /\ Remove(employees, {}) = employees
    <3>1. ASSUME NEW t, t = [x \in DOMAIN t |-> t[x]]
          PROVE  /\ Reparent(t, {}, q.target) = t /\ Reassign(t, {}, q.target) = t
                 /\ Remove(t, {}) = t
      BY <3>1, NothingTouched
    <3> QED
      BY <3>1, TablesAreFunctions DEF Settled, IInv
  <2>3. /\ Subtree(departments, q.id) = {q.id}
        /\ departments' = Remove(departments, {q.id})
        /\ employees' = CascadeEmployees(employees, {q.id})
    BY <1>1, <1>3, <2>1, <2>2 DEF CascadeEmployees
  <2>4. Abstract!DeleteCascade(q.id)
    BY <1>1, <1>3, <2>3, SameStatements DEF Abstract!DeleteCascade
  <2> QED
    BY <1>1, <2>4 DEF Abstract!Next
<1> QED
  BY <1>1, <1>2, <1>3

LEMMA StepAtomic ==
  ASSUME NEW r \in Request, Settled(r),
         \/ Arrive(r) \/ Read(r) \/ Write(r)
         \/ DeadlockVictim(r) \/ StatementFails(r) \/ Bump(r)
  PROVE  Abstract!Next \/ Same
<1>1. CASE Arrive(r)
  BY <1>1 DEF Arrive, CreateDepartment, PatchDepartment, DeleteDepartment, CreateEmployee,
     PatchEmployee, DeleteEmployee, Arriving, tables, Same
<1>2. CASE Read(r)
  BY <1>2 DEF Read, LoadTarget, WouldCreateCycle, CheckName, Reading, tables, Same
<1>3. CASE Write(r)
  <2>1. MoveChildren(r) \/ MoveStaff(r) => Same
    BY DEF MoveChildren, MoveStaff, tables, Same
  <2> QED
    BY <1>3, <2>1, InsertDepartmentAtomic, SaveDepartmentAtomic, DeleteDepartmentRowAtomic,
       InsertEmployeeAtomic, SaveEmployeeAtomic, DeleteEmployeeRowAtomic, DropAndCommitAtomic
       DEF Write
<1>4. CASE DeadlockVictim(r) \/ StatementFails(r) \/ Bump(r)
  BY <1>4 DEF DeadlockVictim, StatementFails, Bump, tables, Same
<1> QED
  BY <1>1, <1>2, <1>3, <1>4

-----------------------------------------------------------------------------
(***************************************************************************)
(* The theorems about requests that do not clash.                          *)
(***************************************************************************)
Calm == IInv /\ Forest /\ \A r \in Request : Steady(request[r])

LEMMA InitCalm ==
  ASSUME Init
  PROVE  Calm
  BY InitIInv, InitForest, InitSteady DEF Calm

LEMMA StepCalm ==
  ASSUME Calm, NoClash, [Next]_vars
  PROVE  Calm'
<1>1. MovesApart
  BY DEF NoClash
<1>2. IInv' /\ Forest'
  BY <1>1, StepIInv, StepForest DEF Calm
<1>3. \A r \in Request : Steady(request[r])'
  BY StepSteady DEF Calm
<1> QED
  BY <1>2, <1>3 DEF Calm

\* The behaviours that TLC explores under CalmSpec are those of the theorems.
THEOREM CalmIsNoClash == CalmSpec <=> Spec /\ []NoClash
<1>1. Init => NoClash
  BY DEF Init, Idle, NoClash, MovesApart, Moving
<1>2. NoClash /\ UNCHANGED vars => NoClash'
  BY DEF vars, NoClash, MovesApart
<1> QED
  BY <1>1, <1>2, PTL DEF CalmSpec, Spec

\* Any number of requests that overlap without a clash take effect as single
\* steps of the business rules, or not at all, in the order of their writes,
\* whichever statements fail.
THEOREM ServiceAtomic == Spec /\ []NoClash => Atomic
<1>1. Init => Calm /\ Abstract!Init
  BY InitCalm DEF Init
<1>2. Calm /\ NoClash /\ [Next]_vars => Calm'
  BY StepCalm
<1>3. Calm /\ [Next]_vars => [Abstract!Next]_(Abstract!vars)
  <2> SUFFICES ASSUME Calm, [Next]_vars PROVE Abstract!Next \/ UNCHANGED Abstract!vars
    OBVIOUS
  <2>1. Same => UNCHANGED Abstract!vars
    BY DEF Same, Abstract!vars
  <2>2. CASE UNCHANGED vars
    BY <2>1, <2>2 DEF vars, tables, Same
  <2>3. CASE Next
    BY <2>1, <2>3, StepAtomic DEF Next, Settled, Calm
  <2> QED
    BY <2>2, <2>3
<1> QED
  BY <1>1, <1>2, <1>3, PTL DEF Spec, Atomic, Abstract!Spec

\* Reassign deletes the one department and no employee, if nothing joins it
\* between the statements that move its children and employees and its deletion.
THEOREM ReassignExact == Spec /\ []NoClash => ReassignDeletesOne
<1> DEFINE One == \A r \in Request :
                      request[r].pc = "drop" /\ request'[r] # request[r] /\ tables' # tables
                      => /\ DOMAIN departments' = DOMAIN departments \ {request[r].id}
                         /\ DOMAIN employees' = DOMAIN employees
<1>1. Calm /\ [Next]_vars => [One]_vars
  <2> SUFFICES ASSUME Calm, NEW s \in Request,
                      \/ Arrive(s) \/ Read(s) \/ Write(s)
                      \/ DeadlockVictim(s) \/ StatementFails(s) \/ Bump(s),
                      NEW r \in Request, request[r].pc = "drop",
                      request'[r] # request[r], tables' # tables
               PROVE  /\ DOMAIN departments' = DOMAIN departments \ {request[r].id}
                      /\ DOMAIN employees' = DOMAIN employees
    BY DEF Next, One
  <2>1. IInv /\ Requests /\ Forest /\ Steady(request[r])
    BY DEF Calm, IInv
  <2>2. s = r
    BY <2>1, OneAtATime
  <2>3. DropAndCommit(r)
    BY <2>1, <2>2, WritesAtDrop
  <2> DEFINE q == request[r]
             moved == Reparent(departments, Children(departments, q.id), q.target)
             staff == Staff(employees, {q.id})
  <2>4. /\ q.id \in DOMAIN departments =>
               /\ departments' = Remove(moved, {q.id})
               /\ employees' = Reassign(employees, staff, q.target)
        /\ q.id \notin DOMAIN departments =>
               departments' = departments /\ employees' = employees
    BY <2>1, <2>3, DropEffect
  <2>5. DOMAIN Remove(moved, {q.id}) = DOMAIN departments \ {q.id}
    BY DEF Remove, Restrict, Reparent
  <2>6. DOMAIN Reassign(employees, staff, q.target) = DOMAIN employees
    BY DEF Reassign
  <2> HIDE DEF moved, staff
  <2> QED
    BY <2>4, <2>5, <2>6
<1>2. Init => Calm
  BY InitCalm
<1>3. Calm /\ NoClash /\ [Next]_vars => Calm'
  BY StepCalm
<1> QED
  BY <1>1, <1>2, <1>3, PTL DEF Spec, ReassignDeletesOne

-----------------------------------------------------------------------------
(***************************************************************************)
(* What a 409 says.                                                        *)
(***************************************************************************)
LEMMA PutConflict ==
  ASSUME NEW t, NameIndexes(t), NEW d, NEW row, ~NameIndexes(Put(t, d, row))
  PROVE  NameTaken(t, row.name, row.parent, d)
<1> DEFINE u == Put(t, d, row)
<1>1. /\ DOMAIN u = DOMAIN t \cup {d} /\ u[d] = row
      /\ \A x \in DOMAIN t : x # d => u[x] = t[x]
  BY DEF Put
<1>2. PICK b, c \in DOMAIN u : b # c /\ u[b].parent = u[c].parent /\ u[b].name = u[c].name
  BY NamesUnique
<1> HIDE DEF u
<1>3. b = d \/ c = d
  BY <1>1, <1>2, NamesUnique
<1> QED
  BY <1>1, <1>2, <1>3 DEF NameTaken

LEMMA ReparentConflict ==
  ASSUME NEW t \in DepartmentTables, NameIndexes(t), NEW d, NEW to \in DeptId,
         ~NameIndexes(Reparent(t, Children(t, d), to))
  PROVE  \E k \in Children(t, d) : NameTaken(t, t[k].name, to, k)
<1> DEFINE kids == Children(t, d)
           u == Reparent(t, kids, to)
<1>1. /\ DOMAIN u = DOMAIN t
      /\ \A x \in DOMAIN t : /\ u[x].name = t[x].name
                             /\ u[x].parent = IF x \in kids THEN to ELSE t[x].parent
  BY ReparentRows
<1>2. PICK b, c \in DOMAIN u : b # c /\ u[b].parent = u[c].parent /\ u[b].name = u[c].name
  BY NamesUnique
<1>3. \A x \in DOMAIN t : x \in kids <=> t[x].parent = d
  BY DEF Children
<1> HIDE DEF u, kids
<1>4. t[b].name = t[c].name /\ t[b].parent # t[c].parent
  BY <1>1, <1>2, NamesUnique
<1>5. \/ b \in kids /\ c \notin kids
      \/ c \in kids /\ b \notin kids
  BY <1>1, <1>2, <1>3, <1>4
<1>6. (\E k \in kids : NameTaken(t, t[k].name, to, k))
  BY <1>1, <1>2, <1>4, <1>5 DEF NameTaken
<1> QED
  BY <1>6 DEF kids

\* A request in flight has not been answered yet.
InFlight(q) == q.pc # "idle" => q.reply = "none"

AllInFlight == \A r \in Request : InFlight(request[r])

LEMMA EndInFlight ==
  ASSUME Requests, NEW r \in Request,
         Committed(r) \/ \E reply \in Replies : Answer(r, reply)
  PROVE  InFlight(request'[r])
  BY DEF Committed, Answer, Requests, Idle, InFlight

LEMMA ArriveInFlight ==
  ASSUME Requests, NEW r \in Request, Arrive(r)
  PROVE  InFlight(request'[r])
<1>1. \A reply \in {"not_found", "invalid"} : Answer(r, reply) => InFlight(request'[r])
  BY EndInFlight DEF Replies
<1>2. ASSUME NEW pc, NEW op, NEW id, NEW target, NEW row,
             Proceed(r, pc, op, id, target, row)
      PROVE  InFlight(request'[r])
  BY <1>2, ProceedFields DEF InFlight
<1>3. ASSUME NEW text, NEW target, CreateDepartment(r, text, target)
      PROVE  InFlight(request'[r])
  BY <1>1, <1>2, <1>3 DEF CreateDepartment
<1>4. ASSUME NEW id, NEW text, NEW target, PatchDepartment(r, id, text, target)
      PROVE  InFlight(request'[r])
  BY <1>1, <1>2, <1>4 DEF PatchDepartment
<1>5. ASSUME NEW id, NEW mode, NEW target, DeleteDepartment(r, id, mode, target)
      PROVE  InFlight(request'[r])
  BY <1>1, <1>2, <1>5 DEF DeleteDepartment
<1>6. ASSUME NEW text, NEW target, CreateEmployee(r, text, target)
      PROVE  InFlight(request'[r])
  BY <1>1, <1>2, <1>6 DEF CreateEmployee
<1>7. ASSUME NEW id, NEW text, NEW target, PatchEmployee(r, id, text, target)
      PROVE  InFlight(request'[r])
  BY <1>1, <1>2, <1>7 DEF PatchEmployee
<1>8. ASSUME NEW id, DeleteEmployee(r, id) PROVE InFlight(request'[r])
  BY <1>1, <1>2, <1>8 DEF DeleteEmployee
<1> QED
  BY <1>3, <1>4, <1>5, <1>6, <1>7, <1>8 DEF Arrive

LEMMA StepInFlight ==
  ASSUME IInv, AllInFlight, [Next]_vars
  PROVE  AllInFlight'
<1>1. CASE UNCHANGED vars
  BY <1>1 DEF vars, AllInFlight
<1>2. ASSUME NEW r \in Request,
             \/ Arrive(r) \/ Read(r) \/ Write(r)
             \/ DeadlockVictim(r) \/ StatementFails(r) \/ Bump(r)
      PROVE  InFlight(request'[r])
  <2> DEFINE q == request[r]
  <2>1. Requests /\ q \in RequestRecord /\ InFlight(q)
    BY DEF IInv, Requests, AllInFlight
  <2>2. CASE Committed(r) \/ \E reply \in Replies : Answer(r, reply)
    BY <2>1, <2>2, EndInFlight
  <2>3. ASSUME NEW pc, NEW op, NEW id, NEW target, NEW row,
               Proceed(r, pc, op, id, target, row)
        PROVE  InFlight(request'[r])
    BY <2>1, <2>3, ProceedFields DEF InFlight
  <2>4. CASE Arrive(r)
    BY <2>1, <2>4, ArriveInFlight
  <2>5. CASE Read(r)
    <3>1. ASSUME NEW cur, NEW pc, q.pc # "idle", Continue(r, [q EXCEPT !.cur = cur], pc)
          PROVE  InFlight(request'[r])
      BY <2>1, <3>1 DEF Continue, Requests, RequestRecord, InFlight
    <3>2. ASSUME NEW pc, q.pc # "idle", Continue(r, q, pc) PROVE InFlight(request'[r])
      BY <2>1, <3>2, ContinueFields DEF InFlight
    <3>3. ASSUME NEW pc, NEW row, Proceed(r, pc, q.op, q.id, Null, row)
          PROVE  InFlight(request'[r])
      BY <2>1, <2>3, <3>3 DEF InFlight
    <3>4. CASE LoadTarget(r)
      BY <2>2, <3>1, <3>3, <3>4 DEF LoadTarget, Reading, Replies
    <3>5. CASE WouldCreateCycle(r)
      <4>1. q.pc # "idle"
        BY <3>5 DEF WouldCreateCycle, Reading
      <4>2. ASSUME NEW cur, NEW pc, Continue(r, [q EXCEPT !.cur = cur], pc)
            PROVE  InFlight(request'[r])
        BY <3>1, <4>1, <4>2
      <4>3. \A reply \in {"cycle", "internal"} : Answer(r, reply) => InFlight(request'[r])
        BY <2>2 DEF Replies
      <4> HIDE DEF q
      <4> QED
        BY <3>3, <3>5, <4>2, <4>3 DEF WouldCreateCycle, q
    <3>6. CASE CheckName(r)
      BY <2>2, <3>2, <3>6 DEF CheckName, Reading, Replies
    <3> QED
      BY <2>5, <3>4, <3>5, <3>6 DEF Read
  <2>6. CASE Write(r)
    <3>1. ASSUME NEW kids, Continue(r, [q EXCEPT !.kids = kids], "staff"), q.pc # "idle"
          PROVE  InFlight(request'[r])
      BY <2>1, <3>1 DEF Continue, Requests, RequestRecord, InFlight
    <3>2. ASSUME NEW staff, Continue(r, [q EXCEPT !.staff = staff], "drop"), q.pc # "idle"
          PROVE  InFlight(request'[r])
      BY <2>1, <3>2 DEF Continue, Requests, RequestRecord, InFlight
    <3>3. MoveChildren(r) \/ MoveStaff(r) => InFlight(request'[r])
      BY <2>2, <3>1, <3>2 DEF MoveChildren, MoveStaff, Replies
    <3> QED
      BY <2>2, <2>6, <3>3 DEF Write, InsertDepartment, SaveDepartment, DeleteDepartmentRow,
         WriteDepartments, InsertEmployee, SaveEmployee, DeleteEmployeeRow, WriteEmployees,
         DropAndCommit, Replies
  <2>7. CASE DeadlockVictim(r) \/ StatementFails(r) \/ Bump(r)
    BY <2>2, <2>7 DEF DeadlockVictim, StatementFails, Bump, Replies
  <2> QED
    BY <1>2, <2>4, <2>5, <2>6, <2>7
<1>3. ASSUME NEW r \in Request, NEW s \in Request, s # r,
             \/ Arrive(r) \/ Read(r) \/ Write(r)
             \/ DeadlockVictim(r) \/ StatementFails(r) \/ Bump(r)
      PROVE  InFlight(request'[s])
  BY <1>3, OneAtATime DEF IInv, AllInFlight
<1> QED
  BY <1>1, <1>2, <1>3 DEF Next, AllInFlight

\* A 409 is never a false alarm, and never about what another request has not
\* committed yet, however many requests race for the name.
THEOREM ServiceConflicts == Spec => ConflictJustified
<1> DEFINE Really(r) ==
        LET q == request[r] IN
        q.pc # "idle" /\ request'[r].reply = "conflict" =>
            IF q.op = "reassign"
            THEN \E k \in Children(departments, q.id) :
                     NameTaken(departments, departments[k].name, q.target, k)
            ELSE NameTaken(departments, q.row.name, q.row.parent, q.id)
<1>1. Init => IInv /\ AllInFlight
  <2>1. Init => AllInFlight
    BY DEF Init, Idle, AllInFlight, InFlight
  <2> QED
    BY <2>1, InitIInv
<1>2. IInv /\ AllInFlight /\ [Next]_vars => IInv' /\ AllInFlight'
  BY StepIInv, StepInFlight
<1>3. IInv /\ AllInFlight /\ [Next]_vars => [\A r \in Request : Really(r)]_vars
  <2> SUFFICES ASSUME IInv, AllInFlight, NEW s \in Request,
                      \/ Arrive(s) \/ Read(s) \/ Write(s)
                      \/ DeadlockVictim(s) \/ StatementFails(s) \/ Bump(s),
                      NEW r \in Request,
                      request[r].pc # "idle", request'[r].reply = "conflict"
               PROVE  IF request[r].op = "reassign"
                      THEN \E k \in Children(departments, request[r].id) :
                               NameTaken(departments, departments[k].name, request[r].target, k)
                      ELSE NameTaken(departments, request[r].row.name, request[r].row.parent,
                                     request[r].id)
    BY DEF Next
  <2> DEFINE q == request[r]
  <2>1. Requests /\ Tables /\ Issued /\ q \in RequestRecord /\ InFlight(q) /\ q.reply = "none"
    BY DEF IInv, Requests, AllInFlight, InFlight
  <2>2. s = r
    BY <2>1, OneAtATime DEF IInv
  <2>3. ASSUME NEW reply, reply # "conflict" PROVE ~Answer(r, reply)
    BY <2>1, <2>3 DEF Answer, Idle, Requests
  <2>4. ~Committed(r)
    <3>1. request'[r] = [Idle("none") EXCEPT !.pc = "bump"] => request'[r].reply = "none"
      BY DEF Idle
    <3> QED
      BY <2>1, <2>3, <3>1 DEF Committed, Requests
  <2>5. ASSUME NEW pc, NEW op, NEW id, NEW target, NEW row
        PROVE  ~Proceed(r, pc, op, id, target, row)
    BY <2>1, ProceedFields
  <2>6. ASSUME NEW pc PROVE ~Continue(r, q, pc)
    BY <2>1, ContinueFields
  <2>7. ASSUME NEW pc, NEW x
        PROVE  /\ ~Continue(r, [q EXCEPT !.cur = x], pc)
               /\ ~Continue(r, [q EXCEPT !.kids = x], pc)
               /\ ~Continue(r, [q EXCEPT !.staff = x], pc)
    BY <2>1 DEF Continue, Requests, RequestRecord
  <2>8. CASE CheckName(r)
    <3>1. NameTaken(departments, q.row.name, q.row.parent, q.id)
      BY <2>6, <2>8 DEF CheckName
    <3>2. q.op # "reassign"
      BY <2>1, <2>8 DEF CheckName, Reading, Requests, Shape
    <3> QED
      BY <3>1, <3>2
  <2>9. CASE InsertDepartment(r)
    <3>1. PICK d \in DeptId \ issued : WriteDepartments(r, Put(departments, d, q.row))
      BY <2>9 DEF InsertDepartment
    <3>2. ~NameIndexes(Put(departments, d, q.row))
      BY <2>3, <2>4, <3>1 DEF WriteDepartments
    <3>3. NameTaken(departments, q.row.name, q.row.parent, d)
      BY <2>1, <3>2, PutConflict DEF Tables
    <3>4. q.op = "createDept" /\ q.id = Null
      BY <2>1, <2>9 DEF InsertDepartment, Writing, Requests, Shape
    <3>5. Null \notin DOMAIN departments
      BY <2>1, DepartmentRow, NullAssumption
    <3> QED
      BY <3>3, <3>4, <3>5 DEF NameTaken
  <2>10. CASE SaveDepartment(r)
    <3>1. q.op = "patchDept" /\ ~NameIndexes(Put(departments, q.id, q.row))
      BY <2>3, <2>4, <2>10 DEF SaveDepartment, Writing, WriteDepartments
    <3>2. NameTaken(departments, q.row.name, q.row.parent, q.id)
      BY <2>1, <3>1, PutConflict DEF Tables
    <3> QED
      BY <3>1, <3>2
  <2>11. CASE MoveChildren(r)
    <3>1. q.op = "reassign" /\ q.target \in DeptId
      BY <2>1, <2>11 DEF MoveChildren, Requests, Shape
    <3>2. ~NameIndexes(Reparent(departments, Children(departments, q.id), q.target))
      BY <2>3, <2>7, <2>11 DEF MoveChildren
    <3>3. \E k \in Children(departments, q.id) :
              NameTaken(departments, departments[k].name, q.target, k)
      BY <2>1, <3>1, <3>2, ReparentConflict DEF Tables
    <3> QED
      BY <3>1, <3>3
  <2>12. ~LoadTarget(r)
    BY <2>3, <2>5, <2>7 DEF LoadTarget
  <2>13. ~WouldCreateCycle(r)
    BY <2>3, <2>5, <2>7 DEF WouldCreateCycle
  <2>14. ~Arrive(r)
    BY DEF Arrive, Arriving, CreateDepartment, PatchDepartment, DeleteDepartment,
           CreateEmployee, PatchEmployee, DeleteEmployee
  <2>15. ~(DeadlockVictim(r) \/ StatementFails(r) \/ Bump(r))
    BY <2>3 DEF DeadlockVictim, StatementFails, Bump
  <2>16. Write(r) => InsertDepartment(r) \/ SaveDepartment(r) \/ MoveChildren(r)
    BY <2>3, <2>4, <2>7 DEF Write, DeleteDepartmentRow, InsertEmployee, SaveEmployee,
       DeleteEmployeeRow, WriteEmployees, MoveStaff, DropAndCommit
  <2> QED
    BY <2>2, <2>8, <2>9, <2>10, <2>11, <2>12, <2>13, <2>14, <2>15, <2>16 DEF Read
<1> HIDE DEF Really
<1>4. [][\A r \in Request : Really(r)]_vars => ConflictJustified
  BY DEF Really, ConflictJustified
<1> QED
  BY <1>1, <1>2, <1>3, <1>4, PTL DEF Spec
=============================================================================
