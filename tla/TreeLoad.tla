------------------------------ MODULE TreeLoad ------------------------------
(***************************************************************************)
(* How a department tree is read from the database: loadDepartmentTree and *)
(* buildDepartmentTree, one SELECT per step, while mutations commit in     *)
(* between.  A mutation is one step of OrgStructure; but as two moves that *)
(* overlap can leave a cycle (OrgTwoMovers), loads start on any hierarchy. *)
(***************************************************************************)
EXTENDS DepartmentTrees

CONSTANTS
    Loader,         \* slots for loads in progress
    MaxWrites,      \* bound on the mutations
    LoadFails       \* may a SELECT fail?

ASSUME LoadAssumption == MaxWrites \in Nat /\ LoadFails \in BOOLEAN

VARIABLES
    departments, employees, issued,     \* the database, see OrgStructure
    writes,                             \* mutations committed so far
    load,                               \* the request of each load
    tree,                               \* what each load has built
    todo,                               \* the nodes that still have a SELECT to come
    past                                \* history: the tables during each load

db == <<departments, employees, issued, writes>>
loadVars == <<departments, employees, issued, writes, load, tree, todo, past>>

Org == INSTANCE OrgStructure

Tables == [depts |-> departments, emps |-> employees]

-----------------------------------------------------------------------------
NoLoad == [pc |-> "idle", root |-> Null, depth |-> 1, include |-> FALSE]

LoadRecord ==
    [pc : {"idle", "build", "done"}, root : DeptId \cup {Null},
     depth : 1 .. MaxDepth, include : BOOLEAN]

LoadTypeOK ==
    /\ Org!TypeOK
    /\ writes \in Nat
    /\ load \in [Loader -> LoadRecord]
    /\ tree = [l \in Loader |-> [p \in DOMAIN tree[l] |-> tree[l][p]]]
    /\ todo \in [Loader -> SUBSET Path]
    /\ past = [l \in Loader |-> past[l]]
    /\ \A l \in Loader :
           /\ load[l].pc # "idle" => load[l].root \in DeptId
           /\ DOMAIN tree[l] \subseteq Path
           /\ \A p \in DOMAIN tree[l] : tree[l][p] \in Node
           /\ todo[l] \subseteq DOMAIN tree[l]
           /\ (todo[l] # {}) = (load[l].pc = "build")

LoadInit ==
    /\ departments \in DepartmentTables
    /\ employees \in EmployeeTables
    /\ ParentKey(departments)
    /\ NameIndexes(departments)
    /\ DepartmentKey(departments, employees)
    /\ issued = DOMAIN departments \cup DOMAIN employees
    /\ writes = 0
    /\ load = [l \in Loader |-> NoLoad]
    /\ tree = [l \in Loader |-> << >>]
    /\ todo = [l \in Loader |-> {}]
    /\ past = [l \in Loader |-> {}]

\* The recursion goes on below p: depth is not used up.
Deeper(q, p) == Len(p) <= q.depth

NewNode(row) == [row |-> row, staff |-> Null]

\* Mutant: the employees of the deepest level are left out.
SelectsUnlessBottom(q, p) == Deeper(q, p)

\* The recursion sends at least one SELECT for the node p.
Selects(q, p) == q.include \/ Deeper(q, p)

\* The depth-first recursion is at p: no node below its siblings is pending.
Current(l, p) == p \in todo[l] /\ \A o \in todo[l] : Len(o) <= Len(p)

\* The load of q goes on with what it has built, or has returned it.
Advance(l, q, built, pending) ==
    /\ load' = [load EXCEPT ![l] = [q EXCEPT !.pc = IF pending = {} THEN "done" ELSE "build"]]
    /\ tree' = [tree EXCEPT ![l] = built]
    /\ todo' = [todo EXCEPT ![l] = pending]

\* GetDepartmentTree up to the GetByID of loadDepartmentTree.  A department that
\* does not exist is answered with ErrDepartmentNotFound: no node.
GetByID(l, d, depth, include) ==
    LET q == [pc |-> "build", root |-> d, depth |-> depth, include |-> include]
        found == {<<d>>} \cap {<<x>> : x \in DOMAIN departments}
    IN
    /\ load[l].pc = "idle"
    /\ Advance(l, q, [p \in found |-> NewNode(departments[d])], found)
    /\ past' = [past EXCEPT ![l] = {Tables}]
    /\ UNCHANGED db

\* Mutant: every node gets the employees of the root.
StaffOfRoot(l, p) ==
    /\ Current(l, p)
    /\ load[l].include /\ tree[l][p].staff = Null
    /\ Advance(l, load[l], [tree[l] EXCEPT ![p].staff = StaffOf(employees, load[l].root)],
               IF Deeper(load[l], p) THEN todo[l] ELSE todo[l] \ {p})
    /\ UNCHANGED <<db, past>>

ListByDepartmentID(l, p) ==
    /\ Current(l, p)
    /\ load[l].include /\ tree[l][p].staff = Null
    /\ Advance(l, load[l], [tree[l] EXCEPT ![p].staff = StaffOf(employees, Bottom(p))],
               IF Deeper(load[l], p) THEN todo[l] ELSE todo[l] \ {p})
    /\ UNCHANGED <<db, past>>

\* The recursion is at p, whose employees have been read if they are included.
AtChildren(l, p) ==
    /\ Current(l, p)
    /\ Deeper(load[l], p)
    /\ load[l].include => tree[l][p].staff # Null

\* The nodes at kids are new in the tree of l.
WithKids(l, kids) ==
    [o \in DOMAIN tree[l] \cup kids |->
        IF o \in kids THEN NewNode(departments[Bottom(o)]) ELSE tree[l][o]]

KidsOf(d, p) == {Append(p, c) : c \in Children(departments, d)}

\* Mutant: the loop returns with its first child.
FirstChild(l, p) ==
    LET all == KidsOf(Bottom(p), p)
        kids == IF all = {} THEN {} ELSE {CHOOSE o \in all : TRUE}
    IN
    /\ AtChildren(l, p)
    /\ Advance(l, load[l], WithKids(l, kids),
               (todo[l] \ {p}) \cup {o \in kids : Selects(load[l], o)})
    /\ UNCHANGED <<db, past>>

GetChildren(l, p) ==
    LET kids == KidsOf(Bottom(p), p) IN
    /\ AtChildren(l, p)
    /\ Advance(l, load[l], WithKids(l, kids),
               (todo[l] \ {p}) \cup {o \in kids : Selects(load[l], o)})
    /\ UNCHANGED <<db, past>>

Forget(l) ==
    /\ load' = [load EXCEPT ![l] = NoLoad]
    /\ tree' = [tree EXCEPT ![l] = << >>]
    /\ todo' = [todo EXCEPT ![l] = {}]
    /\ past' = [past EXCEPT ![l] = {}]

\* A SELECT fails, or the client has gone: there is an error instead of a tree.
SelectFails(l) ==
    /\ LoadFails
    /\ load[l].pc = "build"
    /\ Forget(l)
    /\ UNCHANGED db

\* The tree goes to whoever asked for it: the cache, the client.
Return(l) ==
    /\ load[l].pc = "done"
    /\ Forget(l)
    /\ UNCHANGED db

\* A request of somebody else takes effect.
Mutate ==
    /\ writes < MaxWrites
    /\ Org!Next
    /\ Tables' # Tables
    /\ writes' = writes + 1
    /\ past' = [l \in Loader |->
                   IF load[l].pc = "build" THEN past[l] \cup {Tables'} ELSE past[l]]
    /\ UNCHANGED <<load, tree, todo>>

Select(l) == \E p \in todo[l] : ListByDepartmentID(l, p) \/ GetChildren(l, p)

LoadNext ==
    \/ \E l \in Loader, d \in DeptId, depth \in 1 .. MaxDepth, include \in BOOLEAN :
           GetByID(l, d, depth, include)
    \/ \E l \in Loader : Select(l) \/ SelectFails(l) \/ Return(l)
    \/ Mutate

LoadSpec == LoadInit /\ [][LoadNext]_loadVars

-----------------------------------------------------------------------------
Returned(l) == load[l].pc = "done"

-----------------------------------------------------------------------------
(***************************************************************************)
(* Properties.                                                             *)
(***************************************************************************)

\* The cache accepts every tree that is built, also a tree whose SELECTs saw
\* different hierarchies: otherwise a payload would be a miss for every reader.
BuiltTreesValid ==
    \A l \in Loader : Returned(l) /\ tree[l] # << >> => Valid(tree[l], load[l])

\* What has not changed while the load went on is shown, whatever else has: the
\* recursion loses no branch to the mutations that move others.
StablePathsShown ==
    \A l \in Loader : Returned(l) => ShowsStable(tree[l], load[l], past[l])

\* Nothing older than the first SELECT is shown, nor anything that was never
\* committed, although rows and employees are read at different times.
ShownWasThere == \A l \in Loader : ShowsOnly(tree[l], past[l])
=============================================================================
