# TLA+ specifications of org-structure-api

The service keeps an organisation (departments in a hierarchy, employees in
departments) in PostgreSQL behind an HTTP API, with an optional Redis cache of
department trees. These modules model how its requests interleave on the
database and in the cache, TLC checks them on small instances, and TLAPS proves
the main properties for all instances.

    tlc -workers 2 -config OrgOverlap.cfg MCOrgService.tla
    tlapm OrgServiceProofs.tla

## 1. Inventory

| Part | State | Operations | Talks to |
|---|---|---|---|
| HTTP handlers (`internal/handler`) | none | decode path, query and body; map service errors to status and code; write the response | services |
| `DepartmentService` | the tree cache (jitter, singleflight group) | Create, Patch, Delete (cascade, reassign), GetDepartmentTree | both repositories, `CacheStore` |
| `EmployeeService` | none | Create, Patch, Delete, Get, List | both repositories, `CacheStore` |
| repositories (`internal/repository`) | none | one SQL statement per call; `ReassignAndDelete` is a transaction of three; `WouldCreateCycle` a loop of SELECTs | PostgreSQL through gorm |
| PostgreSQL schema (`migrations`) | tables `departments`, `employees`, two sequences | foreign keys with `ON DELETE CASCADE`, two partial unique indexes for sibling names | |
| tree cache (`department_tree_cache.go`) | Redis keys: the epoch and tree payloads; flights per process | cache-aside read, double check, singleflight, bump | Redis, PostgreSQL |
| Redis adapter, cache logging (`internal/cache`) | a client | Get, Set, Increment with timeouts | Redis |
| TTL jitter (`newTTLJitter`) | a random source behind a mutex | base plus at most a tenth | the cache |
| access log middleware | the response recorder of a request | remember the status, log every response | handlers |
| health, configuration, `main` | the HTTP server, its error channel, the signal context | ping; read the environment; start, graceful shutdown, exit | all of the above |

Requests run concurrently, in one goroutine each, in any number of instances.
They share nothing in memory but the singleflight group and the jitter's mutex;
they meet in PostgreSQL (READ COMMITTED, no explicit locks) and in Redis.

What is hard here, and what correctness means:

- **A request is many statements.** Existence checks, the cycle check, the name
  check and the write are separate statements. References must stay valid,
  names unique, the hierarchy a forest; a refused request must leave nothing behind;
  one that gets an error either did nothing or all it was to do, as the result of a
  statement or COMMIT may be lost; one that succeeds should look as if it took effect at once.
- **`Save` writes the whole row, and inserts it if it is gone.** What was loaded
  at the beginning of a request may be stale when it is written.
- **`ReassignAndDelete` is the only transaction.** It locks what it updates, not
  the department it deletes. Others wait for it; and as a statement takes its locks one
  after the other, two reassigns, or a reassign and a cascade or a patch, can deadlock.
- **The cycle check is an unbounded loop** over rows that change under it.
- **The cache is invalidated by a counter.** Readers that loaded before a
  mutation store after it; bumps get lost; Redis may restart empty; readers of
  one process wait for each other. No read may miss what was committed before
  the last bump it could see, every read is answered, stale payloads go away.
- **A tree is read by many SELECTs**, each of which sees what is committed at its time.
  What nobody touched must be shown, nothing may be shown that never was, and the
  cache must accept what it stores.
- **The process stops among requests.** Shutdown has a deadline, the client of Redis is
  closed by a defer, clients leave, connections break under the response. A mutation
  that commits must still bump, an answer must tell its outcome, the exit status
  must tell whether anybody was cut off, and the process must end.
- **Two switches map one set of errors**, and two writers one status: they must agree.

`PROJECT.json` lists these hazards one by one, with the line where each bites.

## 2. Modules

| Module | Models |
|---|---|
| `OrgTables` | rows, constraints and statements as pure operators, shared by the modules of the database |
| `OrgStructure` | abstract: every request that succeeds is one step on the tables, under the business rules |
| `OrgService` | the same requests as sequences of repository calls that interleave |
| `VersionedReads` | abstract: what a client of the tree endpoint may rely on |
| `TreeCache` | `GetDepartmentTree` with the cache, the bump of every mutation, Redis and its failures; a tree is a version |
| `DepartmentTrees` | the trees themselves, the validator of cached trees, and what a tree shows of a set of states |
| `TreeLoad` | `buildDepartmentTree` SELECT by SELECT, among the mutations of `OrgStructure` |
| `CachedTrees` | the loads of `TreeLoad` behind the epoch protocol, mutations with their bumps |
| `HttpAnswers` | refusals, errors, the two switches of `error.go`, the response recorder |
| `CacheTtl` | the TTL and its jitter in 64-bit arithmetic |
| `Server` | `run()` and the requests in flight, from their arrival to the access log |
| `MCOrgService`, `MCTreeCache`, `MCCachedTrees`, `MCServer` | symmetries, views and values for TLC |
| `OrgTablesProofs`, `OrgStructureProofs`, `OrgServiceProofs`, `OrgHierarchyProofs`, `TreeCacheProofs`, `TreeLoadProofs`, `CachedTreesProofs`, `ServerProofs` | lemmas and theorems |

    OrgTables --> OrgStructure --> (refined by) OrgService
        |              |
        v              v
    DepartmentTrees -> TreeLoad --> CachedTrees         TreeCache --> (refines) VersionedReads
    HttpAnswers, CacheTtl --> Server

The bump is where the three upper models meet: `OrgService` ends a mutation with it,
`TreeCache` and `CachedTrees` say what it is worth to readers, `Server` that it is
reached although clients leave and the process stops.

### OrgTables

A table is a function from the ids that exist to rows. Names and ids are opaque;
an employee's `full_name`, `position` and `hired_at` together are a *profile*.
`created_at` is left out. `Subtree`, `Acyclic` are defined by closed sets instead of
recursion, so that proofs can use them. `Put` is both INSERT and gorm's `Save`.

### OrgService

`request[r]` is the state of one handler: the repository call it makes next
(`pc`), the operation, the ids and the row it carries. Fields that no later call
reads are reset, which keeps equal futures in one state.

| Action | Code |
|---|---|
| `Arrive`: `CreateDepartment`, `PatchDepartment`, `DeleteDepartment`, `CreateEmployee`, `PatchEmployee`, `DeleteEmployee` | handler and service up to the result of the first repository call |
| `LoadTarget` | `GetByID` of the new parent, the reassign target or the new department of an employee |
| `WouldCreateCycle` | one turn of its loop |
| `CheckName` | `ExistsByNameAndParent[ExceptID]` |
| `InsertDepartment`, `SaveDepartment`, `DeleteDepartmentRow`, `InsertEmployee`, `SaveEmployee`, `DeleteEmployeeRow` | the writing statement, with the constraints it meets |
| `MoveChildren`, `MoveStaff`, `DropAndCommit` | the three statements of `ReassignAndDelete` |
| `Bump` | `bumpDepartmentTreeEpoch` and the 2xx answer |
| `DeadlockVictim`, `StatementFails` | PostgreSQL or the network gives an error |

The answer is one of `ok`, `not_found` (404), `conflict` (409), `cycle` and
`invalid` (400), `internal` (500 and the context errors). The order of the
checks is that of the code: for example an unknown department is reported
before an unknown delete mode, a bad `hired_at` after the new department.

PostgreSQL is external. One statement is one step. The rows that a
`ReassignAndDelete` has updated are in `kids` and `staff` and become visible when it
commits. `StatementFails` is a call that fails and has no effect; a write that has its
effect while its result is lost is the second half of `Committed`: the client gets a 500, and
the epoch is not bumped.

Locks are data: `Takes` is what the next statement of a request locks, `Holds` what its
transaction has locked by earlier ones, and `Excludes` says which locks keep which others
waiting (row against row, deletion against a foreign key reference, new against new or
leaving unique index entry). A statement is `Granted` if nobody in a transaction holds
what it takes; until then it waits. It is one step, but not one lock: a lock has a *turn*,
a cascade goes down level by level and has the locks of the upper levels while it waits
for the lower ones, a row is locked before its new index entry, the target of a foreign
key after the rows that refer to it. `Deadlocked(S)` holds if everybody in `S` can have come
to a lock that somebody else in `S` already has. Then `DeadlockVictim` is one of them: a
reassign, but also a cascade, a patch or a create. Abstractions:

- `Save` is one step, although gorm sends an UPDATE and, if it hit nothing, an
  INSERT ... ON CONFLICT; a row cannot appear in between as ids are never reused.
- A statement works on the rows there when its waits are over, an UPDATE or a cascading
  DELETE as well. PostgreSQL's UPDATE looks for rows in its snapshot and would leave out
  one that was inserted while it waited; what is said under `NoClash` does not
  depend on it, since `NoClash` keeps such rows away.
- The locks of one turn may be taken in any order, so `Deadlocked` may report a deadlock
  that the order of a query plan avoids, but none is left out.
- The sequence of a BIGSERIAL column hands out ids in any order; they are not
  reused, not even after a failed INSERT.
- `DropAndCommit` is the DELETE and the COMMIT. Deleted rows held back until the
  commit are a window in which others only wait.

Nothing in the code keeps requests apart, and some must not overlap if all is to go
well. `OrgService` states which, as conditions on the traffic:

- `MovesApart`: no two requests that move departments (patch, reassign) are in flight at once;
- `NoClash`: besides, a patch of a row does not overlap with the deletion of that row, and nothing is
  about to be written into a department that a reassign empties;
- `LookupsStand`: no request deletes a department that another one has looked up and still
  refers to, and at most one request that patches, deletes or reassigns a department
  is in flight, as two of these might deadlock.

`CalmSpec` is `Spec` restricted to the steps that keep `NoClash`.

### TreeCache

The content of the database is its version, the number of mutations committed.
A tree is built by one SELECT per department; it stands for the version at
the first of them. A reader's `pc` names its next call; a flight of singleflight is the
reader that leads it, and `EndFlight` answers it and everybody who waits.
Redis calls are atomic and may fail, with or without effect; `Expire` is TTL or
eviction; `Restart` is the recreation of the container. A payload that does not parse or validate counts as
expired. `floor[e]` is a history variable: the version when the epoch became `e`.
With the cache disabled, or when Redis does not answer, a read is `DirectLoad`.

### DepartmentTrees, TreeLoad, CachedTrees

A tree is a function from paths of ids to nodes (the row and, if included, the
employees). A function of paths tells apart two nodes of one department, which a
hierarchy that changes during a load, or has a cycle, can give. `TreeIn(t, q)` is the
tree that the query `q` asks for in the state `t`; `Valid` is
`validCachedDepartmentTree`. Its checks for nil slices are left out, as is the round trip
through JSON: `buildDepartmentTree` starts from an empty `Children` and gorm's `Find`
returns empty slices, never nil ones, and JSON keeps that so.

| Action | Code |
|---|---|
| `GetByID` | `GetDepartmentTree` and `loadDepartmentTree` to their first SELECT |
| `ListByDepartmentID`, `GetChildren` | the two SELECTs of a node in `buildDepartmentTree` |
| `SelectFails`, `Return` | the ways out of the recursion |
| `Mutate` | a request of somebody else: one step of `OrgStructure` |
| `ReadEpoch`, `GetCached`, `StartLoad`, `LoadStep`, `Store`, `LoadError` | a read in `department_tree_cache.go`, around the load |
| `Commit`, `Bump` | a mutation and its bump |

`todo` is the stack of the depth-first recursion as a set of paths: the next SELECT is
at one of its deepest nodes, which is the recursion with its siblings in any order
(there is no `ORDER BY`). Mutations are those of `OrgStructure` and not of
`OrgService`, whose statements between the first and the last of a transaction are not
visible to a SELECT; what overlapping requests can do beyond it, a cycle, is covered
by starting from any tables that satisfy the constraints, acyclic or not. `past` and
`during` are history variables, the tables since the load or since the last bump
before the read.

`CachedTrees` leaves to `TreeCache` what is there in detail: flights, the second look,
failing calls, lost bumps, expiry. A `Set` may be missing (the payload is larger than the
adapter takes). `LoadSpec` is the abstract specification that its loads implement.

### HttpAnswers, CacheTtl, Server

An error is the set of sentinels that `errors.Is` finds in it; `Status` and `Code` are the
two switches, in their order. `WriteHeader`, `WriteBody` and `HttpError` are the recorder
of the middleware over the writer of `net/http`, in which the first header counts.
`Plus` wraps around at `MaxDuration`; TLC has 31 for it, the theorem any number.

| Action | Code |
|---|---|
| `LoadConfig`, `Connect`, `SetupRedis`, `Listen`, `Notify`, `FailStart` | `run()` up to its `select` |
| `ServerStopped`, `BeginShutdown` | the branches of the `select` |
| `TimerFires`, `ShutdownDone`, `ShutdownLate`, `ForceClose` | `Shutdown` with its deadline of 10 seconds, then `Close` |
| `CloseRedis`, `Exit` | the defer, and `main()` |
| `Accept`, `BadRequest`, `ServiceError`, `Read`, `ReadAndCache`, `Health`, `Commit`, `LoseResult` | a handler up to its answer |
| `Bump` | `bumpDepartmentTreeEpoch` under `context.WithoutCancel` |
| `Respond`, `Log` | header and body, `http.Error` if `Encode` fails, the line of the access log |
| `ListenerFails`, `Signal`, `ClientLeaves` | the environment |

`net/http`, `database/sql` and `os/signal` are external. After `Notify` signals only end
the wait of `run()`, until its first defer, `stop()`: a second one can then kill the process
before the other defer has closed the client of Redis. A request whose context is done
may still be answered from a statement that is already there; it sends no new one.
The context error of a tree can be that of another client, the one that leads the
flight, so a 408 may reach somebody who has not left.

## 3. Runs

| Run | Checks | Instance |
|---|---|---|
| `OrgSerial` | `TypeOK`, `NoInternalError`, `Atomic` (refinement of `OrgStructure`), `OmittedFieldsKept` | 1 request at a time, all operations, malformed input |
| `OrgOneMover` | `AcyclicHierarchy`, `CycleRefusalJustified`, `ConflictJustified`, `ReassignKeepsMoved`, `EveryRequestAnswered` | 2 requests, department operations, only `r1` patches or reassigns |
| `OrgOverlap` | `ReferentialIntegrity`, `SiblingNamesUnique`, `PendingReassignSound` | 2 requests, everything but patches of departments, failing statements, lost results |
| `OrgCalm` | `Atomic`, `DeletedStaysDeleted`, `ReassignDeletesOne` | 2 requests of any kind that do not clash (`CalmSpec`), failing statements, lost results |
| `CacheFresh` | `TypeOK`, `PayloadsFresh`, `FreshReads`, `CacheTransparent` (refinement of `VersionedReads`) | 2 reads, 2 writers, 3 mutations, Redis failing, and recreated while nobody reads (`QuietSpec`) |
| `CacheLive` | `LoadOnlyOnMiss`, `EveryReadAnswered`, `CacheConverges` | 2 reads, 1 writer, 2 mutations, Redis failing and recreated |
| `CachedTrees` | `TypeOK`, `SettledPayloadsExact`, `BuiltTreesValid`, `StablePathsShown`, `ShownWasThere`, `AnswersCurrent` | reads one at a time, a mutation of any kind between any two SELECTs, 3 departments, depths 1 and 2 |
| `Serve` | `TypeOK`, `BumpsAccounted`, `GracefulExitComplete`, `CutOffReported`, `RedisReleased`, `AnswerTellsOutcome`, `LoggedStatusSent`, `CodeFixesStatus`, `StoredTtlInRange`, `SignalEndsProcess` | 2 requests in flight, one of them of any kind, start to exit |

Four runs show where the code does something else than the README of the repository says:

| Run | The README | What TLC finds |
|---|---|---|
| `OrgTwoMovers` | a move below itself is refused (241) | d1 moves below d2 while d2 moves below d1: both walks see the old hierarchy, both writes commit, a cycle remains |
| `OrgStalePatch` | an omitted field keeps its value (204) | a rename loads the row, a move commits, the rename writes the old `parent_id` back |
| `OrgResurrect` | delete removes the department (689) | a patch loads the row, a cascade delete commits, `Save` inserts the row again |
| `OrgReassignLoss` | employees move to the target (707, 261-262) | an employee is created after the UPDATE of the employees; the DELETE cascades to it |

The other runs and the theorems are the converse: they say when the claims of the README do
hold. `AcyclicHierarchy`, `CycleRefusalJustified` and `ReassignKeepsMoved` need `MovesApart`
(a patch that moves the target below the department while a reassign has it in hand makes the
cascade delete what has just been moved there). With `NoClash` requests are atomic and a
reassign deletes one department; with `LookupsStand` nobody gets a 500 from a database
that answers. `ReferentialIntegrity`, `SiblingNamesUnique`, `PendingReassignSound` and
`ConflictJustified` need no condition.

What a run cannot say of overlapping requests: `NoInternalError` and
`OmittedFieldsKept` are checked of one request at a time, the former proved of all that
satisfy `LookupsStand`, the latter broken by any two that meet on a row
(`OrgStalePatch`). `DeletedStaysDeleted` and `ReassignDeletesOne` are checked in `OrgCalm`,
where `NoClash` excludes just the overlap that `OrgResurrect` and `OrgReassignLoss` show to be
fatal: they say that no other one is. Without any one of the five clauses of `NoClash`
after `MovesApart` TLC finds a violation in `OrgCalm`; that the clause on creates also
speaks of a reassign at its first statement (`children`) is for the UPDATE that waits,
see above.

What the tree of a cyclic hierarchy looks like, and that the cache accepts it, is in
`CachedTrees`.

Recreating Redis (docker-compose keeps nothing) makes the epoch count from 0 again: a
reader of the old generation 0 may store its tree under the new one. `PayloadsFresh`,
`FreshReads` and `CacheTransparent` therefore need `QuietRestart`, in the run and in the
theorems: when the epoch begins anew, no read that has captured one is in flight. Nothing
sees to that. What is left without it is `CacheConverges`, which `CacheLive` checks with
restarts at any time: the TTL ends it.

### Bounds

*Organisation.* Three departments are enough for a department, its parent or target, and a
third above or below them; two names make siblings, collisions and roots; one
employee meets every statement that touches employees. Every initial state is
any organisation that satisfies the constraints and is acyclic. Two requests
make every pairwise interleaving; three would only add longer lock queues.
`IdLeft` stops creates when no id is left for them.

*Cache.* `MaxWrites` bounds versions and epochs; it never stops a bump, as there are no
more bumps than mutations.

*Trees.* Depth 2 has a root, an inner level that is read twice (employees, children) and a
last level that is not read for children. One mutation (`MaxWrites = 1`) at any point of a
load, its bump at any later point, and any number of reads one after the other already
give torn trees, torn payloads, and answers from a payload that a bump has outlived or
not. Keys of different queries never meet, so
each behaviour sticks to one query (`ReadEpoch`). Overlapping reads and more mutations
are covered by the theorems, which have no such bounds.

*Server.* Each slot has its own endpoints (`Routes`): one takes all ten, the other a
mutation and a read, enough to be drained with, cut off, or left waiting. `MaxFaults` bounds
lost bumps and lost results. TTLs are 0 (refused), 10 and 30, the last one so close to
`MaxDuration` = 31 that the jitter must be cut. A request that arrives on an old connection
of a failed listener after `run()` has returned is left out (`Accept`).

Ids, names, profiles and slots are only compared, so they are symmetric (slots
only where `Movers` does not tell them apart, departments only where they are not
asked for). No symmetry is used with liveness. The
views `Silent` drop the last answer of an idle slot, which no action and no
invariant of those runs reads; the action property `AnswersCurrent` reads it in the
step that sets it.

### Fairness

A read or a write that stays enabled is executed: goroutines are scheduled,
statements return. Writes may have to wait for locks again and again and get
strong fairness, since PostgreSQL queues waiters first come first served; where
somebody has to wait (`~Granted`), its detector looks for a deadlock (`deadlock_timeout`) and ends
it. A deadlock of statements none of which waits for a transaction *may* happen, and need not. Nothing is assumed of
clients or of failures. In the cache every call returns, as it has a deadline or is
answered, and every payload expires, as `Set` refuses a TTL that is not positive.
`EveryRequestAnswered` is checked with one mover: on a cycle, the walk of
`WouldCreateCycle` would only end with its context. So the deadlocks it sees are those of a
reassign or a patch with a cascade; two reassigns meet in `OrgOverlap`, for safety.

`Server` assumes only `WF_vars(RunStep)`, that the main goroutine and the timer of
`Shutdown` go on. Requests may hang for ever: `SignalEndsProcess` has to hold in spite of
them, as it does because of the deadline.

## 4. Proofs

All theorems hold for every value of the constants that satisfies the named assumptions
of the modules. Beside those of type, they are: `NullAssumption` (the null value is
no id), `IdAssumption` (ids of departments and of employees are told apart), `AbsentAssumption` (a field that is missing in the JSON is neither null nor an
id), `NoListAssumption` (the nil list of employees is no list), `DepthAssumption`
(`MaxDepth` is at most 5, the code's limit), `LoadAssumption`, `QueryAssumption`,
`CacheAssumption`, `ServerAssumption`, `DurationAssumption`.

- `OrgTablesProofs`: what the statements do to tables; names while children wait to
  be moved (`PendingPut`, `PendingCommit`); what a new leaf or a removed part does to
  a subtree; and the two facts about forests: moving something to a place outside a
  set that is closed below it (`AcyclicMove`), and adding a leaf (`AcyclicInsert`),
  keeps a forest.
- `OrgStructureProofs`: `Sound` is inductive. It adds to the
  properties that the ids of the rows have been issued: a new department
  with an old id might already have children. `StructureTypeCorrect`,
  `StructureAcyclic`, `StructureReferences`, `StructureNames` follow.
- `OrgServiceProofs`, for any number of requests in flight: `IInv` is inductive. It
  says what a handler carries at each call (`Shape`), that the constraints hold, that
  no INSERT meets an id somebody still carries (`Issued`), that what a transaction
  has updated is in order (`PendingReassignSound`), and that two transactions never
  hold the same row or give two rows of one name the same parent (`Apart`): without
  this, one commit could break the other. Every action leaves the transactions of
  others alone (`Undisturbed`, `QuietKeeps`), or is a statement of a transaction
  (`UpdateKeeps`). That they do is read off the locks: `TakesOf` and `HoldsLocks` say which
  there are, `Grants` what a granted statement cannot touch, and `GrantedRow`,
  `GrantedEmployee`, `GrantedDelete`, `GrantedMove` say it of each kind of statement.
  `ServiceTypeCorrect`, `ServiceReferences`, `ServiceNames`, `ServicePending` follow.
  Under `[]LookupsStand` and `~StoreFails`, `Backed` is inductive: what the
  calls of a request that are still to come refer to is there. The request's own steps keep this
  since it looks everything up (`ReadBacked`, `WriteBacked`), the steps of others
  since they delete only what they are said to (`StepDeletes`, `OthersBacked`). And nobody
  is the victim of a deadlock (`NoDeadlock`): where a create or an employee request may have to
  wait it has no lock yet, as nobody deletes the department its foreign key refers to
  (`SmallTakes`, `DeleteLocks`), and of those that take more there is only one. Hence `ServiceNoInternalError`.
- `OrgHierarchyProofs`, in three parts, for any number of requests that may fail and deadlock:
  - *The hierarchy*, under `[]MovesApart`: `Forest` is inductive on top of `IInv`. During the
    walk, `cur` stays above the target, and inside the subtree of the department as
    long as the target is; a walk that reaches a root has thus shown that the
    target is outside (`Walked`, `Cleared`, `Placed`). Creates and cascades keep this,
    because an id is not issued twice and a cascade takes whole subtrees (`PathInsert`,
    `PathRemove`). `HierarchyAcyclic` and `HierarchyRefusals` follow; `OrgTwoMovers`
    shows that the condition is needed, `OneMoverMovesApart` that one mover meets it.
    As the target is still outside when the transaction commits, what the cascade
    takes is the subtree without the children that have moved (`MovedOut`): `ReassignMoves`.
  - *Atomicity*, under `[]NoClash`: `Calm` is `IInv`, `Forest` and `Steady`. `Steady` says what a
    request may rely on because nobody else has touched it: the row that a patch is
    about to save is there; a transaction holds all children and
    employees of its department. It is kept by every step of others (the lemmas named
    `...Untouched`), and gives what `Save` and the commit do to the tables (`DropEffect`: a
    department that has been emptied is dropped without a cascade). Then every write is
    the step of `OrgStructure`, or changes nothing if its row has gone, and every
    other call is a stutter (`ServiceAtomic`). `ReassignExact` comes from the same invariant.
    `CalmIsNoClash` is that `CalmSpec`, which `OrgCalm` checks, is `Spec /\ []NoClash`.
  - *Refusals*, without any condition: a unique index refuses a table only for two rows of
    one name and parent, one of which is committed there and not the one that is being
    written (`PutConflict`, `ReparentConflict`); `AllInFlight`, that a request in flight has no
    answer yet. `ServiceConflicts` follows.
- `TreeCacheProofs`, under `[][QuietRestart]_vars`: between two recreations the epoch only grows and
  `floor` with it up to `db`; the epoch of a reader that uses the cache is at most the
  current one, its `must` is at most the floor of its epoch, and what it has loaded
  is at least that. A recreation changes the floor of an epoch that no such reader has. Hence
  `CachePayloadsFresh` and `CacheReadsFresh`; a reader that waits
  has the key, and so the floor, of its leader, which gives `CacheRefinesReads`.
  `KeptRedisQuiet`: a Redis that is never recreated meets the condition.
  Without the condition: `Flights`, a key has at most one leader in a process and whoever
  waits has one, is inductive. With a single process, it gives
  `CacheLoadOnlyOnMiss`: nobody else can store the key of a flight after its second look.
- `TreeLoadProofs`: `LoadInv` is inductive. Every node was on the path that leads to it, edge by
  edge, at some time of the load, is of a row and of lists that there were, and
  points to its parent; a node with nothing left to read has its employees and
  every child that stayed (`NodeOk`, `Grown`, `Headed`). `LoadShowsOnly` and
  `LoadValid` follow at once. `LoadShowsStable` is the step from parents and children to
  whole paths: it would be an induction over the path, and is a chain of six
  facts instead, since a path has at most `MaxDepth + 1` nodes.
- `CachedTreesProofs`: every step of `CachedTrees` is one of `TreeLoad` or leaves it alone
  (`CachedLoads`), so the theorems above hold of the trees that are cached
  (`CachedTreesBuilt`). `CachedInv` adds that the reads of the current epoch
  have met the same tables since its bump and no older ones (`Histories`), and that a
  payload shows what the tables have agreed on since its epoch began (`Payloads`).
  With no mutation pending these are the tables of one state, which gives
  `CachedSettled`; together with the theorems on loads, `CachedAnswers`.
- `ServerProofs`, for any number of requests: `Inv` says what an answer tells in each state of a
  request (`Requests`), that `owed` is the faults and the requests at their bump
  (`Accounts`, by cardinality), and how each step of `run()` is reached (`Ways`). The
  nine invariants of `Serve` follow, among them `ServerTtl` for
  every `MaxDuration` and `ServerCodes` by going through all sentinels.

Every invariant, action property and refinement of the passing runs is stated by a theorem,
but for `OmittedFieldsKept` and `DeletedStaysDeleted`, which hold of overlapping requests only if
those are kept off each other's rows. Only model-checked are besides the liveness properties:
`EveryRequestAnswered`, `EveryReadAnswered`, `CacheConverges`, `SignalEndsProcess`. Liveness, and whatever else needs fairness or
`ENABLED`, is out of the prover's reach, as is induction over data.
No module uses a RECURSIVE operator: `WouldCreateCycle` and
`buildDepartmentTree` are loops of actions, subtrees are defined by closed sets.

## 5. Not modelled

- The cache logging decorator (`cache/logging.go`): it passes every result on.
- Trimming and the limit of 200 characters of strings; validation accepts or rejects.
- The variables of the configuration other than `REDIS_ENABLED` and `CACHE_TTL`: any of
  them may fail the start, none is read by what is modelled.
- The rows that reads of employees return: one SELECT each, nothing to interleave.
- The order of siblings and of employees, `created_at`, log levels and durations.
- Lost updates among the profile fields of an employee (they are one value here).
- That both of two reassigns which wait for each other end (see Fairness).
- nginx, images, the pools of connections.
