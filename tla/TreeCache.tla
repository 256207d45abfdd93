------------------------------- MODULE TreeCache -------------------------------
(***************************************************************************)
(* The cache of department trees: GetDepartmentTree with the cache-aside,  *)
(* the epoch and the singleflight group of department_tree_cache.go, and   *)
(* the epoch bump at the end of every mutation.                            *)
(*                                                                         *)
(* The content of the database is its version, the number of mutations     *)
(* committed so far.  A tree is loaded by several SELECTs; it stands for   *)
(* the version at the first of them, the oldest that it can contain.       *)
(*                                                                         *)
(* External, modelled from the calls of CacheStore and group.Do:           *)
(*  - Redis: GET, SET with a TTL, INCR are atomic; any call may fail, with *)
(*    or without effect; keys with a TTL expire or are evicted, the epoch  *)
(*    key is not; a recreated container is empty;                          *)
(*  - singleflight: one flight per key and process, the others wait and    *)
(*    get its result.                                                      *)
(***************************************************************************)
EXTENDS Naturals, Functions

CONSTANTS
    Proc,           \* instances of the application
    Slot,           \* slots for concurrent reads within an instance
    Writer,         \* slots for concurrent mutations, of any instance
    Query,          \* id, depth, include_employees
    MaxWrites,      \* bound on the mutations
    NoTree,         \* the result of a read that failed; no query yet
    RedisFails,     \* may calls of Redis fail?
    RedisRestarts   \* may the Redis container be recreated?

ASSUME CacheAssumption ==
    /\ MaxWrites \in Nat
    /\ NoTree \notin Nat
    /\ RedisFails \in BOOLEAN
    /\ RedisRestarts \in BOOLEAN

Reader == Proc \X Slot
Versions == 0 .. MaxWrites
Epochs == 0 .. MaxWrites
Key == Epochs \X Query

VARIABLES
    db,             \* the committed version
    epoch,          \* "department-tree:epoch" (0 while the key is absent)
    cache,          \* the payload keys of Redis -> version of the tree
    reader,         \* what each read is doing
    writer,         \* "idle", or "bump" when the mutation has committed
    floor           \* history: the version when the epoch got each value

vars == <<db, epoch, cache, reader, writer, floor>>

(***************************************************************************)
(* pc names the next call of a read:                                       *)
(*   get      readCachedDepartmentTree with the captured epoch             *)
(*   direct   loadDepartmentTree, Redis being of no use                    *)
(*   join     group.Do                                                     *)
(*   wait     in group.Do behind another read of the process               *)
(*   check    readCachedDepartmentTree within the flight                   *)
(*   only     loadDepartmentTree within the flight, without Set            *)
(*   load     loadDepartmentTree within the flight, with Set               *)
(*   store    Set of the tree that was loaded (seen)                       *)
(***************************************************************************)
PCs == {"idle", "get", "direct", "join", "wait", "check", "only", "load", "store"}

ReaderRecord ==
    [pc : PCs, query : Query \cup {NoTree}, epoch : Epochs,
     seen : Versions, must : Versions, result : Versions \cup {NoTree}]

TypeOK ==
    /\ db \in Versions
    /\ epoch \in Epochs
    /\ DOMAIN cache \subseteq Key
    /\ \A k \in DOMAIN cache : cache[k] \in Versions
    /\ reader \in [Reader -> ReaderRecord]
    /\ \A r \in Reader : reader[r].pc # "idle" => reader[r].query \in Query
    /\ writer \in [Writer -> {"idle", "bump"}]
    /\ floor \in [Epochs -> Versions]

Init ==
    /\ db = 0
    /\ epoch = 0
    /\ cache = << >>
    /\ reader = [r \in Reader |->
                    [pc |-> "idle", query |-> NoTree, epoch |-> 0,
                     seen |-> 0, must |-> 0, result |-> NoTree]]
    /\ writer = [w \in Writer |-> "idle"]
    /\ floor = [e \in Epochs |-> 0]

-----------------------------------------------------------------------------
(***************************************************************************)
(* Reads.                                                                  *)
(***************************************************************************)

\* Mutant: the key does not hold the epoch.
UnversionedKeyOf(r) == <<0, reader[r].query>>

\* departmentTreeCacheKey, of the epoch captured at the beginning
KeyOf(r) == <<reader[r].epoch, reader[r].query>>

InFlight == {"check", "only", "load", "store"}

\* The flight of r, if one is under way: the read of its process that leads it.
Leads(l, r) ==
    /\ l[1] = r[1]
    /\ KeyOf(l) = KeyOf(r)
    /\ reader[l].pc \in InFlight

Waiters(l) ==
    {r \in Reader : r[1] = l[1] /\ KeyOf(r) = KeyOf(l) /\ reader[r].pc = "wait"}

Goto(r, pc) == reader' = [reader EXCEPT ![r].pc = pc]

Answered(q, v) == [q EXCEPT !.pc = "idle", !.query = NoTree, !.epoch = 0,
                            !.seen = 0, !.result = v]

Answer(R, v) ==
    reader' = [r \in Reader |-> IF r \in R THEN Answered(reader[r], v) ELSE reader[r]]

\* group.Do returns, to the leader and to those who wait for it.
EndFlight(l, v) == Answer({l} \cup Waiters(l), v)

\* Mutant: the read goes on with the epoch that it failed to read.
ReadEpochUnchecked(r, q) ==
    /\ reader[r].pc = "idle"
    /\ \E e \in {epoch, NoTree} :
           reader' = [reader EXCEPT ![r] =
                         [@ EXCEPT !.pc = "get", !.query = q, !.epoch = e]]
    /\ UNCHANGED <<db, epoch, cache, writer, floor>>

\* readDepartmentTreeEpoch
ReadEpoch(r, q) ==
    /\ reader[r].pc = "idle"
    /\ \/ reader' = [reader EXCEPT ![r] =
                        [@ EXCEPT !.pc = "get", !.query = q, !.epoch = epoch,
                                  !.must = floor[epoch], !.result = NoTree]]
       \/ /\ RedisFails
          /\ reader' = [reader EXCEPT ![r] =
                           [@ EXCEPT !.pc = "direct", !.query = q,
                                     !.must = floor[epoch], !.result = NoTree]]
    /\ UNCHANGED <<db, epoch, cache, writer, floor>>

GetCached(r) ==
    /\ reader[r].pc = "get"
    /\ \/ KeyOf(r) \in DOMAIN cache /\ Answer({r}, cache[KeyOf(r)])
       \/ KeyOf(r) \notin DOMAIN cache /\ Goto(r, "join")
       \/ RedisFails /\ Goto(r, "direct")
    /\ UNCHANGED <<db, epoch, cache, writer, floor>>

\* A load fails: no such department, a failed SELECT, a context that is done.
DirectLoad(r) ==
    /\ reader[r].pc = "direct"
    /\ \E v \in {db, NoTree} : Answer({r}, v)
    /\ UNCHANGED <<db, epoch, cache, writer, floor>>

JoinFlight(r) ==
    /\ reader[r].pc = "join"
    /\ \/ (\E l \in Reader : Leads(l, r)) /\ Goto(r, "wait")
       \/ (\A l \in Reader : ~Leads(l, r)) /\ Goto(r, "check")
    /\ UNCHANGED <<db, epoch, cache, writer, floor>>

\* Mutant: the flight does not look into the cache again.
LoadAnyway(r) ==
    /\ reader[r].pc = "check"
    /\ Goto(r, "load")
    /\ UNCHANGED <<db, epoch, cache, writer, floor>>

DoubleCheck(r) ==
    /\ reader[r].pc = "check"
    /\ \/ KeyOf(r) \in DOMAIN cache /\ EndFlight(r, cache[KeyOf(r)])
       \/ KeyOf(r) \notin DOMAIN cache /\ Goto(r, "load")
       \/ RedisFails /\ Goto(r, "only")
    /\ UNCHANGED <<db, epoch, cache, writer, floor>>

\* Mutant: a load that fails is tried again.
LoadTreeAgain(r) ==
    /\ \/ /\ reader[r].pc = "load"
          /\ reader' = [reader EXCEPT ![r].pc = "store", ![r].seen = db]
       \/ reader[r].pc = "only" /\ EndFlight(r, db)
       \/ reader[r].pc \in {"load", "only"} /\ Goto(r, "check")
    /\ UNCHANGED <<db, epoch, cache, writer, floor>>

\* The error of the leader, also that its client has gone, is everybody's.
LoadTree(r) ==
    /\ \/ /\ reader[r].pc = "load"
          /\ reader' = [reader EXCEPT ![r].pc = "store", ![r].seen = db]
       \/ reader[r].pc = "only" /\ EndFlight(r, db)
       \/ reader[r].pc \in {"load", "only"} /\ EndFlight(r, NoTree)
    /\ UNCHANGED <<db, epoch, cache, writer, floor>>

\* Mutant: the tree is stored under the epoch of the moment.
StoreTreeLate(r) ==
    /\ reader[r].pc = "store"
    /\ LET key == <<epoch, reader[r].query>> IN
       cache' = [k \in DOMAIN cache \cup {key} |->
                    IF k = key THEN reader[r].seen ELSE cache[k]]
    /\ EndFlight(r, reader[r].seen)
    /\ UNCHANGED <<db, epoch, writer, floor>>

\* Set, unless the JSON is too long; its error is ignored.
StoreTree(r) ==
    /\ reader[r].pc = "store"
    /\ \/ cache' = [k \in DOMAIN cache \cup {KeyOf(r)} |->
                       IF k = KeyOf(r) THEN reader[r].seen ELSE cache[k]]
       \/ cache' = cache
    /\ EndFlight(r, reader[r].seen)
    /\ UNCHANGED <<db, epoch, writer, floor>>

-----------------------------------------------------------------------------
(***************************************************************************)
(* Mutations, of departments or employees.                                 *)
(***************************************************************************)
Commit(w) ==
    /\ writer[w] = "idle"
    /\ db < MaxWrites
    /\ db' = db + 1
    /\ writer' = [writer EXCEPT ![w] = "bump"]
    /\ UNCHANGED <<epoch, cache, reader, floor>>

\* bumpDepartmentTreeEpoch: INCR, in a context that the client cannot cancel.
\* There are no more bumps than mutations, so the bound never stops one.
Bump(w) ==
    /\ writer[w] = "bump"
    /\ epoch < MaxWrites
    /\ epoch' = epoch + 1
    /\ floor' = [floor EXCEPT ![epoch + 1] = db]
    /\ writer' = [writer EXCEPT ![w] = "idle"]
    /\ UNCHANGED <<db, cache, reader>>

\* Redis did not answer, or the process died between commit and bump.
LoseBump(w) ==
    /\ RedisFails
    /\ writer[w] = "bump"
    /\ writer' = [writer EXCEPT ![w] = "idle"]
    /\ UNCHANGED <<db, epoch, cache, reader, floor>>

-----------------------------------------------------------------------------
(***************************************************************************)
(* Redis.                                                                  *)
(***************************************************************************)

\* Mutant: keys without a TTL.
ExpireNever(k) == k \in {} /\ UNCHANGED vars

\* The TTL has passed, or volatile-lfu evicts the key.
Expire(k) ==
    /\ k \in DOMAIN cache
    /\ cache' = Restrict(cache, DOMAIN cache \ {k})
    /\ UNCHANGED <<db, epoch, reader, writer, floor>>

\* RDB and AOF are off and /data is a tmpfs: everything is gone.
Restart ==
    /\ RedisRestarts
    /\ epoch' = 0
    /\ cache' = << >>
    /\ floor' = [floor EXCEPT ![0] = db]
    /\ UNCHANGED <<db, reader, writer>>

-----------------------------------------------------------------------------
ReadStep(r) ==
    \/ GetCached(r)
    \/ DirectLoad(r)
    \/ JoinFlight(r)
    \/ DoubleCheck(r)
    \/ LoadTree(r)
    \/ StoreTree(r)

Next ==
    \/ \E r \in Reader : ReadStep(r) \/ \E q \in Query : ReadEpoch(r, q)
    \/ \E w \in Writer : Commit(w) \/ Bump(w) \/ LoseBump(w)
    \/ \E k \in Key : Expire(k)
    \/ Restart

Spec == Init /\ [][Next]_vars

\* Generation numbers come back only while no read that has captured one is in
\* flight.  Nothing in the code or the deployment sees to it.
QuietRestart ==
    epoch' < epoch \/ floor'[0] # floor[0]
    => \A r \in Reader : reader[r].pc \in {"idle", "direct"}

QuietSpec == Init /\ [][Next /\ QuietRestart]_vars

\* The calls of a read return (Redis and PostgreSQL are called with deadlines or
\* answer), and every TTL passes.
FairSpec ==
    /\ Spec
    /\ \A r \in Reader : WF_vars(ReadStep(r))
    /\ \A k \in Key : WF_vars(Expire(k))

-----------------------------------------------------------------------------
(***************************************************************************)
(* Properties.                                                             *)
(***************************************************************************)

\* No payload is older than the epoch in its key: a reader that loaded before a
\* mutation stores the tree under the epoch it captured, not the one it bumped.
\* This and what follows from it needs QuietRestart.
PayloadsFresh ==
    \A k \in DOMAIN cache : floor[k[1]] <= cache[k] /\ cache[k] <= db

\* A read that began after a successful bump shows every mutation committed
\* before the bump, whether it hits, loads, waits for another read or falls back.
FreshReads ==
    \A r \in Reader :
        reader[r].pc = "idle" /\ reader[r].result # NoTree
        => reader[r].must <= reader[r].result /\ reader[r].result <= db

\* While the flight of a key loads in the only process, the key is not cached:
\* the second look into the cache spares the load that has just been done.
LoadOnlyOnMiss ==
    \A r \in Reader : reader[r].pc \in {"load", "store"} => KeyOf(r) \notin DOMAIN cache

\* Every read is answered.
EveryReadAnswered ==
    \A r \in Reader : reader[r].pc # "idle" ~> reader[r].pc = "idle"

\* Once the mutations are over, what is cached becomes what is stored, even if
\* bumps got lost: the TTL is the last resort.
CacheConverges == <>[](\A k \in DOMAIN cache : cache[k] = db)

Reads == INSTANCE VersionedReads WITH
    announced <- floor[epoch],
    busy <- {r \in Reader : reader[r].pc # "idle"},
    must <- [r \in Reader |-> reader[r].must],
    answer <- [r \in Reader |-> reader[r].result]

\* The cache keeps the promise of VersionedReads.
CacheTransparent == Reads!Spec
=============================================================================
