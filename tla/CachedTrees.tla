----------------------------- MODULE CachedTrees -----------------------------
(***************************************************************************)
(* Department trees as clients see them: the loads of TreeLoad behind the  *)
(* epoch cache, the mutations of OrgStructure with their bumps.            *)
(*                                                                         *)
(* TreeCache has the calls, failures and flights of the cache in detail,   *)
(* but knows a tree only as a version.  Here the cache is reduced to its   *)
(* protocol (read the epoch, look up, load, store under the epoch that was *)
(* read) and the trees have their content, of several versions if          *)
(* mutations met the load.  Every load is a process of its own, Redis      *)
(* answers, no bump is lost and no payload expires.                        *)
(***************************************************************************)
EXTENDS TreeLoad

CONSTANTS Root,           \* departments whose tree clients ask for
          Depth,          \* depths that they ask for
          Include         \* values of include_employees that they send

ASSUME QueryAssumption ==
    Root \subseteq DeptId /\ Depth \subseteq 1 .. MaxDepth /\ Include \subseteq BOOLEAN

VARIABLES
    epoch,          \* "department-tree:epoch"
    pending,        \* mutations that have committed and not yet bumped
    stored,         \* the payload keys of Redis -> tree
    read,           \* what each read is doing
    since,          \* history: the tables since the last bump
    during          \* history: the tables since the last bump before each read

loading == <<load, tree, todo, past>>
redis == <<epoch, pending, stored, since>>
vars == <<departments, employees, issued, writes, load, tree, todo, past,
          epoch, pending, stored, read, since, during>>

Epochs == 0 .. MaxWrites

(***************************************************************************)
(* A read: pc names the next call, key is departmentTreeCacheKey.          *)
(*   get      readCachedDepartmentTree                                     *)
(*   load     GetByID, the first SELECT of loadDepartmentTree              *)
(*   build    the other SELECTs, then Set                                  *)
(***************************************************************************)
Key == [epoch : Epochs, root : DeptId, depth : 1 .. MaxDepth, include : BOOLEAN]

Answered(answer) == [pc |-> "idle", key |-> Null, answer |-> answer]

TypeOK ==
    /\ LoadTypeOK
    /\ epoch \in Epochs
    /\ pending \in 0 .. MaxWrites
    /\ epoch + pending = writes
    /\ DOMAIN stored \subseteq Key
    /\ \A l \in Loader :
           /\ read[l].pc \in {"idle", "get", "load", "build"}
           /\ read[l].pc # "idle" => read[l].key \in Key
           /\ load[l].pc = "build" => read[l].pc = "build"

Init ==
    /\ LoadInit
    /\ epoch = 0
    /\ pending = 0
    /\ stored = << >>
    /\ read = [l \in Loader |-> Answered(Null)]
    /\ since = {Tables}
    /\ during = [l \in Loader |-> {}]

\* Bound: one query in each behaviour.  The keys of different queries never meet.
SameQuery(k, d, depth, include) == k.root = d /\ k.depth = depth /\ k.include = include

\* readDepartmentTreeEpoch
ReadEpoch(l, d, depth, include) ==
    /\ read[l].pc = "idle"
    /\ \A k \in DOMAIN stored : SameQuery(k, d, depth, include)
    /\ read' = [read EXCEPT ![l] =
           [pc |-> "get",
            key |-> [epoch |-> epoch, root |-> d, depth |-> depth, include |-> include],
            answer |-> Null]]
    /\ during' = [during EXCEPT ![l] = since]
    /\ UNCHANGED <<db, loading, redis>>

\* Mutant: the epoch is read again for the lookup.
NewestKey(l) == [read[l].key EXCEPT !.epoch = epoch]

KeyOf(l) == read[l].key

\* readCachedDepartmentTree: what does not validate is a miss.
GetCached(l) ==
    LET hit == KeyOf(l) \in DOMAIN stored
               /\ Valid(stored[KeyOf(l)], KeyOf(l))
    IN
    /\ read[l].pc = "get"
    /\ \/ hit /\ read' = [read EXCEPT ![l] = Answered(stored[KeyOf(l)])]
       \/ ~hit /\ read' = [read EXCEPT ![l].pc = "load"]
    /\ UNCHANGED <<db, loading, redis, during>>

StartLoad(l) ==
    /\ read[l].pc = "load"
    /\ GetByID(l, read[l].key.root, read[l].key.depth, read[l].key.include)
    /\ read' = [read EXCEPT ![l].pc = "build"]
    /\ UNCHANGED <<redis, during>>

LoadStep(l) ==
    /\ Select(l)
    /\ UNCHANGED <<redis, read, during>>

\* Mutant: the tree is stored under the epoch of the moment.
StoreNewest(l) ==
    LET key == NewestKey(l) IN
    /\ read[l].pc = "build"
    /\ read' = [read EXCEPT ![l] = Answered(tree[l])]
    /\ stored' = [k \in DOMAIN stored \cup {key} |-> IF k = key THEN tree[l] ELSE stored[k]]
    /\ Return(l)
    /\ UNCHANGED <<epoch, pending, since, during>>

\* Set, unless there is no such department or the JSON is too long.
Store(l) ==
    /\ read[l].pc = "build"
    /\ read' = [read EXCEPT ![l] = Answered(tree[l])]
    /\ \/ stored' = stored
       \/ /\ tree[l] # << >>
          /\ stored' = [k \in DOMAIN stored \cup {KeyOf(l)} |->
                           IF k = KeyOf(l) THEN tree[l] ELSE stored[k]]
    /\ Return(l)
    /\ UNCHANGED <<epoch, pending, since, during>>

\* A SELECT fails: the client gets the error.
LoadError(l) ==
    /\ SelectFails(l)
    /\ read' = [read EXCEPT ![l] = Answered(Null)]
    /\ UNCHANGED <<redis, during>>

Commit ==
    /\ Mutate
    /\ pending' = pending + 1
    /\ since' = since \cup {Tables'}
    /\ during' = [l \in Loader |->
                     IF read[l].pc = "idle" THEN during[l] ELSE during[l] \cup {Tables'}]
    /\ UNCHANGED <<epoch, stored, read>>

\* Mutant: the epoch is bumped before the mutation, which may then fail.
BumpFirst ==
    /\ epoch < MaxWrites
    /\ epoch' = epoch + 1
    /\ since' = {Tables}
    /\ UNCHANGED <<db, loading, pending, stored, read, during>>

\* bumpDepartmentTreeEpoch
Bump ==
    /\ pending > 0
    /\ pending' = pending - 1
    /\ epoch' = epoch + 1
    /\ since' = {Tables}
    /\ UNCHANGED <<db, loading, stored, read, during>>

Next ==
    \/ \E l \in Loader :
           \/ \E d \in Root, depth \in Depth, include \in Include :
                  ReadEpoch(l, d, depth, include)
           \/ GetCached(l) \/ StartLoad(l) \/ LoadStep(l) \/ Store(l) \/ LoadError(l)
    \/ Commit
    \/ Bump

Spec == Init /\ [][Next]_vars

-----------------------------------------------------------------------------
(***************************************************************************)
(* Properties.                                                             *)
(***************************************************************************)

\* When every mutation has bumped, what can be read from the cache is exactly
\* what is in the database.  A tree whose SELECTs saw different versions is
\* stored, but never under an epoch that outlives the bump of those versions.
SettledPayloadsExact ==
    pending = 0 =>
        \A k \in DOMAIN stored : k.epoch = epoch => stored[k] = TreeIn(Tables, k)

\* An answer shows what the tables have agreed on since the last bump before the
\* read began, and nothing that they have not held since then; cached or not, and
\* whatever mutations met the load.
AnswersCurrent ==
    [][\A l \in Loader :
           LET answer == read'[l].answer IN
           read[l].pc # "idle" /\ read'[l].pc = "idle" /\ answer # Null =>
               /\ ShowsStable(answer, read[l].key, during[l])
               /\ ShowsOnly(answer, during[l])]_vars
=============================================================================
