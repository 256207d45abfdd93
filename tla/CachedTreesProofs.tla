--------------------------- MODULE CachedTreesProofs ---------------------------
(***************************************************************************)
(* Trees behind the cache, for any ids, reads, queries and mutations.      *)
(***************************************************************************)
EXTENDS CachedTrees, TreeLoadProofs

-----------------------------------------------------------------------------
(***************************************************************************)
(* Trees that are whole.                                                   *)
(***************************************************************************)

\* The tree t for the request q, whose SELECTs and whose time in the cache have
\* met the tables S.
Faithful(t, q, S) ==
    /\ ShowsStable(t, q, S)
    /\ ShowsOnly(t, S)
    /\ TreeTyped(t)
    /\ \A p \in DOMAIN t : Len(p) <= q.depth + 1 /\ PathWas(p, q.root, S)

\* Only these fields of a request or a key matter.
LEMMA FaithfulKey ==
  ASSUME NEW t, NEW q, NEW k, NEW S, Faithful(t, q, S),
         k.root = q.root, k.depth = q.depth, k.include = q.include
  PROVE  Faithful(t, k, S)
<1>1. \A s : TreeIn(s, k) = TreeIn(s, q)
  BY DEF TreeIn
<1>2. ShowsStable(t, k, S)
  BY <1>1 DEF Faithful, ShowsStable
<1> QED
  BY <1>2 DEF Faithful

LEMMA StableMore ==
  ASSUME NEW t, NEW q, NEW S, NEW T, S \subseteq T, S # {}, ShowsStable(t, q, S)
  PROVE  ShowsStable(t, q, T)
<1> SUFFICES ASSUME NEW p \in Path,
                    \A s \in T : p \in PathsFrom(s.depts, q.root, q.depth)
             PROVE  /\ p \in DOMAIN t
                    /\ \A s \in T :
                           (\A u \in T : TreeIn(u, q)[p] = TreeIn(s, q)[p])
                           => t[p] = TreeIn(s, q)[p]
  BY DEF ShowsStable
<1> DEFINE F(x) == TreeIn(x, q)[p]
<1>1. /\ p \in DOMAIN t
      /\ \A s \in S : (\A u \in S : F(u) = F(s)) => t[p] = F(s)
  BY DEF ShowsStable
<1> HIDE DEF F
<1>2. ASSUME NEW s \in T, \A u \in T : F(u) = F(s) PROVE t[p] = F(s)
  BY <1>1, <1>2
<1> QED
  BY <1>1, <1>2 DEF F

LEMMA FaithfulMore ==
  ASSUME NEW t, NEW q, NEW S, NEW T, S \subseteq T, S # {}, Faithful(t, q, S)
  PROVE  Faithful(t, q, T)
<1>1. ShowsStable(t, q, T)
  BY StableMore DEF Faithful
<1>2. ShowsOnly(t, T)
  BY DEF Faithful, ShowsOnly
<1>3. \A p \in DOMAIN t : Len(p) <= q.depth + 1 /\ PathWas(p, q.root, T)
  BY DEF Faithful, PathWas
<1> QED
  BY <1>1, <1>2, <1>3 DEF Faithful

LEMMA WholeIsFaithful ==
  ASSUME NEW t, NEW q, NEW S, LoadOk(t, q, {}, S), q.pc = "done"
  PROVE  Faithful(t, q, S)
<1>1. ShowsStable(t, q, S) /\ ShowsOnly(t, S)
  BY StableIsShown, OnlyOfThese
<1> QED
  BY <1>1 DEF Faithful, LoadOk, NodeOk

\* What is faithful to one state of the tables is the tree in that state.
LEMMA FaithfulToOne ==
  ASSUME NEW t, NEW q, NEW s, Faithful(t, q, {s})
  PROVE  t = TreeIn(s, q)
<1> DEFINE P == PathsFrom(s.depts, q.root, q.depth)
           T == TreeIn(s, q)
<1>1. DOMAIN T = P /\ T = [p \in P |-> T[p]]
  BY DEF TreeIn
<1>2. TreeTyped(t)
  BY DEF Faithful
<1>3. ASSUME NEW p \in DOMAIN t PROVE p \in P
  <2>1. p \in Path /\ Len(p) \in Nat
    BY <1>2, PathLen, DepthAssumption DEF TreeTyped
  <2>2. Len(p) <= q.depth + 1 /\ PathWas(p, q.root, {s})
    BY DEF Faithful
  <2>3. \A i \in 1 .. Len(p) : p[i] \in DOMAIN s.depts
    BY <2>2 DEF PathWas
  <2>4. ASSUME NEW i \in 1 .. Len(p) - 1 PROVE s.depts[p[i + 1]].parent = p[i]
    <3> DEFINE j == i + 1
    <3>1. j \in 1 .. Len(p) /\ j > 1 /\ j - 1 = i
      BY <2>1
    <3> HIDE DEF j
    <3>2. \A x \in {s} : x = s
      OBVIOUS
    <3>3. s.depts[p[j]].parent = p[j - 1]
      BY <2>2, <3>1, <3>2 DEF PathWas
    <3> QED
      BY <3>1, <3>3 DEF j
  <2>5. p[1] = q.root
    BY <2>2 DEF PathWas
  <2> QED
    BY <2>1, <2>2, <2>3, <2>4, <2>5 DEF PathsFrom
<1>4. ASSUME NEW p \in P PROVE p \in DOMAIN t /\ t[p] = T[p]
  <2>1. p \in Path
    BY DEF PathsFrom
  <2> QED
    BY <2>1 DEF Faithful, ShowsStable
<1> HIDE DEF T, P
<1>5. DOMAIN t = DOMAIN T
  BY <1>1, <1>3, <1>4
<1>6. t = T
  BY <1>1, <1>2, <1>4, <1>5 DEF TreeTyped
<1> QED
  BY <1>6 DEF T

-----------------------------------------------------------------------------
(***************************************************************************)
(* The inductive invariant.                                                *)
(***************************************************************************)

Active(l) == read[l].pc # "idle"

Counters ==
    /\ epoch \in Nat
    /\ pending \in Nat
    /\ epoch + pending = writes
    /\ writes <= MaxWrites

AsksFor(q, k) == q.root = k.root /\ q.depth = k.depth /\ q.include = k.include

Reads ==
    /\ read = [l \in Loader |-> read[l]]
    /\ during = [l \in Loader |-> during[l]]
    /\ \A l \in Loader :
           /\ read[l] = [pc |-> read[l].pc, key |-> read[l].key, answer |-> read[l].answer]
           /\ read[l].pc \in {"idle", "get", "load", "build"}
           /\ Active(l) => read[l].key \in Key /\ read[l].key.epoch <= epoch
           /\ load[l].pc # "idle" => read[l].pc = "build"
           /\ read[l].pc = "build" => AsksFor(load[l], read[l].key) /\ past[l] \subseteq during[l]

\* Reads that have seen the same epoch have seen the same tables since the bump
\* that made it, and those of the current epoch all that there have been since.
Histories ==
    /\ Tables \in since
    /\ pending = 0 => since = {Tables}
    /\ \A l \in Loader :
           Active(l) =>
               /\ Tables \in during[l]
               /\ read[l].key.epoch = epoch => during[l] = since
               /\ \A m \in Loader :
                      Active(m) /\ read[m].key.epoch = read[l].key.epoch
                      => during[m] = during[l]

\* A payload shows what a read that finds it may be shown.
Payloads ==
    /\ \A k \in DOMAIN stored :
           /\ k \in Key
           /\ k.epoch <= epoch
           /\ k.epoch = epoch => Faithful(stored[k], k, since)
    /\ \A l \in Loader :
           Active(l) /\ read[l].key \in DOMAIN stored
           => Faithful(stored[read[l].key], read[l].key, during[l])

CachedInv == LoadInv /\ Counters /\ Reads /\ Histories /\ Payloads

LEMMA CachedInvInit == Init => CachedInv
<1> SUFFICES ASSUME Init PROVE CachedInv
  OBVIOUS
<1>1. LoadInv
  BY LoadInvInit DEF Init
<1>2. Counters
  BY LoadAssumption DEF Init, LoadInit, Counters
<1>3. \A l \in Loader : read[l] = Answered(Null) /\ load[l] = NoLoad
  BY DEF Init, LoadInit
<1>4. ASSUME NEW l \in Loader
      PROVE  /\ read[l] = [pc |-> read[l].pc, key |-> read[l].key, answer |-> read[l].answer]
             /\ read[l].pc = "idle"
             /\ load[l].pc = "idle"
  BY <1>3 DEF Answered, NoLoad
<1>5. Reads
  BY <1>4 DEF Reads, Active, Init
<1>6. Histories
  BY <1>4 DEF Histories, Active, Init
<1>7. Payloads
  <2>1. DOMAIN stored = {}
    BY EmptyTree DEF Init
  <2> QED
    BY <1>4, <2>1 DEF Payloads, Active
<1> QED
  BY <1>1, <1>2, <1>5, <1>6, <1>7 DEF CachedInv

\* The loads behind the cache are loads of TreeLoad.
LEMMA StepOfLoads ==
  ASSUME CachedInv, [Next]_vars
  PROVE  [LoadNext]_loadVars
<1>1. CASE UNCHANGED vars
  BY <1>1 DEF vars, loadVars
<1>2. ASSUME NEW l \in Loader, StartLoad(l) PROVE LoadNext
  <2>1. Active(l)
    BY <1>2 DEF StartLoad, Active
  <2>2. read[l].key \in Key
    BY <2>1 DEF CachedInv, Reads
  <2>3. /\ read[l].key.root \in DeptId
        /\ read[l].key.depth \in 1 .. MaxDepth
        /\ read[l].key.include \in BOOLEAN
    BY <2>2 DEF Key
  <2> QED
    BY <1>2, <2>3 DEF StartLoad, LoadNext
<1>3. ASSUME NEW l \in Loader, LoadStep(l) \/ Store(l) \/ LoadError(l) PROVE LoadNext
  BY <1>3 DEF LoadStep, Store, LoadError, LoadNext
<1>4. CASE Commit
  BY <1>4 DEF Commit, LoadNext
<1>5. ASSUME NEW l \in Loader, GetCached(l) PROVE UNCHANGED loadVars
  BY <1>5 DEF GetCached, db, loading, loadVars
<1>6. ASSUME NEW l \in Loader, NEW d \in Root, NEW depth \in Depth, NEW include \in Include,
             ReadEpoch(l, d, depth, include)
      PROVE  UNCHANGED loadVars
  BY <1>6 DEF ReadEpoch, db, loading, loadVars
<1>7. CASE Bump
  BY <1>7 DEF Bump, db, loading, loadVars
<1> QED
  BY <1>1, <1>2, <1>3, <1>4, <1>5, <1>6, <1>7 DEF Next

-----------------------------------------------------------------------------
(***************************************************************************)
(* The steps.                                                              *)
(***************************************************************************)

\* Steps that neither begin a read nor touch the epoch, the payloads or the tables.
LEMMA QuietStep ==
  ASSUME CachedInv, UNCHANGED <<db, redis, during>>,
         \A l \in Loader : Active(l)' => Active(l) /\ read'[l].key = read[l].key
  PROVE  Counters' /\ Histories' /\ Payloads'
<1>1. /\ Tables' = Tables
      /\ writes' = writes
      /\ epoch' = epoch
      /\ pending' = pending
      /\ stored' = stored
      /\ since' = since
      /\ during' = during
  BY DEF db, redis, Tables
<1>2. Counters'
  BY <1>1 DEF CachedInv, Counters
<1>3. Histories'
  BY <1>1 DEF CachedInv, Histories
<1>4. Payloads'
  BY <1>1 DEF CachedInv, Payloads
<1> QED
  BY <1>2, <1>3, <1>4

LEMMA GetCachedInv ==
  ASSUME CachedInv, NEW l \in Loader, GetCached(l)
  PROVE  Counters' /\ Reads' /\ Histories' /\ Payloads'
<1>1. UNCHANGED <<db, loading, redis, during>> /\ read[l].pc = "get"
  BY DEF GetCached
<1>2. \/ \E t : read' = [read EXCEPT ![l] = Answered(t)]
      \/ read' = [read EXCEPT ![l].pc = "load"]
  BY DEF GetCached
<1>3. ASSUME NEW m \in Loader
      PROVE  /\ read'[m] = [pc |-> read'[m].pc, key |-> read'[m].key, answer |-> read'[m].answer]
             /\ read'[m].pc \in {"idle", "get", "load", "build"}
             /\ Active(m)' => Active(m) /\ read'[m].key = read[m].key
             /\ m # l => read'[m] = read[m]
             /\ read'[l].pc # "build"
  <2>1. CASE m # l
    BY <1>1, <1>2, <2>1 DEF CachedInv, Reads, Active, Answered
  <2>2. CASE m = l
    BY <1>1, <1>2, <2>2 DEF CachedInv, Reads, Active, Answered
  <2> QED
    BY <2>1, <2>2
<1>4. Counters' /\ Histories' /\ Payloads'
  BY <1>1, <1>3, QuietStep
<1>5. load[l].pc = "idle"
  BY <1>1 DEF CachedInv, Reads
<1>6. Reads'
  <2>1. read' = [m \in Loader |-> read'[m]] /\ during' = [m \in Loader |-> during'[m]]
    BY <1>1, <1>2 DEF CachedInv, Reads
  <2>2. load' = load /\ past' = past /\ during' = during /\ epoch' = epoch
    BY <1>1 DEF loading, redis
  <2>3. ASSUME NEW m \in Loader
        PROVE  /\ load'[m].pc # "idle" => read'[m].pc = "build"
               /\ read'[m].pc = "build" => AsksFor(load'[m], read'[m].key) /\ past'[m] \subseteq during'[m]
    BY <1>3, <1>5, <2>2 DEF CachedInv, Reads
  <2> QED
    BY <1>3, <2>1, <2>2, <2>3 DEF CachedInv, Reads, Active
<1> QED
  BY <1>4, <1>6

LEMMA StartLoadInv ==
  ASSUME CachedInv, NEW l \in Loader, StartLoad(l)
  PROVE  Counters' /\ Reads' /\ Histories' /\ Payloads'
<1> DEFINE k == read[l].key
           q == [pc |-> "build", root |-> k.root, depth |-> k.depth, include |-> k.include]
<1>1. /\ UNCHANGED <<db, redis, during>>
      /\ read[l].pc = "load"
      /\ read' = [read EXCEPT ![l].pc = "build"]
      /\ past' = [past EXCEPT ![l] = {Tables}]
  BY DEF StartLoad, GetByID
<1>2. \E found : load' = [load EXCEPT ![l] = [q EXCEPT !.pc = IF found = {} THEN "done" ELSE "build"]]
  BY DEF StartLoad, GetByID, Advance
<1>3. ASSUME NEW m \in Loader
      PROVE  /\ read'[m] = [pc |-> read'[m].pc, key |-> read'[m].key, answer |-> read'[m].answer]
             /\ read'[m].pc \in {"idle", "get", "load", "build"}
             /\ Active(m)' => Active(m) /\ read'[m].key = read[m].key
             /\ m # l => read'[m] = read[m]
             /\ read'[l].pc = "build"
  <2>1. CASE m # l
    BY <1>1, <2>1 DEF CachedInv, Reads, Active
  <2>2. CASE m = l
    BY <1>1, <2>2 DEF CachedInv, Reads, Active
  <2> QED
    BY <2>1, <2>2
<1>4. Counters' /\ Histories' /\ Payloads'
  BY <1>1, <1>3, QuietStep
<1>5. AsksFor(load'[l], k) /\ \A m \in Loader \ {l} : load'[m] = load[m]
  BY <1>2 DEF CachedInv, LoadInv, Slots, AsksFor
<1>6. past'[l] = {Tables} /\ \A m \in Loader \ {l} : past'[m] = past[m]
  BY <1>1 DEF CachedInv, LoadInv, Slots
<1>7. Tables \in during[l]
  BY <1>1 DEF CachedInv, Histories, Active
<1>8. read'[l].key = k
  BY <1>1 DEF CachedInv, Reads
<1> HIDE DEF k, q
<1>9. Reads'
  <2>1. read' = [m \in Loader |-> read'[m]] /\ during' = [m \in Loader |-> during'[m]]
    BY <1>1 DEF CachedInv, Reads
  <2>2. during' = during /\ epoch' = epoch
    BY <1>1 DEF redis
  <2>3. ASSUME NEW m \in Loader
        PROVE  /\ load'[m].pc # "idle" => read'[m].pc = "build"
               /\ read'[m].pc = "build" => AsksFor(load'[m], read'[m].key) /\ past'[m] \subseteq during'[m]
    <3>1. CASE m = l
      BY <1>3, <1>5, <1>6, <1>7, <1>8, <2>2, <3>1
    <3>2. CASE m # l
      BY <1>3, <1>5, <1>6, <2>2, <3>2 DEF CachedInv, Reads
    <3> QED
      BY <3>1, <3>2
  <2> QED
    BY <1>3, <2>1, <2>2, <2>3 DEF CachedInv, Reads, Active
<1> QED
  BY <1>4, <1>9

LEMMA LoadStepInv ==
  ASSUME CachedInv, NEW l \in Loader, LoadStep(l)
  PROVE  Counters' /\ Reads' /\ Histories' /\ Payloads'
<1>1. PICK p \in todo[l] : ListByDepartmentID(l, p) \/ GetChildren(l, p)
  BY DEF LoadStep, Select
<1>2. UNCHANGED <<db, redis, read, during, past>>
  BY <1>1 DEF LoadStep, ListByDepartmentID, GetChildren
<1>3. \E rest : load' = [load EXCEPT ![l] = Ahead(load[l], rest)]
  BY <1>1 DEF ListByDepartmentID, GetChildren, Advance, Ahead
<1>4. load[l] \in LoadRecord /\ load[l].pc = "build"
  BY DEF CachedInv, LoadInv, LoadsOk, LoadOk
<1>5. /\ AsksFor(load'[l], load[l])
      /\ \A m \in Loader \ {l} : load'[m] = load[m]
  BY <1>3, <1>4, AheadType DEF CachedInv, LoadInv, Slots, AsksFor
<1>6. read[l].pc = "build"
  BY <1>4 DEF CachedInv, Reads
<1>7. Counters' /\ Histories' /\ Payloads'
  BY <1>2, QuietStep DEF Active
<1>8. Reads'
  <2>1. read' = read /\ during' = during /\ past' = past /\ epoch' = epoch
    BY <1>2 DEF redis
  <2>2. ASSUME NEW m \in Loader
        PROVE  /\ load'[m].pc # "idle" => read[m].pc = "build"
               /\ read[m].pc = "build" => AsksFor(load'[m], read[m].key)
    <3>1. CASE m = l
      BY <1>5, <1>6, <3>1 DEF CachedInv, Reads, AsksFor
    <3>2. CASE m # l
      BY <1>5, <3>2 DEF CachedInv, Reads
    <3> QED
      BY <3>1, <3>2
  <2> QED
    BY <2>1, <2>2 DEF CachedInv, Reads, Active
<1> QED
  BY <1>7, <1>8

\* A read that is answered is over.
LEMMA AnsweredReads ==
  ASSUME CachedInv, NEW l \in Loader, NEW t,
         read' = [read EXCEPT ![l] = Answered(t)], Forget(l),
         during' = during, epoch' = epoch
  PROVE  Reads'
<1>1. ASSUME NEW m \in Loader
      PROVE  /\ read'[m] = [pc |-> read'[m].pc, key |-> read'[m].key, answer |-> read'[m].answer]
             /\ m # l => read'[m] = read[m] /\ load'[m] = load[m] /\ past'[m] = past[m]
             /\ read'[l].pc = "idle" /\ load'[l].pc = "idle"
  <2>1. CASE m # l
    BY <2>1 DEF CachedInv, Reads, Answered, Forget, NoLoad, LoadInv, Slots
  <2>2. CASE m = l
    BY <2>2 DEF CachedInv, Reads, Answered, Forget, NoLoad, LoadInv, Slots
  <2> QED
    BY <2>1, <2>2
<1>2. read' = [m \in Loader |-> read'[m]] /\ during' = [m \in Loader |-> during'[m]]
  BY DEF CachedInv, Reads
<1> QED
  BY <1>1, <1>2 DEF CachedInv, Reads, Active

LEMMA LoadErrorInv ==
  ASSUME CachedInv, NEW l \in Loader, LoadError(l)
  PROVE  Counters' /\ Reads' /\ Histories' /\ Payloads'
<1>1. /\ UNCHANGED <<db, redis, during>>
      /\ read' = [read EXCEPT ![l] = Answered(Null)]
      /\ Forget(l)
  BY DEF LoadError, SelectFails
<1>2. \A m \in Loader : Active(m)' => Active(m) /\ read'[m].key = read[m].key
  BY <1>1 DEF CachedInv, Reads, Active, Answered
<1>3. Reads'
  BY <1>1, AnsweredReads DEF redis
<1> QED
  BY <1>1, <1>2, <1>3, QuietStep

LEMMA ReadEpochInv ==
  ASSUME CachedInv, NEW l \in Loader, NEW d \in Root, NEW depth \in Depth,
         NEW include \in Include, ReadEpoch(l, d, depth, include)
  PROVE  Counters' /\ Reads' /\ Histories' /\ Payloads'
<1> DEFINE k == [epoch |-> epoch, root |-> d, depth |-> depth, include |-> include]
           r == [pc |-> "get", key |-> k, answer |-> Null]
<1>1. /\ UNCHANGED <<db, loading, redis>>
      /\ read[l].pc = "idle"
      /\ read' = [read EXCEPT ![l] = r]
      /\ during' = [during EXCEPT ![l] = since]
  BY DEF ReadEpoch
<1>2. k \in Key /\ k.epoch = epoch
  <2>1. epoch \in Epochs
    BY LoadAssumption DEF CachedInv, Counters, Epochs
  <2> QED
    BY <2>1, QueryAssumption DEF Key
<1> HIDE DEF k
<1>3. r = [pc |-> r.pc, key |-> r.key, answer |-> r.answer] /\ r.pc = "get" /\ r.key = k
  OBVIOUS
<1> HIDE DEF r
<1>4. ASSUME NEW m \in Loader
      PROVE  read'[m] = (IF m = l THEN r ELSE read[m]) /\ during'[m] = (IF m = l THEN since ELSE during[m])
  BY <1>1 DEF CachedInv, Reads
<1>5. /\ Tables' = Tables /\ writes' = writes /\ epoch' = epoch /\ pending' = pending
      /\ stored' = stored /\ since' = since /\ load' = load /\ past' = past
  BY <1>1 DEF db, redis, loading, Tables
<1>6. Counters'
  BY <1>5 DEF CachedInv, Counters
<1>7. Reads'
  <2>1. read' = [m \in Loader |-> read'[m]] /\ during' = [m \in Loader |-> during'[m]]
    BY <1>1 DEF CachedInv, Reads
  <2>2. load[l].pc = "idle" /\ epoch \in Nat
    BY <1>1 DEF CachedInv, Reads, Counters
  <2>3. \A m \in Loader :
            /\ read'[m] = [pc |-> read'[m].pc, key |-> read'[m].key, answer |-> read'[m].answer]
            /\ read'[m].pc \in {"idle", "get", "load", "build"}
            /\ read'[m].pc # "idle" => read'[m].key \in Key /\ read'[m].key.epoch <= epoch
            /\ load[m].pc # "idle" => read'[m].pc = "build"
            /\ read'[m].pc = "build" => AsksFor(load[m], read'[m].key) /\ past[m] \subseteq during'[m]
    BY <1>2, <1>3, <1>4, <2>2 DEF CachedInv, Reads, Active
  <2> QED
    BY <1>5, <2>1, <2>3 DEF Reads, Active
<1>8. Histories'
  <2>1. ASSUME NEW m \in Loader, read'[m].pc # "idle"
        PROVE  /\ Tables \in during'[m]
               /\ read'[m].key.epoch = epoch => during'[m] = since
    BY <1>2, <1>3, <1>4, <2>1 DEF CachedInv, Histories, Active
  <2>2. ASSUME NEW m \in Loader, read'[m].pc # "idle", NEW n \in Loader, read'[n].pc # "idle",
               read'[n].key.epoch = read'[m].key.epoch
        PROVE  during'[n] = during'[m]
    <3>1. CASE m = l \/ n = l
      BY <1>2, <1>3, <1>4, <2>1, <2>2, <3>1
    <3>2. CASE m # l /\ n # l
      BY <1>4, <2>2, <3>2 DEF CachedInv, Histories, Active
    <3> QED
      BY <3>1, <3>2
  <2> QED
    BY <1>5, <2>1, <2>2 DEF CachedInv, Histories, Active
<1>9. Payloads'
  <2>1. ASSUME NEW m \in Loader, read'[m].pc # "idle", read'[m].key \in DOMAIN stored
        PROVE  Faithful(stored[read'[m].key], read'[m].key, during'[m])
    BY <1>2, <1>3, <1>4, <2>1 DEF CachedInv, Payloads, Active
  <2> QED
    BY <1>5, <2>1 DEF CachedInv, Payloads, Active
<1> QED
  BY <1>6, <1>7, <1>8, <1>9

\* What a read has loaded shows what it may be shown.
LEMMA LoadedFaithful ==
  ASSUME CachedInv, NEW l \in Loader, read[l].pc = "build", load[l].pc = "done"
  PROVE  Faithful(tree[l], read[l].key, during[l])
<1>1. LoadOk(tree[l], load[l], {}, past[l])
  BY DoneLoad DEF CachedInv
<1>2. Faithful(tree[l], load[l], past[l])
  BY <1>1, WholeIsFaithful
<1>3. AsksFor(load[l], read[l].key) /\ past[l] \subseteq during[l] /\ past[l] # {}
  BY <1>1 DEF CachedInv, Reads, LoadOk
<1>4. Faithful(tree[l], load[l], during[l])
  BY <1>2, <1>3, FaithfulMore
<1> QED
  BY <1>3, <1>4, FaithfulKey DEF AsksFor

LEMMA StoreInv ==
  ASSUME CachedInv, NEW l \in Loader, Store(l)
  PROVE  Counters' /\ Reads' /\ Histories' /\ Payloads'
<1> DEFINE k == read[l].key
<1>1. /\ read[l].pc = "build"
      /\ load[l].pc = "done"
      /\ read' = [read EXCEPT ![l] = Answered(tree[l])]
      /\ Forget(l)
      /\ UNCHANGED <<db, epoch, pending, since, during>>
      /\ \/ stored' = stored
         \/ stored' = [x \in DOMAIN stored \cup {k} |-> IF x = k THEN tree[l] ELSE stored[x]]
  BY DEF Store, Return, KeyOf
<1>2. Faithful(tree[l], k, during[l])
  BY <1>1, LoadedFaithful
<1>3. Active(l) /\ k \in Key /\ k.epoch <= epoch
  BY <1>1 DEF CachedInv, Reads, Active
<1>4. \A m \in Loader : Active(m)' => Active(m) /\ read'[m].key = read[m].key
  BY <1>1 DEF CachedInv, Reads, Active, Answered
<1>5. /\ Tables' = Tables /\ writes' = writes /\ epoch' = epoch /\ pending' = pending
      /\ since' = since /\ during' = during
  BY <1>1 DEF db, Tables
<1>6. Reads'
  BY <1>1, <1>5, AnsweredReads
<1>7. Counters'
  BY <1>5 DEF CachedInv, Counters
<1>8. Histories'
  BY <1>4, <1>5 DEF CachedInv, Histories
<1>9. Payloads'
  <2>1. CASE stored' = stored
    BY <1>4, <1>5, <2>1 DEF CachedInv, Payloads
  <2>2. CASE stored' # stored
    <3>1. /\ DOMAIN stored' = DOMAIN stored \cup {k}
          /\ stored'[k] = tree[l]
          /\ \A x \in DOMAIN stored \ {k} : stored'[x] = stored[x]
      BY <1>1, <2>2
    <3>2. ASSUME NEW x \in DOMAIN stored'
          PROVE  /\ x \in Key
                 /\ x.epoch <= epoch
                 /\ x.epoch = epoch => Faithful(stored'[x], x, since)
      <4>1. CASE x = k
        <5>1. k.epoch = epoch => during[l] = since
          BY <1>3 DEF CachedInv, Histories
        <5> QED
          BY <1>2, <1>3, <3>1, <4>1, <5>1
      <4>2. CASE x # k
        BY <3>1, <4>2 DEF CachedInv, Payloads
      <4> QED
        BY <4>1, <4>2
    <3>3. ASSUME NEW m \in Loader, Active(m), read[m].key \in DOMAIN stored'
          PROVE  Faithful(stored'[read[m].key], read[m].key, during[m])
      <4>1. CASE read[m].key = k
        <5>1. during[m] = during[l]
          BY <1>3, <3>3, <4>1 DEF CachedInv, Histories
        <5> QED
          BY <1>2, <3>1, <4>1, <5>1
      <4>2. CASE read[m].key # k
        BY <3>1, <3>3, <4>2 DEF CachedInv, Payloads
      <4> QED
        BY <4>1, <4>2
    <3> QED
      BY <1>4, <1>5, <3>2, <3>3 DEF Payloads
  <2> QED
    BY <2>1, <2>2
<1> QED
  BY <1>6, <1>7, <1>8, <1>9

LEMMA CommitInv ==
  ASSUME CachedInv, Commit
  PROVE  Counters' /\ Reads' /\ Histories' /\ Payloads'
<1>1. /\ writes < MaxWrites
      /\ writes' = writes + 1
      /\ pending' = pending + 1
      /\ since' = since \cup {Tables'}
      /\ epoch' = epoch /\ stored' = stored /\ read' = read /\ load' = load
  BY DEF Commit, Mutate
<1>2. ASSUME NEW l \in Loader
      PROVE  /\ during'[l] = IF Active(l) THEN during[l] \cup {Tables'} ELSE during[l]
             /\ past'[l] = IF load[l].pc = "build" THEN past[l] \cup {Tables'} ELSE past[l]
  BY DEF Commit, Mutate, Active
<1>3. Counters'
  BY <1>1, LoadAssumption DEF CachedInv, Counters, LoadInv
<1>4. Reads'
  <2>1. during' = [l \in Loader |-> during'[l]]
    BY DEF Commit
  <2>2. ASSUME NEW l \in Loader, read[l].pc = "build"
        PROVE  past'[l] \subseteq during'[l]
    BY <1>2, <2>2 DEF CachedInv, Reads, Active
  <2> QED
    BY <1>1, <2>1, <2>2 DEF CachedInv, Reads, Active
<1>5. Histories'
  <2>1. pending' # 0
    BY <1>1 DEF CachedInv, Counters
  <2>2. ASSUME NEW l \in Loader, Active(l)
        PROVE  /\ Tables' \in during'[l]
               /\ read[l].key.epoch = epoch => during'[l] = since'
               /\ \A m \in Loader :
                      Active(m) /\ read[m].key.epoch = read[l].key.epoch
                      => during'[m] = during'[l]
    BY <1>1, <1>2, <2>2 DEF CachedInv, Histories
  <2> QED
    BY <1>1, <2>1, <2>2 DEF Histories, Active
<1>6. Payloads'
  <2>1. since \subseteq since' /\ since # {}
    BY <1>1 DEF CachedInv, Histories
  <2>2. ASSUME NEW k \in DOMAIN stored, k.epoch = epoch
        PROVE  Faithful(stored[k], k, since')
    <3>1. Faithful(stored[k], k, since)
      BY <2>2 DEF CachedInv, Payloads
    <3> QED
      BY <2>1, <3>1, FaithfulMore
  <2>3. ASSUME NEW l \in Loader, Active(l), read[l].key \in DOMAIN stored
        PROVE  Faithful(stored[read[l].key], read[l].key, during'[l])
    <3>1. Faithful(stored[read[l].key], read[l].key, during[l])
      BY <2>3 DEF CachedInv, Payloads
    <3>2. during[l] \subseteq during'[l] /\ during[l] # {}
      BY <1>2, <2>3 DEF CachedInv, Histories
    <3> QED
      BY <3>1, <3>2, FaithfulMore
  <2> QED
    BY <1>1, <2>2, <2>3 DEF CachedInv, Payloads, Active
<1> QED
  BY <1>3, <1>4, <1>5, <1>6

\* No read and no payload is of the epoch that begins.
LEMMA BumpInv ==
  ASSUME CachedInv, Bump
  PROVE  Counters' /\ Reads' /\ Histories' /\ Payloads'
<1>1. /\ pending > 0
      /\ pending' = pending - 1
      /\ epoch' = epoch + 1
      /\ since' = {Tables'}
      /\ stored' = stored /\ read' = read /\ during' = during
      /\ load' = load /\ past' = past /\ writes' = writes /\ Tables' = Tables
  BY DEF Bump, db, loading, Tables
<1>2. epoch \in Nat /\ pending \in Nat
  BY DEF CachedInv, Counters
<1>3. Counters'
  BY <1>1, <1>2 DEF CachedInv, Counters
<1>4. \A k \in Key : k.epoch \in Nat
  BY LoadAssumption DEF Key, Epochs
<1>5. \A k \in Key : k.epoch <= epoch => k.epoch <= epoch' /\ k.epoch # epoch'
  BY <1>1, <1>2, <1>4
<1>6. \A l \in Loader : Active(l) => read[l].key \in Key /\ read[l].key.epoch <= epoch
  BY DEF CachedInv, Reads
<1>7. Reads'
  BY <1>1, <1>5, <1>6 DEF CachedInv, Reads, Active
<1>8. Histories'
  BY <1>1, <1>5, <1>6 DEF CachedInv, Histories, Active
<1>9. Payloads'
  BY <1>1, <1>5 DEF CachedInv, Payloads, Active
<1> QED
  BY <1>3, <1>7, <1>8, <1>9

LEMMA CachedInvNext == CachedInv /\ [Next]_vars => CachedInv'
<1> SUFFICES ASSUME CachedInv, [Next]_vars PROVE CachedInv'
  OBVIOUS
<1>1. LoadInv'
  <2>1. LoadInv /\ [LoadNext]_loadVars
    BY StepOfLoads DEF CachedInv
  <2> QED
    BY <2>1, LoadInvNext
<1>2. Counters' /\ Reads' /\ Histories' /\ Payloads'
  <2>1. CASE UNCHANGED vars
    <3>1. UNCHANGED <<db, redis, during>> /\ read' = read
      BY <2>1 DEF vars, db, redis
    <3>2. Reads'
      BY <2>1 DEF vars, CachedInv, Reads, Active
    <3> QED
      BY <3>1, <3>2, QuietStep DEF Active
  <2>2. ASSUME NEW l \in Loader, NEW d \in Root, NEW depth \in Depth, NEW include \in Include,
               ReadEpoch(l, d, depth, include)
        PROVE  Counters' /\ Reads' /\ Histories' /\ Payloads'
    BY <2>2, ReadEpochInv
  <2>3. ASSUME NEW l \in Loader,
               GetCached(l) \/ StartLoad(l) \/ LoadStep(l) \/ Store(l) \/ LoadError(l)
        PROVE  Counters' /\ Reads' /\ Histories' /\ Payloads'
    BY <2>3, GetCachedInv, StartLoadInv, LoadStepInv, StoreInv, LoadErrorInv
  <2>4. CASE Commit
    BY <2>4, CommitInv
  <2>5. CASE Bump
    BY <2>5, BumpInv
  <2> QED
    BY <2>1, <2>2, <2>3, <2>4, <2>5 DEF Next
<1> QED
  BY <1>1, <1>2 DEF CachedInv

LEMMA CachedInvariant == Spec => []CachedInv
  BY CachedInvInit, CachedInvNext, PTL DEF Spec

-----------------------------------------------------------------------------
(***************************************************************************)
(* What follows.                                                           *)
(***************************************************************************)

\* The reads behind the cache load as TreeLoad says: what holds of its loads holds
\* of these.
THEOREM CachedLoads == Spec => LoadSpec
<1>1. Init => LoadInit
  BY DEF Init
<1>2. CachedInv /\ [Next]_vars => [LoadNext]_loadVars
  BY StepOfLoads
<1> QED
  BY <1>1, <1>2, CachedInvariant, PTL DEF Spec, LoadSpec

\* So the trees that are built behind the cache are accepted by it, show what stands
\* still, and show nothing else (BuiltTreesValid, StablePathsShown, ShownWasThere).
THEOREM CachedTreesBuilt == Spec => [](BuiltTreesValid /\ StablePathsShown /\ ShownWasThere)
  BY CachedLoads, LoadValid, LoadShowsStable, LoadShowsOnly, PTL

\* The epoch, the keys, the reads and the loads keep their types (TypeOK).
THEOREM CachedTypeCorrect == Spec => []TypeOK
<1>1. CachedInv => TypeOK
  <2> SUFFICES ASSUME CachedInv PROVE TypeOK
    OBVIOUS
  <2>1. LoadTypeOK
    BY LoadInvTypes DEF CachedInv
  <2>2. /\ epoch \in Epochs
        /\ pending \in 0 .. MaxWrites
        /\ epoch + pending = writes
    BY LoadAssumption DEF CachedInv, Counters, Epochs
  <2>3. DOMAIN stored \subseteq Key
    BY DEF CachedInv, Payloads
  <2>4. ASSUME NEW l \in Loader
        PROVE  /\ read[l].pc \in {"idle", "get", "load", "build"}
               /\ read[l].pc # "idle" => read[l].key \in Key
               /\ load[l].pc = "build" => read[l].pc = "build"
    BY DEF CachedInv, Reads, Active
  <2> QED
    BY <2>1, <2>2, <2>3, <2>4 DEF TypeOK
<1> QED
  BY <1>1, CachedInvariant, PTL

\* With every bump done, a payload that can be read is the tree in the database
\* (SettledPayloadsExact).
THEOREM CachedSettled == Spec => []SettledPayloadsExact
<1>1. CachedInv => SettledPayloadsExact
  <2> SUFFICES ASSUME CachedInv, pending = 0, NEW k \in DOMAIN stored, k.epoch = epoch
               PROVE  stored[k] = TreeIn(Tables, k)
    BY DEF SettledPayloadsExact
  <2>1. Faithful(stored[k], k, {Tables})
    BY DEF CachedInv, Histories, Payloads
  <2> QED
    BY <2>1, FaithfulToOne
<1> QED
  BY <1>1, CachedInvariant, PTL

\* The answer of l in this step, if there is one, is as AnswersCurrent says.
AnswerIsCurrent(l) ==
    LET answer == read'[l].answer IN
    read[l].pc # "idle" /\ read'[l].pc = "idle" /\ answer # Null =>
        /\ ShowsStable(answer, read[l].key, during[l])
        /\ ShowsOnly(answer, during[l])

LEMMA AnswerFaithful ==
  ASSUME CachedInv, Next, NEW l \in Loader,
         read[l].pc # "idle", read'[l].pc = "idle", read'[l].answer # Null
  PROVE  Faithful(read'[l].answer, read[l].key, during[l])
<1>1. ASSUME NEW m \in Loader, NEW d \in Root, NEW depth \in Depth, NEW include \in Include,
             ReadEpoch(m, d, depth, include)
      PROVE  FALSE
  BY <1>1 DEF ReadEpoch, CachedInv, Reads
<1>2. ASSUME NEW m \in Loader, GetCached(m)
      PROVE  Faithful(read'[l].answer, read[l].key, during[l])
  <2>1. /\ m = l
        /\ read[l].key \in DOMAIN stored
        /\ read' = [read EXCEPT ![l] = Answered(stored[read[l].key])]
    BY <1>2 DEF GetCached, KeyOf, CachedInv, Reads
  <2>2. read'[l].answer = stored[read[l].key]
    BY <2>1 DEF CachedInv, Reads, Answered
  <2> QED
    BY <2>1, <2>2 DEF CachedInv, Payloads, Active
<1>3. ASSUME NEW m \in Loader, StartLoad(m) \/ LoadStep(m)
      PROVE  FALSE
  <2>1. CASE StartLoad(m)
    BY <2>1 DEF StartLoad, CachedInv, Reads
  <2>2. CASE LoadStep(m)
    BY <2>2 DEF LoadStep
  <2> QED
    BY <1>3, <2>1, <2>2
<1>4. ASSUME NEW m \in Loader, Store(m)
      PROVE  Faithful(read'[l].answer, read[l].key, during[l])
  <2>1. m = l /\ read[l].pc = "build" /\ load[l].pc = "done"
    BY <1>4 DEF Store, Return, CachedInv, Reads
  <2>2. read'[l].answer = tree[l]
    BY <1>4, <2>1 DEF Store, CachedInv, Reads, Answered
  <2> QED
    BY <2>1, <2>2, LoadedFaithful
<1>5. ASSUME NEW m \in Loader, LoadError(m)
      PROVE  FALSE
  BY <1>5 DEF LoadError, CachedInv, Reads, Answered
<1>6. CASE Commit \/ Bump
  BY <1>6 DEF Commit, Bump
<1> QED
  BY <1>1, <1>2, <1>3, <1>4, <1>5, <1>6 DEF Next

\* Cached or not, and whatever mutations met the load, an answer is what a client
\* may be told (AnswersCurrent).
THEOREM CachedAnswers == Spec => AnswersCurrent
<1>1. CachedInv /\ [Next]_vars => [\A l \in Loader : AnswerIsCurrent(l)]_vars
  BY AnswerFaithful DEF Faithful, AnswerIsCurrent
<1>2. Spec => [][\A l \in Loader : AnswerIsCurrent(l)]_vars
  BY <1>1, CachedInvariant, PTL DEF Spec
<1> QED
  BY <1>2 DEF AnswersCurrent, AnswerIsCurrent
=============================================================================
