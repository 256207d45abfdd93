--------------------------- MODULE TreeCacheProofs ---------------------------
(***************************************************************************)
(* TreeCache for any number of instances, reads, mutations and queries.    *)
(***************************************************************************)
EXTENDS TreeCache, TLAPS

LEMMA VersionZero == 0 \in Versions /\ 0 \in Epochs
  BY CacheAssumption DEF Versions, Epochs

LEMMA VersionNext ==
  /\ \A v \in Versions : v < MaxWrites => v + 1 \in Versions
  /\ \A e \in Epochs : e < MaxWrites => e + 1 \in Epochs
  BY CacheAssumption DEF Versions, Epochs

LEMMA TypeInit == Init => TypeOK
  BY CacheAssumption DEF Init, TypeOK, Reader, ReaderRecord, PCs, Versions, Epochs, Key

\* Readers that are answered at once.
LEMMA AnswerType ==
  ASSUME TypeOK, NEW R, NEW v \in Versions \cup {NoTree}, Answer(R, v)
  PROVE  /\ reader' \in [Reader -> ReaderRecord]
         /\ \A r \in Reader : reader'[r].pc # "idle" => reader'[r].query \in Query
<1>1. ASSUME NEW q \in ReaderRecord PROVE Answered(q, v) \in ReaderRecord
  BY VersionZero DEF Answered, ReaderRecord, PCs
<1>2. ASSUME NEW r \in Reader
      PROVE  /\ reader'[r] \in ReaderRecord
             /\ reader'[r].pc # "idle" => reader'[r] = reader[r]
  <2>1. reader[r] \in ReaderRecord
    BY DEF TypeOK
  <2>2. CASE r \in R
    <3>1. reader'[r] = Answered(reader[r], v)
      BY <2>2 DEF Answer
    <3>2. Answered(reader[r], v).pc = "idle"
      BY <2>1 DEF Answered, ReaderRecord
    <3> QED
      BY <1>1, <2>1, <3>1, <3>2
  <2>3. CASE r \notin R
    BY <2>1, <2>3 DEF Answer
  <2> QED
    BY <2>2, <2>3
<1>3. reader' = [r \in Reader |-> reader'[r]]
  BY DEF Answer
<1> QED
  BY <1>2, <1>3 DEF TypeOK

LEMMA GotoType ==
  ASSUME TypeOK, NEW r \in Reader, NEW pc \in PCs, reader[r].pc # "idle", Goto(r, pc)
  PROVE  /\ reader' \in [Reader -> ReaderRecord]
         /\ \A s \in Reader : reader'[s].pc # "idle" => reader'[s].query \in Query
  BY DEF TypeOK, Goto, ReaderRecord

LEMMA KeyType ==
  ASSUME TypeOK, NEW r \in Reader, reader[r].pc # "idle"
  PROVE  KeyOf(r) \in Key
  BY DEF TypeOK, KeyOf, Key, ReaderRecord

LEMMA TypeNext == TypeOK /\ [Next]_vars => TypeOK'
<1> SUFFICES ASSUME TypeOK, [Next]_vars PROVE TypeOK'
  OBVIOUS
<1> USE CacheAssumption
<1>1. ASSUME NEW r \in Reader, NEW q \in Query, ReadEpoch(r, q) PROVE TypeOK'
  <2>1. floor[epoch] \in Versions /\ reader[r] \in ReaderRecord
    BY DEF TypeOK
  <2> DEFINE new == [reader[r] EXCEPT !.pc = "get", !.query = q, !.epoch = epoch,
                                      !.must = floor[epoch], !.result = NoTree]
             lost == [reader[r] EXCEPT !.pc = "direct", !.query = q,
                                       !.must = floor[epoch], !.result = NoTree]
  <2>2. new \in ReaderRecord /\ new.query = q
    BY <2>1 DEF TypeOK, ReaderRecord, PCs
  <2>3. lost \in ReaderRecord /\ lost.query = q
    BY <2>1 DEF TypeOK, ReaderRecord, PCs
  <2>4. reader' = [reader EXCEPT ![r] = new] \/ reader' = [reader EXCEPT ![r] = lost]
    BY <1>1 DEF ReadEpoch
  <2> QED
    BY <1>1, <2>2, <2>3, <2>4 DEF ReadEpoch, TypeOK
<1>2. ASSUME NEW r \in Reader, GetCached(r) PROVE TypeOK'
  <2>1. KeyOf(r) \in DOMAIN cache => cache[KeyOf(r)] \in Versions
    BY DEF TypeOK
  <2> QED
    BY <1>2, <2>1, AnswerType, GotoType DEF GetCached, TypeOK, PCs
<1>3. ASSUME NEW r \in Reader, DirectLoad(r) PROVE TypeOK'
  BY <1>3, AnswerType DEF DirectLoad, TypeOK
<1>4. ASSUME NEW r \in Reader, JoinFlight(r) PROVE TypeOK'
  BY <1>4, GotoType DEF JoinFlight, TypeOK, PCs
<1>5. ASSUME NEW r \in Reader, DoubleCheck(r) PROVE TypeOK'
  <2>1. KeyOf(r) \in DOMAIN cache => cache[KeyOf(r)] \in Versions
    BY DEF TypeOK
  <2> QED
    BY <1>5, <2>1, AnswerType, GotoType DEF DoubleCheck, EndFlight, TypeOK, PCs
<1>6. ASSUME NEW r \in Reader, LoadTree(r) PROVE TypeOK'
  <2>1. CASE EndFlight(r, db) \/ EndFlight(r, NoTree)
    BY <1>6, <2>1, AnswerType DEF LoadTree, EndFlight, TypeOK
  <2>2. CASE reader[r].pc = "load"
             /\ reader' = [reader EXCEPT ![r].pc = "store", ![r].seen = db]
    <3> DEFINE new == [reader[r] EXCEPT !.pc = "store", !.seen = db]
    <3>1. new \in ReaderRecord /\ new.query = reader[r].query
      BY DEF TypeOK, ReaderRecord, PCs
    <3>2. reader' = [reader EXCEPT ![r] = new]
      BY <2>2
    <3> QED
      BY <1>6, <2>2, <3>1, <3>2 DEF LoadTree, TypeOK
  <2> QED
    BY <1>6, <2>1, <2>2 DEF LoadTree
<1>7. ASSUME NEW r \in Reader, StoreTree(r) PROVE TypeOK'
  <2>1. reader[r].seen \in Versions /\ KeyOf(r) \in Key
    BY <1>7, KeyType DEF StoreTree, TypeOK, ReaderRecord
  <2>2. DOMAIN cache' \subseteq Key /\ \A k \in DOMAIN cache' : cache'[k] \in Versions
    BY <1>7, <2>1 DEF StoreTree, TypeOK
  <2> QED
    BY <1>7, <2>1, <2>2, AnswerType DEF StoreTree, EndFlight, TypeOK
<1>8. ASSUME NEW w \in Writer, Commit(w) \/ Bump(w) \/ LoseBump(w) PROVE TypeOK'
  BY <1>8, VersionNext DEF Commit, Bump, LoseBump, TypeOK
<1>9. ASSUME NEW k \in Key, Expire(k) PROVE TypeOK'
  BY <1>9 DEF Expire, TypeOK, Restrict
<1>10. CASE Restart
  BY <1>10, VersionZero DEF Restart, TypeOK
<1>11. CASE UNCHANGED vars
  BY <1>11 DEF vars, TypeOK
<1> QED
  BY <1>1, <1>2, <1>3, <1>4, <1>5, <1>6, <1>7, <1>8, <1>9, <1>10, <1>11
  DEF Next, ReadStep

\* The state of the cache is what it seems to be.
THEOREM CacheTypeCorrect == Spec => []TypeOK
  BY TypeInit, TypeNext, PTL DEF Spec

-----------------------------------------------------------------------------
(***************************************************************************)
(* Freshness, as long as no epoch comes back while a read that has         *)
(* captured one is in flight.  The invariant: what is stored or about to   *)
(* be stored under an epoch is no older than the version at which the      *)
(* epoch began, and what a reader was promised is no newer than the        *)
(* beginning of the epoch it has captured.  Nobody has captured an epoch   *)
(* ahead of the current one, so a bump sets the floor of one that is new   *)
(* to everybody, and so does the recreation of Redis.                      *)
(***************************************************************************)
Using == PCs \ {"idle", "direct"}

FreshReader(r) ==
    LET q == reader[r] IN
    /\ q.must <= db
    /\ q.pc \in Using => q.epoch <= epoch
    /\ q.pc \in Using => q.must <= floor[q.epoch]
    /\ q.pc = "store" => floor[q.epoch] <= q.seen /\ q.seen <= db
    /\ q.pc = "idle" /\ q.result # NoTree => q.must <= q.result /\ q.result <= db

FreshStore ==
    /\ \A e \in Epochs : floor[e] <= db
    /\ \A k \in DOMAIN cache : k[1] <= epoch
    /\ PayloadsFresh

FreshInv == TypeOK /\ FreshStore /\ \A r \in Reader : FreshReader(r)

LEMMA FreshInit == Init => FreshInv
<1> SUFFICES ASSUME Init PROVE FreshInv
  OBVIOUS
<1>1. FreshStore
  BY DEF Init, FreshStore, PayloadsFresh
<1>2. ASSUME NEW r \in Reader PROVE FreshReader(r)
  BY DEF Init, FreshReader, Using
<1> QED
  BY <1>1, <1>2, TypeInit DEF FreshInv

LEMMA NumberTypes ==
  ASSUME TypeOK
  PROVE  /\ db \in Nat /\ epoch \in Nat
         /\ \A e \in Epochs : floor[e] \in Nat
         /\ \A k \in DOMAIN cache : k[1] \in Epochs /\ k[1] \in Nat /\ cache[k] \in Nat
         /\ \A r \in Reader : /\ reader[r].epoch \in Epochs
                               /\ reader[r].epoch \in Nat
                               /\ reader[r].must \in Nat
                               /\ reader[r].seen \in Nat
                               /\ reader[r].result \in Nat \cup {NoTree}
<1>1. Versions \subseteq Nat /\ Epochs \subseteq Nat
  BY CacheAssumption DEF Versions, Epochs
<1> QED
  BY <1>1 DEF TypeOK, ReaderRecord, Key

\* An answer that misses nothing announced to those who get it.
LEMMA AnswerFresh ==
  ASSUME TypeOK, \A r \in Reader : FreshReader(r),
         NEW R, NEW v \in Versions \cup {NoTree}, Answer(R, v),
         v # NoTree => v <= db /\ \A r \in R \cap Reader : reader[r].must <= v,
         UNCHANGED <<db, epoch, floor>>
  PROVE  \A r \in Reader : FreshReader(r)'
<1> SUFFICES ASSUME NEW r \in Reader PROVE FreshReader(r)'
  OBVIOUS
<1>1. CASE r \in R
  <2>1. reader'[r] = Answered(reader[r], v)
    BY <1>1 DEF Answer
  <2>2. reader[r] \in ReaderRecord
    BY DEF TypeOK
  <2>3. /\ reader'[r].pc = "idle" /\ reader'[r].epoch = 0
        /\ reader'[r].must = reader[r].must /\ reader'[r].result = v
    BY <2>1, <2>2 DEF Answered, ReaderRecord
  <2> QED
    BY <1>1, <2>3, NumberTypes DEF FreshReader, Using
<1>2. CASE r \notin R
  BY <1>2 DEF Answer, FreshReader
<1> QED
  BY <1>1, <1>2

LEMMA GotoFresh ==
  ASSUME TypeOK, \A r \in Reader : FreshReader(r),
         NEW s \in Reader, NEW pc \in PCs \ {"idle", "store"}, Goto(s, pc),
         reader[s].pc \in Using,
         UNCHANGED <<db, epoch, floor>>
  PROVE  \A r \in Reader : FreshReader(r)'
<1> SUFFICES ASSUME NEW r \in Reader PROVE FreshReader(r)'
  OBVIOUS
<1>1. reader'[r] = IF r = s THEN [reader[r] EXCEPT !.pc = pc] ELSE reader[r]
  BY DEF Goto, TypeOK
<1> QED
  BY <1>1 DEF FreshReader, TypeOK, ReaderRecord, Using, PCs

\* Who waits for a flight has captured the epoch of its leader.
LEMMA FlightFresh ==
  ASSUME TypeOK, \A r \in Reader : FreshReader(r),
         NEW l \in Reader, reader[l].pc \in InFlight,
         NEW v \in Versions \cup {NoTree}, EndFlight(l, v),
         v # NoTree => v <= db /\ (floor[reader[l].epoch] <= v \/ v = db),
         UNCHANGED <<db, epoch, floor>>
  PROVE  \A r \in Reader : FreshReader(r)'
<1>1. ASSUME NEW r \in {l} \cup Waiters(l)
      PROVE  /\ reader[r].epoch = reader[l].epoch
             /\ reader[r].must <= floor[reader[l].epoch]
             /\ reader[r].must <= db
  <2>1. r \in Reader /\ reader[r].epoch = reader[l].epoch /\ reader[r].pc \in Using
    BY DEF Waiters, KeyOf, InFlight, Using, PCs
  <2> QED
    BY <2>1 DEF FreshReader
<1>2. v # NoTree => \A r \in ({l} \cup Waiters(l)) \cap Reader : reader[r].must <= v
  BY <1>1, NumberTypes, CacheAssumption DEF Versions
<1> QED
  BY <1>2, AnswerFresh DEF EndFlight

LEMMA FreshNext == FreshInv /\ [Next]_vars /\ [QuietRestart]_vars => FreshInv'
<1> SUFFICES ASSUME FreshInv, [Next]_vars, [QuietRestart]_vars PROVE FreshInv'
  OBVIOUS
<1> USE NumberTypes DEF FreshInv
<1>0. TypeOK'
  BY TypeNext
<1> DEFINE ReadersFresh == \A r \in Reader : FreshReader(r)
<1>1. ASSUME NEW r \in Reader, NEW q \in Query, ReadEpoch(r, q)
      PROVE  FreshStore' /\ ReadersFresh'
  <2>1. FreshStore'
    BY <1>1 DEF ReadEpoch, FreshStore, PayloadsFresh
  <2>2. ASSUME NEW s \in Reader PROVE FreshReader(s)'
    <3>1. CASE s # r
      BY <1>1, <2>2, <3>1 DEF ReadEpoch, FreshReader, TypeOK
    <3>2. CASE s = r
      <4>1. reader[r] \in ReaderRecord /\ epoch \in Epochs
        BY DEF TypeOK
      <4>2. /\ reader'[r].pc \in {"get", "direct"}
            /\ reader'[r].pc = "get" => reader'[r].epoch = epoch
            /\ reader'[r].epoch \in {epoch, reader[r].epoch}
            /\ reader'[r].must = floor[epoch]
        <5> DEFINE new == [reader[r] EXCEPT !.pc = "get", !.query = q, !.epoch = epoch,
                                            !.must = floor[epoch], !.result = NoTree]
                   lost == [reader[r] EXCEPT !.pc = "direct", !.query = q,
                                             !.must = floor[epoch], !.result = NoTree]
        <5>1. reader'[r] = new \/ reader'[r] = lost
          BY <1>1 DEF ReadEpoch, TypeOK
        <5>2. new.pc = "get" /\ new.epoch = epoch /\ new.must = floor[epoch]
          BY <4>1 DEF ReaderRecord
        <5>3. /\ lost.pc = "direct" /\ lost.epoch = reader[r].epoch
              /\ lost.must = floor[epoch]
          BY <4>1 DEF ReaderRecord
        <5> QED
          BY <5>1, <5>2, <5>3
      <4>3. floor[epoch] <= db
        BY <4>1 DEF FreshStore
      <4> QED
        BY <1>1, <3>2, <4>1, <4>2, <4>3 DEF ReadEpoch, FreshReader, Using, PCs
    <3> QED
      BY <3>1, <3>2
  <2> QED
    BY <2>1, <2>2
<1>2. ASSUME NEW r \in Reader, GetCached(r) PROVE FreshStore' /\ ReadersFresh'
  <2>1. FreshStore'
    BY <1>2 DEF GetCached, FreshStore, PayloadsFresh
  <2>2. reader[r].pc \in Using
    BY <1>2 DEF GetCached, Using, PCs
  <2>3. CASE KeyOf(r) \in DOMAIN cache /\ Answer({r}, cache[KeyOf(r)])
    <3>1. /\ cache[KeyOf(r)] \in Versions
          /\ floor[reader[r].epoch] <= cache[KeyOf(r)] /\ cache[KeyOf(r)] <= db
      BY <2>3 DEF FreshStore, PayloadsFresh, KeyOf, TypeOK
    <3>2. reader[r].must <= cache[KeyOf(r)]
      BY <2>2, <2>3, <3>1 DEF FreshReader
    <3> QED
      BY <1>2, <2>1, <2>3, <3>1, <3>2, AnswerFresh DEF GetCached
  <2>4. ASSUME Goto(r, "join") PROVE ReadersFresh'
    BY <1>2, <2>2, <2>4, GotoFresh DEF GetCached, PCs
  <2>5. ASSUME Goto(r, "direct") PROVE ReadersFresh'
    BY <1>2, <2>2, <2>5, GotoFresh DEF GetCached, PCs
  <2> QED
    BY <1>2, <2>1, <2>3, <2>4, <2>5 DEF GetCached
<1>3. ASSUME NEW r \in Reader, DirectLoad(r) PROVE FreshStore' /\ ReadersFresh'
  <2>1. FreshStore'
    BY <1>3 DEF DirectLoad, FreshStore, PayloadsFresh
  <2>2. PICK v \in {db, NoTree} : Answer({r}, v)
    BY <1>3 DEF DirectLoad
  <2>3. v \in Versions \cup {NoTree} /\ reader[r].must <= db
    BY DEF TypeOK, FreshReader
  <2> QED
    BY <1>3, <2>1, <2>2, <2>3, AnswerFresh DEF DirectLoad
<1>4. ASSUME NEW r \in Reader, JoinFlight(r) PROVE FreshStore' /\ ReadersFresh'
  <2>1. FreshStore'
    BY <1>4 DEF JoinFlight, FreshStore, PayloadsFresh
  <2> QED
    BY <1>4, <2>1, GotoFresh DEF JoinFlight, PCs, Using
<1>5. ASSUME NEW r \in Reader, DoubleCheck(r) PROVE FreshStore' /\ ReadersFresh'
  <2>1. FreshStore'
    BY <1>5 DEF DoubleCheck, FreshStore, PayloadsFresh
  <2>2. CASE KeyOf(r) \in DOMAIN cache /\ EndFlight(r, cache[KeyOf(r)])
    <3>1. /\ cache[KeyOf(r)] \in Versions
          /\ floor[reader[r].epoch] <= cache[KeyOf(r)] /\ cache[KeyOf(r)] <= db
      BY <2>2 DEF FreshStore, PayloadsFresh, KeyOf, TypeOK
    <3> QED
      BY <1>5, <2>1, <2>2, <3>1, FlightFresh DEF DoubleCheck, InFlight
  <2>3. ASSUME Goto(r, "load") PROVE ReadersFresh'
    BY <1>5, <2>3, GotoFresh DEF DoubleCheck, PCs, Using
  <2>4. ASSUME Goto(r, "only") PROVE ReadersFresh'
    BY <1>5, <2>4, GotoFresh DEF DoubleCheck, PCs, Using
  <2> QED
    BY <1>5, <2>1, <2>2, <2>3, <2>4 DEF DoubleCheck
<1>6. ASSUME NEW r \in Reader, LoadTree(r) PROVE FreshStore' /\ ReadersFresh'
  <2>1. FreshStore'
    BY <1>6 DEF LoadTree, FreshStore, PayloadsFresh
  <2>2. CASE EndFlight(r, db) \/ EndFlight(r, NoTree)
    <3>1. reader[r].pc \in InFlight /\ db \in Versions
      BY <1>6 DEF LoadTree, InFlight, TypeOK
    <3> QED
      BY <1>6, <2>1, <2>2, <3>1, FlightFresh DEF LoadTree
  <2>3. CASE /\ reader[r].pc = "load"
             /\ reader' = [reader EXCEPT ![r].pc = "store", ![r].seen = db]
    <3>1. ASSUME NEW s \in Reader PROVE FreshReader(s)'
      <4>1. CASE s # r
        BY <1>6, <2>3, <4>1 DEF LoadTree, FreshReader, TypeOK
      <4>2. CASE s = r
        <5>1. /\ reader'[r].pc = "store" /\ reader'[r].seen = db
              /\ reader'[r].epoch = reader[r].epoch /\ reader'[r].must = reader[r].must
          BY <2>3 DEF TypeOK, ReaderRecord
        <5>2. floor[reader[r].epoch] <= db
          BY DEF FreshStore
        <5> QED
          BY <1>6, <2>3, <4>2, <5>1, <5>2 DEF LoadTree, FreshReader, Using, PCs
      <4> QED
        BY <4>1, <4>2
    <3> QED
      BY <2>1, <3>1
  <2> QED
    BY <1>6, <2>2, <2>3 DEF LoadTree
<1>7. ASSUME NEW r \in Reader, StoreTree(r) PROVE FreshStore' /\ ReadersFresh'
  <2>1. /\ reader[r].seen \in Versions /\ reader[r].epoch <= epoch
        /\ floor[reader[r].epoch] <= reader[r].seen /\ reader[r].seen <= db
    BY <1>7 DEF StoreTree, FreshReader, TypeOK, ReaderRecord, Using, PCs
  <2>2. ASSUME NEW k \in DOMAIN cache'
        PROVE  k[1] <= epoch /\ floor[k[1]] <= cache'[k] /\ cache'[k] <= db
    <3>1. CASE k \in DOMAIN cache /\ cache'[k] = cache[k]
      BY <3>1 DEF FreshStore, PayloadsFresh
    <3>2. CASE k = KeyOf(r) /\ cache'[k] = reader[r].seen
      BY <2>1, <3>2 DEF KeyOf
    <3> QED
      BY <1>7, <3>1, <3>2 DEF StoreTree
  <2>3. FreshStore'
    BY <1>7, <2>2 DEF StoreTree, FreshStore, PayloadsFresh
  <2>4. ReadersFresh'
    BY <1>7, <2>1, FlightFresh DEF StoreTree, InFlight
  <2> QED
    BY <2>3, <2>4
<1>8. ASSUME NEW w \in Writer, Commit(w) PROVE FreshStore' /\ ReadersFresh'
  <2>1. FreshStore'
    BY <1>8 DEF Commit, FreshStore, PayloadsFresh
  <2>2. ASSUME NEW r \in Reader PROVE FreshReader(r)'
    BY <1>8, <2>2 DEF Commit, FreshReader
  <2> QED
    BY <2>1, <2>2
<1>9. ASSUME NEW w \in Writer, Bump(w) PROVE FreshStore' /\ ReadersFresh'
  <2>1. /\ epoch + 1 \in Epochs /\ epoch' = epoch + 1 /\ floor'[epoch + 1] = db
        /\ \A e \in Epochs : e <= epoch => floor'[e] = floor[e]
    BY <1>9, VersionNext DEF Bump, TypeOK
  <2>2. FreshStore'
    <3>1. \A e \in Epochs : floor'[e] <= db
      BY <1>9 DEF Bump, FreshStore, TypeOK
    <3> QED
      BY <1>9, <2>1, <3>1 DEF Bump, FreshStore, PayloadsFresh
  <2>3. ASSUME NEW r \in Reader PROVE FreshReader(r)'
    <3>1. FreshReader(r) /\ reader' = reader /\ db' = db
      BY <1>9, <2>3 DEF Bump
    <3>2. CASE reader[r].pc \in Using
      <4>1. reader[r].epoch <= epoch /\ floor'[reader[r].epoch] = floor[reader[r].epoch]
        BY <2>1, <2>3, <3>1, <3>2 DEF FreshReader
      <4> QED
        BY <2>1, <2>3, <3>1, <4>1 DEF FreshReader
    <3>3. CASE reader[r].pc \notin Using
      BY <3>1, <3>3 DEF FreshReader, Using, PCs
    <3> QED
      BY <3>2, <3>3
  <2> QED
    BY <2>2, <2>3
<1>10. ASSUME NEW w \in Writer, LoseBump(w) PROVE FreshStore' /\ ReadersFresh'
  BY <1>10 DEF LoseBump, FreshStore, PayloadsFresh, FreshReader
<1>11. ASSUME NEW k \in Key, Expire(k) PROVE FreshStore' /\ ReadersFresh'
  BY <1>11 DEF Expire, Restrict, FreshStore, PayloadsFresh, FreshReader
<1>12. CASE UNCHANGED vars
  <2>1. FreshStore'
    BY <1>12 DEF vars, FreshStore, PayloadsFresh
  <2>2. ASSUME NEW r \in Reader PROVE FreshReader(r)'
    <3>1. reader' = reader /\ db' = db /\ epoch' = epoch /\ floor' = floor
      BY <1>12 DEF vars
    <3>2. FreshReader(r)
      BY <2>2
    <3> QED
      BY <3>1, <3>2 DEF FreshReader
  <2> QED
    BY <1>0, <2>1, <2>2
<1>13. CASE Restart
  <2>1. /\ epoch' = 0 /\ cache' = << >> /\ db' = db /\ reader' = reader
        /\ floor' = [floor EXCEPT ![0] = db]
    BY <1>13 DEF Restart
  <2>2. \A e \in Epochs : floor'[e] \in {floor[e], db} /\ floor'[e] <= db
    BY <2>1, CacheAssumption DEF FreshStore, TypeOK, Versions
  <2>3. FreshStore'
    BY <2>1, <2>2 DEF FreshStore, PayloadsFresh
  <2>4. ASSUME NEW r \in Reader PROVE FreshReader(r)'
    <3>1. FreshReader(r)
      BY <2>4
    <3>2. CASE \A s \in Reader : reader[s].pc \in {"idle", "direct"}
      <4>1. reader[r].pc \notin Using /\ reader[r].pc # "store"
        BY <2>4, <3>2 DEF Using
      <4> QED
        BY <2>1, <3>1, <4>1 DEF FreshReader
    <3>3. CASE epoch' = epoch /\ floor' = floor
      BY <2>1, <3>1, <3>3 DEF FreshReader
    <3>4. CASE epoch' < epoch \/ floor'[0] # floor[0]
      <4>1. floor' # floor \/ epoch' # epoch
        BY <2>1, <3>4
      <4>2. QuietRestart
        BY <4>1 DEF vars
      <4> QED
        BY <3>2, <3>4, <4>2 DEF QuietRestart
    <3>5. CASE ~(epoch' < epoch) /\ floor'[0] = floor[0]
      <4>1. epoch' = epoch
        <5>1. epoch \in Nat
          BY NumberTypes
        <5> QED
          BY <2>1, <3>5, <5>1
      <4>2. floor' = floor
        BY <2>1, <3>5, VersionZero DEF TypeOK
      <4> QED
        BY <3>3, <4>1, <4>2
    <3> QED
      BY <3>4, <3>5
  <2> QED
    BY <1>0, <2>3, <2>4
<1> QED
  BY <1>0, <1>1, <1>2, <1>3, <1>4, <1>5, <1>6, <1>7, <1>8, <1>9, <1>10, <1>11, <1>12, <1>13
  DEF Next, ReadStep

\* If Redis is never recreated, the epoch never begins anew.
THEOREM KeptRedisQuiet == ~RedisRestarts /\ Spec => [][QuietRestart]_vars
<1> SUFFICES ASSUME ~RedisRestarts PROVE Spec => [][QuietRestart]_vars
  OBVIOUS
<1>1. TypeOK /\ [Next]_vars => [QuietRestart]_vars
  <2> SUFFICES ASSUME TypeOK, Next PROVE ~(epoch' < epoch) /\ floor'[0] = floor[0]
    BY DEF QuietRestart
  <2>1. CASE \E w \in Writer : Bump(w)
    BY <2>1, NumberTypes DEF Bump, TypeOK
  <2>2. CASE UNCHANGED <<epoch, floor>>
    BY <2>2, NumberTypes
  <2> QED
    BY <2>1, <2>2 DEF Next, ReadStep, ReadEpoch, GetCached, DirectLoad, JoinFlight,
       DoubleCheck, LoadTree, StoreTree, Commit, LoseBump, Expire, Restart
<1> QED
  BY <1>1, TypeInit, TypeNext, PTL DEF Spec

\* QuietSpec is nothing but Spec with this condition.
THEOREM QuietIsRestart == QuietSpec <=> Spec /\ [][QuietRestart]_vars
<1>1. [Next /\ QuietRestart]_vars <=> [Next]_vars /\ [QuietRestart]_vars
  OBVIOUS
<1> QED
  BY <1>1, PTL DEF Spec, QuietSpec

\* As long as no epoch comes back under a read, a payload is never older than the
\* epoch of its key, whatever calls of Redis fail.
THEOREM CachePayloadsFresh == Spec /\ [][QuietRestart]_vars => []PayloadsFresh
<1>1. FreshInv /\ [Next]_vars /\ [QuietRestart]_vars => FreshInv'
  BY FreshNext
<1>2. FreshInv => PayloadsFresh
  BY DEF FreshInv, FreshStore
<1> QED
  BY FreshInit, <1>1, <1>2, PTL DEF Spec

\* As long as no epoch comes back under a read, no read answers with less than the
\* last bump before it announced: fail-open reads and shared flights included.
THEOREM CacheReadsFresh == Spec /\ [][QuietRestart]_vars => []FreshReads
<1>1. FreshInv /\ [Next]_vars /\ [QuietRestart]_vars => FreshInv'
  BY FreshNext
<1>2. FreshInv => FreshReads
  BY DEF FreshInv, FreshReads, FreshReader
<1> QED
  BY FreshInit, <1>1, <1>2, PTL DEF Spec

-----------------------------------------------------------------------------
(***************************************************************************)
(* The refinement.  Every step answers a set of reads with the same        *)
(* version, begins one, commits, or announces what is committed.           *)
(***************************************************************************)
Busy == {r \in Reader : reader[r].pc # "idle"}

LEMMA AnswerEndsReads ==
  ASSUME TypeOK, (\A r \in Reader : FreshReader(r))',
         NEW R \in SUBSET Busy, R # {}, NEW v \in Versions \cup {NoTree}, Answer(R, v),
         UNCHANGED <<db, epoch, floor>>
  PROVE  Reads!EndReads(R)
<1>1. ASSUME NEW r \in Reader
      PROVE  /\ r \in R => /\ reader'[r].pc = "idle"
                           /\ reader'[r].must = reader[r].must
                           /\ reader'[r].result = v
             /\ r \notin R => reader'[r] = reader[r]
  <2>1. reader[r] \in ReaderRecord
    BY DEF TypeOK
  <2>2. r \in R => reader'[r] = Answered(reader[r], v)
    BY DEF Answer
  <2>3. r \notin R => reader'[r] = reader[r]
    BY DEF Answer
  <2> QED
    BY <2>1, <2>2, <2>3 DEF Answered, ReaderRecord
<1>2. Busy' = Busy \ R
  BY <1>1 DEF Busy
<1>3. [r \in Reader |-> reader'[r].must] = [r \in Reader |-> reader[r].must]
  BY <1>1
<1>4. \A r \in Reader \ R : reader'[r].result = reader[r].result
  BY <1>1
<1>5. [r \in Reader |-> reader'[r].result] \in [Reader -> Versions \cup {NoTree}]
  <2>1. \A r \in Reader : reader[r].result \in Versions \cup {NoTree}
    BY DEF TypeOK, ReaderRecord
  <2> QED
    BY <1>1, <2>1
<1>6. \A r \in R : reader'[r].result # NoTree
                  => reader[r].must <= reader'[r].result /\ reader'[r].result <= db
  BY <1>1 DEF FreshReader, Busy
<1> QED
  BY <1>2, <1>3, <1>4, <1>5, <1>6
  DEF Reads!EndReads, Reads!Versions, Versions, Busy

LEMMA RefineInit == Init => Reads!Init
  BY CacheAssumption DEF Init, Reads!Init, Epochs

LEMMA RefineNext ==
  FreshInv /\ FreshInv' /\ [Next]_vars => [Reads!Next]_(Reads!vars)
<1> SUFFICES ASSUME FreshInv, FreshInv', [Next]_vars
             PROVE  Reads!Next \/ UNCHANGED Reads!vars
  OBVIOUS
<1> USE DEF FreshInv
<1>1. ASSUME NEW r \in Reader, NEW q \in Query, ReadEpoch(r, q) PROVE Reads!BeginRead(r)
  <2> DEFINE new == [reader[r] EXCEPT !.pc = "get", !.query = q, !.epoch = epoch,
                                      !.must = floor[epoch], !.result = NoTree]
             lost == [reader[r] EXCEPT !.pc = "direct", !.query = q,
                                       !.must = floor[epoch], !.result = NoTree]
  <2>1. reader[r] \in ReaderRecord
    BY DEF TypeOK
  <2>2. /\ new.pc # "idle" /\ new.must = floor[epoch] /\ new.result = NoTree
        /\ lost.pc # "idle" /\ lost.must = floor[epoch] /\ lost.result = NoTree
    BY <2>1 DEF ReaderRecord
  <2>3. /\ reader'[r] \in {new, lost}
        /\ \A s \in Reader \ {r} : reader'[s] = reader[s]
    BY <1>1 DEF ReadEpoch, TypeOK
  <2>4. Busy' = Busy \cup {r} /\ r \notin Busy
    <3>1. reader'[r].pc # "idle" /\ reader[r].pc = "idle"
      BY <1>1, <2>2, <2>3 DEF ReadEpoch
    <3> HIDE DEF new, lost
    <3> QED
      BY <2>3, <3>1 DEF Busy
  <2>5. [s \in Reader |-> reader'[s].must]
        = [[s \in Reader |-> reader[s].must] EXCEPT ![r] = floor[epoch]]
    BY <2>2, <2>3
  <2>6. [s \in Reader |-> reader'[s].result]
        = [[s \in Reader |-> reader[s].result] EXCEPT ![r] = NoTree]
    BY <2>2, <2>3
  <2> QED
    BY <1>1, <2>4, <2>5, <2>6 DEF ReadEpoch, Reads!BeginRead, Busy
<1>2. ASSUME NEW R \in SUBSET Busy, R # {}, NEW v \in Versions \cup {NoTree},
             Answer(R, v), UNCHANGED <<db, epoch, floor>>
      PROVE  Reads!Next
  <2>1. Reads!EndReads(R)
    BY <1>2, AnswerEndsReads
  <2>2. R \in SUBSET Reader
    BY DEF Busy
  <2> QED
    BY <2>1, <2>2 DEF Reads!Next
<1>3. ASSUME NEW l \in Busy, NEW v \in Versions \cup {NoTree},
             EndFlight(l, v), UNCHANGED <<db, epoch, floor>>
      PROVE  Reads!Next
  <2>1. {l} \cup Waiters(l) \in SUBSET Busy
    BY DEF Busy, Waiters
  <2> QED
    BY <1>2, <1>3, <2>1 DEF EndFlight
<1>4. ASSUME NEW r \in Reader, reader[r].pc # "idle",
             NEW pc \in PCs \ {"idle"}, NEW seen \in Versions,
             reader' = [reader EXCEPT ![r].pc = pc, ![r].seen = seen],
             UNCHANGED <<db, epoch, floor>>
      PROVE  UNCHANGED Reads!vars
  <2>1. ASSUME NEW s \in Reader
        PROVE  /\ reader'[s].pc # "idle" <=> reader[s].pc # "idle"
               /\ reader'[s].must = reader[s].must
               /\ reader'[s].result = reader[s].result
    <3> DEFINE new == [reader[r] EXCEPT !.pc = pc, !.seen = seen]
    <3>1. reader'[s] = IF s = r THEN new ELSE reader[s]
      BY <1>4, <2>1 DEF TypeOK
    <3>2. new.pc = pc /\ new.must = reader[r].must /\ new.result = reader[r].result
      BY DEF TypeOK, ReaderRecord
    <3> QED
      BY <1>4, <3>1, <3>2
  <2> QED
    BY <1>4, <2>1 DEF Reads!vars
<1>5. ASSUME NEW r \in Reader, NEW pc \in PCs \ {"idle"}, Goto(r, pc),
             reader[r].pc # "idle", UNCHANGED <<db, epoch, floor>>
      PROVE  UNCHANGED Reads!vars
  <2>1. ASSUME NEW s \in Reader
        PROVE  /\ reader'[s].pc # "idle" <=> reader[s].pc # "idle"
               /\ reader'[s].must = reader[s].must
               /\ reader'[s].result = reader[s].result
    BY <1>5, <2>1 DEF Goto, TypeOK, ReaderRecord
  <2> QED
    BY <1>5, <2>1 DEF Reads!vars
<1>6. ASSUME NEW r \in Reader, GetCached(r) PROVE Reads!Next \/ UNCHANGED Reads!vars
  <2>1. KeyOf(r) \in DOMAIN cache => cache[KeyOf(r)] \in Versions
    BY DEF TypeOK
  <2>2. r \in Busy /\ {r} \in SUBSET Busy
    BY <1>6 DEF Busy, GetCached
  <2> QED
    BY <1>2, <1>5, <1>6, <2>1, <2>2 DEF GetCached, PCs
<1>7. ASSUME NEW r \in Reader, DirectLoad(r) PROVE Reads!Next
  <2>1. {r} \in SUBSET Busy /\ {db, NoTree} \subseteq Versions \cup {NoTree}
    BY <1>7 DEF Busy, DirectLoad, TypeOK
  <2> QED
    BY <1>2, <1>7, <2>1 DEF DirectLoad
<1>8. ASSUME NEW r \in Reader, JoinFlight(r) PROVE UNCHANGED Reads!vars
  BY <1>5, <1>8 DEF JoinFlight, PCs
<1>9. ASSUME NEW r \in Reader, DoubleCheck(r) PROVE Reads!Next \/ UNCHANGED Reads!vars
  <2>1. KeyOf(r) \in DOMAIN cache => cache[KeyOf(r)] \in Versions
    BY DEF TypeOK
  <2>2. r \in Busy
    BY <1>9 DEF Busy, DoubleCheck
  <2> QED
    BY <1>3, <1>5, <1>9, <2>1, <2>2 DEF DoubleCheck, PCs
<1>10. ASSUME NEW r \in Reader, LoadTree(r) PROVE Reads!Next \/ UNCHANGED Reads!vars
  <2>1. r \in Busy /\ db \in Versions
    BY <1>10 DEF Busy, LoadTree, TypeOK
  <2> QED
    BY <1>3, <1>4, <1>10, <2>1 DEF LoadTree, PCs
<1>11. ASSUME NEW r \in Reader, StoreTree(r) PROVE Reads!Next
  <2>1. r \in Busy /\ reader[r].seen \in Versions
    BY <1>11 DEF Busy, StoreTree, TypeOK, ReaderRecord
  <2> QED
    BY <1>3, <1>11, <2>1 DEF StoreTree
<1>12. ASSUME NEW w \in Writer, Commit(w) PROVE Reads!Next
  BY <1>12 DEF Commit, Reads!Next, Reads!Commit
<1>13. ASSUME NEW w \in Writer, Bump(w) PROVE Reads!Next
  <2>1. floor'[epoch'] = db
    BY <1>13, VersionNext DEF Bump, TypeOK
  <2> QED
    BY <1>13, <2>1 DEF Bump, Reads!Next, Reads!Announce
<1>14. CASE UNCHANGED <<db, epoch, reader, floor>>
  BY <1>14 DEF Reads!vars
<1>15. CASE Restart
  <2>1. floor'[epoch'] = db
    BY <1>15, VersionZero DEF Restart, TypeOK
  <2> QED
    BY <1>15, <2>1 DEF Restart, Reads!Next, Reads!Announce
<1> QED
  BY <1>1, <1>6, <1>7, <1>8, <1>9, <1>10, <1>11, <1>12, <1>13, <1>14, <1>15
  DEF Next, ReadStep, LoseBump, Expire, vars, Reads!Next

\* As long as no epoch comes back under a read, a client cannot tell the cached
\* reads from reads of the database: CacheTransparent, for every number of instances.
THEOREM CacheRefinesReads == Spec /\ [][QuietRestart]_vars => CacheTransparent
<1>1. FreshInv /\ [Next]_vars /\ [QuietRestart]_vars => FreshInv'
  BY FreshNext
<1>2. FreshInv /\ FreshInv' /\ [Next]_vars => [Reads!Next]_(Reads!vars)
  BY RefineNext
<1> QED
  BY FreshInit, RefineInit, <1>1, <1>2, PTL DEF Spec, CacheTransparent, Reads!Spec

-----------------------------------------------------------------------------
(***************************************************************************)
(* Flights: nobody waits for one that has ended, and a key has at most one *)
(* in each process.                                                        *)
(***************************************************************************)

WaitersHaveLeader ==
    \A r \in Reader : reader[r].pc = "wait" => \E l \in Reader : Leads(l, r)

OneLeader ==
    \A l, m \in Reader : reader[m].pc \in InFlight /\ Leads(l, m) => l = m

Flights == WaitersHaveLeader /\ OneLeader

LEMMA AnswerEach ==
  ASSUME TypeOK, NEW R, NEW v, Answer(R, v), NEW r \in Reader
  PROVE  /\ r \in R => reader'[r].pc = "idle"
         /\ r \notin R => reader'[r] = reader[r]
<1>1. reader[r] \in ReaderRecord
  BY DEF TypeOK
<1>2. r \in R => reader'[r] = Answered(reader[r], v)
  BY DEF Answer
<1>3. r \notin R => reader'[r] = reader[r]
  BY DEF Answer
<1> QED
  BY <1>1, <1>2, <1>3 DEF Answered, ReaderRecord

\* Reads are answered, and with a leader everybody behind it.
LEMMA AnswerFlights ==
  ASSUME TypeOK, Flights, NEW R, NEW v, Answer(R, v),
         \A l \in R \cap Reader : reader[l].pc \in InFlight => Waiters(l) \subseteq R
  PROVE  Flights'
<1>1. "idle" \notin InFlight
  BY DEF InFlight
<1>2. \A r \in Reader : reader'[r].pc # "idle" => r \notin R /\ reader'[r] = reader[r]
  BY AnswerEach
<1>3. ASSUME NEW r \in Reader, reader'[r].pc = "wait"
      PROVE  \E l \in Reader : Leads(l, r)'
  <2>1. r \notin R /\ reader'[r] = reader[r]
    BY <1>2, <1>3
  <2>2. PICK l \in Reader : Leads(l, r)
    BY <1>3, <2>1 DEF Flights, WaitersHaveLeader
  <2>3. r \in Waiters(l)
    BY <1>3, <2>1, <2>2 DEF Leads, Waiters
  <2>4. l \notin R
    BY <2>1, <2>2, <2>3 DEF Leads
  <2>5. reader'[l] = reader[l]
    BY <2>4, AnswerEach
  <2> QED
    BY <2>1, <2>2, <2>5 DEF Leads, KeyOf
<1>4. ASSUME NEW l \in Reader, NEW m \in Reader, reader'[m].pc \in InFlight, Leads(l, m)'
      PROVE  l = m
  <2>1. reader'[l] = reader[l] /\ reader'[m] = reader[m]
    BY <1>1, <1>2, <1>4 DEF Leads
  <2>2. Leads(l, m) /\ reader[m].pc \in InFlight
    BY <1>4, <2>1 DEF Leads, KeyOf
  <2> QED
    BY <2>2 DEF Flights, OneLeader
<1> QED
  BY <1>3, <1>4 DEF Flights, WaitersHaveLeader, OneLeader

SameKey(r) == reader'[r].epoch = reader[r].epoch /\ reader'[r].query = reader[r].query

\* One read goes on, within its flight or outside, to wait, or to lead.
LEMMA MoveFlights ==
  ASSUME Flights, NEW r \in Reader,
         \A s \in Reader \ {r} : reader'[s] = reader[s],
         \/ reader[r].pc \in InFlight /\ reader'[r].pc \in InFlight /\ SameKey(r)
         \/ reader[r].pc \notin InFlight /\ reader'[r].pc \notin InFlight \cup {"wait"}
         \/ /\ reader[r].pc \notin InFlight /\ reader'[r].pc = "wait" /\ SameKey(r)
            /\ \E l \in Reader : Leads(l, r)
         \/ /\ reader[r].pc \notin InFlight /\ reader'[r].pc \in InFlight /\ SameKey(r)
            /\ \A l \in Reader : ~Leads(l, r)
  PROVE  Flights'
<1>1. "wait" \notin InFlight
  BY DEF InFlight
<1>2. ASSUME NEW l \in Reader, reader[l].pc \in InFlight
      PROVE  reader'[l].pc \in InFlight /\ KeyOf(l)' = KeyOf(l)
  BY <1>1, <1>2 DEF SameKey, KeyOf
<1>3. ASSUME NEW s \in Reader, reader'[s].pc = "wait"
      PROVE  \E l \in Reader : Leads(l, s)'
  <2>1. KeyOf(s)' = KeyOf(s) /\ \E l \in Reader : Leads(l, s)
    BY <1>1, <1>3 DEF SameKey, KeyOf, Flights, WaitersHaveLeader
  <2> QED
    BY <1>2, <2>1 DEF Leads
<1>4. ASSUME NEW l \in Reader, NEW m \in Reader, reader'[m].pc \in InFlight, Leads(l, m)'
      PROVE  l = m
  <2>1. /\ reader'[l].pc \in InFlight /\ l[1] = m[1]
        /\ KeyOf(l)' = KeyOf(m)'
        /\ KeyOf(l)' = KeyOf(l) /\ KeyOf(m)' = KeyOf(m)
    BY <1>1, <1>4 DEF Leads, SameKey, KeyOf
  <2>2. CASE l = r \/ m = r
    <3>1. reader[r].pc \notin InFlight => \A x \in Reader : ~Leads(x, r)
      BY <1>1, <1>4, <2>1, <2>2
    <3> QED
      BY <1>4, <2>1, <2>2, <3>1 DEF Leads, Flights, OneLeader
  <2>3. CASE l # r /\ m # r
    BY <1>4, <2>1, <2>3 DEF Leads, Flights, OneLeader
  <2> QED
    BY <2>2, <2>3
<1> QED
  BY <1>3, <1>4 DEF Flights, WaitersHaveLeader, OneLeader

LEMMA GotoEach ==
  ASSUME TypeOK, NEW r \in Reader, NEW pc, Goto(r, pc)
  PROVE  /\ reader'[r].pc = pc /\ SameKey(r)
         /\ \A s \in Reader \ {r} : reader'[s] = reader[s]
  BY DEF TypeOK, ReaderRecord, Goto, SameKey

LEMMA EndFlightFlights ==
  ASSUME TypeOK, Flights, NEW l \in Reader, reader[l].pc \in InFlight, NEW v, EndFlight(l, v)
  PROVE  Flights'
<1>1. ASSUME NEW m \in ({l} \cup Waiters(l)) \cap Reader, reader[m].pc \in InFlight
      PROVE  Waiters(m) \subseteq {l} \cup Waiters(l)
  <2>1. m = l
    BY <1>1 DEF Waiters, InFlight
  <2> QED
    BY <2>1
<1> QED
  BY <1>1, AnswerFlights DEF EndFlight

LEMMA FlightsNext == TypeOK /\ Flights /\ [Next]_vars => Flights'
<1> SUFFICES ASSUME TypeOK, Flights, [Next]_vars PROVE Flights'
  OBVIOUS
<1>1. ASSUME NEW r \in Reader, NEW q \in Query, ReadEpoch(r, q) PROVE Flights'
  <2> DEFINE new == [reader[r] EXCEPT !.pc = "get", !.query = q, !.epoch = epoch,
                                      !.must = floor[epoch], !.result = NoTree]
             lost == [reader[r] EXCEPT !.pc = "direct", !.query = q,
                                       !.must = floor[epoch], !.result = NoTree]
  <2>1. reader[r] \in ReaderRecord
    BY DEF TypeOK
  <2>2. new.pc = "get" /\ lost.pc = "direct"
    BY <2>1 DEF ReaderRecord
  <2>3. /\ reader'[r] \in {new, lost}
        /\ \A s \in Reader \ {r} : reader'[s] = reader[s]
    BY <1>1 DEF ReadEpoch, TypeOK
  <2> HIDE DEF new, lost
  <2>4. reader[r].pc = "idle" /\ reader'[r].pc \in {"get", "direct"}
    BY <1>1, <2>2, <2>3 DEF ReadEpoch
  <2>5. reader[r].pc \notin InFlight /\ reader'[r].pc \notin InFlight \cup {"wait"}
    BY <2>4 DEF InFlight
  <2> QED
    BY <2>3, <2>5, MoveFlights
<1>2. ASSUME NEW r \in Reader, GetCached(r) PROVE Flights'
  <2>1. reader[r].pc \notin InFlight /\ {"join", "direct"} \cap (InFlight \cup {"wait"}) = {}
    BY <1>2 DEF GetCached, InFlight
  <2>2. ASSUME NEW pc \in {"join", "direct"}, Goto(r, pc) PROVE Flights'
    BY <2>1, <2>2, GotoEach, MoveFlights
  <2>3. ASSUME NEW v, Answer({r}, v) PROVE Flights'
    BY <2>1, <2>3, AnswerFlights
  <2> QED
    BY <1>2, <2>2, <2>3 DEF GetCached
<1>3. ASSUME NEW r \in Reader, DirectLoad(r) PROVE Flights'
  <2>1. reader[r].pc \notin InFlight /\ \E v : Answer({r}, v)
    BY <1>3 DEF DirectLoad, InFlight
  <2> QED
    BY <2>1, AnswerFlights
<1>4. ASSUME NEW r \in Reader, JoinFlight(r) PROVE Flights'
  <2>1. reader[r].pc \notin InFlight /\ "check" \in InFlight
    BY <1>4 DEF JoinFlight, InFlight
  <2>2. \/ (\E l \in Reader : Leads(l, r)) /\ Goto(r, "wait")
        \/ (\A l \in Reader : ~Leads(l, r)) /\ Goto(r, "check")
    BY <1>4 DEF JoinFlight
  <2>3. CASE (\E l \in Reader : Leads(l, r)) /\ Goto(r, "wait")
    BY <2>1, <2>3, GotoEach, MoveFlights
  <2>4. CASE (\A l \in Reader : ~Leads(l, r)) /\ Goto(r, "check")
    BY <2>1, <2>4, GotoEach, MoveFlights
  <2> QED
    BY <2>2, <2>3, <2>4
<1>5. ASSUME NEW r \in Reader, DoubleCheck(r) PROVE Flights'
  <2>1. reader[r].pc \in InFlight /\ {"load", "only"} \subseteq InFlight
    BY <1>5 DEF DoubleCheck, InFlight
  <2>2. ASSUME NEW pc \in {"load", "only"}, Goto(r, pc) PROVE Flights'
    BY <2>1, <2>2, GotoEach, MoveFlights
  <2>3. ASSUME NEW v, EndFlight(r, v) PROVE Flights'
    BY <2>1, <2>3, EndFlightFlights
  <2> QED
    BY <1>5, <2>2, <2>3 DEF DoubleCheck
<1>6. ASSUME NEW r \in Reader, LoadTree(r) PROVE Flights'
  <2>1. reader[r].pc \in InFlight /\ "store" \in InFlight
    BY <1>6 DEF LoadTree, InFlight
  <2>2. CASE reader' = [reader EXCEPT ![r].pc = "store", ![r].seen = db]
    <3> DEFINE new == [reader[r] EXCEPT !.pc = "store", !.seen = db]
    <3>1. reader[r] \in ReaderRecord
      BY DEF TypeOK
    <3>2. /\ new.pc = "store"
          /\ new.epoch = reader[r].epoch
          /\ new.query = reader[r].query
      BY <3>1 DEF ReaderRecord
    <3>3. reader'[r] = new /\ \A s \in Reader \ {r} : reader'[s] = reader[s]
      BY <2>2 DEF TypeOK
    <3> HIDE DEF new
    <3> QED
      BY <2>1, <3>2, <3>3, MoveFlights DEF SameKey
  <2>3. ASSUME NEW v, EndFlight(r, v) PROVE Flights'
    BY <2>1, <2>3, EndFlightFlights
  <2> QED
    BY <1>6, <2>2, <2>3 DEF LoadTree
<1>7. ASSUME NEW r \in Reader, StoreTree(r) PROVE Flights'
  <2>1. reader[r].pc \in InFlight /\ EndFlight(r, reader[r].seen)
    BY <1>7 DEF StoreTree, InFlight
  <2> QED
    BY <2>1, EndFlightFlights
<1>8. CASE reader' = reader
  <2>1. Flights' = Flights
    BY <1>8 DEF Flights, WaitersHaveLeader, OneLeader, Leads, KeyOf
  <2> QED
    BY <2>1
<1> QED
  BY <1>1, <1>2, <1>3, <1>4, <1>5, <1>6, <1>7, <1>8
  DEF Next, ReadStep, Commit, Bump, LoseBump, Expire, Restart, vars

LEMMA FlightsInit == Init => Flights
  BY DEF Init, Flights, WaitersHaveLeader, OneLeader, Leads, InFlight

\* The flight of a key is the only one that stores it, in one process.
LEMMA LoadOnlyNext ==
  ASSUME \A p, q \in Proc : p = q,
         TypeOK, Flights, LoadOnlyOnMiss, [Next]_vars
  PROVE  LoadOnlyOnMiss'
<1> DEFINE Loading == {"load", "store"}
<1>1. ASSUME NEW s \in Reader, reader'[s] = reader[s], DOMAIN cache' \subseteq DOMAIN cache,
             reader'[s].pc \in Loading
      PROVE  KeyOf(s)' \notin DOMAIN cache'
  BY <1>1 DEF LoadOnlyOnMiss, KeyOf
<1>2. ASSUME NEW r \in Reader, NEW q \in Query, ReadEpoch(r, q) PROVE LoadOnlyOnMiss'
  <2> DEFINE new == [reader[r] EXCEPT !.pc = "get", !.query = q, !.epoch = epoch,
                                      !.must = floor[epoch], !.result = NoTree]
             lost == [reader[r] EXCEPT !.pc = "direct", !.query = q,
                                       !.must = floor[epoch], !.result = NoTree]
  <2>1. reader[r] \in ReaderRecord
    BY DEF TypeOK
  <2>2. new.pc \notin Loading /\ lost.pc \notin Loading
    BY <2>1 DEF ReaderRecord
  <2>3. /\ reader'[r] \in {new, lost}
        /\ \A s \in Reader \ {r} : reader'[s] = reader[s]
        /\ cache' = cache
    BY <1>2 DEF ReadEpoch, TypeOK
  <2> HIDE DEF new, lost
  <2>4. reader'[r].pc \notin Loading
    BY <2>2, <2>3
  <2> QED
    BY <1>1, <2>3, <2>4 DEF LoadOnlyOnMiss
<1>3. ASSUME NEW R, NEW v, Answer(R, v), cache' = cache PROVE LoadOnlyOnMiss'
  <2>1. \A s \in Reader : reader'[s].pc \in Loading => reader'[s] = reader[s]
    BY <1>3, AnswerEach
  <2> QED
    BY <1>1, <1>3, <2>1 DEF LoadOnlyOnMiss
<1>4. ASSUME NEW r \in Reader, NEW pc, Goto(r, pc), cache' = cache,
             pc \in Loading => KeyOf(r) \notin DOMAIN cache
      PROVE  LoadOnlyOnMiss'
  <2>1. /\ reader'[r].pc = pc /\ KeyOf(r)' = KeyOf(r)
        /\ \A s \in Reader \ {r} : reader'[s] = reader[s]
    BY <1>4, GotoEach DEF SameKey, KeyOf
  <2> QED
    BY <1>1, <1>4, <2>1 DEF LoadOnlyOnMiss
<1>5. ASSUME NEW r \in Reader,
             GetCached(r) \/ DirectLoad(r) \/ JoinFlight(r) \/ DoubleCheck(r)
      PROVE  LoadOnlyOnMiss'
  <2>1. {"join", "direct", "wait", "check", "only"} \cap Loading = {} /\ cache' = cache
    BY <1>5 DEF GetCached, DirectLoad, JoinFlight, DoubleCheck
  <2>2. \/ \E R, v : Answer(R, v)
        \/ \E pc \in {"join", "direct", "wait", "check", "only"} : Goto(r, pc)
        \/ KeyOf(r) \notin DOMAIN cache /\ Goto(r, "load")
    BY <1>5 DEF GetCached, DirectLoad, JoinFlight, DoubleCheck, EndFlight
  <2> QED
    BY <1>3, <1>4, <2>1, <2>2
<1>6. ASSUME NEW r \in Reader, LoadTree(r) PROVE LoadOnlyOnMiss'
  <2>1. cache' = cache
    BY <1>6 DEF LoadTree
  <2>2. CASE reader[r].pc = "load" /\ reader' = [reader EXCEPT ![r].pc = "store", ![r].seen = db]
    <3> DEFINE new == [reader[r] EXCEPT !.pc = "store", !.seen = db]
    <3>1. reader[r] \in ReaderRecord
      BY DEF TypeOK
    <3>2. new.epoch = reader[r].epoch /\ new.query = reader[r].query
      BY <3>1 DEF ReaderRecord
    <3>3. reader'[r] = new /\ \A s \in Reader \ {r} : reader'[s] = reader[s]
      BY <2>2 DEF TypeOK
    <3> HIDE DEF new
    <3>4. KeyOf(r)' = KeyOf(r) /\ KeyOf(r) \notin DOMAIN cache
      BY <2>2, <3>2, <3>3 DEF KeyOf, LoadOnlyOnMiss
    <3> QED
      BY <1>1, <2>1, <3>3, <3>4 DEF LoadOnlyOnMiss
  <2>3. ASSUME NEW v, EndFlight(r, v) PROVE LoadOnlyOnMiss'
    BY <1>3, <2>1, <2>3 DEF EndFlight
  <2> QED
    BY <1>6, <2>2, <2>3 DEF LoadTree
<1>7. ASSUME NEW r \in Reader, StoreTree(r) PROVE LoadOnlyOnMiss'
  <2>1. /\ reader[r].pc \in InFlight
        /\ DOMAIN cache' \subseteq DOMAIN cache \cup {KeyOf(r)}
        /\ Answer({r} \cup Waiters(r), reader[r].seen)
    BY <1>7 DEF StoreTree, EndFlight, InFlight
  <2>2. ASSUME NEW s \in Reader, reader'[s].pc \in Loading
        PROVE  s # r /\ reader'[s] = reader[s]
    BY <2>1, <2>2, AnswerEach
  <2>3. ASSUME NEW s \in Reader, reader'[s].pc \in Loading
        PROVE  KeyOf(s)' \notin DOMAIN cache'
    <3>1. s # r /\ reader[s].pc \in Loading /\ KeyOf(s)' = KeyOf(s)
      BY <2>2, <2>3 DEF KeyOf
    <3>2. s[1] = r[1]
      BY DEF Reader
    <3>3. KeyOf(s) # KeyOf(r)
      BY <2>1, <3>1, <3>2 DEF Flights, OneLeader, Leads, InFlight
    <3>4. KeyOf(s) \notin DOMAIN cache
      BY <3>1 DEF LoadOnlyOnMiss
    <3> QED
      BY <2>1, <3>1, <3>3, <3>4
  <2> QED
    BY <2>3 DEF LoadOnlyOnMiss
<1>8. CASE reader' = reader /\ DOMAIN cache' \subseteq DOMAIN cache
  BY <1>1, <1>8 DEF LoadOnlyOnMiss
<1>9. ASSUME NEW w \in Writer, Commit(w) \/ Bump(w) \/ LoseBump(w)
      PROVE  reader' = reader /\ DOMAIN cache' \subseteq DOMAIN cache
  BY <1>9 DEF Commit, Bump, LoseBump
<1>10. ASSUME NEW k \in Key, Expire(k)
      PROVE  reader' = reader /\ DOMAIN cache' \subseteq DOMAIN cache
  BY <1>10 DEF Expire, Restrict
<1>11. CASE Restart \/ UNCHANGED vars
  BY <1>8, <1>11 DEF Restart, vars
<1> QED
  BY <1>2, <1>5, <1>6, <1>7, <1>8, <1>9, <1>10, <1>11 DEF Next, ReadStep

\* With one instance of the application, a tree is only loaded for the cache when
\* the cache does not have it (LoadOnlyOnMiss).
THEOREM CacheLoadOnlyOnMiss == (\A p, q \in Proc : p = q) /\ Spec => []LoadOnlyOnMiss
<1> SUFFICES ASSUME \A p, q \in Proc : p = q PROVE Spec => []LoadOnlyOnMiss
  OBVIOUS
<1> DEFINE I == TypeOK /\ Flights /\ LoadOnlyOnMiss
<1>1. Init => I
  BY TypeInit, FlightsInit DEF Init, LoadOnlyOnMiss
<1>2. I /\ [Next]_vars => I'
  BY TypeNext, FlightsNext, LoadOnlyNext
<1>3. I => LoadOnlyOnMiss
  OBVIOUS
<1> HIDE DEF I
<1> QED
  BY <1>1, <1>2, <1>3, PTL DEF Spec
=============================================================================
