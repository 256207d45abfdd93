---------------------------- MODULE ServerProofs ----------------------------
(***************************************************************************)
(* Server for any number of requests in flight, any faults of Redis, and   *)
(* any largest Duration.                                                   *)
(***************************************************************************)
EXTENDS Server, FiniteSetTheorems, TLAPS

-----------------------------------------------------------------------------
(***************************************************************************)
(* The jitter.                                                             *)
(***************************************************************************)
StoredOK(t, base) == SetAccepts(t) /\ base <= t /\ 10 * (t - base) <= base

LEMMA JitterInRange ==
  ASSUME NEW base \in 1 .. MaxDuration, NEW t \in Jittered(base)
  PROVE  t \in Duration /\ StoredOK(t, base)
<1>1. MaxDuration \in Nat /\ base \in Nat /\ base > 0
  BY DurationAssumption
<1>2. PICK j \in 0 .. MaxJitter(base) : t = Plus(base, j)
  BY <1>1 DEF Jittered
<1>3. base \div 10 \in Nat /\ 10 * (base \div 10) <= base
  BY <1>1
<1>4. MaxJitter(base) \in Nat /\ MaxJitter(base) <= base \div 10
      /\ MaxJitter(base) <= MaxDuration - base
  BY <1>1, <1>3 DEF MaxJitter
<1>5. j \in Nat /\ base + j <= MaxDuration /\ 10 * j <= base
  BY <1>1, <1>2, <1>3, <1>4
<1>6. t = base + j
  BY <1>1, <1>2, <1>5 DEF Plus
<1> QED
  BY <1>1, <1>5, <1>6 DEF StoredOK, SetAccepts, Duration

-----------------------------------------------------------------------------
(***************************************************************************)
(* Answers: the two switches of error.go agree, and what they give is      *)
(* never a success.                                                        *)
(***************************************************************************)
AnswerSet == [status : Nat, code : Codes, message : {"hidden", "shown", "none"}]

AnswerOK(a) ==
    /\ a \in AnswerSet
    /\ a.status >= 200
    /\ a.code # "none" => a.status = StatusOf(a.code) /\ (a.status = 500 <=> a.message = "hidden")

LEMMA SuccessOK ==
  ASSUME NEW e PROVE AnswerOK(Success(e)) /\ Success(e).status < 300
<1>1. Success(e).status \in {200, 201}
  BY DEF Success
<1>2. Success(e) = [status |-> Success(e).status, code |-> "none", message |-> "none"]
  BY DEF Success
<1>3. "none" \in Codes
  BY DEF Codes
<1>4. Success(e) \in AnswerSet
  BY <1>1, <1>2, <1>3 DEF AnswerSet
<1> QED
  BY <1>1, <1>2, <1>4 DEF AnswerOK

LEMMA UnavailableOK == AnswerOK(Unavailable) /\ Unavailable.status >= 300
<1>1. "none" \in Codes
  BY DEF Codes
<1> QED
  BY <1>1 DEF AnswerOK, AnswerSet, Unavailable

LEMMA RefuseInputOK ==
  ASSUME NEW e \in Endpoints, NEW code \in BadInput[e]
  PROVE  AnswerOK(RefuseInput(code)) /\ RefuseInput(code).status >= 300
<1>1. code \in {"invalid_request_body", "invalid_department_id", "invalid_depth",
                "invalid_include_employees", "invalid_name", "invalid_parent_id",
                "invalid_reassign_to_department_id", "invalid_employee_id"}
  BY DEF BadInput, GetDepartmentRefuses, PatchDepartmentRefuses, DeleteDepartmentRefuses,
         CreateEmployeeRefuses, PatchEmployeeRefuses, EmployeeIdRefuses, Endpoints, Mutations, Reads
<1>2. StatusOf(code) = 400
  BY <1>1 DEF StatusOf
<1>3. code \in Codes
  BY DEF Codes
<1> QED
  BY <1>2, <1>3 DEF AnswerOK, AnswerSet, RefuseInput

\* The sentinels of the services.
Sentinels == NotFound \cup Invalid \cup {"ErrDepartmentAlreadyExists"}

LEMMA SentinelCodes ==
  /\ DOMAIN CodeOfSentinel = Sentinels
  /\ \A x \in NotFound : StatusOf(CodeOfSentinel[x]) = 404
  /\ \A x \in Invalid : StatusOf(CodeOfSentinel[x]) = 400
  /\ StatusOf(CodeOfSentinel["ErrDepartmentAlreadyExists"]) = 409
<1>1. DOMAIN CodeOfSentinel = Sentinels
  BY DEF CodeOfSentinel, Sentinels, NotFound, Invalid
<1>2. ASSUME NEW x \in NotFound
      PROVE StatusOf(CodeOfSentinel[x]) = 404
  BY DEF CodeOfSentinel, NotFound, StatusOf
<1>3. ASSUME NEW x \in Invalid
      PROVE StatusOf(CodeOfSentinel[x]) = 400
  BY DEF CodeOfSentinel, Invalid, StatusOf
<1>4. StatusOf(CodeOfSentinel["ErrDepartmentAlreadyExists"]) = 409
  BY DEF CodeOfSentinel, StatusOf
<1> QED
  BY <1>1, <1>2, <1>3, <1>4

LEMMA RefuseOK ==
  ASSUME NEW e \in Endpoints \ {"health"}, NEW err \in Errors(e)
  PROVE  AnswerOK(Refuse(err)) /\ Refuse(err).status >= 300
<1>1. NotFound \cap Invalid = {} /\ "ErrDepartmentAlreadyExists" \notin NotFound \cup Invalid
  BY DEF NotFound, Invalid
<1>2. "DeadlineExceeded" \notin Sentinels /\ "Canceled" \notin Sentinels
  BY DEF NotFound, Invalid, Sentinels
<1>3. CASE \E x \in Sentinels : err = {x}
  <2>1. PICK x \in Sentinels : err = {x}
    BY <1>3
  <2>2. Code(err) = CodeOfSentinel[x] /\ Code(err) \in Codes
    <3>1. err \cap DOMAIN CodeOfSentinel = {x}
      BY <2>1, SentinelCodes
    <3>2. (CHOOSE y \in {x} : TRUE) = x
      OBVIOUS
    <3>3. Code(err) = CodeOfSentinel[x]
      BY <3>1, <3>2 DEF Code
    <3>4. x \in DOMAIN CodeOfSentinel
      BY SentinelCodes
    <3> QED
      BY <3>3, <3>4 DEF Codes
  <2>3. Status(err) \in {404, 409, 400} /\ Status(err) = StatusOf(Code(err))
    BY <1>1, <2>1, <2>2, SentinelCodes DEF Status, Sentinels
  <2> QED
    BY <2>2, <2>3 DEF AnswerOK, AnswerSet, Refuse
<1>4. CASE err \in Failures
  <2>1. err \cap Sentinels = {}
    BY <1>2, <1>4 DEF Failures
  <2>2. /\ Code(err) \in {"request_deadline_exceeded", "request_canceled", "internal_server_error"}
        /\ Status(err) \in {500, 504, 408} /\ Status(err) = StatusOf(Code(err))
    BY <2>1, SentinelCodes DEF Status, Code, Sentinels, StatusOf
  <2>3. Code(err) \in Codes
    BY <2>2 DEF Codes
  <2> QED
    BY <2>2, <2>3 DEF AnswerOK, AnswerSet, Refuse
<1>5. Refusals[e] \subseteq Sentinels
  BY DEF Refusals, Sentinels, NotFound, Invalid, Endpoints, Mutations, Reads
<1> QED
  BY <1>3, <1>4, <1>5 DEF Errors

-----------------------------------------------------------------------------
(***************************************************************************)
(* What is known of a request, at every step of its handler: q is the      *)
(* request, f the faults so far, t the TTL of the configuration.           *)
(***************************************************************************)
PCs == {"idle", "handle", "bump", "respond", "log"}

Fields(q) ==
    /\ q.pc \in PCs
    /\ q.endpoint \in Endpoints \cup {Nil}
    /\ q.gone \in BOOLEAN
    /\ q.committed \in BOOLEAN
    /\ q.answer \in AnswerSet \cup {Nil}
    /\ q.writer \in [recorded : Nat, sent : Nat]
    /\ q.set \in Duration \cup {Nil}

\* The status s tells the client of q what has happened.
Tells(s, q, f) ==
    q.endpoint \in Mutations =>
        /\ s < 300 => q.committed
        /\ s >= 300 /\ q.committed => f > 0

Sound(q, f, t) ==
    /\ q \in RequestRecord
    /\ q.pc = "idle" => q = Idle
    /\ q.pc # "idle" => q.endpoint \in Endpoints
    /\ q.pc \in {"handle", "bump"} => q.writer = Blank /\ q.answer = Nil /\ q.set = Nil
    /\ q.pc = "handle" => ~q.committed
    /\ q.pc = "bump" => q.committed /\ q.endpoint \in Mutations
    /\ q.pc = "respond" =>
           /\ q.writer = Blank
           /\ AnswerOK(q.answer)
           /\ Tells(q.answer.status, q, f)
           /\ q.set # Nil => StoredOK(q.set, t)
    /\ q.pc = "log" =>
           /\ q.answer = Nil /\ q.set = Nil
           /\ q.writer.recorded = q.writer.sent /\ q.writer.sent >= 200
           /\ Tells(q.writer.sent, q, f)

LEMMA RecordFields == ASSUME NEW q \in RequestRecord PROVE Fields(q)
  BY DEF RequestRecord, Fields, PCs, AnswerSet

LEMMA IdleRecord == Idle \in RequestRecord
  BY DEF Idle, RequestRecord, Blank

LEMMA SoundIdle == ASSUME NEW f, NEW t PROVE Sound(Idle, f, t)
  BY IdleRecord DEF Sound, Idle

LEMMA SoundLater ==
  ASSUME NEW q, NEW t, NEW f \in Nat, NEW g \in Nat, f <= g, Sound(q, f, t)
  PROVE  Sound(q, g, t)
  BY DEF Sound, Tells

\* A request that has just been accepted.
LEMMA SoundAccept ==
  ASSUME NEW f, NEW t, NEW e \in Endpoints
  PROVE  Sound([Idle EXCEPT !.pc = "handle", !.endpoint = e], f, t)
<1> DEFINE n == [Idle EXCEPT !.pc = "handle", !.endpoint = e]
<1>1. n \in RequestRecord /\ n.pc = "handle" /\ n.endpoint = e /\ n.committed = Idle.committed
      /\ n.answer = Idle.answer /\ n.writer = Idle.writer /\ n.set = Idle.set
  BY IdleRecord DEF RequestRecord
<1>2. Idle.committed = FALSE /\ Idle.answer = Nil /\ Idle.writer = Blank /\ Idle.set = Nil
  BY DEF Idle
<1> HIDE DEF n
<1>3. Sound(n, f, t)
  BY <1>1, <1>2 DEF Sound
<1> QED
  BY <1>3 DEF n

LEMMA SoundGone ==
  ASSUME NEW q, NEW f, NEW t, Sound(q, f, t), q.pc \in {"handle", "bump"}
  PROVE  Sound([q EXCEPT !.gone = TRUE], f, t)
<1> DEFINE n == [q EXCEPT !.gone = TRUE]
<1>1. q \in RequestRecord
  BY DEF Sound
<1>2. n \in RequestRecord /\ n.pc = q.pc /\ n.endpoint = q.endpoint /\ n.committed = q.committed
      /\ n.answer = q.answer /\ n.writer = q.writer /\ n.set = q.set
  BY <1>1 DEF RequestRecord
<1> HIDE DEF n
<1>3. Sound(n, f, t)
  BY <1>2 DEF Sound
<1> QED
  BY <1>3 DEF n

\* The handler has its answer: with what has been committed, and a tree stored.
LEMMA SoundAnswer ==
  ASSUME NEW q, NEW f, NEW t, NEW n, NEW a, NEW c \in BOOLEAN, NEW s \in Duration \cup {Nil},
         Sound(q, f, t), q.pc \in {"handle", "bump"}, AnswerOK(a),
         n = [q EXCEPT !.pc = "respond", !.committed = c, !.answer = a, !.gone = FALSE, !.set = s],
         q.endpoint \in Mutations =>
             (a.status < 300 => c) /\ (a.status >= 300 /\ c => f > 0),
         s # Nil => StoredOK(s, t)
  PROVE  Sound(n, f, t)
<1>1. q \in RequestRecord /\ q.endpoint \in Endpoints /\ q.writer = Blank
  BY DEF Sound
<1>2. n.pc = "respond" /\ n.endpoint = q.endpoint /\ n.committed = c /\ n.answer = a
      /\ n.writer = q.writer /\ n.set = s
  BY <1>1 DEF RequestRecord
<1>3. a \in [status : Nat, code : Codes, message : {"hidden", "shown", "none"}]
  BY DEF AnswerOK, AnswerSet
<1>4. n \in RequestRecord
  BY <1>1, <1>3 DEF RequestRecord
<1> QED
  BY <1>1, <1>2, <1>4 DEF Sound, Tells

\* What the writer has after an answer, whether the body broke off or not.
LEMMA WrittenWriter ==
  ASSUME NEW status \in Nat, status >= 200,
         NEW w \in {WriteBody(WriteHeader(Blank, status)),
                    HttpError(WriteBody(WriteHeader(Blank, status)))}
  PROVE  w = [recorded |-> status, sent |-> status]
  BY DEF WriteBody, WriteHeader, HttpError, Blank

LEMMA SoundWritten ==
  ASSUME NEW q, NEW f, NEW t, NEW n, NEW w,
         Sound(q, f, t), q.pc = "respond",
         w = [recorded |-> q.answer.status, sent |-> q.answer.status],
         n = [q EXCEPT !.pc = "log", !.writer = w, !.answer = Nil, !.set = Nil]
  PROVE  Sound(n, f, t)
<1>1. q \in RequestRecord /\ q.endpoint \in Endpoints /\ AnswerOK(q.answer)
  BY DEF Sound
<1>2. n.pc = "log" /\ n.endpoint = q.endpoint /\ n.committed = q.committed /\ n.answer = Nil
      /\ n.writer = w /\ n.set = Nil
  BY <1>1 DEF RequestRecord
<1>3. q.answer.status \in Nat /\ q.answer.status >= 200
  BY <1>1 DEF AnswerOK, AnswerSet
<1>4. n \in RequestRecord
  BY <1>1, <1>3 DEF RequestRecord
<1> QED
  BY <1>1, <1>2, <1>3, <1>4 DEF Sound, Tells

-----------------------------------------------------------------------------
(***************************************************************************)
(* The inductive invariant: the requests, the accounts of the bumps, and   *)
(* what the next step of run() says of the process.                        *)
(***************************************************************************)
Bumping == {r \in Slot : request[r].pc = "bump"}

Requests ==
    /\ request \in [Slot -> RequestRecord]
    /\ \A r \in Slot : Sound(request[r], faults, ttl)

Accounts ==
    /\ faults \in 0 .. MaxFaults
    /\ owed \in Nat
    /\ IsFiniteSet(Bumping)
    /\ redis # "closed" => owed = faults + Cardinality(Bumping)

ProcessTypes ==
    /\ main \in {"config", "connect", "redis", "listen", "notify", "select", "shutdown",
                 "close", "defers", "return", "exit"}
    /\ exit \in {"none", "ok", "error", "killed"}
    /\ listener \in {"new", "serving", "draining", "closed", "failed"}
    /\ signalled \in BOOLEAN /\ late \in BOOLEAN
    /\ redis \in {"none", "open", "closed"}
    /\ ttl \in 1 .. MaxDuration

Starting == main \in {"config", "connect", "redis", "listen"}

Ways ==
    /\ main \in {"config", "connect", "redis"} => redis = "none"
    /\ Starting => listener = "new"
    /\ listener = "new" => \A r \in Slot : request[r].pc = "idle"
    /\ redis = "closed" => main \in {"return", "exit"}
    /\ main = "return" \/ (main = "exit" /\ exit # "killed") => redis # "open"
    /\ main \notin {"defers", "return", "exit"} => exit = "none"
    /\ main \in {"defers", "return", "exit"} => exit # "none"
    /\ main = "close" => late
    /\ exit = "ok" =>
           listener = "closed" /\ owed = faults /\ \A r \in Slot : request[r].pc = "idle"
    /\ exit = "error" => late \/ listener \in {"failed", "new"}

Inv == Requests /\ Accounts /\ ProcessTypes /\ Ways

LEMMA InvInit == Init => Inv
<1> SUFFICES ASSUME Init PROVE Inv
  OBVIOUS
<1>1. Requests
  BY SoundIdle, IdleRecord DEF Init, Requests
<1>2. Bumping = {}
  BY DEF Init, Bumping, Idle
<1>3. Accounts
  BY <1>2, FS_EmptySet, ServerAssumption DEF Init, Accounts
<1>4. ProcessTypes /\ Ways
  BY ServerAssumption DEF Init, ProcessTypes, Ways, Idle, Starting
<1> QED
  BY <1>1, <1>3, <1>4 DEF Inv

\* A step of run() that leaves the requests and their accounts alone.
LEMMA ProcessStep ==
  ASSUME Inv, UNCHANGED <<request, owed, faults>>, ttl' = ttl \/ (\A r \in Slot : request[r].pc = "idle"),
         redis' = "closed" \/ redis # "closed" \/ redis' = redis
  PROVE  Requests' /\ Accounts'
<1>1. Requests'
  BY SoundIdle DEF Inv, Requests, Sound
<1>2. Bumping' = Bumping
  BY DEF Bumping
<1> QED
  BY <1>1, <1>2 DEF Inv, Accounts

\* A step of the request r: what it is after it, and what it adds to the accounts.
LEMMA RequestEffect ==
  ASSUME Inv, NEW r \in Slot, NEW n,
         UNCHANGED process, Running,
         request[r].pc # "idle" \/ listener \in {"serving", "failed"},
         request' = [request EXCEPT ![r] = n],
         Sound(n, faults', ttl),
         faults' \in faults .. MaxFaults,
         owed' \in Nat,
         \/ request[r].pc # "bump" /\ n.pc # "bump" /\ owed' - faults' = owed - faults
         \/ request[r].pc # "bump" /\ n.pc = "bump" /\ owed' - faults' = owed - faults + 1
         \/ request[r].pc = "bump" /\ n.pc = "bump" /\ owed' - faults' = owed - faults
         \/ request[r].pc = "bump" /\ n.pc # "bump"
            /\ (redis = "closed" \/ owed' - faults' = owed - faults - 1)
  PROVE  Inv'
<1>1. faults \in Nat /\ faults' \in Nat /\ faults <= faults' /\ MaxFaults \in Nat /\ owed \in Nat
  BY ServerAssumption DEF Inv, Accounts
<1>2. n \in RequestRecord
  BY DEF Sound
<1>3. Requests'
  <2>1. request' \in [Slot -> RequestRecord]
    BY <1>2 DEF Inv, Requests
  <2>2. ASSUME NEW s \in Slot PROVE Sound(request'[s], faults', ttl')
    <3>1. CASE s = r
      BY <3>1 DEF Inv, Requests, process
    <3>2. CASE s # r
      <4>1. Sound(request[s], faults, ttl) /\ request'[s] = request[s]
        BY <3>2 DEF Inv, Requests
      <4> QED
        BY <1>1, <4>1, SoundLater DEF process
    <3> QED
      BY <3>1, <3>2
  <2> QED
    BY <2>1, <2>2 DEF Requests
<1>4. Bumping' = IF n.pc = "bump" THEN Bumping \cup {r} ELSE Bumping \ {r}
  BY DEF Inv, Requests, Bumping
<1>5. r \in Bumping <=> request[r].pc = "bump"
  BY DEF Bumping
<1>6. /\ IsFiniteSet(Bumping')
      /\ Cardinality(Bumping) \in Nat /\ Cardinality(Bumping') \in Nat
      /\ request[r].pc # "bump" /\ n.pc # "bump" => Cardinality(Bumping') = Cardinality(Bumping)
      /\ request[r].pc # "bump" /\ n.pc = "bump" => Cardinality(Bumping') = Cardinality(Bumping) + 1
      /\ request[r].pc = "bump" /\ n.pc = "bump" => Cardinality(Bumping') = Cardinality(Bumping)
      /\ request[r].pc = "bump" /\ n.pc # "bump" => Cardinality(Bumping') = Cardinality(Bumping) - 1
  <2>1. IsFiniteSet(Bumping)
    BY DEF Inv, Accounts
  <2>2. /\ IsFiniteSet(Bumping \cup {r})
        /\ Cardinality(Bumping \cup {r}) =
             IF r \in Bumping THEN Cardinality(Bumping) ELSE Cardinality(Bumping) + 1
    BY <2>1, FS_AddElement
  <2>3. /\ IsFiniteSet(Bumping \ {r})
        /\ Cardinality(Bumping \ {r}) =
             IF r \in Bumping THEN Cardinality(Bumping) - 1 ELSE Cardinality(Bumping)
    BY <2>1, FS_RemoveElement
  <2>4. Cardinality(Bumping) \in Nat
    BY <2>1, FS_CardinalityType
  <2>5. IsFiniteSet(Bumping') /\ Cardinality(Bumping') \in Nat
    BY <1>4, <2>2, <2>3, FS_CardinalityType
  <2> QED
    BY <1>4, <1>5, <2>2, <2>3, <2>4, <2>5
<1>7. Accounts'
  <2>1. redis' = redis
    BY DEF process
  <2>2. redis # "closed" => owed' = faults' + Cardinality(Bumping')
    BY <1>1, <1>6 DEF Inv, Accounts
  <2> QED
    BY <1>1, <1>6, <2>1, <2>2 DEF Accounts
<1>8. ProcessTypes'
  BY DEF Inv, ProcessTypes, process
<1>9. Ways'
  <2>1. listener # "new" /\ exit # "ok"
    BY DEF Inv, Ways
  <2> QED
    BY <2>1 DEF Inv, Ways, process, Starting
<1> QED
  BY <1>3, <1>7, <1>8, <1>9 DEF Inv

-----------------------------------------------------------------------------
(***************************************************************************)
(* The steps of a request.                                                 *)
(***************************************************************************)
LEMMA FieldsOf ==
  ASSUME Inv, NEW r \in Slot
  PROVE  Sound(request[r], faults, ttl) /\ Fields(request[r])
  BY RecordFields DEF Inv, Requests, Sound

LEMMA Counts ==
  ASSUME Inv
  PROVE  /\ faults \in Nat /\ owed \in Nat /\ MaxFaults \in Nat /\ faults <= MaxFaults
         /\ \A r \in Slot : request[r].pc = "bump" /\ redis # "closed" => owed >= 1
<1>1. faults \in Nat /\ owed \in Nat /\ MaxFaults \in Nat /\ faults <= MaxFaults
  BY ServerAssumption DEF Inv, Accounts
<1>2. ASSUME NEW r \in Slot, request[r].pc = "bump", redis # "closed" PROVE owed >= 1
  <2>1. r \in Bumping /\ IsFiniteSet(Bumping)
    BY <1>2 DEF Bumping, Inv, Accounts
  <2>2. Cardinality(Bumping) \in Nat /\ Cardinality(Bumping) # 0
    BY <2>1, FS_CardinalityType, FS_EmptySet
  <2> QED
    BY <1>1, <1>2, <2>2 DEF Inv, Accounts
<1> QED
  BY <1>1, <1>2

LEMMA QuietEffect ==
  ASSUME Inv, NEW r \in Slot, NEW n,
         UNCHANGED <<process, owed, faults>>, Running,
         request[r].pc # "idle" \/ listener \in {"serving", "failed"},
         request' = [request EXCEPT ![r] = n],
         Sound(n, faults, ttl),
         request[r].pc = "bump" <=> n.pc = "bump"
  PROVE  Inv'
<1>1. UNCHANGED process /\ owed' = owed /\ faults' = faults
  OBVIOUS
<1>2. faults' \in faults .. MaxFaults /\ owed' \in Nat /\ owed' - faults' = owed - faults
  BY <1>1, Counts
<1>3. Sound(n, faults', ttl)
  BY <1>1
<1> QED
  BY <1>1, <1>2, <1>3, RequestEffect

\* Answers that change nothing but the request.
LEMMA AnswerStep ==
  ASSUME Inv, NEW r \in Slot, NEW a,
         At(r, "handle"), Answering(r, a), AnswerOK(a),
         request[r].endpoint \in Mutations => a.status >= 300,
         UNCHANGED <<process, owed, faults>>
  PROVE  Inv'
<1> DEFINE q == request[r]
           n == [q EXCEPT !.pc = "respond", !.answer = a, !.gone = FALSE]
<1>1. q.pc = "handle" /\ Running /\ q.endpoint \in Endpoints /\ ~q.committed /\ q.set = Nil
      /\ q \in RequestRecord /\ Sound(q, faults, ttl) /\ q.committed \in BOOLEAN
  BY FieldsOf DEF At, Sound, Fields
<1>2. n = [q EXCEPT !.pc = "respond", !.committed = FALSE, !.answer = a,
                    !.gone = FALSE, !.set = q.set]
  BY <1>1 DEF RequestRecord
<1>3. request' = [request EXCEPT ![r] = n]
  BY DEF Answering, Become
<1>4. n.pc = "respond"
  BY <1>1 DEF RequestRecord
<1>5. a.status \in Nat
  BY DEF AnswerOK, AnswerSet
<1> HIDE DEF n
<1>6. Sound(n, faults, ttl)
  <2>1. q.endpoint \in Mutations => ~(a.status < 300)
    BY <1>1, <1>5
  <2>2. q.set # Nil => StoredOK(q.set, ttl)
    BY <1>1
  <2>3. q.set \in Duration \cup {Nil} /\ q.pc \in {"handle", "bump"}
    BY <1>1
  <2> HIDE DEF q
  <2> QED
    BY <1>1, <1>2, <2>1, <2>2, <2>3, SoundAnswer
<1> QED
  BY <1>1, <1>3, <1>4, <1>6, QuietEffect

LEMMA AcceptStep ==
  ASSUME Inv, NEW r \in Slot, NEW e \in Routes[r], Accept(r, e)
  PROVE  Inv'
<1> DEFINE n == [Idle EXCEPT !.pc = "handle", !.endpoint = e]
<1>1. e \in Endpoints
  BY ServerAssumption
<1>2. Sound(n, faults, ttl)
  BY <1>1, SoundAccept
<1>3. request' = [request EXCEPT ![r] = n]
  BY DEF Accept, Become
<1>4. n.pc = "handle"
  BY IdleRecord DEF RequestRecord
<1> HIDE DEF n
<1> QED
  BY <1>2, <1>3, <1>4, QuietEffect DEF Accept, At

LEMMA LeaveStep ==
  ASSUME Inv, NEW r \in Slot, ClientLeaves(r)
  PROVE  Inv'
<1> DEFINE q == request[r]
           n == [q EXCEPT !.gone = TRUE]
<1>1. Sound(q, faults, ttl) /\ q \in RequestRecord
  BY FieldsOf DEF Sound
<1>2. Sound(n, faults, ttl)
  BY <1>1, SoundGone DEF ClientLeaves
<1>3. request' = [request EXCEPT ![r] = n]
  BY DEF ClientLeaves, Become
<1>4. n.pc = q.pc
  BY <1>1 DEF RequestRecord
<1> HIDE DEF n
<1> QED
  BY <1>2, <1>3, <1>4, QuietEffect DEF ClientLeaves

LEMMA CacheStep ==
  ASSUME Inv, NEW r \in Slot, ReadAndCache(r)
  PROVE  Inv'
<1> DEFINE q == request[r]
<1>1. PICK t \in Jittered(ttl) :
        Become(r, [q EXCEPT !.pc = "respond", !.answer = Success("getTree"),
                            !.gone = FALSE, !.set = t])
  BY DEF ReadAndCache
<1> DEFINE n == [q EXCEPT !.pc = "respond", !.answer = Success("getTree"),
                          !.gone = FALSE, !.set = t]
<1>2. q.pc = "handle" /\ Running /\ q.endpoint = "getTree" /\ ~q.committed
      /\ q \in RequestRecord /\ Sound(q, faults, ttl) /\ q.committed \in BOOLEAN
  BY FieldsOf DEF ReadAndCache, At, Sound, Fields
<1>3. t \in Duration /\ StoredOK(t, ttl)
  BY JitterInRange DEF Inv, ProcessTypes
<1>4. n = [q EXCEPT !.pc = "respond", !.committed = q.committed, !.answer = Success("getTree"),
                    !.gone = FALSE, !.set = t]
  BY <1>2 DEF RequestRecord
<1>5. request' = [request EXCEPT ![r] = n]
  BY <1>1 DEF Become
<1>6. n.pc = "respond"
  BY <1>2 DEF RequestRecord
<1>7. q.endpoint \notin Mutations
  BY <1>2 DEF Mutations
<1> HIDE DEF n
<1>8. Sound(n, faults, ttl)
  <2>1. q.pc \in {"handle", "bump"} /\ AnswerOK(Success("getTree"))
    BY <1>2, SuccessOK
  <2> HIDE DEF q
  <2> QED
    BY <1>2, <1>3, <1>4, <1>7, <2>1, SoundAnswer
<1> QED
  BY <1>2, <1>5, <1>6, <1>8, QuietEffect DEF ReadAndCache

LEMMA CommitStep ==
  ASSUME Inv, NEW r \in Slot, Commit(r)
  PROVE  Inv'
<1> DEFINE q == request[r]
           n == [q EXCEPT !.pc = "bump", !.committed = TRUE]
<1>1. q.pc = "handle" /\ Running /\ q.endpoint \in Mutations /\ q.endpoint \in Endpoints
      /\ q \in RequestRecord /\ q.writer = Blank /\ q.answer = Nil /\ q.set = Nil
  BY FieldsOf DEF Commit, At, Sound
<1>2. request' = [request EXCEPT ![r] = n]
  BY DEF Commit, Become
<1>3. n \in RequestRecord /\ n.pc = "bump" /\ n.committed = TRUE /\ n.endpoint = q.endpoint
      /\ n.writer = q.writer /\ n.answer = q.answer /\ n.set = q.set
  BY <1>1 DEF RequestRecord
<1> HIDE DEF n
<1>4. Sound(n, faults, ttl)
  BY <1>1, <1>3 DEF Sound
<1>5. /\ UNCHANGED process /\ faults' \in faults .. MaxFaults /\ owed' \in Nat
      /\ owed' - faults' = owed - faults + 1 /\ faults' = faults
  BY Counts DEF Commit
<1> QED
  BY <1>1, <1>2, <1>3, <1>4, <1>5, RequestEffect

LEMMA LoseResultStep ==
  ASSUME Inv, NEW r \in Slot, LoseResult(r)
  PROVE  Inv'
<1> DEFINE q == request[r]
<1>1. PICK err \in Failures :
        Become(r, [q EXCEPT !.pc = "respond", !.committed = TRUE, !.answer = Refuse(err),
                            !.gone = FALSE])
  BY DEF LoseResult
<1> DEFINE n == [q EXCEPT !.pc = "respond", !.committed = TRUE, !.answer = Refuse(err),
                          !.gone = FALSE]
<1>2. q.pc = "handle" /\ Running /\ q.endpoint \in Endpoints /\ q.set = Nil
      /\ q \in RequestRecord /\ Sound(q, faults, ttl)
  BY FieldsOf DEF LoseResult, At, Sound
<1>3. faults' = faults + 1 /\ owed' = owed + 1 /\ faults < MaxFaults
  BY DEF LoseResult
<1>4. "health" \notin Mutations /\ q.endpoint \in Mutations
  BY DEF Mutations, LoseResult
<1>5. AnswerOK(Refuse(err)) /\ Refuse(err).status >= 300 /\ Refuse(err).status \in Nat
  <2>1. q.endpoint \in Endpoints \ {"health"} /\ err \in Errors(q.endpoint)
    BY <1>2, <1>4 DEF Errors
  <2>2. AnswerOK(Refuse(err)) /\ Refuse(err).status >= 300
    BY <2>1, RefuseOK
  <2> QED
    BY <2>2 DEF AnswerOK, AnswerSet
<1>6. n = [q EXCEPT !.pc = "respond", !.committed = TRUE, !.answer = Refuse(err),
                    !.gone = FALSE, !.set = q.set]
  BY <1>2 DEF RequestRecord
<1>7. request' = [request EXCEPT ![r] = n]
  BY <1>1 DEF Become
<1>8. n.pc = "respond"
  BY <1>2 DEF RequestRecord
<1> HIDE DEF n
<1>9. Sound(q, faults', ttl)
  BY <1>2, <1>3, Counts, SoundLater
<1>10. Sound(n, faults', ttl)
  <2>1. faults' > 0
    BY <1>3, Counts
  <2> HIDE DEF q
  <2> QED
    BY <1>2, <1>5, <1>6, <1>9, <2>1, SoundAnswer
<1>11. /\ UNCHANGED process /\ faults' \in faults .. MaxFaults /\ owed' \in Nat
       /\ owed' - faults' = owed - faults
  BY <1>3, Counts DEF LoseResult
<1> QED
  BY <1>2, <1>7, <1>8, <1>10, <1>11, RequestEffect

LEMMA BumpStep ==
  ASSUME Inv, NEW r \in Slot, Bump(r)
  PROVE  Inv'
<1> DEFINE q == request[r]
           a == Success(q.endpoint)
           n == [q EXCEPT !.pc = "respond", !.answer = a, !.gone = FALSE]
<1>1. q.pc = "bump" /\ Running /\ q.endpoint \in Endpoints /\ q.committed = TRUE /\ q.set = Nil
      /\ q \in RequestRecord /\ Sound(q, faults, ttl)
  BY FieldsOf DEF Bump, At, Sound, Fields
<1>2. /\ faults' \in faults .. MaxFaults /\ owed' \in Nat
      /\ redis = "closed" \/ owed' - faults' = owed - faults - 1
  BY <1>1, Counts DEF Bump, Bumped, BumpLost
<1>3. n = [q EXCEPT !.pc = "respond", !.committed = TRUE, !.answer = a,
                    !.gone = FALSE, !.set = q.set]
  BY <1>1 DEF RequestRecord
<1>4. request' = [request EXCEPT ![r] = n]
  BY DEF Bump, Answering, Become
<1>5. n.pc = "respond"
  BY <1>1 DEF RequestRecord
<1> HIDE DEF n
<1>6. faults' \in Nat /\ faults <= faults'
  BY <1>2, Counts
<1>7. Sound(q, faults', ttl)
  BY <1>1, <1>6, Counts, SoundLater
<1>8. AnswerOK(a) /\ a.status < 300 /\ a.status \in Nat
  BY SuccessOK DEF AnswerOK, AnswerSet
<1>9. Sound(n, faults', ttl)
  <2> HIDE DEF q, a
  <2>1. ~(a.status >= 300)
    BY <1>8
  <2> QED
    BY <1>1, <1>3, <1>7, <1>8, <2>1, SoundAnswer
<1> QED
  BY <1>1, <1>2, <1>4, <1>5, <1>9, RequestEffect DEF Bump

LEMMA RespondStep ==
  ASSUME Inv, NEW r \in Slot, Respond(r)
  PROVE  Inv'
<1> DEFINE q == request[r]
<1>1. q.pc = "respond" /\ Running /\ q.writer = Blank /\ AnswerOK(q.answer)
      /\ q \in RequestRecord /\ Sound(q, faults, ttl)
  BY FieldsOf DEF Respond, At, Sound
<1>2. PICK w \in {WriteBody(WriteHeader(Blank, q.answer.status)),
                  HttpError(WriteBody(WriteHeader(Blank, q.answer.status)))} : Written(r, w)
  BY <1>1 DEF Respond
<1>3. q.answer.status \in Nat /\ q.answer.status >= 200
  BY <1>1 DEF AnswerOK, AnswerSet
<1>4. w = [recorded |-> q.answer.status, sent |-> q.answer.status]
  BY <1>2, <1>3, WrittenWriter
<1> DEFINE n == [q EXCEPT !.pc = "log", !.writer = w, !.answer = Nil, !.set = Nil]
<1>5. request' = [request EXCEPT ![r] = n]
  BY <1>2 DEF Written, Become
<1>6. n.pc = "log"
  BY <1>1 DEF RequestRecord
<1> HIDE DEF n
<1>7. Sound(n, faults, ttl)
  <2>1. n = [q EXCEPT !.pc = "log", !.writer = w, !.answer = Nil, !.set = Nil]
    BY DEF n
  <2> HIDE DEF q
  <2> QED
    BY <1>1, <1>4, <2>1, SoundWritten
<1> QED
  BY <1>1, <1>5, <1>6, <1>7, QuietEffect DEF Respond

LEMMA LogStep ==
  ASSUME Inv, NEW r \in Slot, Log(r)
  PROVE  Inv'
<1>1. request' = [request EXCEPT ![r] = Idle] /\ Idle.pc = "idle" /\ request[r].pc = "log"
  BY DEF Log, Become, Idle, At
<1> QED
  BY <1>1, SoundIdle, QuietEffect DEF Log, At

-----------------------------------------------------------------------------
(***************************************************************************)
(* The steps of run().                                                     *)
(***************************************************************************)
\* Nothing in flight, nothing owed.
LEMMA ShutdownAccounts ==
  ASSUME Inv, redis # "closed", \A r \in Slot : ~Busy(r)
  PROVE  owed = faults
<1>1. Bumping = {}
  BY DEF Bumping, Busy
<1> QED
  BY <1>1, FS_EmptySet, Counts DEF Inv, Accounts

LEMMA ForceCloseStep ==
  ASSUME Inv, ForceClose
  PROVE  Inv'
<1>1. ASSUME NEW r \in Slot
      PROVE  Sound(request'[r], faults', ttl') /\ request'[r].pc = request[r].pc
  <2> DEFINE q == request[r]
             n == [q EXCEPT !.gone = TRUE]
  <2>1. Sound(q, faults, ttl) /\ q \in RequestRecord /\ faults' = faults /\ ttl' = ttl
    BY FieldsOf DEF ForceClose, Sound
  <2>2. CASE q.pc \in {"handle", "bump"}
    <3>1. request'[r] = n
      BY <2>2 DEF ForceClose
    <3>2. n.pc = q.pc
      BY <2>1 DEF RequestRecord
    <3> QED
      BY <2>1, <2>2, <3>1, <3>2, SoundGone
  <2>3. CASE q.pc \notin {"handle", "bump"}
    BY <2>1, <2>3 DEF ForceClose
  <2> QED
    BY <2>2, <2>3
<1>2. Requests'
  <2>1. request' = [r \in Slot |-> request'[r]]
    BY DEF ForceClose
  <2>2. \A r \in Slot : request'[r] \in RequestRecord
    BY <1>1 DEF Sound
  <2> QED
    BY <1>1, <2>1, <2>2 DEF Requests
<1>3. Bumping' = Bumping
  BY <1>1 DEF Bumping
<1>4. Accounts'
  BY <1>3 DEF Inv, Accounts, ForceClose
<1>5. ProcessTypes' /\ Ways'
  BY <1>1 DEF ForceClose, Return, Inv, ProcessTypes, Ways, Starting
<1> QED
  BY <1>2, <1>4, <1>5 DEF Inv

LEMMA RunSteps ==
  ASSUME Inv, RunStep \/ ListenerFails \/ Signal
  PROVE  Inv'
<1>1. CASE FailStart
  <2>1. Requests' /\ Accounts'
    BY <1>1, ProcessStep DEF FailStart, Goto, Return, Inv, Ways, Starting
  <2>2. ProcessTypes'
    BY <1>1 DEF FailStart, Goto, Return, Inv, ProcessTypes
  <2>3. Ways'
    BY <1>1 DEF FailStart, Goto, Return, Running, Busy, Inv, ProcessTypes, Ways, Starting
  <2> QED
    BY <2>1, <2>2, <2>3 DEF Inv
<1>2. CASE LoadConfig
  <2>1. Requests' /\ Accounts'
    BY <1>2, ProcessStep DEF LoadConfig, Goto, Return, Inv, Ways, Starting
  <2>2. ProcessTypes'
    BY <1>2, ServerAssumption, DurationAssumption DEF LoadConfig, Goto, Return, Inv, ProcessTypes, Positive, Duration
  <2>3. Ways'
    BY <1>2 DEF LoadConfig, Goto, Return, Running, Busy, Inv, ProcessTypes, Ways, Starting
  <2> QED
    BY <2>1, <2>2, <2>3 DEF Inv
<1>3. CASE Connect
  <2>1. Requests' /\ Accounts'
    BY <1>3, ProcessStep DEF Connect, Goto, Return, Inv, Ways, Starting
  <2>2. ProcessTypes'
    BY <1>3 DEF Connect, Goto, Return, Inv, ProcessTypes
  <2>3. Ways'
    BY <1>3 DEF Connect, Goto, Return, Running, Busy, Inv, ProcessTypes, Ways, Starting
  <2> QED
    BY <2>1, <2>2, <2>3 DEF Inv
<1>4. CASE SetupRedis
  <2>1. Requests' /\ Accounts'
    BY <1>4, ProcessStep DEF SetupRedis, Goto, Return, Inv, Ways, Starting
  <2>2. ProcessTypes'
    BY <1>4 DEF SetupRedis, Goto, Return, Inv, ProcessTypes
  <2>3. Ways'
    BY <1>4 DEF SetupRedis, Goto, Return, Running, Busy, Inv, ProcessTypes, Ways, Starting
  <2> QED
    BY <2>1, <2>2, <2>3 DEF Inv
<1>5. CASE Listen
  <2>1. Requests' /\ Accounts'
    BY <1>5, ProcessStep DEF Listen, Goto, Return, Inv, Ways, Starting
  <2>2. ProcessTypes'
    BY <1>5 DEF Listen, Goto, Return, Inv, ProcessTypes
  <2>3. Ways'
    BY <1>5 DEF Listen, Goto, Return, Running, Busy, Inv, ProcessTypes, Ways, Starting
  <2> QED
    BY <2>1, <2>2, <2>3 DEF Inv
<1>6. CASE Notify
  <2>1. Requests' /\ Accounts'
    BY <1>6, ProcessStep DEF Notify, Goto, Return, Inv, Ways, Starting
  <2>2. ProcessTypes'
    BY <1>6 DEF Notify, Goto, Return, Inv, ProcessTypes
  <2>3. Ways'
    BY <1>6 DEF Notify, Goto, Return, Running, Busy, Inv, ProcessTypes, Ways, Starting
  <2> QED
    BY <2>1, <2>2, <2>3 DEF Inv
<1>7. CASE ListenerFails
  <2>1. Requests' /\ Accounts'
    BY <1>7, ProcessStep DEF ListenerFails, Goto, Return, Inv, Ways, Starting
  <2>2. ProcessTypes'
    BY <1>7 DEF ListenerFails, Goto, Return, Inv, ProcessTypes
  <2>3. Ways'
    BY <1>7 DEF ListenerFails, Goto, Return, Running, Busy, Inv, ProcessTypes, Ways, Starting
  <2> QED
    BY <2>1, <2>2, <2>3 DEF Inv
<1>8. CASE Signal
  <2>1. Requests' /\ Accounts'
    BY <1>8, ProcessStep DEF Signal, Goto, Return, Inv, Ways, Starting
  <2>2. ProcessTypes'
    BY <1>8 DEF Signal, Goto, Return, Inv, ProcessTypes
  <2>3. Ways'
    BY <1>8 DEF Signal, Goto, Return, Running, Busy, Inv, ProcessTypes, Ways, Starting
  <2> QED
    BY <2>1, <2>2, <2>3 DEF Inv
<1>9. CASE ServerStopped
  <2>1. Requests' /\ Accounts'
    BY <1>9, ProcessStep DEF ServerStopped, Goto, Return, Inv, Ways, Starting
  <2>2. ProcessTypes'
    BY <1>9 DEF ServerStopped, Goto, Return, Inv, ProcessTypes
  <2>3. Ways'
    BY <1>9 DEF ServerStopped, Goto, Return, Running, Busy, Inv, ProcessTypes, Ways, Starting
  <2> QED
    BY <2>1, <2>2, <2>3 DEF Inv
<1>10. CASE BeginShutdown
  <2>1. Requests' /\ Accounts'
    BY <1>10, ProcessStep DEF BeginShutdown, Goto, Return, Inv, Ways, Starting
  <2>2. ProcessTypes'
    BY <1>10 DEF BeginShutdown, Goto, Return, Inv, ProcessTypes
  <2>3. Ways'
    BY <1>10 DEF BeginShutdown, Goto, Return, Running, Busy, Inv, ProcessTypes, Ways, Starting
  <2> QED
    BY <2>1, <2>2, <2>3 DEF Inv
<1>11. CASE TimerFires
  <2>1. Requests' /\ Accounts'
    BY <1>11, ProcessStep DEF TimerFires, Goto, Return, Inv, Ways, Starting
  <2>2. ProcessTypes'
    BY <1>11 DEF TimerFires, Goto, Return, Inv, ProcessTypes
  <2>3. Ways'
    BY <1>11 DEF TimerFires, Goto, Return, Running, Busy, Inv, ProcessTypes, Ways, Starting
  <2> QED
    BY <2>1, <2>2, <2>3 DEF Inv
<1>12. CASE ShutdownDone
  <2>1. Requests' /\ Accounts'
    BY <1>12, ProcessStep DEF ShutdownDone, Goto, Return, Inv, Ways, Starting
  <2>2. ProcessTypes'
    BY <1>12 DEF ShutdownDone, Goto, Return, Inv, ProcessTypes
  <2>3. Ways'
    BY <1>12, ShutdownAccounts DEF ShutdownDone, Goto, Return, Running, Busy, Inv, ProcessTypes, Ways, Starting
  <2> QED
    BY <2>1, <2>2, <2>3 DEF Inv
<1>13. CASE ShutdownLate
  <2>1. Requests' /\ Accounts'
    BY <1>13, ProcessStep DEF ShutdownLate, Goto, Return, Inv, Ways, Starting
  <2>2. ProcessTypes'
    BY <1>13 DEF ShutdownLate, Goto, Return, Inv, ProcessTypes
  <2>3. Ways'
    BY <1>13 DEF ShutdownLate, Goto, Return, Running, Busy, Inv, ProcessTypes, Ways, Starting
  <2> QED
    BY <2>1, <2>2, <2>3 DEF Inv
<1>14. CASE CloseRedis
  <2>1. Requests' /\ Accounts'
    BY <1>14, ProcessStep DEF CloseRedis, Goto, Return, Inv, Ways, Starting
  <2>2. ProcessTypes'
    BY <1>14 DEF CloseRedis, Goto, Return, Inv, ProcessTypes
  <2>3. Ways'
    BY <1>14 DEF CloseRedis, Goto, Return, Running, Busy, Inv, ProcessTypes, Ways, Starting
  <2> QED
    BY <2>1, <2>2, <2>3 DEF Inv
<1>15. CASE Exit
  <2>1. Requests' /\ Accounts'
    BY <1>15, ProcessStep DEF Exit, Goto, Return, Inv, Ways, Starting
  <2>2. ProcessTypes'
    BY <1>15 DEF Exit, Goto, Return, Inv, ProcessTypes
  <2>3. Ways'
    BY <1>15 DEF Exit, Goto, Return, Running, Busy, Inv, ProcessTypes, Ways, Starting
  <2> QED
    BY <2>1, <2>2, <2>3 DEF Inv
<1> QED
  BY <1>1, <1>2, <1>3, <1>4, <1>5, <1>6, <1>7, <1>8, <1>9, <1>10, <1>11, <1>12, <1>13, <1>14, <1>15, ForceCloseStep DEF RunStep

LEMMA RequestSteps ==
  ASSUME Inv, NEW r \in Slot, RequestStep(r)
  PROVE  Inv'
<1>1. request[r].pc = "handle" => request[r].endpoint \in Endpoints
  BY FieldsOf DEF Sound
<1>2. CASE BadRequest(r)
  <2>1. PICK code \in BadInput[request[r].endpoint] : Answering(r, RefuseInput(code))
    BY <1>2 DEF BadRequest
  <2>2. AnswerOK(RefuseInput(code)) /\ RefuseInput(code).status >= 300
    BY <1>1, <1>2, RefuseInputOK DEF BadRequest, At
  <2> QED
    BY <1>2, <2>1, <2>2, AnswerStep DEF BadRequest
<1>3. CASE ServiceError(r)
  <2>1. PICK err \in Errors(request[r].endpoint) : Answering(r, Refuse(err))
    BY <1>3 DEF ServiceError
  <2>2. AnswerOK(Refuse(err)) /\ Refuse(err).status >= 300
    BY <1>1, <1>3, RefuseOK DEF ServiceError, At
  <2> QED
    BY <1>3, <2>1, <2>2, AnswerStep DEF ServiceError
<1>4. Reads \cap Mutations = {} /\ "health" \notin Mutations
  BY DEF Reads, Mutations
<1>5. CASE Read(r)
  BY <1>4, <1>5, SuccessOK, AnswerStep DEF Read
<1>6. CASE Health(r)
  BY <1>4, <1>6, SuccessOK, UnavailableOK, AnswerStep DEF Health
<1> QED
  BY <1>2, <1>3, <1>5, <1>6, CacheStep, CommitStep, LoseResultStep, BumpStep, RespondStep, LogStep
     DEF RequestStep

LEMMA InvNext == Inv /\ [Next]_vars => Inv'
<1> SUFFICES ASSUME Inv, [Next]_vars PROVE Inv'
  OBVIOUS
<1>1. CASE UNCHANGED vars
  <2>1. Requests' /\ Accounts'
    BY <1>1, ProcessStep DEF vars
  <2> QED
    BY <1>1, <2>1 DEF vars, Inv, ProcessTypes, Ways, Starting
<1> QED
  BY <1>1, RunSteps, RequestSteps, LeaveStep, AcceptStep DEF Next, Over

LEMMA Invariance == Spec => []Inv
<1> QED
  BY InvInit, InvNext, PTL DEF Spec

-----------------------------------------------------------------------------
(***************************************************************************)
(* Theorems.                                                               *)
(***************************************************************************)
\* Type correctness of the process and its requests: no bump is counted twice,
\* and no step leaves a request half answered.
THEOREM ServerTypeCorrect == Spec => []TypeOK
<1>1. Inv => TypeOK
  BY DurationAssumption DEF Inv, Requests, Accounts, ProcessTypes, TypeOK, Duration
<1> QED
  BY <1>1, Invariance, PTL

\* bumpDepartmentTreeEpoch is reached by every mutation that has committed while
\* the client of Redis is open, in spite of clients that leave: only Redis itself
\* and a lost result are to blame for a bump that is missing.
THEOREM ServerBumps == Spec => []BumpsAccounted
<1>1. Inv => BumpsAccounted
  BY DEF Inv, Accounts, Bumping, BumpsAccounted
<1> QED
  BY <1>1, Invariance, PTL

\* run() returns nil only after Shutdown has drained every request and its bump.
THEOREM ServerGracefulExit == Spec => []GracefulExitComplete
<1>1. Inv => GracefulExitComplete
  BY DEF Inv, Ways, Busy, GracefulExitComplete
<1> QED
  BY <1>1, Invariance, PTL

\* What main() exits with says whether requests have been cut off.
THEOREM ServerCutOff == Spec => []CutOffReported
<1>1. Inv => CutOffReported
  BY DEF Inv, Ways, ProcessTypes, Busy, CutOffReported
<1> QED
  BY <1>1, Invariance, PTL

\* The deferred Close of run() is on every way out of it.
THEOREM ServerRedis == Spec => []RedisReleased
<1>1. Inv => RedisReleased
  BY DEF Inv, Ways, RedisReleased
<1> QED
  BY <1>1, Invariance, PTL

\* The status that a handler sends for a mutation is that of its outcome.
THEOREM ServerOutcome == Spec => []AnswerTellsOutcome
<1>1. Inv => AnswerTellsOutcome
  <2> SUFFICES ASSUME Inv, NEW r \in Slot,
                      request[r].endpoint \in Mutations, request[r].writer.sent # 0
               PROVE  /\ request[r].writer.sent < 300 => request[r].committed
                      /\ request[r].writer.sent >= 300 /\ request[r].committed => faults > 0
    BY DEF AnswerTellsOutcome
  <2>1. Sound(request[r], faults, ttl) /\ request[r].pc \in PCs
    BY FieldsOf DEF Fields
  <2>2. request[r].pc = "log"
    BY <2>1 DEF Sound, PCs, Idle, Blank
  <2> QED
    BY <2>1, <2>2 DEF Sound, Tells
<1> QED
  BY <1>1, Invariance, PTL

\* responseRecorder remembers the status that net/http has sent.
THEOREM ServerLog == Spec => []LoggedStatusSent
<1>1. Inv => LoggedStatusSent
  <2> SUFFICES ASSUME Inv, NEW r \in Slot, request[r].pc = "log"
               PROVE  LogStatus(request[r].writer) = request[r].writer.sent
    BY DEF LoggedStatusSent
  <2>1. Sound(request[r], faults, ttl)
    BY FieldsOf
  <2> QED
    BY <2>1 DEF Sound, LogStatus
<1> QED
  BY <1>1, Invariance, PTL

\* serviceErrorStatus and serviceErrorCode agree on every error of every service.
THEOREM ServerCodes == Spec => []CodeFixesStatus
<1>1. Inv => CodeFixesStatus
  <2> SUFFICES ASSUME Inv, NEW r \in Slot, request[r].answer # Nil
               PROVE  AnswerOK(request[r].answer)
    BY DEF CodeFixesStatus, AnswerOK
  <2>1. Sound(request[r], faults, ttl) /\ request[r].pc \in PCs
    BY FieldsOf DEF Fields
  <2> QED
    BY <2>1 DEF Sound, PCs, Idle
<1> QED
  BY <1>1, Invariance, PTL

\* newTTLJitter never wraps around, whatever the largest Duration is.
THEOREM ServerTtl == Spec => []StoredTtlInRange
<1>1. Inv => StoredTtlInRange
  <2> SUFFICES ASSUME Inv, NEW r \in Slot, request[r].set # Nil
               PROVE  StoredOK(request[r].set, ttl)
    BY DEF StoredTtlInRange, StoredOK
  <2>1. Sound(request[r], faults, ttl) /\ request[r].pc \in PCs
    BY FieldsOf DEF Fields
  <2> QED
    BY <2>1 DEF Sound, PCs, Idle
<1> QED
  BY <1>1, Invariance, PTL
=============================================================================
