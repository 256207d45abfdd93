------------------------------- MODULE Server -------------------------------
(***************************************************************************)
(* One process of the application: run() from config.Load to the exit,     *)
(* with the requests that its HTTP server has in flight.                   *)
(*                                                                         *)
(* A request is what its handler does between the calls: refuse, call the  *)
(* service, commit, bump the epoch, write the response, and the line of    *)
(* the access log.  What the calls do to the tables is in OrgService, to   *)
(* the cache in TreeCache.                                                 *)
(*                                                                         *)
(* External, modelled from the calls of run() and the handlers:            *)
(*  - net/http: a goroutine per request; Shutdown lets none in, and waits  *)
(*    for those that are in flight, whether their clients are still there  *)
(*    or not; Close cancels their contexts and waits for nobody;           *)
(*  - database/sql: a statement may commit and its result get lost;        *)
(*  - the signal handler that NotifyContext installs, and what a signal    *)
(*    does before: it ends the process.                                    *)
(***************************************************************************)
EXTENDS HttpAnswers, CacheTtl, FiniteSets

CONSTANTS
    Slot,           \* slots for requests in flight
    Routes,         \* the endpoints that the clients in each slot use
    Ttls,           \* values of CACHE_TTL
    DefaultTtl,
    MaxFaults,      \* bound on the bumps that get lost in Redis or with a result
    Nil             \* no value

ASSUME ServerAssumption ==
    /\ Routes \in [Slot -> SUBSET Endpoints]
    /\ Ttls \subseteq Duration
    /\ DefaultTtl \in 1 .. MaxDuration
    /\ MaxFaults \in Nat
    /\ Nil \notin Int

VARIABLES
    main,           \* the next step of run()
    exit,           \* how the process has ended, or is going to
    listener,       \* the server: "new", "serving", "draining", "closed", "failed"
    signalled,      \* SIGTERM or Ctrl+C has arrived
    late,           \* the 10 seconds of Shutdown are over
    redis,          \* the client of Redis: "none", "open", "closed"
    ttl,            \* cfg.CacheTTL
    request,        \* what each slot is doing
    owed,           \* mutations that have committed and not bumped the epoch
    faults          \* those of them that Redis, or a lost result, is to blame for

process == <<main, exit, listener, signalled, late, redis, ttl>>
vars == <<main, exit, listener, signalled, late, redis, ttl, request, owed, faults>>

(***************************************************************************)
(* main:                                                                   *)
(*   config, connect, redis    Load, database.Connect, setupRedis          *)
(*   listen, notify            go ListenAndServe, NotifyContext            *)
(*   select                    serverErrors or the signal                  *)
(*   shutdown, close           server.Shutdown, server.Close               *)
(*   defers                    the deferred redisStore.Close               *)
(*   return, exit              back in main(), process gone                *)
(* A request: handle, bump, respond, log name its next step; gone is a     *)
(* context that is done; set is the TTL that a tree has been stored with.  *)
(* Fields that no later step reads are back at their initial value.        *)
(***************************************************************************)
Idle == [pc |-> "idle", endpoint |-> Nil, gone |-> FALSE, committed |-> FALSE,
         answer |-> Nil, writer |-> Blank, set |-> Nil]

Busy(r) == request[r].pc # "idle"

Running == main # "exit"

Init ==
    /\ main = "config"
    /\ exit = "none"
    /\ listener = "new"
    /\ signalled = FALSE
    /\ late = FALSE
    /\ redis = "none"
    /\ ttl = DefaultTtl
    /\ request = [r \in Slot |-> Idle]
    /\ owed = 0
    /\ faults = 0

-----------------------------------------------------------------------------
(***************************************************************************)
(* run()                                                                   *)
(***************************************************************************)
Goto(from, to) == main = from /\ main' = to

Return(how) == main' = "defers" /\ exit' = how

\* An error before there is a Redis client: exit status 1.
FailStart ==
    /\ main \in {"config", "connect"}
    /\ main' = "return"
    /\ exit' = "error"
    /\ UNCHANGED <<listener, signalled, late, redis, ttl, request, owed, faults>>

\* config.Load: CACHE_TTL counts only if REDIS_ENABLED does.
LoadConfig ==
    /\ Goto("config", "connect")
    /\ ttl' \in {DefaultTtl} \cup {t \in Ttls : Positive(t)}
    /\ UNCHANGED <<exit, listener, signalled, late, redis, request, owed, faults>>

Connect ==
    /\ Goto("connect", "redis")
    /\ UNCHANGED <<exit, listener, signalled, late, redis, ttl, request, owed, faults>>

\* setupRedis: whether the PING succeeds makes no difference.
SetupRedis ==
    /\ Goto("redis", "listen")
    /\ redis' \in IF ttl = DefaultTtl THEN {"none", "open"} ELSE {"open"}
    /\ UNCHANGED <<exit, listener, signalled, late, ttl, request, owed, faults>>

Listen ==
    /\ Goto("listen", "notify")
    /\ listener' = "serving"
    /\ UNCHANGED <<exit, signalled, late, redis, ttl, request, owed, faults>>

Notify ==
    /\ Goto("notify", "select")
    /\ UNCHANGED <<exit, listener, signalled, late, redis, ttl, request, owed, faults>>

\* ListenAndServe returns an error: the port is taken, Accept fails.
ListenerFails ==
    /\ Running
    /\ listener = "serving"
    /\ listener' = "failed"
    /\ UNCHANGED <<main, exit, signalled, late, redis, ttl, request, owed, faults>>

\* Before NotifyContext, and after stop(), which is the first of the defers, a signal
\* ends the process.  A second one is no different.
Signal ==
    /\ Running
    /\ signalled' = TRUE
    /\ \/ /\ main \in {"select", "shutdown", "close", "defers"}
          /\ UNCHANGED <<main, exit>>
       \/ /\ main \notin {"select", "shutdown", "close"}
          /\ main' = "exit" /\ exit' = "killed"
    /\ UNCHANGED <<listener, late, redis, ttl, request, owed, faults>>

\* The select of run(): serverErrors ...
ServerStopped ==
    /\ main = "select"
    /\ listener = "failed"
    /\ Return("error")
    /\ UNCHANGED <<listener, signalled, late, redis, ttl, request, owed, faults>>

\* ... or shutdownSignal.Done(), and the call of Shutdown.
BeginShutdown ==
    /\ signalled
    /\ Goto("select", "shutdown")
    /\ listener' = "draining"
    /\ UNCHANGED <<exit, signalled, late, redis, ttl, request, owed, faults>>

TimerFires ==
    /\ main = "shutdown"
    /\ ~late
    /\ late' = TRUE
    /\ UNCHANGED <<main, exit, listener, signalled, redis, ttl, request, owed, faults>>

\* Mutant: run() returns with the signal.
ShutdownAtOnce ==
    /\ main = "shutdown"
    /\ Return("ok")
    /\ listener' = "closed"
    /\ UNCHANGED <<signalled, late, redis, ttl, request, owed, faults>>

\* Shutdown returns nil: nothing is in flight.
ShutdownDone ==
    /\ main = "shutdown"
    /\ \A r \in Slot : ~Busy(r)
    /\ Return("ok")
    /\ listener' = "closed"
    /\ UNCHANGED <<signalled, late, redis, ttl, request, owed, faults>>

\* Mutant: the deadline makes Shutdown return nothing.
ShutdownWaits == FALSE /\ UNCHANGED vars

\* Shutdown returns the error of its context.
ShutdownLate ==
    /\ late
    /\ Goto("shutdown", "close")
    /\ UNCHANGED <<exit, listener, signalled, late, redis, ttl, request, owed, faults>>

\* Mutant: the error of Shutdown is forgotten.
ForceCloseSilently ==
    /\ main = "close"
    /\ Return("ok")
    /\ listener' = "closed"
    /\ UNCHANGED <<signalled, late, redis, ttl, request, owed, faults>>

\* Close: the connections go, and with them the contexts of the requests.
ForceClose ==
    /\ main = "close"
    /\ Return("error")
    /\ listener' = "closed"
    /\ request' = [r \in Slot |->
                      IF request[r].pc \in {"handle", "bump"}
                      THEN [request[r] EXCEPT !.gone = TRUE] ELSE request[r]]
    /\ UNCHANGED <<signalled, late, redis, ttl, owed, faults>>

\* Mutant: the client of Redis is left open.
ForgetRedis ==
    /\ Goto("defers", "return")
    /\ UNCHANGED <<exit, listener, signalled, late, redis, ttl, request, owed, faults>>

CloseRedis ==
    /\ Goto("defers", "return")
    /\ redis' = IF redis = "open" THEN "closed" ELSE redis
    /\ UNCHANGED <<exit, listener, signalled, late, ttl, request, owed, faults>>

Exit ==
    /\ Goto("return", "exit")
    /\ UNCHANGED <<exit, listener, signalled, late, redis, ttl, request, owed, faults>>

-----------------------------------------------------------------------------
(***************************************************************************)
(* Requests.                                                               *)
(***************************************************************************)
At(r, pc) == Running /\ request[r].pc = pc

Become(r, q) == request' = [request EXCEPT ![r] = q]

\* The handler has its answer, after which nothing looks at the context.
Answering(r, answer) ==
    Become(r, [request[r] EXCEPT !.pc = "respond", !.answer = answer, !.gone = FALSE])

\* The header of the answer and a body are out.
Written(r, w) ==
    Become(r, [request[r] EXCEPT !.pc = "log", !.writer = w, !.answer = Nil, !.set = Nil])

\* On a new connection, or on one that outlives the listener.  Bound: no request
\* comes on such a connection once run() has returned.
Accept(r, e) ==
    /\ At(r, "idle")
    /\ \/ listener = "serving"
       \/ listener = "failed" /\ main # "return"
    /\ Become(r, [Idle EXCEPT !.pc = "handle", !.endpoint = e])
    /\ UNCHANGED <<process, owed, faults>>

\* The client disconnects: the context of the request is cancelled.
ClientLeaves(r) ==
    /\ Running
    /\ request[r].pc \in {"handle", "bump"} /\ ~request[r].gone
    /\ Become(r, [request[r] EXCEPT !.gone = TRUE])
    /\ UNCHANGED <<process, owed, faults>>

BadRequest(r) ==
    /\ At(r, "handle")
    /\ \E code \in BadInput[request[r].endpoint] : Answering(r, RefuseInput(code))
    /\ UNCHANGED <<process, owed, faults>>

\* The epoch has been bumped, or there is no cache.
Bumped ==
    /\ redis # "closed"
    /\ owed' = owed - 1
    /\ UNCHANGED faults

\* Mutant: the epoch is bumped before the error is looked at.
ServiceErrorBumped(r) ==
    /\ At(r, "handle")
    /\ request[r].endpoint # "health"
    /\ \E err \in Errors(request[r].endpoint) : Answering(r, Refuse(err))
    /\ Bumped
    /\ UNCHANGED process

\* The context that is done is that of the request or, behind singleflight, that
\* of the read that leads the flight.
ServiceError(r) ==
    /\ At(r, "handle")
    /\ request[r].endpoint # "health"
    /\ \E err \in Errors(request[r].endpoint) :
           /\ "Canceled" \in err =>
                  request[r].gone \/ (request[r].endpoint = "getTree" /\ redis # "none")
           /\ Answering(r, Refuse(err))
    /\ UNCHANGED <<process, owed, faults>>

Read(r) ==
    /\ At(r, "handle")
    /\ request[r].endpoint \in Reads
    /\ Answering(r, Success(request[r].endpoint))
    /\ UNCHANGED <<process, owed, faults>>

\* GetDepartment, when the tree has been loaded for the cache.
ReadAndCache(r) ==
    /\ At(r, "handle")
    /\ request[r].endpoint = "getTree" /\ redis # "none"
    /\ \E t \in Jittered(ttl) :
           Become(r, [request[r] EXCEPT !.pc = "respond", !.answer = Success("getTree"),
                                        !.gone = FALSE, !.set = t])
    /\ UNCHANGED <<process, owed, faults>>

\* Health: the PING of the database.
Health(r) ==
    /\ At(r, "handle")
    /\ request[r].endpoint = "health"
    /\ \E answer \in {Success("health"), Unavailable} : Answering(r, answer)
    /\ UNCHANGED <<process, owed, faults>>

\* A context that is done stops the statement from being sent.
Commit(r) ==
    /\ At(r, "handle")
    /\ request[r].endpoint \in Mutations /\ ~request[r].gone
    /\ owed' = owed + 1
    /\ Become(r, [request[r] EXCEPT !.pc = "bump", !.committed = TRUE])
    /\ UNCHANGED <<process, faults>>

\* The statement commits, but the service gets an error: nobody bumps.
LoseResult(r) ==
    /\ At(r, "handle")
    /\ request[r].endpoint \in Mutations
    /\ faults < MaxFaults
    /\ faults' = faults + 1
    /\ owed' = owed + 1
    /\ \E err \in Failures :
           /\ "Canceled" \in err => request[r].gone
           /\ Become(r, [request[r] EXCEPT !.pc = "respond", !.committed = TRUE,
                                           !.answer = Refuse(err), !.gone = FALSE])
    /\ UNCHANGED process

\* Increment returns an error.
BumpLost ==
    \/ redis = "closed" /\ UNCHANGED <<owed, faults>>
    \/ redis = "open" /\ faults < MaxFaults /\ faults' = faults + 1 /\ UNCHANGED owed

\* Mutant: INCR in the context of the request.
BumpInRequest(r) ==
    /\ At(r, "bump")
    /\ \/ ~request[r].gone /\ Bumped
       \/ BumpLost
       \/ request[r].gone /\ UNCHANGED <<owed, faults>>
    /\ Answering(r, Success(request[r].endpoint))
    /\ UNCHANGED process

\* bumpDepartmentTreeEpoch: the context is WithoutCancel, errors are ignored.
Bump(r) ==
    /\ At(r, "bump")
    /\ Bumped \/ BumpLost
    /\ Answering(r, Success(request[r].endpoint))
    /\ UNCHANGED process

\* Mutant: the body is encoded before the header is written.
EncodeFirst(r) ==
    LET q == request[r] IN
    /\ At(r, "respond")
    /\ \/ Written(r, WriteBody(WriteHeader(q.writer, q.answer.status)))
       \/ Written(r, HttpError(q.writer))
    /\ UNCHANGED <<process, owed, faults>>

\* Header and body.  If Encode fails, which only the connection can make it do,
\* the handlers of the services try an http.Error after what they have sent.
Respond(r) ==
    LET q == request[r]
        w == WriteBody(WriteHeader(q.writer, q.answer.status))
    IN
    /\ At(r, "respond")
    /\ \/ Written(r, w)
       \/ /\ q.answer.code = "none" /\ q.endpoint # "health"
          /\ Written(r, HttpError(w))
    /\ UNCHANGED <<process, owed, faults>>

\* The line of the access log, and the end of the request.
Log(r) ==
    /\ At(r, "log")
    /\ Become(r, Idle)
    /\ UNCHANGED <<process, owed, faults>>

-----------------------------------------------------------------------------
RunStep ==
    \/ FailStart \/ LoadConfig \/ Connect \/ SetupRedis \/ Listen \/ Notify
    \/ ServerStopped \/ BeginShutdown \/ TimerFires \/ ShutdownDone \/ ShutdownLate
    \/ ForceClose \/ CloseRedis \/ Exit

RequestStep(r) ==
    \/ BadRequest(r) \/ ServiceError(r) \/ Read(r) \/ ReadAndCache(r) \/ Health(r)
    \/ Commit(r) \/ LoseResult(r) \/ Bump(r) \/ Respond(r) \/ Log(r)

\* The process has ended.
Over == main = "exit" /\ UNCHANGED vars

Next ==
    \/ RunStep
    \/ ListenerFails
    \/ Signal
    \/ \E r \in Slot : RequestStep(r) \/ ClientLeaves(r) \/ \E e \in Routes[r] : Accept(r, e)
    \/ Over

Spec == Init /\ [][Next]_vars

\* The main goroutine runs on and the timer of Shutdown fires.  Requests may hang.
FairSpec == Spec /\ WF_vars(RunStep)

-----------------------------------------------------------------------------
(***************************************************************************)
(* Properties.                                                             *)
(***************************************************************************)
RequestRecord ==
    [pc : {"idle", "handle", "bump", "respond", "log"}, endpoint : Endpoints \cup {Nil},
     gone : BOOLEAN, committed : BOOLEAN,
     answer : [status : Nat, code : Codes, message : {"hidden", "shown", "none"}] \cup {Nil},
     writer : [recorded : Nat, sent : Nat], set : Duration \cup {Nil}]

TypeOK ==
    /\ main \in {"config", "connect", "redis", "listen", "notify", "select", "shutdown",
                 "close", "defers", "return", "exit"}
    /\ exit \in {"none", "ok", "error", "killed"}
    /\ listener \in {"new", "serving", "draining", "closed", "failed"}
    /\ signalled \in BOOLEAN /\ late \in BOOLEAN
    /\ redis \in {"none", "open", "closed"}
    /\ ttl \in Duration
    /\ request \in [Slot -> RequestRecord]
    /\ owed \in Nat
    /\ faults \in 0 .. MaxFaults

\* As long as the client of Redis is open, every mutation that has committed has
\* bumped the epoch or is about to, whether its own client is still there or not;
\* but for the faults of Redis and of the database connection.
BumpsAccounted ==
    redis # "closed" => owed = faults + Cardinality({r \in Slot : request[r].pc = "bump"})

\* Exit status 0 after a signal: every request has been answered and no bump is
\* owed.  Shutdown comes before the deferred Close of Redis.
GracefulExitComplete ==
    exit = "ok" => owed = faults /\ \A r \in Slot : ~Busy(r)

\* A request is cut off only by an exit that reports it: 10 seconds after the
\* signal, after a failure of the listener, or by a signal that nobody catches.
CutOffReported ==
    main = "exit" /\ (\E r \in Slot : Busy(r)) =>
        \/ exit = "error" /\ (late \/ listener = "failed")
        \/ exit = "killed"

\* However run() returns, the client of Redis has been closed, if there is one.
RedisReleased == main = "exit" /\ exit # "killed" => redis # "open"

\* What the client is told is what has happened: success for a mutation that has
\* committed, an error for one that has not (or whose result was lost), also
\* when the body cannot be written.
AnswerTellsOutcome ==
    \A r \in Slot :
        LET q == request[r] IN
        q.endpoint \in Mutations /\ q.writer.sent # 0 =>
            /\ q.writer.sent < 300 => q.committed
            /\ q.writer.sent >= 300 /\ q.committed => faults > 0

\* The status in the access log is the status that has been sent.
LoggedStatusSent ==
    \A r \in Slot : request[r].pc = "log" => LogStatus(request[r].writer) = request[r].writer.sent

\* The status that goes with a code.
StatusOf(code) ==
    IF code \in {"department_not_found", "reassign_target_not_found",
                 "parent_department_not_found", "employee_not_found"} THEN 404
    ELSE IF code = "department_already_exists" THEN 409
    ELSE IF code = "request_deadline_exceeded" THEN 504
    ELSE IF code = "request_canceled" THEN 408
    ELSE IF code = "internal_server_error" THEN 500
    ELSE 400

\* A code always comes with the same status, whether a handler or a service
\* refuses, and 500 is all that is said of an error that nobody knows.
CodeFixesStatus ==
    \A r \in Slot :
        LET a == request[r].answer IN
        a # Nil /\ a.code # "none" =>
            /\ a.status = StatusOf(a.code)
            /\ a.status = 500 <=> a.message = "hidden"

\* A tree is stored for CACHE_TTL and at most a tenth more, never for a TTL that
\* Redis or its adapter refuses; near the largest Duration as well.
StoredTtlInRange ==
    \A r \in Slot :
        LET t == request[r].set IN
        t # Nil => SetAccepts(t) /\ ttl <= t /\ 10 * (t - ttl) <= ttl

\* A signal ends the process, even if requests hang.
SignalEndsProcess == signalled ~> main = "exit"
=============================================================================
