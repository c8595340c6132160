------------------------------ MODULE Pipeline ------------------------------
(***************************************************************************)
(* The engine that server.New builds from the configuration, and what gin  *)
(* does with requests: every request walks a chain of handlers that call   *)
(* the next one (Next), end the chain (Abort) or return, and a panic       *)
(* unwinds it to Recovery.  The requests share the gauge of Metrics.       *)
(*                                                                         *)
(* What the routes do with the stores is the subject of AuthService and    *)
(* UserService; here a handler binds the body, wants its principal,        *)
(* answers with some status, or panics.                                    *)
(*                                                                         *)
(* Operators whose name ends in _Bug are not part of the specification.    *)
(***************************************************************************)
EXTENDS Config

CONSTANTS
    Requests,  \* the HTTP requests
    Kinds      \* what they may ask: [method, path, token, origin, xid, size]

ASSUME PipelineAssumption ==
    /\ IsFiniteSet(Requests)
    /\ Kinds # {}
    /\ \A k \in Kinds : k.size \in Nat

VARIABLES
    engine,    \* what New took from the configuration
    req,       \* where each request is
    inFlight,  \* the gauge http_requests_in_flight
    leaked     \* history: requests whose panic passed Metrics

requests == <<req, inFlight, leaked>>
vars == <<configVars, engine, requests>>

\* One route of every kind: with and without a body, guards and instrumentation.
Fixed == {"/", "/health/live", "/api/v1/auth/login", "/api/v1/users/me", "/api/v1/users"}

\* A request before it comes, with what the handlers will leave in its context:
\* the handler that is called next, whose code after Next is still to run, its id,
\* the logger it carries (the base one if none), its principal, up to which size its
\* body is read (0: any), the headers of CORS, what its handler did, how often and
\* how it was answered, what the log, the counter and Recovery recorded, and by what
\* the record names the request.
Idle ==
    [at |-> "none", kind |-> CHOOSE k \in Kinds : TRUE, next |-> "RequestID",
     frames |-> {}, id |-> "", logs |-> "base", principal |-> "none", limit |-> 0,
     allow |-> "", credentials |-> FALSE, work |-> "none", answers |-> 0,
     status |-> 200, line |-> 0, count |-> 0, reported |-> FALSE, named |-> ""]

Init ==
    /\ ConfigInit
    /\ engine = [metrics |-> "", origins |-> << >>, credentials |-> FALSE, limit |-> 0]
    /\ req = [r \in Requests |-> Idle]
    /\ inFlight = 0
    /\ leaked = {}
-----------------------------------------------------------------------------
(* New *)

\* gin joins a route's path to the path "/" of its group, and panics if the tree of
\* its method has the path: only the login of Fixed is not in the tree of GET.
Joined(path) == IF path = "stats" THEN "/stats" ELSE path
Taken(path) == path \in Fixed \ {"/api/v1/auth/login"}

\* The settings are forgotten: nothing looks at them again.
New ==
    /\ phase = "logging"
    /\ IF config.metrics_enabled /\ Taken(Joined(config.metrics_path))
         THEN phase' = "crashed" /\ UNCHANGED engine
         ELSE /\ phase' = "serving"
              /\ engine' = [metrics |-> IF config.metrics_enabled
                                          THEN Joined(config.metrics_path) ELSE "",
                            origins |-> config.allow_origins,
                            credentials |-> config.allow_credentials,
                            limit |-> config.max_body_bytes]
    /\ file' = << >> /\ env' = << >> /\ config' = DefaultConfig /\ cores' = {}
    /\ UNCHANGED requests
-----------------------------------------------------------------------------
(* The chain of a request *)

\* The routes that JWT guards, and those that RequireRole guards too.
Protected == {"/api/v1/users/me", "/api/v1/users"}
AdminOnly == {"/api/v1/users"}

\* No route is registered for OPTIONS.
Matches(k) ==
    /\ k.method # "OPTIONS"
    /\ k.path \in Fixed \/ (engine.metrics # "" /\ k.path = engine.metrics)

\* The first handler behind the global ones, and the one that follows h.
Entry(k) == IF ~ Matches(k) THEN "NoRoute" ELSE IF k.path \in Protected THEN "JWT" ELSE "handler"
After(k, h) ==
    CASE h = "RequestID" -> "Recovery"
      [] h = "Recovery" -> "Logger"
      [] h = "Logger" -> "CORS"
      [] h = "CORS" -> "MaxBodySize"
      [] h = "MaxBodySize" -> IF engine.metrics = "" THEN Entry(k) ELSE "Metrics"
      [] h = "Metrics" -> Entry(k)
      [] h = "JWT" -> IF k.path \in AdminOnly THEN "RequireRole" ELSE "handler"
      [] h = "RequireRole" -> "handler"

SkipInstrumentation(k) ==
    \/ k.method = "OPTIONS"
    \/ k.path \in {"/metrics", "/health/live", "/favicon.ico"}

Skipped(r) == SkipInstrumentation(req[r].kind)

\* Request r calls h, which makes new of its context.
Calls(r, h, new) ==
    /\ req[r].at = "down" /\ req[r].next = h
    /\ req' = [req EXCEPT ![r] = new]
    /\ UNCHANGED <<configVars, engine>>

\* What a handler can do: leave the rest to the loop that called it (also by a Next
\* that no code follows); call Next and come back; end the chain; answer.
Continue(c) == [c EXCEPT !.next = After(c.kind, c.next)]
CallNext(c) == [c EXCEPT !.next = After(c.kind, c.next), !.frames = @ \cup {c.next}]
Abort(c) == [c EXCEPT !.at = "up"]
Send(c, status) == [c EXCEPT !.answers = @ + 1, !.status = status]

Unmetered == UNCHANGED <<inFlight, leaked>>
-----------------------------------------------------------------------------
(* The handlers on the way in *)

Arrive(r) ==
    /\ phase = "serving" /\ req[r].at = "none"
    /\ \E k \in Kinds : req' = [req EXCEPT ![r] = [@ EXCEPT !.at = "down", !.kind = k]]
    /\ UNCHANGED <<configVars, engine>> /\ Unmetered

\* The client's own id, or a new one.
GivenId(k) == IF SkipInstrumentation(k) THEN "" ELSE IF k.xid = "" THEN "uuid" ELSE k.xid
RequestID(r) ==
    /\ Calls(r, "RequestID", Continue([req[r] EXCEPT !.id = GivenId(req[r].kind)]))
    /\ Unmetered

Recovery(r) == Calls(r, "Recovery", CallNext(req[r])) /\ Unmetered

\* Logger_Bug: it puts its logger into the context after Next.
Logger_Bug(r) ==
    /\ Calls(r, "Logger",
             IF Skipped(r) THEN Continue(req[r]) ELSE CallNext(req[r]))
    /\ Unmetered
Logger(r) ==
    /\ Calls(r, "Logger",
             IF Skipped(r) THEN Continue(req[r])
             ELSE CallNext([req[r] EXCEPT !.logs = "request"]))
    /\ Unmetered

\* "*" means every origin only when it is alone.  Credentials_Bug: they are
\* offered to every origin.
AllowAll == engine.origins = <<"*">>
Credentials_Bug(origin) == engine.credentials
Credentials(origin) == engine.credentials /\ ~ AllowAll
CORS(r) ==
    LET origin == req[r].kind.origin
        allow == IF AllowAll THEN "*"
                 ELSE IF \E i \in DOMAIN engine.origins : engine.origins[i] = origin
                        THEN origin ELSE ""
        c == IF origin = "" THEN req[r]
             ELSE [req[r] EXCEPT !.allow = allow, !.credentials = Credentials(origin)]
    IN  /\ Calls(r, "CORS", IF req[r].kind.method = "OPTIONS"
                              THEN Abort(Send(c, 204)) ELSE Continue(c))
        /\ Unmetered

MaxBodySize(r) ==
    /\ Calls(r, "MaxBodySize",
             Continue([req[r] EXCEPT !.limit = IF Skipped(r) THEN 0 ELSE engine.limit]))
    /\ Unmetered

\* Metrics_Bug: it counts before it looks whether to skip.
Metrics_Bug(r) ==
    /\ Calls(r, "Metrics",
             IF Skipped(r) THEN Continue(req[r]) ELSE CallNext(req[r]))
    /\ inFlight' = inFlight + 1
    /\ UNCHANGED leaked
Metrics(r) ==
    /\ Calls(r, "Metrics",
             IF Skipped(r) THEN Continue(req[r]) ELSE CallNext(req[r]))
    /\ inFlight' = IF Skipped(r) THEN inFlight ELSE inFlight + 1
    /\ UNCHANGED leaked

\* A token that the service knows may still meet a store that fails (500).
\* JWT_Bug: the chain goes on after a refusal.
JWT_Bug(r) ==
    /\ IF req[r].kind.token \in {"user", "admin"}
         THEN \/ Calls(r, "JWT", Continue([req[r] EXCEPT !.principal = req[r].kind.token]))
              \/ Calls(r, "JWT", Abort(Send(req[r], 500)))
         ELSE Calls(r, "JWT", Continue(Send(req[r], 401)))
    /\ Unmetered
JWT(r) ==
    /\ IF req[r].kind.token \in {"user", "admin"}
         THEN \/ Calls(r, "JWT", Continue([req[r] EXCEPT !.principal = req[r].kind.token]))
              \/ Calls(r, "JWT", Abort(Send(req[r], 500)))
         ELSE Calls(r, "JWT", Abort(Send(req[r], 401)))
    /\ Unmetered

\* RequireRole_Bug: likewise.
RequireRole_Bug(r) ==
    /\ Calls(r, "RequireRole",
             CASE req[r].principal = "none" -> Abort(Send(req[r], 401))
               [] req[r].principal = "user" -> Continue(Send(req[r], 403))
               [] OTHER -> Continue(req[r]))
    /\ Unmetered
RequireRole(r) ==
    /\ Calls(r, "RequireRole",
             CASE req[r].principal = "none" -> Abort(Send(req[r], 401))
               [] req[r].principal = "user" -> Abort(Send(req[r], 403))
               [] OTHER -> Continue(req[r]))
    /\ Unmetered

\* The routes that bind a body do it first: they refuse one that is too large, unless
\* its JSON ends before the limit and the rest is not read.  Then MustGet panics
\* without a principal.  The statuses stand for any other.
Binds == {"/api/v1/auth/login", "/api/v1/users/me"}
Panic(c) == [c EXCEPT !.at = "panic"]
Handler(r) ==
    LET k == req[r].kind
        tooLarge == k.path \in Binds /\ 0 < req[r].limit /\ req[r].limit < k.size
        c == [req[r] EXCEPT !.work = IF k.path \in Binds /\ ~ tooLarge
                                       THEN "read" ELSE "begun"]
    IN  /\ \/ tooLarge /\ Calls(r, "handler", Abort(Send(c, 400)))
           \/ /\ k.path = "/api/v1/users/me" => c.principal # "none"
              /\ \E status \in {200, 500} : Calls(r, "handler", Abort(Send(c, status)))
           \/ Calls(r, "handler", Panic(c))
        /\ Unmetered

NoRoute(r) == Calls(r, "NoRoute", Abort(Send(req[r], 404))) /\ Unmetered
-----------------------------------------------------------------------------
(* The way out: the code after Next, and panics *)

\* Request r leaves the innermost handler that called Next, which is h.
Leaves(r, at, h, new) ==
    /\ req[r].at = at
    /\ h \in req[r].frames
    /\ h = "Logger" => "Metrics" \notin req[r].frames
    /\ h = "Recovery" => req[r].frames = {"Recovery"}
    /\ req' = [req EXCEPT ![r] = [new EXCEPT !.frames = @ \ {h}]]
    /\ UNCHANGED <<configVars, engine>>

\* LeaveMetrics_Bug: a deferred call counts down once more.
LeaveMetrics_Bug(r) ==
    /\ Leaves(r, "up", "Metrics", [req[r] EXCEPT !.count = req[r].status])
    /\ inFlight' = inFlight - 2
    /\ UNCHANGED leaked
LeaveMetrics(r) ==
    /\ Leaves(r, "up", "Metrics", [req[r] EXCEPT !.count = req[r].status])
    /\ inFlight' = inFlight - 1
    /\ UNCHANGED leaked

\* The request's logger adds the id to a line from 400 on; the message of any line
\* ends with the first eight characters of an id that has them.
LongIds == {"uuid", "long"}
Naming(id, status) ==
    IF status >= 400 THEN "id" ELSE IF id \in LongIds THEN "prefix" ELSE ""
LeaveLogger(r) ==
    /\ Leaves(r, "up", "Logger", [req[r] EXCEPT !.line = req[r].status,
                                              !.named = Naming(req[r].id, req[r].status)])
    /\ Unmetered

LeaveRecovery(r) == Leaves(r, "up", "Recovery", req[r]) /\ Unmetered

\* A panic runs none of the code after Next.
Unwind(r) ==
    \/ /\ Leaves(r, "panic", "Metrics", req[r])
       /\ leaked' = leaked \cup {r}
       /\ UNCHANGED inFlight
    \/ Leaves(r, "panic", "Logger", req[r]) /\ Unmetered

\* The logger that the context carries reports the panic.
ReportsAs(c) == IF c.logs = "request" THEN "id" ELSE ""
Recover(r) ==
    /\ Leaves(r, "panic", "Recovery",
              Abort(Send([req[r] EXCEPT !.reported = TRUE, !.named = ReportsAs(req[r])], 500)))
    /\ Unmetered

Finish(r) ==
    /\ req[r].at = "up" /\ req[r].frames = {}
    /\ req' = [req EXCEPT ![r] = [@ EXCEPT !.at = "done"]]
    /\ UNCHANGED <<configVars, engine>> /\ Unmetered
-----------------------------------------------------------------------------
Walk(r) ==
    \/ Arrive(r) \/ RequestID(r) \/ Recovery(r) \/ Logger(r) \/ CORS(r)
    \/ MaxBodySize(r) \/ Metrics(r) \/ JWT(r) \/ RequireRole(r) \/ Handler(r)
    \/ NoRoute(r) \/ LeaveMetrics(r) \/ LeaveLogger(r) \/ LeaveRecovery(r)
    \/ Unwind(r) \/ Recover(r) \/ Finish(r)

\* New failed, or all that came is answered.
Quiet ==
    /\ phase = "crashed" \/ \A r \in Requests : req[r].at = "done"
    /\ UNCHANGED vars

Next ==
    \/ ConfigNext /\ UNCHANGED <<engine, requests>>
    \/ New
    \/ \E r \in Requests : Walk(r)
    \/ Quiet

Spec == Init /\ [][Next]_vars
-----------------------------------------------------------------------------
(* Properties *)

Outer == {"RequestID", "Recovery", "Logger", "CORS", "MaxBodySize", "Metrics"}
Inner == {"JWT", "RequireRole", "handler", "NoRoute"}

Contexts ==
    [at : {"none", "down", "up", "panic", "done"}, kind : Kinds, next : Outer \cup Inner,
     frames : SUBSET {"Recovery", "Logger", "Metrics"},
     id : {"", "uuid"} \cup {k.xid : k \in Kinds}, logs : {"base", "request"},
     principal : {"none", "user", "admin"}, limit : Nat,
     allow : {"", "*"} \cup {k.origin : k \in Kinds}, credentials : BOOLEAN,
     work : {"none", "begun", "read"}, answers : Nat, status : Nat,
     line : Nat, count : Nat, reported : BOOLEAN, named : {"", "prefix", "id"}]

TypeOK ==
    /\ ConfigInvariant
    /\ DOMAIN engine = {"metrics", "origins", "credentials", "limit"}
    /\ engine.limit \in Nat
    /\ req \in [Requests -> Contexts]
    /\ inFlight \in 0 .. Cardinality(Requests)
    /\ leaked \subseteq Requests

\* A handler behind guards does its work only for a caller whose token was
\* accepted, and the handlers of the user administration only for an admin
\* (server.go:69-79, middleware/auth.go:18-62).
GuardsHold ==
    \A r \in Requests : req[r].work # "none" =>
        /\ req[r].kind.path \in Protected => req[r].kind.token \in {"user", "admin"}
        /\ req[r].kind.path \in AdminOnly => req[r].kind.token = "admin"

\* Whatever way a request takes through guards, handler, panic and NoRoute, it is
\* answered exactly once (middleware/auth.go:22-37, recovery.go:13-18).
AnsweredOnce ==
    \A r \in Requests :
        /\ req[r].answers <= 1
        /\ req[r].at = "done" => req[r].answers = 1

\* A request that is instrumented leaves one trace, with the status the client saw:
\* a line in the log and a count, or, if it panicked, the report of Recovery instead.
\* A refusal, a failure or a panic can be found by the id the client sent, or else a
\* new one; the line of a success bears its first characters, if it has so many.
\* The other requests leave no trace but that report, which names none
\* (logger.go:17-50, requestid.go:12-21, metrics.go:44-53, recovery.go:14-15,
\* skip.go:10-20).  Lines that the configured level drops count as written.
LeavesOneTrace ==
    \A r \in Requests : req[r].at = "done" =>
        LET k == req[r].kind
            own == k.method # "OPTIONS" /\ ~ Skipped(r)
            traced == own /\ ~ req[r].reported
        IN  /\ req[r].line = IF traced THEN req[r].status ELSE 0
            /\ req[r].count = IF traced /\ engine.metrics # "" THEN req[r].status ELSE 0
            /\ own => /\ req[r].id = IF k.xid = "" THEN "uuid" ELSE k.xid
                      /\ req[r].status >= 400 => req[r].named = "id"
                      /\ req[r].status < 400 =>
                           req[r].named = IF req[r].id \in LongIds THEN "prefix" ELSE ""
            /\ ~ own => req[r].named = ""

\* The gauge is the number of requests inside Metrics, and one more for every
\* panic that passed it (metrics.go:43-45).
Inside == {r \in Requests : "Metrics" \in req[r].frames}
GaugeAccounted == inFlight = Cardinality(Inside) + Cardinality(leaked)

\* "Number of HTTP requests currently being processed." (metrics.go:31)
GaugeExact == inFlight = Cardinality(Inside)

\* A handler that has read a body whole has read no more than was configured, on
\* every route that takes one (config.go:253, recovery.go:24-31, bind.go:14-19).
BodiesLimited ==
    \A r \in Requests : req[r].work = "read" => req[r].kind.size <= engine.limit

\* An answer that a page of any origin may read offers no credentials, and only an
\* origin that the list names is told that it may read (cors.go:12-35).
SharedAsConfigured ==
    \A r \in Requests :
        /\ req[r].allow = "*" /\ req[r].kind.origin # "*" =>
             engine.origins = <<"*">> /\ ~ req[r].credentials
        /\ req[r].allow \notin {"", "*"} =>
             /\ req[r].allow = req[r].kind.origin
             /\ \E i \in DOMAIN engine.origins : engine.origins[i] = req[r].allow
-----------------------------------------------------------------------------
(* The inductive invariant *)

\* Whose code after Next a request with context c will have to run, once it is
\* behind the global handlers.
Skips(c) == SkipInstrumentation(c.kind)
Frames(c) ==
    {"Recovery"} \cup (IF Skips(c) THEN {} ELSE {"Logger"})
      \cup (IF Skips(c) \/ engine.metrics = "" THEN {} ELSE {"Metrics"})

Unrecorded(c) == c.line = 0 /\ c.count = 0 /\ ~ c.reported /\ c.named = ""
LogsBy(c) == IF Skips(c) THEN "base" ELSE "request"

\* On the way in nothing is recorded yet, and the next handler says who waits for
\* it to return and what the guards and MaxBodySize have left in the context.
GoesIn(c) ==
    /\ c.work = "none" /\ c.answers = 0 /\ Unrecorded(c)
    /\ c.next # "RequestID" => c.id = GivenId(c.kind)
    /\ c.next \in {"RequestID", "Recovery"} => c.frames = {} /\ c.logs = "base"
    /\ c.next = "Logger" => c.frames = {"Recovery"} /\ c.logs = "base"
    /\ c.next \in {"CORS", "MaxBodySize", "Metrics"} => c.frames = Frames(c) \ {"Metrics"}
    /\ c.next \in Inner \cup {"CORS", "MaxBodySize", "Metrics"} => c.logs = LogsBy(c)
    /\ c.next = "Metrics" => engine.metrics # ""
    /\ c.next \in Inner => c.frames = Frames(c)
    /\ c.next \in Inner \cup {"Metrics"} => c.limit = IF Skips(c) THEN 0 ELSE engine.limit
    /\ c.next \in Inner \ {"NoRoute"} => Matches(c.kind)
    /\ c.next \in {"RequireRole", "handler"} /\ c.kind.path \in Protected =>
         c.principal = c.kind.token /\ c.kind.token \in {"user", "admin"}
    /\ c.next = "RequireRole" => c.kind.path \in AdminOnly
    /\ c.next = "handler" /\ c.kind.path \in AdminOnly => c.kind.token = "admin"

\* A panic has passed the innermost handlers, and none has recorded anything.
Panics(c) ==
    /\ c.answers = 0 /\ Unrecorded(c)
    /\ c.id = GivenId(c.kind) /\ c.logs = LogsBy(c)
    /\ "Recovery" \in c.frames /\ c.frames \subseteq Frames(c)
    /\ "Metrics" \in c.frames => "Logger" \in c.frames

\* On the way out those that have returned have recorded the one answer, or
\* Recovery has given it.
GoesOut(c) ==
    LET after == Frames(c) \ c.frames
    IN  /\ c.answers = 1 /\ c.id = GivenId(c.kind)
        /\ c.frames \subseteq Frames(c)
        /\ "Metrics" \in c.frames => "Logger" \in c.frames
        /\ "Logger" \in c.frames => "Recovery" \in c.frames
        /\ c.line = IF "Logger" \in after /\ ~ c.reported THEN c.status ELSE 0
        /\ c.count = IF "Metrics" \in after /\ ~ c.reported THEN c.status ELSE 0
        /\ c.named = IF "Logger" \in after THEN Naming(c.id, c.status) ELSE ""
        /\ c.reported => c.status >= 400
        /\ c.reported \/ c.at = "done" => c.frames = {}

Control(c) ==
    /\ c.at = "none" => c = Idle
    /\ c.at = "down" => GoesIn(c)
    /\ c.at = "panic" => Panics(c)
    /\ c.at \in {"up", "done"} => GoesOut(c)

PipelineInvariant ==
    /\ TypeOK
    /\ phase = "serving" => engine.limit > 0
    /\ phase # "serving" => \A r \in Requests : req[r] = Idle
    /\ \A r \in Requests : Control(req[r])
    /\ \A r \in leaked :
         req[r].at \in {"panic", "up", "done"} /\ "Metrics" \notin req[r].frames
    /\ GuardsHold /\ BodiesLimited /\ SharedAsConfigured /\ GaugeAccounted
=============================================================================
