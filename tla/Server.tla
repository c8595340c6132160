------------------------------- MODULE Server -------------------------------
(***************************************************************************)
(* The process: the main goroutine that connects to Postgres and Redis,    *)
(* serves, and stops on a signal or a failed listener; the goroutine that  *)
(* listens; and the handlers, from the acceptance of a request to the end  *)
(* of its response.                                                        *)
(*                                                                         *)
(* What the configuration says and what a request meets on its way is the  *)
(* subject of Config and Pipeline, what a handler does with the stores of  *)
(* AuthService and UserService.  Here it matters only how far the process  *)
(* is and whether the stores are open.                                     *)
(*                                                                         *)
(* Operators whose name ends in _Bug or _Hang are what a slip in the code  *)
(* would make of the definition after them; they are not part of the       *)
(* specification.                                                          *)
(***************************************************************************)
CONSTANT Requests   \* the HTTP requests that may come in

VARIABLES
    main,      \* the next step of run()
    how,       \* how run() comes to its end
    db,        \* the pool of Postgres
    redis,     \* the pool of Redis
    listen,    \* the goroutine of ListenAndServe
    errCh,     \* is there an error in errCh?
    stop,      \* is there a signal in stop?
    handler,   \* where each request is
    broken     \* history: requests that met a closed store

stores == <<db, redis>>
requests == <<handler, broken>>
vars == <<main, how, stores, listen, errCh, stop, requests>>

\* Until signal.Notify was called a signal ends the process.
Deaf == {"configure", "openDB", "pingDB", "openRedis", "pingRedis", "serve", "notify"}
Steps == Deaf \cup {"select", "shutdown", "closeRedis", "closeDB", "return", "exited"}
Ends == {"none", "unconfigured", "unconnected", "crashed", "failed", "signal", "drained",
         "timeout", "killed"}
Places == {"none", "working", "done", "cut"}

TypeOK ==
    /\ main \in Steps
    /\ how \in Ends
    /\ db \in {"none", "open", "closed"}
    /\ redis \in {"none", "open", "closed"}
    /\ listen \in {"none", "starting", "accepting", "ended"}
    /\ errCh \in BOOLEAN
    /\ stop \in BOOLEAN
    /\ handler \in [Requests -> Places]
    /\ broken \subseteq Requests

Init ==
    /\ main = "configure"
    /\ how = "none"
    /\ db = "none"
    /\ redis = "none"
    /\ listen = "none"
    /\ errCh = FALSE
    /\ stop = FALSE
    /\ handler = [r \in Requests |-> "none"]
    /\ broken = {}

\* Requests that the server still works on.
Active == {r \in Requests : handler[r] = "working"}
Connected == db = "open" /\ redis = "open"
-----------------------------------------------------------------------------
(* run(): connecting and serving *)

\* Without a configuration or a logger there is nothing to close.
Configure ==
    /\ main = "configure"
    /\ \/ main' = "openDB" /\ UNCHANGED how
       \/ main' = "return" /\ how' = "unconfigured"
    /\ UNCHANGED <<stores, listen, errCh, stop, requests>>

OpenDB ==
    /\ main = "openDB"
    /\ \/ db' = "open" /\ main' = "pingDB" /\ UNCHANGED how
       \/ main' = "return" /\ how' = "unconnected" /\ UNCHANGED db
    /\ UNCHANGED <<redis, listen, errCh, stop, requests>>

\* A pool that does not answer is closed where it was opened.
PingDB ==
    /\ main = "pingDB"
    /\ \/ main' = "openRedis" /\ UNCHANGED <<how, db>>
       \/ db' = "closed" /\ main' = "return" /\ how' = "unconnected"
    /\ UNCHANGED <<redis, listen, errCh, stop, requests>>

OpenRedis ==
    /\ main = "openRedis"
    /\ redis' = "open"
    /\ main' = "pingRedis"
    /\ UNCHANGED <<how, db, listen, errCh, stop, requests>>

\* A failure runs the deferred call that closes the database.
\* PingRedis_Bug: the process exits on the spot, as log.Fatal would.
PingRedis_Bug ==
    /\ main = "pingRedis"
    /\ \/ main' = "serve" /\ UNCHANGED <<how, redis>>
       \/ redis' = "closed" /\ main' = "return" /\ how' = "unconnected"
    /\ UNCHANGED <<db, listen, errCh, stop, requests>>
PingRedis ==
    /\ main = "pingRedis"
    /\ \/ main' = "serve" /\ UNCHANGED <<how, redis>>
       \/ redis' = "closed" /\ main' = "closeDB" /\ how' = "unconnected"
    /\ UNCHANGED <<db, listen, errCh, stop, requests>>

\* server.New panics on a path for the metrics that gin refuses: the deferred
\* calls run, and the process crashes.
Serve ==
    /\ main = "serve"
    /\ \/ listen' = "starting" /\ main' = "notify" /\ UNCHANGED how
       \/ main' = "closeRedis" /\ how' = "crashed" /\ UNCHANGED listen
    /\ UNCHANGED <<stores, errCh, stop, requests>>

Notify ==
    /\ main = "notify"
    /\ main' = "select"
    /\ UNCHANGED <<how, stores, listen, errCh, stop, requests>>
-----------------------------------------------------------------------------
(* run(): stopping *)

\* When there are both an error and a signal, Go chooses either.
SelectError ==
    /\ main = "select" /\ errCh
    /\ errCh' = FALSE
    /\ how' = "failed"
    /\ main' = "closeRedis"
    /\ UNCHANGED <<stores, listen, stop, requests>>

\* Shutdown closes the listener first; a ListenAndServe that starts only now
\* returns at once.
SelectSignal ==
    /\ main = "select" /\ stop
    /\ stop' = FALSE
    /\ how' = "signal"
    /\ listen' = "ended"
    /\ main' = "shutdown"
    /\ UNCHANGED <<stores, errCh, requests>>

\* ... then it waits until no connection is active.  Drained_Bug: Close in place
\* of Shutdown.
Drained_Bug == TRUE
Drained == Active = {}

ShutdownDone ==
    /\ main = "shutdown" /\ Drained
    /\ how' = "drained"
    /\ main' = "closeRedis"
    /\ UNCHANGED <<stores, listen, errCh, stop, requests>>

\* ... or until the context ends.  TimeOut_Bug: the error of Shutdown is dropped.
\* TimeOut_Hang: Shutdown gets a context without a deadline.
TimeOut_Bug ==
    /\ main = "shutdown"
    /\ how' = "drained"
    /\ main' = "closeRedis"
    /\ UNCHANGED <<stores, listen, errCh, stop, requests>>
TimeOut_Hang == FALSE /\ UNCHANGED vars
TimeOut ==
    /\ main = "shutdown"
    /\ how' = "timeout"
    /\ main' = "closeRedis"
    /\ UNCHANGED <<stores, listen, errCh, stop, requests>>

\* The deferred calls, last one first.
CloseRedis ==
    /\ main = "closeRedis"
    /\ redis' = "closed"
    /\ main' = "closeDB"
    /\ UNCHANGED <<how, db, listen, errCh, stop, requests>>

CloseDB ==
    /\ main = "closeDB"
    /\ db' = "closed"
    /\ main' = "return"
    /\ UNCHANGED <<how, redis, listen, errCh, stop, requests>>

\* The end of the process takes every other goroutine with it.
Exit ==
    /\ main' = "exited"
    /\ handler' = [r \in Requests |-> IF r \in Active THEN "cut" ELSE handler[r]]
    /\ UNCHANGED <<stores, listen, errCh, stop, broken>>

Return == main = "return" /\ Exit /\ UNCHANGED how
-----------------------------------------------------------------------------
(* The goroutine of ListenAndServe, and signals *)

Bind ==
    /\ listen = "starting"
    /\ main # "exited"
    /\ listen' = "accepting"
    /\ UNCHANGED <<main, how, stores, errCh, stop, requests>>

\* The port is taken, or accepting fails for good.
ListenFails ==
    /\ listen \in {"starting", "accepting"}
    /\ main # "exited"
    /\ listen' = "ended"
    /\ errCh' = TRUE
    /\ UNCHANGED <<main, how, stores, stop, requests>>

\* SIGINT or SIGTERM.  A second one waits in the channel and is never read.
Signal ==
    \/ /\ main \in Deaf
       /\ how' = "killed"
       /\ Exit
    \/ /\ main \notin Deaf \cup {"exited"}
       /\ ~ stop
       /\ stop' = TRUE
       /\ UNCHANGED <<main, how, stores, listen, errCh, requests>>
-----------------------------------------------------------------------------
(* Handlers *)

\* A connection that was served stays open for another request, until Shutdown
\* finds it idle.
KeptAlive ==
    /\ \E q \in Requests : handler[q] = "done"
    /\ how \in {"none", "failed", "signal"}

Move(r, from, to) ==
    /\ main # "exited"
    /\ handler[r] = from
    /\ handler' = [handler EXCEPT ![r] = to]
    /\ UNCHANGED <<main, how, stores, listen, errCh, stop, broken>>

Accept(r) ==
    /\ listen = "accepting" \/ KeptAlive
    /\ Move(r, "none", "working")

\* A call of a handler to a store that was closed fails.
MeetsClosedStore(r) ==
    /\ main # "exited"
    /\ handler[r] = "working" /\ r \notin broken
    /\ ~ Connected
    /\ broken' = broken \cup {r}
    /\ UNCHANGED <<main, how, stores, listen, errCh, stop, handler>>

Finish(r) == Move(r, "working", "done")

Exited == main = "exited" /\ UNCHANGED vars
-----------------------------------------------------------------------------
Run ==
    \/ Configure \/ OpenDB \/ PingDB \/ OpenRedis \/ PingRedis \/ Serve \/ Notify
    \/ SelectError \/ SelectSignal \/ ShutdownDone \/ TimeOut
    \/ CloseRedis \/ CloseDB \/ Return

Handle(r) == Accept(r) \/ MeetsClosedStore(r) \/ Finish(r)

Next ==
    \/ Run
    \/ Bind \/ ListenFails \/ Signal
    \/ \E r \in Requests : Handle(r)
    \/ Exited

\* The Go scheduler runs the main goroutine when it can go on, and the timer of
\* the context fires.  Handlers get no fairness: a handler may hang.
Spec == Init /\ [][Next]_vars /\ WF_vars(Run)
-----------------------------------------------------------------------------
(* Properties *)

\* Handlers run only between the opening and the closing of both stores
\* (main.go:44-67 and the order of the deferred calls), except when Shutdown ran
\* out of time (main.go:112-115) or the listener failed (main.go:104-105), where
\* run() closes the stores without waiting.
StoresOutliveHandlers ==
    Active # {} /\ ~ Connected => how \in {"timeout", "failed"}

\* A process that says "server stopped" and exits with 0 (main.go:116-117) has
\* answered every request that it accepted, and none of them met a closed store.
CleanExitAnswersAll ==
    main = "exited" /\ how = "drained" =>
        broken = {} /\ \A r \in Requests : handler[r] \in {"none", "done"}

\* Whatever way run() returns, it has closed what it opened, Redis before the
\* database (main.go:51-67).
ReturnsClosed ==
    /\ main = "exited" /\ how # "killed" => "open" \notin {db, redis}
    /\ redis = "open" => db = "open"

\* Where run() is says what is open, who may still be at work and what has become
\* of the listener: why the two properties above hold (main.go:44-117).
StopInvariant ==
    /\ TypeOK
    /\ main \in Deaf \ {"notify"} \/ how \in {"unconfigured", "unconnected", "crashed"} =>
         listen = "none" /\ \A r \in Requests : handler[r] = "none"
    /\ main \in Deaf \cup {"select"} => how = "none"
    /\ main = "shutdown" => how = "signal"
    /\ main = "closeRedis" => how \in {"failed", "timeout", "drained", "crashed"}
    /\ main \in {"closeDB", "return"} => how \notin {"none", "signal", "killed"}
    /\ main \in {"pingDB", "openRedis", "closeDB"} => db = "open"
    /\ main \in {"pingRedis", "serve", "notify", "select", "shutdown", "closeRedis"} => Connected
    /\ main \in {"configure", "openDB", "pingDB", "openRedis"} => redis = "none"
    /\ main \in {"configure", "openDB"} => db = "none"
    /\ main \in {"closeDB", "return"} => redis # "open"
    /\ main = "return" => db # "open"
    /\ main = "exited" /\ how # "killed" => "open" \notin {db, redis}
    /\ redis = "open" => db = "open"
    /\ how \in {"signal", "drained", "timeout"} => listen = "ended"
    /\ how = "drained" => \A r \in Requests : handler[r] \in {"none", "done"}
    /\ IF main = "exited" THEN Active = {} ELSE \A r \in Requests : handler[r] # "cut"
    /\ broken # {} => how \in {"timeout", "failed"}

\* A signal that run() was told of, or an error of the listener, ends the process
\* however long the handlers take (main.go:103-117).
StopIsObeyed ==
    [](stop \/ errCh => <>(main = "exited"))
=============================================================================
