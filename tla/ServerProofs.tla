---------------------------- MODULE ServerProofs ----------------------------
(***************************************************************************)
(* Proofs about Server, for any set of requests: what is closed when, and  *)
(* whom it may hit.  That the process ends is left to the model checker.   *)
(***************************************************************************)
EXTENDS Server, TLAPS

LEMMA InitStops == Init => StopInvariant
  BY DEF Init, StopInvariant, TypeOK, Deaf, Steps, Ends, Places, Active

\* The steps of run().
LEMMA RunKeeps == StopInvariant /\ Run => StopInvariant'
  <1> SUFFICES ASSUME StopInvariant, Run PROVE StopInvariant'
    OBVIOUS
  <1> USE DEF StopInvariant, TypeOK, Deaf, Steps, Ends, Places, Active, Connected, stores, requests
  <1>1. CASE Configure
    BY <1>1 DEF Configure
  <1>2. CASE OpenDB
    BY <1>2 DEF OpenDB
  <1>3. CASE PingDB
    BY <1>3 DEF PingDB
  <1>4. CASE OpenRedis
    BY <1>4 DEF OpenRedis
  <1>5. CASE PingRedis
    BY <1>5 DEF PingRedis
  <1>6. CASE Serve
    BY <1>6 DEF Serve
  <1>7. CASE Notify
    BY <1>7 DEF Notify
  <1>8. CASE SelectError
    BY <1>8 DEF SelectError
  <1>9. CASE SelectSignal
    BY <1>9 DEF SelectSignal
  <1>10. CASE ShutdownDone
    BY <1>10 DEF ShutdownDone, Drained
  <1>11. CASE TimeOut
    BY <1>11 DEF TimeOut
  <1>12. CASE CloseRedis
    BY <1>12 DEF CloseRedis
  <1>13. CASE CloseDB
    BY <1>13 DEF CloseDB
  <1>14. CASE Return
    BY <1>14 DEF Return, Exit
  <1>15. QED
    BY <1>1, <1>2, <1>3, <1>4, <1>5, <1>6, <1>7, <1>8,
       <1>9, <1>10, <1>11, <1>12, <1>13, <1>14 DEF Run

\* The listener, signals and handlers.
LEMMA OthersKeep ==
  ASSUME StopInvariant,
         \/ Bind \/ ListenFails \/ Signal
         \/ \E r \in Requests : Handle(r)
  PROVE  StopInvariant'
  <1> USE DEF StopInvariant, TypeOK, Deaf, Steps, Ends, Places, Active, Connected, stores, requests
  <1>1. CASE Bind
    BY <1>1 DEF Bind
  <1>2. CASE ListenFails
    BY <1>2 DEF ListenFails
  <1>3. CASE Signal
    BY <1>3, ZenonT(40) DEF Signal, Exit
  <1>4. ASSUME NEW r \in Requests, Accept(r) PROVE StopInvariant'
    BY <1>4 DEF Accept, KeptAlive, Move
  <1>5. ASSUME NEW r \in Requests, Finish(r) PROVE StopInvariant'
    BY <1>5 DEF Finish, Move
  <1>6. ASSUME NEW r \in Requests, MeetsClosedStore(r) PROVE StopInvariant'
    BY <1>6 DEF MeetsClosedStore
  <1>7. QED
    BY <1>1, <1>2, <1>3, <1>4, <1>5, <1>6 DEF Handle

\* Every step of the process keeps the invariant (main.go:30-118).
THEOREM StopInvariantHolds == Spec => []StopInvariant
  <1>1. StopInvariant /\ [Next]_vars => StopInvariant'
    <2> SUFFICES ASSUME StopInvariant, [Next]_vars PROVE StopInvariant'
      OBVIOUS
    <2>1. CASE UNCHANGED vars
      BY <2>1 DEF vars, stores, requests, StopInvariant, TypeOK, Active, Connected
    <2>2. QED
      BY <2>1, RunKeeps, OthersKeep DEF Next, Exited
  <1>2. QED
    BY <1>1, InitStops, PTL DEF Spec

\* Handlers run between the opening and the closing of both stores, but for a
\* shutdown that ran out of time and a listener that failed (main.go:44-115).
THEOREM StoresStayOpen == Spec => []StoresOutliveHandlers
  <1>1. StopInvariant => StoresOutliveHandlers
    BY DEF StopInvariant, StoresOutliveHandlers, TypeOK, Deaf, Steps, Ends, Places,
           Active, Connected
  <1>2. QED
    BY <1>1, StopInvariantHolds, PTL

\* A process that exits with 0 has answered what it accepted (main.go:116-117).
THEOREM CleanExits == Spec => []CleanExitAnswersAll
  <1>1. StopInvariant => CleanExitAnswersAll
    BY DEF StopInvariant, CleanExitAnswersAll
  <1>2. QED
    BY <1>1, StopInvariantHolds, PTL

\* However run() returns, it has closed what it opened (main.go:44-67).
THEOREM StoresAreClosed == Spec => []ReturnsClosed
  <1>1. StopInvariant => ReturnsClosed
    BY DEF StopInvariant, ReturnsClosed
  <1>2. QED
    BY <1>1, StopInvariantHolds, PTL
=============================================================================
