-------------------------- MODULE ReadyCheckProofs --------------------------
(***************************************************************************)
(* Proofs about ReadyCheck, for any finite set of checks: what Ready says  *)
(* does not depend on the order of the answers, and nobody is left behind. *)
(***************************************************************************)
EXTENDS ReadyCheck, FiniteSetTheorems, TLAPS

LEMMA Finite ==
  ASSUME TypeOK
  PROVE  /\ IsFiniteSet(configured) /\ n \in Nat
         /\ IsFiniteSet(Ended) /\ Cardinality(Ended) \in Nat
  <1>1. IsFiniteSet(configured) /\ IsFiniteSet(Ended)
    BY ReadyAssumption, FS_Subset DEF TypeOK, Ended
  <1>2. QED
    BY <1>1, FS_CardinalityType DEF n

\* Who still has to send is not counted yet: there is room in the channel.
LEMMA RoomLeft ==
  ASSUME ReadyInvariant, NEW c \in configured, worker[c] # "ended"
  PROVE  received + Len(errCh) < n
  <1>1. Ended \subseteq configured \ {c}
    BY DEF Ended, ReadyInvariant
  <1>2. Cardinality(configured \ {c}) = n - 1 /\ IsFiniteSet(configured \ {c})
    BY Finite, FS_RemoveElement DEF ReadyInvariant, n
  <1>3. Cardinality(Ended) <= n - 1
    BY <1>1, <1>2, FS_Subset
  <1>4. QED
    BY <1>3, Finite DEF ReadyInvariant, TypeOK

\* When all results are received, all checks have ended and the channel is empty.
LEMMA AllReceived ==
  ASSUME ReadyInvariant, received = n
  PROVE  Ended = configured /\ errCh = << >>
  <1>1. Ended \subseteq configured /\ errCh \in Seq(Errors \cup {Nil}) /\ Len(errCh) \in Nat
    BY DEF Ended, ReadyInvariant, TypeOK
  <1>2. Cardinality(Ended) <= n
    BY <1>1, Finite, FS_Subset DEF n, ReadyInvariant
  <1>3. Len(errCh) = 0 /\ Cardinality(Ended) = n
    BY <1>1, <1>2, Finite DEF ReadyInvariant
  <1>4. QED
    BY <1>1, <1>3, Finite, FS_Subset DEF n, ReadyInvariant

LEMMA InitReady == Init => ReadyInvariant
  <1> SUFFICES ASSUME Init PROVE ReadyInvariant
    OBVIOUS
  <1>1. IsFiniteSet(configured) /\ n \in Nat
    BY ReadyAssumption, FS_Subset, FS_CardinalityType DEF Init, n
  <1>2. Ended = {} /\ Cardinality(Ended) = 0
    BY FS_EmptySet DEF Init, Ended
  <1>3. TypeOK
    BY <1>1 DEF Init, TypeOK, Capacity
  <1>4. QED
    BY <1>2, <1>3 DEF Init, ReadyInvariant, ReadyIffAllUp

LEMMA StepReady == ReadyInvariant /\ [Next]_vars => ReadyInvariant'
  <1> SUFFICES ASSUME ReadyInvariant, [Next]_vars PROVE ReadyInvariant'
    OBVIOUS
  <1>1. CASE ReturnAtOnce
    <2>1. TypeOK /\ n \in Nat /\ IsFiniteSet(configured)
      BY Finite DEF ReadyInvariant
    <2>2. CASE n = 0 /\ Return(Nil) /\ UNCHANGED outcome
      <3>1. configured = {}
        BY <2>1, <2>2, FS_EmptySet DEF n
      <3>2. QED
        BY <1>1, <2>1, <2>2, <3>1
           DEF ReturnAtOnce, Return, ReadyInvariant, TypeOK, ReadyIffAllUp, Ended, n, Capacity
    <2>3. ASSUME NEW c \in configured, NEW err \in Errors \cup {Nil},
                 n = 1, Return(err), outcome' = [outcome EXCEPT ![c] = err]
          PROVE  ReadyInvariant'
      <3>1. configured = {c}
        BY <2>1, <2>3, FS_Singleton DEF n
      <3>2. Ended = {}
        BY <2>3 DEF ReadyInvariant, TypeOK, Ended
      <3>3. TypeOK' /\ n' = n /\ Ended' = Ended
        BY <2>1, <2>3 DEF Return, TypeOK, n, Capacity, Ended
      <3>4. ReadyIffAllUp'
        BY <2>1, <2>3, <3>1 DEF Return, TypeOK, ReadyIffAllUp
      <3>5. QED
        BY <1>1, <2>3, <3>2, <3>3, <3>4 DEF ReturnAtOnce, Return, ReadyInvariant
    <2>4. QED
      BY <1>1, <2>2, <2>3 DEF ReturnAtOnce
  <1>2. ASSUME NEW c \in Checks, Spawn(c) PROVE ReadyInvariant'
    <2>1. Ended' = Ended /\ n' = n /\ TypeOK'
      BY <1>2 DEF Spawn, ReadyInvariant, TypeOK, Ended, n, Capacity
    <2>2. QED
      BY <1>2, <2>1 DEF Spawn, ReadyInvariant, TypeOK, ReadyIffAllUp
  <1>3. CASE Spawned
    BY <1>3 DEF Spawned, ReadyInvariant, TypeOK, ReadyIffAllUp, Ended, n, Capacity
  <1>4. CASE Receive
    <2>1. /\ errCh \in Seq(Errors \cup {Nil}) /\ errCh # << >>
          /\ errCh' = Tail(errCh) /\ received' = received + 1
          /\ first' = IF first = Nil THEN Head(errCh) ELSE first
      BY <1>4 DEF Receive, ReadyInvariant, TypeOK
    <2>2. /\ Tail(errCh) \in Seq(Errors \cup {Nil}) /\ Head(errCh) \in Errors \cup {Nil}
          /\ Len(errCh) \in Nat /\ Len(errCh) > 0 /\ Len(Tail(errCh)) = Len(errCh) - 1
          /\ Head(errCh) = errCh[1]
          /\ \A i \in 1 .. Len(Tail(errCh)) : Tail(errCh)[i] = errCh[i + 1]
      BY <2>1
    <2>3. n' = n /\ Ended' = Ended
      BY <1>4 DEF Receive, n, Ended
    <2>4. TypeOK'
      BY <1>4, <2>1, <2>2, <2>3, Finite DEF Receive, ReadyInvariant, TypeOK, Capacity
    <2>5. (first' # Nil \/ \E i \in 1 .. Len(errCh') : errCh'[i] # Nil)
            <=> (first # Nil \/ \E i \in 1 .. Len(errCh) : errCh[i] # Nil)
      <3>1. (\E i \in 1 .. Len(errCh) : errCh[i] # Nil)
              <=> errCh[1] # Nil \/ \E i \in 1 .. Len(Tail(errCh)) : errCh[i + 1] # Nil
        <4>1. ASSUME NEW i \in 1 .. Len(errCh), errCh[i] # Nil, errCh[1] = Nil
              PROVE  \E j \in 1 .. Len(Tail(errCh)) : errCh[j + 1] # Nil
          <5>1. i - 1 \in 1 .. Len(Tail(errCh)) /\ (i - 1) + 1 = i
            BY <2>2, <4>1
          <5>2. QED
            BY <4>1, <5>1
        <4>2. QED
          BY <2>2, <4>1
      <3>2. QED
        BY <2>1, <2>2, <3>1
    <2>6. QED
      BY <1>4, <2>1, <2>2, <2>3, <2>4, <2>5, Finite
         DEF Receive, ReadyInvariant, TypeOK, ReadyIffAllUp
  <1>5. CASE ReturnFirst
    <2>1. Ended = configured /\ errCh = << >>
      BY <1>5, AllReceived DEF ReturnFirst
    <2>2. first = Nil <=> \A c \in configured : outcome[c] = Nil
      BY <2>1 DEF ReadyInvariant
    <2>3. QED
      BY <1>5, <2>2
         DEF ReturnFirst, Return, ReadyInvariant, TypeOK, ReadyIffAllUp, Ended, n, Capacity
  <1>6. ASSUME NEW c \in Checks, Find(c) PROVE ReadyInvariant'
    <2>1. Ended' = Ended /\ n' = n /\ TypeOK'
      BY <1>6 DEF Find, ReadyInvariant, TypeOK, Ended, n, Capacity
    <2>2. \A d \in Ended : outcome'[d] = outcome[d]
      BY <1>6 DEF Find, ReadyInvariant, TypeOK, Ended
    <2>3. pc # "returned"
      <3>1. c \in configured /\ worker[c] # "ended" /\ n > 1
        BY <1>6 DEF Find, ReadyInvariant
      <3>2. received # n
        BY <3>1, RoomLeft, Finite DEF ReadyInvariant, TypeOK
      <3>3. QED
        BY <3>1, <3>2 DEF ReadyInvariant
    <2>4. QED
      BY <1>6, <2>1, <2>2, <2>3 DEF Find, ReadyInvariant, TypeOK, ReadyIffAllUp
  <1>7. ASSUME NEW c \in Checks, Send(c) PROVE ReadyInvariant'
    <2>1. c \in configured /\ worker[c] # "ended" /\ n > 1 /\ TypeOK
      BY <1>7 DEF Send, ReadyInvariant
    <2>2. /\ errCh \in Seq(Errors \cup {Nil}) /\ outcome[c] \in Errors \cup {Nil}
          /\ errCh' = Append(errCh, outcome[c])
      BY <1>7, <2>1 DEF Send, TypeOK
    <2>3. /\ errCh' \in Seq(Errors \cup {Nil}) /\ Len(errCh) \in Nat
          /\ Len(errCh') = Len(errCh) + 1 /\ errCh'[Len(errCh) + 1] = outcome[c]
          /\ \A i \in 1 .. Len(errCh) : errCh'[i] = errCh[i]
      BY <2>2
    <2>4. Ended' = Ended \cup {c} /\ c \notin Ended /\ n' = n
      BY <1>7, <2>1 DEF Send, TypeOK, Ended, n
    <2>5. Cardinality(Ended') = Cardinality(Ended) + 1
      BY <2>1, <2>4, Finite, FS_AddElement
    <2>6. TypeOK'
      BY <1>7, <2>1, <2>3, <2>4, Finite DEF Send, TypeOK, Capacity
    <2>7. (\E i \in 1 .. Len(errCh') : errCh'[i] # Nil)
            <=> (\E i \in 1 .. Len(errCh) : errCh[i] # Nil) \/ outcome[c] # Nil
      <3>1. \A i \in 1 .. Len(errCh') : i \in 1 .. Len(errCh) \/ i = Len(errCh) + 1
        BY <2>3
      <3>2. Len(errCh) + 1 \in 1 .. Len(errCh') /\ 1 .. Len(errCh) \subseteq 1 .. Len(errCh')
        BY <2>3
      <3>3. QED
        BY <2>3, <3>1, <3>2
    <2>8. received # n
      BY <2>1, RoomLeft, Finite DEF TypeOK
    <2>9. QED
      BY <1>7, <2>1, <2>2, <2>3, <2>4, <2>5, <2>6, <2>7, <2>8, Finite
         DEF Send, ReadyInvariant, TypeOK, ReadyIffAllUp
  <1>8. CASE UNCHANGED vars
    BY <1>8 DEF vars, ReadyInvariant, TypeOK, ReadyIffAllUp, Ended, n, Capacity
  <1>9. QED
    BY <1>1, <1>2, <1>3, <1>4, <1>5, <1>6, <1>7, <1>8 DEF Next, Main, Worker, Returned

\* However many checks there are and in whatever order they report, none is lost
\* (health.go:56-75).
THEOREM ReadyInvariantHolds == Spec => []ReadyInvariant
  BY InitReady, StepReady, PTL DEF Spec

\* The server is reported ready exactly when every store is (health.go:69-75).
THEOREM ReadyExactly == Spec => []ReadyIffAllUp
  <1>1. ReadyInvariant => ReadyIffAllUp
    BY DEF ReadyInvariant
  <1>2. QED
    BY <1>1, ReadyInvariantHolds, PTL

\* No check waits for room in the channel, so none outlives the request
\* (health.go:62).
THEOREM SendersHaveRoom == Spec => []NobodyWaitsToSend
  <1>1. ReadyInvariant => NobodyWaitsToSend
    <2> SUFFICES ASSUME ReadyInvariant, NEW c \in Checks, worker[c] = "sending"
                 PROVE  Len(errCh) < Capacity
      BY DEF NobodyWaitsToSend
    <2>1. c \in configured
      BY DEF ReadyInvariant
    <2>2. received + Len(errCh) < n /\ received \in Nat /\ n \in Nat
      BY <2>1, RoomLeft, Finite DEF ReadyInvariant, TypeOK
    <2>3. errCh \in Seq(Errors \cup {Nil})
      BY DEF ReadyInvariant, TypeOK
    <2>4. QED
      BY <2>2, <2>3 DEF Capacity
  <1>2. QED
    BY <1>1, ReadyInvariantHolds, PTL

\* When Ready has returned all goroutines have ended (health.go:62-74).
THEOREM AllGoroutinesEnd == Spec => []NoGoroutineLeft
  <1>1. ReadyInvariant => NoGoroutineLeft
    <2> SUFFICES ASSUME ReadyInvariant, pc = "returned", NEW c \in Checks
                 PROVE  worker[c] \in {"none", "ended"} /\ errCh = << >>
      BY DEF NoGoroutineLeft
    <2>1. CASE n > 1
      <3>1. Ended = configured /\ errCh = << >>
        BY <2>1, AllReceived DEF ReadyInvariant
      <3>2. QED
        BY <3>1 DEF ReadyInvariant, Ended
    <2>2. CASE ~ (n > 1)
      <3>1. Ended = {} /\ worker[c] = "none"
        BY <2>2 DEF ReadyInvariant, Ended
      <3>2. received + Len(errCh) = 0 /\ received \in Nat /\ errCh \in Seq(Errors \cup {Nil})
        BY <3>1, FS_EmptySet DEF ReadyInvariant, TypeOK
      <3>3. QED
        BY <3>1, <3>2
    <2>3. QED
      BY <2>1, <2>2
  <1>2. QED
    BY <1>1, ReadyInvariantHolds, PTL
-----------------------------------------------------------------------------
(* How far Ready has to go *)

LEMMA BehindCounts ==
  ASSUME TypeOK, NEW places
  PROVE  IsFiniteSet(Behind(places)) /\ Cardinality(Behind(places)) \in 0 .. n
  <1>1. IsFiniteSet(configured) /\ n \in Nat /\ Behind(places) \subseteq configured
    BY Finite DEF Behind
  <1>2. IsFiniteSet(Behind(places)) /\ Cardinality(Behind(places)) <= n
    BY <1>1, FS_Subset DEF n
  <1>3. QED
    BY <1>1, <1>2, FS_CardinalityType

\* Every way to go is at least one step long, and at most 4 n + 2.
LEMMA StepsCounted ==
  ASSUME TypeOK
  PROVE  /\ StepsLeft \in 0 .. 4 * n + 2
         /\ pc # "returned" => StepsLeft > 0
  <1> DEFINE a == Cardinality(Unstarted)
             b == Cardinality(Unfound)
             d == Cardinality(Unsent)
             p == IF pc = "spawn" THEN 2 ELSE 1
  <1>1. n \in Nat /\ a \in 0 .. n /\ b \in 0 .. n /\ d \in 0 .. n
    BY Finite, BehindCounts DEF Unstarted, Unfound, Unsent
  <1>2. received \in 0 .. n /\ p \in 1 .. 2
    BY DEF TypeOK
  <1>3. StepsLeft = IF pc = "returned" THEN 0 ELSE a + b + d + (n - received) + p
    BY DEF StepsLeft
  <1> HIDE DEF a, b, d, p
  <1>4. QED
    BY <1>1, <1>2, <1>3

\* A goroutine that goes on leaves one set, and Ready waits for it.
LEMMA LeavesOne ==
  ASSUME TypeOK, NEW c \in configured, NEW places, NEW from \in places, NEW to,
         to \notin places, worker[c] = from, worker' = [worker EXCEPT ![c] = to],
         UNCHANGED configured
  PROVE  Cardinality(Behind(places)') = Cardinality(Behind(places)) - 1
  <1>1. Behind(places)' = Behind(places) \ {c} /\ c \in Behind(places)
    BY DEF Behind, TypeOK
  <1>2. QED
    BY <1>1, BehindCounts, FS_RemoveElement

LEMMA StaysBehind ==
  ASSUME TypeOK, NEW c \in configured, NEW places, NEW to,
         worker[c] \in places <=> to \in places, worker' = [worker EXCEPT ![c] = to],
         UNCHANGED configured
  PROVE  Behind(places)' = Behind(places)
  BY DEF Behind, TypeOK

LEMMA StillCollecting ==
  ASSUME ReadyInvariant, NEW c \in Checks, worker[c] \in {"running", "sending"}
  PROVE  c \in configured /\ pc # "returned"
  <1>1. c \in configured /\ n > 1
    BY DEF ReadyInvariant
  <1>2. received < n
    BY <1>1, RoomLeft, Finite DEF ReadyInvariant, TypeOK
  <1>3. QED
    BY <1>1, <1>2, Finite DEF ReadyInvariant, TypeOK

LEMMA StepCounts ==
  ASSUME ReadyInvariant, ReadyInvariant', Next, vars' # vars
  PROVE  StepsLeft' < StepsLeft
  <1> DEFINE a == Cardinality(Unstarted)
             b == Cardinality(Unfound)
             d == Cardinality(Unsent)
             p == IF pc = "spawn" THEN 2 ELSE 1
             Sum == a + b + d + (n - received) + p
  <1>1. TypeOK /\ TypeOK' /\ n \in Nat /\ received \in Nat
    BY Finite DEF ReadyInvariant, TypeOK
  <1>2. a \in Nat /\ b \in Nat /\ d \in Nat /\ p \in Nat
    BY <1>1, BehindCounts DEF Unstarted, Unfound, Unsent
  <1>3. /\ pc # "returned" => StepsLeft = Sum
        /\ pc' # "returned" => StepsLeft' = Sum'
        /\ pc' = "returned" => StepsLeft' = 0
    BY DEF StepsLeft
  <1>4. ASSUME NEW err, Return(err), pc # "returned" PROVE StepsLeft' < StepsLeft
    BY <1>1, <1>3, <1>4, StepsCounted DEF Return
  <1>5. ASSUME UNCHANGED <<configured, worker, pc>>, received' = received + 1, pc # "returned"
        PROVE  StepsLeft' < StepsLeft
    <2>1. a' = a /\ b' = b /\ d' = d /\ p' = p /\ n' = n
      BY <1>5 DEF Unstarted, Unfound, Unsent, Behind, n
    <2>2. StepsLeft = Sum /\ StepsLeft' = Sum'
      BY <1>3, <1>5
    <2> HIDE DEF a, b, d, p
    <2>3. QED
      BY <1>1, <1>2, <1>5, <2>1, <2>2
  <1>6. ASSUME NEW c \in Checks, Spawn(c) PROVE StepsLeft' < StepsLeft
    <2>1. c \in configured /\ worker[c] = "none" /\ worker' = [worker EXCEPT ![c] = "running"]
      BY <1>6 DEF Spawn
    <2>2. UNCHANGED <<configured, pc, received>> /\ pc = "spawn"
      BY <1>6 DEF Spawn
    <2>3. a' = a - 1
      <3>1. ASSUME NEW places, places = {"none"}
            PROVE  Cardinality(Behind(places)') = Cardinality(Behind(places)) - 1
        <4>1. "none" \in places /\ "running" \notin places
          BY <3>1
        <4>2. QED
          BY <1>1, <2>1, <2>2, <4>1, LeavesOne
      <3>2. Cardinality(Behind({"none"})') = Cardinality(Behind({"none"})) - 1
        BY <3>1, Zenon
      <3>3. QED
        BY <3>2 DEF Unstarted
    <2>4. b' = b /\ d' = d /\ n' = n /\ p' = p
      <3>1. Unfound' = Unfound
        BY <1>1, <2>1, <2>2, StaysBehind DEF Unfound
      <3>2. Unsent' = Unsent
        BY <1>1, <2>1, <2>2, StaysBehind DEF Unsent
      <3>3. QED
        BY <2>2, <3>1, <3>2 DEF n
    <2>5. StepsLeft = Sum /\ StepsLeft' = Sum'
      BY <1>3, <2>2
    <2> HIDE DEF a, b, d, p
    <2>6. QED
      BY <1>1, <1>2, <2>2, <2>3, <2>4, <2>5
  <1>7. ASSUME NEW c \in Checks, Find(c) PROVE StepsLeft' < StepsLeft
    <2>1. worker[c] = "running" /\ worker' = [worker EXCEPT ![c] = "sending"]
      BY <1>7 DEF Find
    <2>2. UNCHANGED <<configured, pc, received>>
      BY <1>7 DEF Find
    <2>3. c \in configured /\ pc # "returned"
      BY <2>1, StillCollecting
    <2>4. b' = b - 1
      BY <1>1, <2>1, <2>2, <2>3, LeavesOne DEF Unfound
    <2>5. a' = a /\ d' = d /\ n' = n /\ p' = p
      <3>1. Unstarted' = Unstarted
        BY <1>1, <2>1, <2>2, <2>3, StaysBehind DEF Unstarted
      <3>2. Unsent' = Unsent
        BY <1>1, <2>1, <2>2, <2>3, StaysBehind DEF Unsent
      <3>3. QED
        BY <2>2, <3>1, <3>2 DEF n
    <2>6. StepsLeft = Sum /\ StepsLeft' = Sum'
      BY <1>3, <2>2, <2>3
    <2> HIDE DEF a, b, d, p
    <2>7. QED
      BY <1>1, <1>2, <2>2, <2>4, <2>5, <2>6
  <1>8. ASSUME NEW c \in Checks, Send(c) PROVE StepsLeft' < StepsLeft
    <2>1. worker[c] = "sending" /\ worker' = [worker EXCEPT ![c] = "ended"]
      BY <1>8 DEF Send
    <2>2. UNCHANGED <<configured, pc, received>>
      BY <1>8 DEF Send
    <2>3. c \in configured /\ pc # "returned"
      BY <2>1, StillCollecting
    <2>4. d' = d - 1
      BY <1>1, <2>1, <2>2, <2>3, LeavesOne DEF Unsent
    <2>5. a' = a /\ b' = b /\ n' = n /\ p' = p
      <3>1. Unstarted' = Unstarted
        BY <1>1, <2>1, <2>2, <2>3, StaysBehind DEF Unstarted
      <3>2. Unfound' = Unfound
        BY <1>1, <2>1, <2>2, <2>3, StaysBehind DEF Unfound
      <3>3. QED
        BY <2>2, <3>1, <3>2 DEF n
    <2>6. StepsLeft = Sum /\ StepsLeft' = Sum'
      BY <1>3, <2>2, <2>3
    <2> HIDE DEF a, b, d, p
    <2>7. QED
      BY <1>1, <1>2, <2>2, <2>4, <2>5, <2>6
  <1>9. CASE Spawned
    <2>1. UNCHANGED <<configured, worker, received>> /\ pc = "spawn" /\ pc' = "collect"
      BY <1>9 DEF Spawned
    <2>2. a' = a /\ b' = b /\ d' = d /\ n' = n /\ p = 2 /\ p' = 1
      BY <2>1 DEF Unstarted, Unfound, Unsent, Behind, n
    <2>3. StepsLeft = Sum /\ StepsLeft' = Sum'
      BY <1>3, <2>1
    <2> HIDE DEF a, b, d, p
    <2>4. QED
      BY <1>1, <1>2, <2>1, <2>2, <2>3
  <1>10. CASE ReturnAtOnce
    BY <1>4, <1>10 DEF ReturnAtOnce
  <1>11. CASE Receive
    BY <1>5, <1>11 DEF Receive
  <1>12. CASE ReturnFirst
    BY <1>4, <1>12 DEF ReturnFirst
  <1>13. QED
    BY <1>6, <1>7, <1>8, <1>9, <1>10, <1>11, <1>12 DEF Next, Main, Worker, Returned

\* For any number of checks, each step brings Ready nearer to its return, of which
\* it is never more than 4 n + 2 away (health.go:50-76).
THEOREM StepsRunOut == Spec => EveryStepCounts
  <1>1. ReadyInvariant => StepsLeft \in 0 .. 4 * n + 2
    BY StepsCounted DEF ReadyInvariant
  <1>2. ReadyInvariant /\ ReadyInvariant' /\ [Next]_vars => [StepsLeft' < StepsLeft]_vars
    BY StepCounts
  <1>3. QED
    BY <1>1, <1>2, ReadyInvariantHolds, PTL DEF Spec, EveryStepCounts

\* Until it returns somebody can go on: nobody waits for a result that nobody sends,
\* or for room that nobody makes (health.go:62-74).
THEOREM NobodyIsStuck == Spec => []NeverStuck
  <1>1. ReadyInvariant => NeverStuck
    <2> SUFFICES ASSUME ReadyInvariant, pc = "collect", errCh = << >>, received # n
                 PROVE  \E c \in Checks : WorkerCanGoOn(c)
      BY DEF ReadyInvariant, TypeOK, NeverStuck, ReadyCanGoOn
    <2>1. PICK c \in configured : worker[c] # "ended"
      <3>1. Cardinality(Ended) = received
        BY Finite DEF ReadyInvariant, TypeOK
      <3>2. Ended # configured /\ Ended \subseteq configured
        BY <3>1 DEF n, Ended, ReadyInvariant
      <3>3. QED
        BY <3>2 DEF Ended, ReadyInvariant, TypeOK
    <2>2. c \in Checks /\ worker[c] \in {"running", "sending"}
      BY <2>1 DEF ReadyInvariant, TypeOK
    <2>3. Len(errCh) < Capacity
      BY Finite DEF ReadyInvariant, TypeOK, Capacity
    <2>4. QED
      BY <2>2, <2>3 DEF WorkerCanGoOn
  <1>2. QED
    BY <1>1, ReadyInvariantHolds, PTL
=============================================================================
