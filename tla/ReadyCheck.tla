----------------------------- MODULE ReadyCheck -----------------------------
(***************************************************************************)
(* CompositeReady.Ready of the health routes: the checks of the stores run *)
(* side by side, each in a goroutine of its own that sends what it found   *)
(* to one channel, and Ready receives as many results as there are checks. *)
(*                                                                         *)
(* What a check finds is left open: the store answers, does not, or the    *)
(* client hangs up and the context is cancelled.                           *)
(*                                                                         *)
(* Operators whose name ends in _Bug or _Leak are what a slip in the code  *)
(* would make of the definition after them; they are not part of the       *)
(* specification.                                                          *)
(***************************************************************************)
EXTENDS Sequences, FiniteSets, Integers

CONSTANTS
    Checks,  \* the checks that may be configured
    Errors,  \* what they may find wrong
    Nil      \* no error

ASSUME ReadyAssumption == IsFiniteSet(Checks) /\ Nil \notin Errors

VARIABLES
    configured,  \* the checks of this server
    pc,          \* Ready: "spawn", "collect" or "returned"
    worker,      \* the goroutine of each check
    outcome,     \* what each check found
    errCh,       \* the channel
    received,    \* how many results Ready has received
    first,       \* the first error it received
    result       \* what it returned

vars == <<configured, pc, worker, outcome, errCh, received, first, result>>

n == Cardinality(configured)

\* The capacity of the channel.  Capacity_Bug: there is room for one
\* result.
Capacity_Bug == 1
Capacity == n

TypeOK ==
    /\ configured \subseteq Checks
    /\ pc \in {"spawn", "collect", "returned"}
    /\ worker \in [Checks -> {"none", "running", "sending", "ended"}]
    /\ outcome \in [Checks -> Errors \cup {Nil}]
    /\ errCh \in Seq(Errors \cup {Nil}) /\ Len(errCh) <= Capacity
    /\ received \in 0 .. n
    /\ first \in Errors \cup {Nil}
    /\ result \in Errors \cup {Nil}

Init ==
    /\ configured \in SUBSET Checks
    /\ pc = "spawn"
    /\ worker = [c \in Checks |-> "none"]
    /\ outcome = [c \in Checks |-> Nil]
    /\ errCh = << >>
    /\ received = 0
    /\ first = Nil
    /\ result = Nil
-----------------------------------------------------------------------------
(* Ready *)

Return(err) ==
    /\ pc' = "returned"
    /\ result' = err
    /\ UNCHANGED <<configured, worker, errCh, received, first>>

\* Without checks, and with a single one, there are no goroutines.
ReturnAtOnce ==
    /\ pc = "spawn"
    /\ \/ n = 0 /\ Return(Nil) /\ UNCHANGED outcome
       \/ \E c \in configured, err \in Errors \cup {Nil} :
            /\ n = 1
            /\ Return(err)
            /\ outcome' = [outcome EXCEPT ![c] = err]

Spawn(c) ==
    /\ pc = "spawn" /\ n > 1
    /\ c \in configured /\ worker[c] = "none"
    /\ worker' = [worker EXCEPT ![c] = "running"]
    /\ UNCHANGED <<configured, pc, outcome, errCh, received, first, result>>

Spawned ==
    /\ pc = "spawn" /\ n > 1
    /\ \A c \in configured : worker[c] # "none"
    /\ pc' = "collect"
    /\ UNCHANGED <<configured, worker, outcome, errCh, received, first, result>>

\* Receive_Bug: the last error is kept, a nil too.
Receive_Bug ==
    /\ pc = "collect" /\ received < n /\ errCh # << >>
    /\ first' = Head(errCh)
    /\ errCh' = Tail(errCh)
    /\ received' = received + 1
    /\ UNCHANGED <<configured, pc, worker, outcome, result>>
Receive ==
    /\ pc = "collect" /\ received < n /\ errCh # << >>
    /\ first' = IF first = Nil THEN Head(errCh) ELSE first
    /\ errCh' = Tail(errCh)
    /\ received' = received + 1
    /\ UNCHANGED <<configured, pc, worker, outcome, result>>

\* ReturnFirst_Bug: it waits for one result too many.
ReturnFirst_Bug ==
    /\ pc = "collect" /\ received > n
    /\ Return(first)
    /\ UNCHANGED outcome
\* ReturnFirst_Leak: Ready returns with the first error instead of waiting for
\* every check.
ReturnFirst_Leak ==
    /\ pc = "collect" /\ (received = n \/ first # Nil)
    /\ Return(first)
    /\ UNCHANGED outcome
ReturnFirst ==
    /\ pc = "collect" /\ received = n
    /\ Return(first)
    /\ UNCHANGED outcome
-----------------------------------------------------------------------------
(* The goroutines *)

Find(c) == \E err \in Errors \cup {Nil} :
    /\ worker[c] = "running"
    /\ worker' = [worker EXCEPT ![c] = "sending"]
    /\ outcome' = [outcome EXCEPT ![c] = err]
    /\ UNCHANGED <<configured, pc, errCh, received, first, result>>

\* Send_Bug: a check that finds nothing wrong has nothing to send.
Send_Bug(c) ==
    /\ worker[c] = "sending"
    /\ Len(errCh) < Capacity
    /\ errCh' = IF outcome[c] = Nil THEN errCh ELSE Append(errCh, outcome[c])
    /\ worker' = [worker EXCEPT ![c] = "ended"]
    /\ UNCHANGED <<configured, pc, outcome, received, first, result>>
Send(c) ==
    /\ worker[c] = "sending"
    /\ Len(errCh) < Capacity
    /\ errCh' = Append(errCh, outcome[c])
    /\ worker' = [worker EXCEPT ![c] = "ended"]
    /\ UNCHANGED <<configured, pc, outcome, received, first, result>>

Returned == pc = "returned" /\ UNCHANGED vars
-----------------------------------------------------------------------------
Main == ReturnAtOnce \/ (\E c \in Checks : Spawn(c)) \/ Spawned \/ Receive \/ ReturnFirst
Worker(c) == Find(c) \/ Send(c)
Next == Main \/ (\E c \in Checks : Worker(c)) \/ Returned

\* The Go scheduler runs every goroutine that can go on, and a ping ends.
Spec == Init /\ [][Next]_vars /\ WF_vars(Main) /\ \A c \in Checks : WF_vars(Worker(c))
-----------------------------------------------------------------------------
(* Properties *)

\* The probe says that the server is ready exactly when every store is, whatever
\* order the answers come in (health.go:69-75).
ReadyIffAllUp ==
    pc = "returned" => (result = Nil <=> \A c \in configured : outcome[c] = Nil)

\* When Ready has returned no goroutine is left behind that would use the
\* context, or wait for a receiver (health.go:62-74).
NoGoroutineLeft ==
    pc = "returned" => \A c \in Checks : worker[c] \in {"none", "ended"} /\ errCh = << >>

\* A check never waits for another one to be received: however many have already
\* reported, it can send (health.go:62).
NobodyWaitsToSend ==
    \A c \in Checks : worker[c] = "sending" => Len(errCh) < Capacity

\* Where each goroutine has still to go: to be started, to find something, to send it.
Behind(places) == {c \in configured : worker[c] \in places}
Unstarted == Behind({"none"})
Unfound == Behind({"none", "running"})
Unsent == Behind({"none", "running", "sending"})
StepsLeft ==
    IF pc = "returned" THEN 0
    ELSE Cardinality(Unstarted) + Cardinality(Unfound) + Cardinality(Unsent)
         + (n - received) + (IF pc = "spawn" THEN 2 ELSE 1)

\* No step is one too many: whatever the order of the answers and of the scheduler,
\* every step brings the return nearer, so Ready with its goroutines takes at most
\* 4 n + 2 (health.go:50-76).
EveryStepCounts ==
    /\ [](StepsLeft \in 0 .. 4 * n + 2)
    /\ [][StepsLeft' < StepsLeft]_vars

\* ... and none is missing: until it returns Ready or one of its goroutines can go on.
ReadyCanGoOn ==
    \/ pc = "spawn"
    \/ pc = "collect" /\ (errCh # << >> \/ received = n)
WorkerCanGoOn(c) ==
    \/ worker[c] = "running"
    \/ worker[c] = "sending" /\ Len(errCh) < Capacity
NeverStuck ==
    pc = "returned" \/ ReadyCanGoOn \/ \E c \in Checks : WorkerCanGoOn(c)

\* Ready answers once its checks end.
Answers == <>(pc = "returned")
-----------------------------------------------------------------------------
(* The inductive invariant *)

Ended == {c \in Checks : worker[c] = "ended"}

\* Every check that has ended is either received or in the channel, and what it
\* found is not lost on the way; the others are still to send, and Ready goes on
\* to collect only when all are under way.
ReadyInvariant ==
    /\ TypeOK
    /\ \A c \in Checks : worker[c] # "none" => c \in configured /\ n > 1
    /\ Cardinality(Ended) = received + Len(errCh)
    /\ (\/ first # Nil
        \/ \E i \in 1 .. Len(errCh) : errCh[i] # Nil) <=> \E c \in Ended : outcome[c] # Nil
    /\ pc = "spawn" => received = 0
    /\ pc # "spawn" /\ n > 1 => \A c \in configured : worker[c] # "none"
    /\ pc = "collect" => n > 1
    /\ pc = "returned" /\ n > 1 => received = n /\ result = first
    /\ ReadyIffAllUp
=============================================================================
