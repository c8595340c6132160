----------------------- MODULE RefreshTokenLifecycle -----------------------
(***************************************************************************)
(* What the token store promises about refresh tokens: a token is stored   *)
(* at most once and, once it stops being accepted, it is never accepted    *)
(* again.  A token that was never stored may also be given up.  Nothing is *)
(* said of who retires a token: a revocation, the expiry of its key, or a  *)
(* request that ended without issuing it.                                  *)
(***************************************************************************)
CONSTANT Tokens

VARIABLE status

Statuses == {"unborn", "live", "dead"}

Init == status = [t \in Tokens |-> "unborn"]

\* One token becomes acceptable, for the first and only time.
Store(t) ==
    /\ status[t] = "unborn"
    /\ status' = [status EXCEPT ![t] = "live"]

\* A set of tokens stops being acceptable for good: several keys may expire
\* in the same instant.
Retire(S) ==
    status' = [t \in Tokens |-> IF t \in S THEN "dead" ELSE status[t]]

Next ==
    \/ \E t \in Tokens : Store(t)
    \/ \E S \in SUBSET Tokens : Retire(S)

Spec == Init /\ [][Next]_status
=============================================================================
