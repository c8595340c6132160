---------------------------- MODULE StoreRestart ----------------------------
(***************************************************************************)
(* The sessions of AuthService over a Redis that restarts.                 *)
(*                                                                         *)
(* Nothing in the code tells a key that was never set from one that Redis  *)
(* forgot (store.go:36-42 and 55-61), and docker-compose.yml:20-30 runs it *)
(* without a volume or an append-only file: it saves an image of its keys  *)
(* now and then, and a restart brings that image back, or nothing.  So a   *)
(* restart can drop a blacklisted token, forget a refresh token, and bring *)
(* back one that was rotated or logged out.                                *)
(*                                                                         *)
(* Redis itself is not under src/: what it does here is what the code      *)
(* above leaves open.                                                      *)
(***************************************************************************)
EXTENDS AuthService

VARIABLES
    saved,       \* the image that a restart may bring back
    exposed,     \* history: tokens that were signed when Redis last restarted
    restartedAt  \* history: when it did

redisVars == <<saved, exposed, restartedAt>>
allVars == <<vars, redisVars>>

Image == [refreshKeys : [Requests -> RefreshKey], blacklist : [Requests -> Int]]
Empty == [refreshKeys |-> [j \in Requests |-> NoKey],
          blacklist |-> [j \in Requests |-> 0]]

RestartInit ==
    /\ Init
    /\ saved = Empty
    /\ exposed = {}
    /\ restartedAt = 0

Snapshot ==
    /\ saved' = [refreshKeys |-> refreshKeys, blacklist |-> blacklist]
    /\ UNCHANGED <<vars, exposed, restartedAt>>

\* The image keeps the expiry of each key as a point in time.
Signed == {j \in Requests : claims[j].user # None}
Restart ==
    /\ \E image \in {saved, Empty} :
         /\ saved' = image
         /\ refreshKeys' = image.refreshKeys
         /\ blacklist' = image.blacklist
    /\ exposed' = Signed
    /\ restartedAt' = now
    /\ UNCHANGED <<now, dbVars, spent, lost, requestVars>>

RestartNext ==
    \/ Next /\ UNCHANGED redisVars
    \/ Snapshot
    \/ Restart

RestartSpec == RestartInit /\ [][RestartNext]_allVars
-----------------------------------------------------------------------------
(* Properties *)

\* Token j may be out of step with what its clients were told: it was signed before a
\* restart that is less than a lifetime ago.
Harmed(j, ttl) == j \in exposed /\ now < restartedAt + ttl

\* The harm of a restart is bounded, though no code undoes it: a token that was logged
\* out and not blacklisted (store.go:48-61), one that was handed out and is forgotten
\* (store.go:32-42), and one that was rotated or logged out and is usable again were
\* all signed before the restart, and one lifetime after it none of them is left.  For
\* tokens signed since, all that AuthService promises holds as ever.
HarmPasses ==
    /\ \A j \in Requests :
         LoggedOut(j) /\ now < claims[j].accessExp =>
            Blacklisted(j) \/ Harmed(j, AccessTTL)
    /\ \A j \in Delivered \ spent :
         now < claims[j].refreshExp => Stored(j) \/ Harmed(j, RefreshTTL)
    /\ \A r \in Requests :
         LET j == input[r].refresh.jti IN
         \/ Answered(r, "refresh", "ok")
         \/ Answered(r, "logout", "noContent") /\ input[r].refresh.typ = "refresh"
         => j \in lost \/ ~ Usable(j) \/ Harmed(j, RefreshTTL)

\* The access check lets a logged out token through that long and no longer
\* (service.go:102-120).
LateAdmittance ==
    [][\A r \in Requests :
         LET j == input[r].access.jti IN
         Admits(r) /\ now < claims[j].accessExp /\ LoggedOut(j) =>
            Harmed(j, AccessTTL)]_allVars
-----------------------------------------------------------------------------
(* The inductive invariant *)

\* The image is one of the store: no key of it belongs to a request that has yet to
\* set it.
ImageKept ==
    /\ saved \in Image
    /\ \A j \in Requests : pc[j] # "done" => saved.refreshKeys[j].expires = 0

\* What was signed before the restart expires within a lifetime of it.
ExposedExpire ==
    /\ exposed \subseteq Signed
    /\ restartedAt \in Nat
    /\ \A j \in exposed :
         /\ claims[j].accessExp <= restartedAt + AccessTTL
         /\ claims[j].refreshExp <= restartedAt + RefreshTTL

\* The invariant of AuthService, less what it says of the tokens exposed.
RestartInvariant ==
    /\ TypeOK
    /\ Control
    /\ Presented
    /\ Fresh
    /\ ExpiryBounds
    /\ KeySetLast
    /\ \A j \in Requests \ exposed : BlacklistOutlivesOf(j) /\ KeyOutlivesOf(j)
    /\ \A r \in Requests :
         input[r].refresh.jti \notin exposed => RotatedOf(r) /\ DroppedOf(r)
    /\ Witnessed
    /\ PairReflectsRequestInterval
    /\ ImageKept
    /\ ExposedExpire
=============================================================================
