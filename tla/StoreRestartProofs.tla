------------------------- MODULE StoreRestartProofs -------------------------
(***************************************************************************)
(* Proofs about StoreRestart: whatever image a restart of Redis brings     *)
(* back, and however often it happens, the harm ends with the lifetime of  *)
(* the tokens that were signed before it.                                  *)
(*                                                                         *)
(* The lemmas of AuthServiceProofs keep the parts of the invariant for one *)
(* token or request at a time; that is what carries them over to here,     *)
(* where they hold of some tokens only.                                    *)
(***************************************************************************)
EXTENDS StoreRestart, AuthServiceProofs

USE AuthAssumption

LEMMA EmptyImage == Empty \in Image
  BY DEF Empty, Image, NoKey, RefreshKey, Ids

LEMMA RestartInvariantInit == RestartInit => RestartInvariant
  <1> SUFFICES ASSUME RestartInit PROVE RestartInvariant
    OBVIOUS
  <1>1. SessionInvariant
    BY InvariantInit DEF RestartInit
  <1>2. ImageKept /\ ExposedExpire
    BY EmptyImage DEF RestartInit, ImageKept, ExposedExpire, Empty, NoKey
  <1>3. QED
    BY <1>1, <1>2
    DEF SessionInvariant, BlacklistOutlives, KeyOutlives, Rotated, Dropped, RestartInvariant
-----------------------------------------------------------------------------
(* The steps of AuthService *)

\* A token that was signed stays as it is.
LEMMA SignedStays ==
  ASSUME TypeOK, Control, [Next]_vars, NEW j \in Signed
  PROVE  claims'[j] = claims[j]
  BY Minting DEF Signed, Control, ControlOf

\* An exposed token of which nothing more is said is exposed for good.
LEMMA SessionStepKeeps ==
  ASSUME RestartInvariant, [Next]_vars, UNCHANGED redisVars
  PROVE  RestartInvariant'
  <1>1. TypeOK /\ Control /\ Presented /\ Fresh /\ ExpiryBounds /\ KeySetLast
        /\ Witnessed /\ PairReflectsRequestInterval
    BY DEF RestartInvariant
  <1>2. TypeOK' /\ Control' /\ Presented' /\ Fresh' /\ ExpiryBounds' /\ KeySetLast'
        /\ Witnessed' /\ PairReflectsRequestInterval'
    BY <1>1, NextType, ControlStep, PresentedStep, FreshStep, ExpiryBoundsStep,
       KeySetLastStep, WitnessedStep, PairStep
  <1>3. ASSUME NEW j \in Requests \ exposed
        PROVE  BlacklistOutlivesOf(j)' /\ KeyOutlivesOf(j)'
    BY <1>1, <1>3, BlacklistOutlivesStep, KeyOutlivesStep DEF RestartInvariant
  <1>4. ASSUME NEW r \in Requests, input'[r].refresh.jti \notin exposed
        PROVE  RotatedOf(r)' /\ DroppedOf(r)'
    <2>1. CASE input'[r] = input[r]
      BY <1>1, <1>4, <2>1, RotatedStep, DroppedStep DEF RestartInvariant
    <2>2. CASE input'[r] # input[r]
      <3>1. pc[r] = "idle" /\ reply[r] = "none" /\ pc'[r] # "idle"
        BY <1>1, <2>2, Receiving DEF Control, ControlOf
      <3>2. RotatedOf(r) /\ DroppedOf(r)
        BY <3>1 DEF RotatedOf, DroppedOf
      <3>3. QED
        BY <1>1, <3>2, RotatedStep, DroppedStep
    <2>3. QED
      BY <2>1, <2>2
  <1>5. ImageKept'
    <2>1. \A j \in Requests : pc'[j] # "done" => pc[j] # "done"
      BY <1>1, Settled DEF Same
    <2>2. QED
      BY <2>1 DEF RestartInvariant, ImageKept, redisVars
  <1>6. ExposedExpire'
    BY <1>1, SignedStays DEF RestartInvariant, ExposedExpire, Signed, redisVars
  <1>7. QED
    BY <1>2, <1>3, <1>4, <1>5, <1>6 DEF RestartInvariant, redisVars
-----------------------------------------------------------------------------
(* A restart *)

LEMMA SnapshotKeeps ==
  ASSUME RestartInvariant, Snapshot PROVE RestartInvariant'
  <1>1. UNCHANGED vars /\ exposed' = exposed /\ restartedAt' = restartedAt
    BY DEF Snapshot
  <1>2. ImageKept'
    BY DEF RestartInvariant, Snapshot, ImageKept, Image, TypeOK, KeySetLast, vars,
       requestVars
  <1>3. QED
    BY <1>1, <1>2
    DEF RestartInvariant, TypeOK, Control, ControlOf, Presented, Fresh, ExpiryBounds,
        KeySetLast, BlacklistOutlivesOf, KeyOutlivesOf, RotatedOf, DroppedOf, Witnessed,
        PairReflectsRequestInterval, ExposedExpire, Signed, LoggedOut, Answered,
        Delivered, LiveRows, vars, dbVars, storeVars, requestVars

LEMMA RestartKeeps ==
  ASSUME RestartInvariant, Restart PROVE RestartInvariant'
  <1>1. /\ UNCHANGED <<now, users, userWrites, witnessed, spent, lost>>
        /\ UNCHANGED <<pc, reply, input, subject, claims>>
        /\ exposed' = Signed /\ restartedAt' = now
    BY DEF Restart, dbVars, requestVars
  <1>2. PICK image \in {saved, Empty} :
          saved' = image /\ refreshKeys' = image.refreshKeys /\ blacklist' = image.blacklist
    BY DEF Restart
  <1>3. image \in Image /\ \A j \in Requests : pc[j] # "done" => image.refreshKeys[j].expires = 0
    BY EmptyImage DEF RestartInvariant, ImageKept, Empty, NoKey
  <1>4. TypeOK'
    BY <1>1, <1>2, <1>3 DEF RestartInvariant, TypeOK, Image
  <1>5. KeySetLast' /\ ImageKept'
    BY <1>1, <1>2, <1>3 DEF KeySetLast, ImageKept
  <1>6. Control' /\ Presented' /\ Fresh' /\ ExpiryBounds' /\ Witnessed'
        /\ PairReflectsRequestInterval'
    BY <1>1
    DEF RestartInvariant, Control, ControlOf, Presented, Fresh, ExpiryBounds, Witnessed,
        PairReflectsRequestInterval, Delivered, LiveRows
  <1>7. ExposedExpire'
    BY <1>1 DEF RestartInvariant, TypeOK, ExpiryBounds, ExposedExpire, Signed
  <1>8. Delivered \subseteq Signed
    BY DEF Delivered, Signed
  <1>9. ASSUME NEW j \in Requests \ Signed
        PROVE  BlacklistOutlivesOf(j)' /\ KeyOutlivesOf(j)'
    BY <1>1, <1>6, <1>8
    DEF BlacklistOutlivesOf, KeyOutlivesOf, LoggedOut, Answered, Presented, Delivered
  <1>10. ASSUME NEW r \in Requests, input'[r].refresh.jti \notin Signed
         PROVE  RotatedOf(r)' /\ DroppedOf(r)'
    BY <1>1, <1>6, <1>8, <1>10 DEF RotatedOf, DroppedOf, Presented, Delivered
  <1>11. QED
    BY <1>1, <1>4, <1>5, <1>6, <1>7, <1>9, <1>10 DEF RestartInvariant

LEMMA RestartInvariantStep ==
  RestartInvariant /\ [RestartNext]_allVars => RestartInvariant'
  <1>1. UNCHANGED allVars => [Next]_vars /\ UNCHANGED redisVars
    BY DEF allVars
  <1>2. QED
    BY <1>1, SessionStepKeeps, SnapshotKeeps, RestartKeeps DEF RestartNext
-----------------------------------------------------------------------------
(* The theorems *)

\* The sessions never depend on a key that a restart took or brought back, other than
\* through the tokens that were signed before it.
THEOREM RestartInvariantHolds == RestartSpec => []RestartInvariant
  BY RestartInvariantInit, RestartInvariantStep, PTL DEF RestartSpec

\* Whatever Redis forgets or brings back, no token disagrees with the answers about it
\* for longer than one lifetime (store.go:32-61), and one signed since the restart
\* never does.
THEOREM HarmIsBounded == RestartSpec => []HarmPasses
  <1>1. ASSUME RestartInvariant PROVE HarmPasses
    <2>1. /\ TypeOK /\ Presented /\ ExposedExpire
          /\ now \in Int /\ restartedAt \in Int
          /\ \A j \in Requests : claims[j].accessExp \in Int /\ claims[j].refreshExp \in Int
      BY <1>1 DEF RestartInvariant, TypeOK, Claims, ExposedExpire
    <2>2. ASSUME NEW j \in exposed
          PROVE  /\ now < claims[j].accessExp => Harmed(j, AccessTTL)
                 /\ now < claims[j].refreshExp => Harmed(j, RefreshTTL)
      BY <2>1 DEF ExposedExpire, Signed, Harmed
    <2>3. ASSUME NEW j \in Requests, LoggedOut(j), now < claims[j].accessExp
          PROVE  Blacklisted(j) \/ Harmed(j, AccessTTL)
      BY <1>1, <2>1, <2>2, <2>3, Covered DEF RestartInvariant
    <2>4. ASSUME NEW j \in Delivered \ spent, now < claims[j].refreshExp
          PROVE  Stored(j) \/ Harmed(j, RefreshTTL)
      BY <1>1, <2>1, <2>2, <2>4, Remembered DEF RestartInvariant, Delivered
    <2>5. ASSUME NEW r \in Requests,
                 \/ Answered(r, "refresh", "ok")
                 \/ Answered(r, "logout", "noContent") /\ input[r].refresh.typ = "refresh",
                 input[r].refresh.jti \notin lost, Usable(input[r].refresh.jti)
          PROVE  Harmed(input[r].refresh.jti, RefreshTTL)
      <3>1. input[r].refresh.jti \in exposed
        BY <1>1, <2>1, <2>5, EndedByRotation, EndedByLogout DEF RestartInvariant
      <3>2. QED
        BY <2>2, <2>5, <3>1 DEF Usable
    <2>6. QED
      BY <2>3, <2>4, <2>5 DEF HarmPasses
  <1>2. QED
    BY <1>1, RestartInvariantHolds, PTL

\* The access check, which reads the blacklist as it then is, lets a logged out token
\* through for one access lifetime after a restart at the most (service.go:102-120).
THEOREM LateAdmittanceEnds == RestartSpec => LateAdmittance
  <1> DEFINE Late == \A r \in Requests :
               LET j == input[r].access.jti IN
               Admits(r) /\ now < claims[j].accessExp /\ LoggedOut(j) =>
                  Harmed(j, AccessTTL)
  <1>1. ASSUME RestartInvariant, [RestartNext]_allVars PROVE [Late]_allVars
    <2> SUFFICES ASSUME NEW r \in Requests, Admits(r), LoggedOut(input[r].access.jti),
                        now < claims[input[r].access.jti].accessExp
                 PROVE  Harmed(input[r].access.jti, AccessTTL)
      OBVIOUS
    <2> DEFINE j == input[r].access.jti
    <2>1. TypeOK /\ Control /\ Presented /\ ExposedExpire
      BY <1>1 DEF RestartInvariant
    <2>2. Next
      BY <1>1 DEF Admits, RestartNext, Snapshot, Restart, allVars, vars, requestVars
    <2>3. j \in Requests /\ ~ Blacklisted(j)
      BY <2>1, <2>2, Admittance
    <2>4. j \in exposed
      BY <1>1, <2>1, <2>3, Covered DEF RestartInvariant
    <2>5. /\ now \in Int /\ restartedAt \in Int /\ claims[j].accessExp \in Int
          /\ AccessTTL \in Int
      BY <2>1, <2>3 DEF TypeOK, Claims, ExposedExpire
    <2>6. QED
      BY <2>1, <2>4, <2>5 DEF ExposedExpire, Harmed
  <1>2. QED
    BY <1>1, RestartInvariantHolds, PTL DEF RestartSpec, LateAdmittance

\* A pair still names a user and a role that were those of a live row during the
\* request that issued it: Postgres alone decides that (service.go:122-135).
THEOREM PairsReflectThroughRestarts == RestartSpec => []PairReflectsRequestInterval
  <1>1. RestartInvariant => PairReflectsRequestInterval
    BY DEF RestartInvariant
  <1>2. QED
    BY <1>1, RestartInvariantHolds, PTL
=============================================================================
