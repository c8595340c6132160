--------------------------- MODULE PipelineProofs ---------------------------
(***************************************************************************)
(* Proofs about Pipeline, for every finite set of requests and whatever    *)
(* they may ask.                                                           *)
(*                                                                         *)
(* The inductive invariant says of every request where it stands in its    *)
(* chain and what the handlers behind it have left.  A step moves one      *)
(* request (Moved), whose new context has Control and Private again, and   *)
(* leaves the others alone; what a step makes of a context is said once,   *)
(* field by field (Same).                                                  *)
(***************************************************************************)
EXTENDS Pipeline, FiniteSetTheorems, TLAPS
-----------------------------------------------------------------------------
(* The configuration, for any number of settings: what an accepted one     *)
(* promises, however the file and the environment are mixed.               *)

LEMMA InitConfigures == ConfigInit => ConfigInvariant
  BY DEF ConfigInit, ConfigInvariant, Accepted, DefaultConfig, Keys, Durations, Secrets,
         Lists, Flags

\* Validating changes the path of the metrics only.
LEMMA ValidatedKeeps ==
  ASSUME NEW c, DOMAIN c = Keys, Valid(c)
  PROVE  /\ Valid(Validated(c))
         /\ DOMAIN Validated(c) = Keys
         /\ Validated(c).metrics_path # ""
         /\ \A k \in Keys \ {"metrics_path"} : Validated(c)[k] = c[k]
  BY DEF Valid, Validated, Keys, Durations, Secrets

\* Every step from the first setting to the logger keeps the invariant.
LEMMA ConfigStep == ConfigInvariant /\ [ConfigNext]_configVars => ConfigInvariant'
  <1> SUFFICES ASSUME ConfigInvariant, [ConfigNext]_configVars PROVE ConfigInvariant'
    OBVIOUS
  <1> USE DEF ConfigInvariant, Accepted
  <1>1. ASSUME NEW k, NEW v, SetFile(k, v) PROVE ConfigInvariant'
    BY <1>1 DEF SetFile, Unsettled
  <1>2. ASSUME NEW k, NEW v, SetEnv(k, v) PROVE ConfigInvariant'
    BY <1>2 DEF SetEnv, Unsettled
  <1>3. CASE ParseFails \/ ValidateFails \/ NewLoggerFails
    BY <1>3 DEF ParseFails, ValidateFails, NewLoggerFails, Refuse
  <1>4. CASE Load
    <2>1. DOMAIN ApplyEnv(Unmarshal) = Keys
      BY DEF ApplyEnv
    <2>2. (ApplyEnv(Unmarshal))' = ApplyEnv(Unmarshal)
      BY <1>4 DEF Load, ApplyEnv, Unmarshal, Heeded
    <2>3. (ApplyEnv(Unmarshal)).max_body_bytes \in Nat
      <3>1. DOMAIN ParseInt64 = {"0", "64"} /\ \A v \in DOMAIN ParseInt64 : ParseInt64[v] \in Nat
        BY DEF ParseInt64
      <3>2. \A v : Readable("max_body_bytes", v) => Value("max_body_bytes", v) \in Nat
        BY <3>1 DEF Readable, Value, Flags
      <3>3. Unmarshal["max_body_bytes"] \in Nat
        BY <1>4, <3>2 DEF Load, Unmarshal, DefaultConfig, Keys
      <3>4. (ApplyEnv(Unmarshal))["max_body_bytes"] \in Nat
        BY <3>2, <3>3 DEF ApplyEnv, Heeded, Lists, Keys
      <3>5. QED
        BY <3>4
    <2>4. QED
      BY <1>4, <2>1, <2>2, <2>3, ValidatedKeeps DEF Load, Keys
  <1>5. CASE NewLogger
    <2>1. (ApplyEnv(Unmarshal))' = ApplyEnv(Unmarshal)
      BY <1>5 DEF NewLogger, ApplyEnv, Unmarshal, Heeded
    <2>2. QED
      BY <1>5, <2>1 DEF NewLogger, Outputs
  <1>6. CASE UNCHANGED configVars
    <2>1. (ApplyEnv(Unmarshal))' = ApplyEnv(Unmarshal)
      BY <1>6 DEF configVars, ApplyEnv, Unmarshal, Heeded
    <2>2. QED
      BY <1>6, <2>1 DEF configVars
  <1>7. QED
    BY <1>1, <1>2, <1>3, <1>4, <1>5, <1>6 DEF ConfigNext, Settled

\* What is accepted was found valid (config.go:223-260).
LEMMA InvariantUsable == ConfigInvariant => AcceptedIsUsable
  <1> SUFFICES ASSUME ConfigInvariant PROVE AcceptedIsUsable
    OBVIOUS
  <1>1. DOMAIN ApplyEnv(Unmarshal) = Keys
    BY DEF ApplyEnv
  <1>2. ASSUME Accepted
        PROVE  /\ \A k \in Durations : Accessor(k) = config[k]
               /\ config.max_body_bytes > 0
               /\ "" \notin {config.access_secret, config.refresh_secret}
    BY <1>2 DEF ConfigInvariant, Valid, Accessor, Secrets
  <1>3. ASSUME Accepted PROVE config.metrics_path # ""
    BY <1>1, <1>3 DEF ConfigInvariant, Validated, Keys
  <1>4. QED
    BY <1>2, <1>3 DEF AcceptedIsUsable, ConfigInvariant

\* The merge takes for a secret and for the environment what was said last.
LEMMA InvariantChosen == ConfigInvariant => ProductionSecretsChosen
  <1> SUFFICES ASSUME ConfigInvariant, Accepted, IsProduction(LastSaid("environment"))
               PROVE  \A k \in Secrets :
                        LastSaid(k) # DefaultConfig[k] /\ config[k] = LastSaid(k)
    BY DEF ProductionSecretsChosen
  <1>1. ASSUME NEW k \in Secrets \cup {"environment"}
        PROVE  ApplyEnv(Unmarshal)[k] = LastSaid(k)
    BY DEF ApplyEnv, Unmarshal, Heeded, LastSaid, Readable, Value, Secrets, Keys, Flags, Lists
  <1>2. ASSUME NEW k \in Secrets \cup {"environment"}
        PROVE  config[k] = LastSaid(k)
    BY <1>1 DEF ConfigInvariant, Validated, ApplyEnv, Secrets, Keys
  <1>3. config.environment = config["environment"]
    OBVIOUS
  <1>4. QED
    BY <1>2, <1>3 DEF ConfigInvariant, Valid

\* However many settings are made, the invariant of the configuration holds
\* (config.go:195-260).
THEOREM ConfigInvariantHolds == ConfigSpec => []ConfigInvariant
  BY InitConfigures, ConfigStep, PTL DEF ConfigSpec
-----------------------------------------------------------------------------
(* The requests *)

\* What the safety properties say of one request.
Private(c) ==
    /\ c.work # "none" =>
         /\ c.kind.path \in Protected => c.kind.token \in {"user", "admin"}
         /\ c.kind.path \in AdminOnly => c.kind.token = "admin"
    /\ c.work = "read" => c.kind.size <= engine.limit
    /\ c.allow = "*" /\ c.kind.origin # "*" => engine.origins = <<"*">> /\ ~ c.credentials
    /\ c.allow \notin {"", "*"} =>
         c.allow = c.kind.origin /\ \E i \in DOMAIN engine.origins : engine.origins[i] = c.allow

\* Request r moves to context c; nothing that the engine was built from changes.
Moved(r, c) ==
    /\ phase = "serving"
    /\ UNCHANGED <<configVars, engine>>
    /\ req' = [req EXCEPT ![r] = c]

LEMMA PrivateParts ==
  (\A r \in Requests : Private(req[r])) <=> GuardsHold /\ BodiesLimited /\ SharedAsConfigured
  BY DEF Private, GuardsHold, BodiesLimited, SharedAsConfigured

LEMMA IdleContext ==
  /\ Idle \in Contexts
  /\ Idle.at = "none" /\ Idle.next = "RequestID" /\ Idle.frames = {} /\ Idle.work = "none"
  /\ Idle.answers = 0 /\ Idle.line = 0 /\ Idle.count = 0
  /\ ~ Idle.reported /\ Idle.named = "" /\ Idle.logs = "base" /\ Idle.allow = ""
  <1>1. (CHOOSE k \in Kinds : TRUE) \in Kinds
    BY PipelineAssumption
  <1>2. QED
    BY <1>1 DEF Idle, Contexts, Outer

\* The others stay as they are, and the one that moves is as its new context.
LEMMA OthersStay ==
  ASSUME TypeOK, NEW r \in Requests, NEW c \in Contexts, Moved(r, c),
         NEW s \in Requests, s # r, Control(req[s]), Private(req[s])
  PROVE  Control(req[s])' /\ Private(req[s])'
  <1>1. req'[s] = req[s]
    BY DEF Moved, TypeOK
  <1>2. Control(req[s])'
    <2>1. GoesIn(req[s]) => GoesIn(req[s])'
      BY <1>1 DEF Moved, GoesIn, Frames, Skips, Matches
    <2>2. Panics(req[s]) => Panics(req[s])'
      BY <1>1 DEF Moved, Panics, Frames, Skips
    <2>3. GoesOut(req[s]) => GoesOut(req[s])'
      BY <1>1 DEF Moved, GoesOut, Frames, Skips
    <2>4. QED
      BY <1>1, <2>1, <2>2, <2>3 DEF Control
  <1>3. Private(req[s])'
    BY <1>1 DEF Moved, Private
  <1>4. QED
    BY <1>2, <1>3

LEMMA ItMoves ==
  ASSUME TypeOK, NEW r \in Requests, NEW c \in Contexts, Moved(r, c),
         Control(c), Private(c)
  PROVE  Control(req[r])' /\ Private(req[r])'
  <1>1. req'[r] = c
    BY DEF Moved, TypeOK
  <1>2. Control(req[r])'
    <2>1. GoesIn(c) => GoesIn(req[r])'
      BY <1>1 DEF Moved, GoesIn, Frames, Skips, Matches
    <2>2. Panics(c) => Panics(req[r])'
      BY <1>1 DEF Moved, Panics, Frames, Skips
    <2>3. GoesOut(c) => GoesOut(req[r])'
      BY <1>1 DEF Moved, GoesOut, Frames, Skips
    <2>4. QED
      BY <1>1, <2>1, <2>2, <2>3 DEF Control
  <1>3. Private(req[r])'
    BY <1>1 DEF Moved, Private
  <1>4. QED
    BY <1>2, <1>3

-----------------------------------------------------------------------------
(* The gauge *)

LEMMA InsideAfter ==
  ASSUME TypeOK, NEW r \in Requests, NEW c \in Contexts, Moved(r, c)
  PROVE  Inside' = IF "Metrics" \in c.frames THEN Inside \cup {r} ELSE Inside \ {r}
  BY DEF Moved, TypeOK, Inside

LEMMA Counts ==
  ASSUME NEW I \in SUBSET Requests, NEW L \in SUBSET Requests
  PROVE  /\ IsFiniteSet(I) /\ Cardinality(I) \in Nat
         /\ IsFiniteSet(L) /\ Cardinality(L) \in Nat
         /\ I \cap L = {} => Cardinality(I) + Cardinality(L) \in 0 .. Cardinality(Requests)
  <1>1. IsFiniteSet(I) /\ IsFiniteSet(L)
    BY PipelineAssumption, FS_Subset
  <1>2. Cardinality(I) \in Nat /\ Cardinality(L) \in Nat /\ Cardinality(Requests) \in Nat
    BY <1>1, PipelineAssumption, FS_CardinalityType
  <1>3. ASSUME I \cap L = {}
        PROVE  Cardinality(I) + Cardinality(L) \in 0 .. Cardinality(Requests)
    <2>1. Cardinality(I \cup L) = Cardinality(I) + Cardinality(L)
      BY <1>1, <1>2, <1>3, FS_Union, FS_EmptySet
    <2>2. Cardinality(I \cup L) <= Cardinality(Requests)
      BY PipelineAssumption, FS_Subset
    <2>3. QED
      BY <1>2, <2>1, <2>2
  <1>4. QED
    BY <1>1, <1>2, <1>3

\* A request that neither enters nor leaves Metrics leaves the gauge alone.
LEMMA GaugeStays ==
  ASSUME TypeOK, GaugeAccounted, NEW r \in Requests, NEW c \in Contexts, Moved(r, c),
         "Metrics" \in c.frames <=> "Metrics" \in req[r].frames, Unmetered
  PROVE  GaugeAccounted'
  <1>1. Inside' = Inside
    BY InsideAfter DEF Inside
  <1>2. QED
    BY <1>1 DEF GaugeAccounted, Unmetered

LEMMA GaugeUp ==
  ASSUME TypeOK, GaugeAccounted, NEW r \in Requests, NEW c \in Contexts, Moved(r, c),
         "Metrics" \notin req[r].frames, "Metrics" \in c.frames,
         inFlight' = inFlight + 1, leaked' = leaked
  PROVE  GaugeAccounted'
  <1>1. Inside' = Inside \cup {r} /\ r \notin Inside /\ Inside \subseteq Requests
    BY InsideAfter DEF Inside
  <1>2. leaked \subseteq Requests
    BY DEF TypeOK
  <1>3. Cardinality(Inside') = Cardinality(Inside) + 1
    BY <1>1, <1>2, Counts, FS_AddElement
  <1>4. QED
    BY <1>1, <1>2, <1>3, Counts DEF GaugeAccounted

LEMMA GaugeDown ==
  ASSUME TypeOK, GaugeAccounted, NEW r \in Requests, NEW c \in Contexts, Moved(r, c),
         "Metrics" \in req[r].frames, "Metrics" \notin c.frames,
         inFlight' = inFlight - 1, leaked' = leaked
  PROVE  GaugeAccounted'
  <1>1. Inside' = Inside \ {r} /\ r \in Inside /\ Inside \subseteq Requests
    BY InsideAfter DEF Inside
  <1>2. leaked \subseteq Requests
    BY DEF TypeOK
  <1>3. Cardinality(Inside') = Cardinality(Inside) - 1
    BY <1>1, <1>2, Counts, FS_RemoveElement
  <1>4. QED
    BY <1>1, <1>2, <1>3, Counts DEF GaugeAccounted

\* A panic that passes Metrics moves the request to the leaked ones.
LEMMA GaugeLeaks ==
  ASSUME TypeOK, GaugeAccounted, NEW r \in Requests, NEW c \in Contexts, Moved(r, c),
         "Metrics" \in req[r].frames, "Metrics" \notin c.frames, r \notin leaked,
         inFlight' = inFlight, leaked' = leaked \cup {r}
  PROVE  GaugeAccounted'
  <1>1. Inside' = Inside \ {r} /\ r \in Inside /\ Inside \subseteq Requests
    BY InsideAfter DEF Inside
  <1>2. leaked \subseteq Requests
    BY DEF TypeOK
  <1>3. Cardinality(Inside') = Cardinality(Inside) - 1
    BY <1>1, <1>2, Counts, FS_RemoveElement
  <1>4. Cardinality(leaked') = Cardinality(leaked) + 1
    BY <1>1, <1>2, Counts, FS_AddElement
  <1>5. QED
    BY <1>1, <1>2, <1>3, <1>4, Counts DEF GaugeAccounted
-----------------------------------------------------------------------------
(* One request moves *)

LEMMA MovedKeeps ==
  ASSUME PipelineInvariant, NEW r \in Requests, NEW c \in Contexts, Moved(r, c),
         Control(c), Private(c), GaugeAccounted',
         leaked \subseteq leaked', leaked' \subseteq leaked \cup {r},
         r \in leaked' => c.at \in {"panic", "up", "done"} /\ "Metrics" \notin c.frames
  PROVE  PipelineInvariant'
  <1>1. TypeOK /\ \A s \in Requests : Control(req[s]) /\ Private(req[s])
    BY PrivateParts DEF PipelineInvariant
  <1>2. \A s \in Requests : (Control(req[s]) /\ Private(req[s]))'
    BY <1>1, ItMoves, OthersStay
  <1>3. /\ (\A s \in Requests : Control(req[s]))'
        /\ (GuardsHold /\ BodiesLimited /\ SharedAsConfigured)'
    BY <1>2 DEF Private, GuardsHold, BodiesLimited, SharedAsConfigured
  <1>4. req' \in [Requests -> Contexts] /\ req'[r] = c
    BY <1>1 DEF Moved, TypeOK
  <1>5. \A s \in leaked' :
          req'[s].at \in {"panic", "up", "done"} /\ "Metrics" \notin req'[s].frames
    BY <1>1 DEF Moved, TypeOK, PipelineInvariant
  <1>6. ConfigInvariant'
    BY <1>1, ConfigStep DEF Moved, TypeOK
  <1>7. leaked' \subseteq Requests
    BY <1>1 DEF TypeOK
  <1>8. inFlight' \in 0 .. Cardinality(Requests)
    <2>1. Inside' \subseteq Requests /\ Inside' \cap leaked' = {}
      BY <1>5 DEF Inside
    <2>2. QED
      BY <1>7, <2>1, Counts DEF GaugeAccounted
  <1>9. TypeOK'
    BY <1>1, <1>4, <1>6, <1>7, <1>8 DEF TypeOK, Moved
  <1>10. (phase = "serving" => engine.limit > 0)' /\ phase' = "serving"
    BY DEF PipelineInvariant, Moved, configVars
  <1>11. QED
    BY <1>3, <1>5, <1>9, <1>10 DEF PipelineInvariant

\* The invariant at the request that moves.
LEMMA Here ==
  ASSUME PipelineInvariant, NEW r \in Requests
  PROVE  /\ TypeOK /\ GaugeAccounted
         /\ req[r] \in Contexts
         /\ Control(req[r]) /\ Private(req[r])
         /\ req[r].at # "none" => phase = "serving" /\ engine.limit > 0
         /\ engine.limit \in Nat
         /\ r \in leaked => req[r].at \in {"panic", "up", "done"}
                          /\ "Metrics" \notin req[r].frames
  <1>1. TypeOK /\ GaugeAccounted /\ Control(req[r]) /\ Private(req[r])
    BY PrivateParts DEF PipelineInvariant
  <1>2. req[r].at # "none" => phase = "serving" /\ engine.limit > 0
    BY IdleContext DEF PipelineInvariant
  <1>3. QED
    BY <1>1, <1>2 DEF PipelineInvariant, TypeOK

\* A request that called h does not move the gauge, unless h is Metrics.
LEMMA CallsKeep ==
  ASSUME PipelineInvariant, NEW r \in Requests, NEW h, NEW c \in Contexts,
         Calls(r, h, c), Unmetered, Control(c), Private(c),
         "Metrics" \in c.frames <=> "Metrics" \in req[r].frames
  PROVE  PipelineInvariant'
  <1>1. Moved(r, c) /\ r \notin leaked
    BY Here DEF Calls, Moved
  <1>2. GaugeAccounted'
    BY <1>1, Here, GaugeStays
  <1>3. QED
    BY <1>1, <1>2, MovedKeeps DEF Unmetered

-----------------------------------------------------------------------------
(* What the steps make of a context *)

Fields == {"at", "kind", "next", "frames", "id", "principal", "limit", "allow",
           "credentials", "work", "answers", "status", "line", "count", "reported",
           "logs", "named"}

\* c is a context that differs from d in the fields F only.
Same(c, d, F) == c \in Contexts /\ \A f \in Fields \ F : c[f] = d[f]

LEMMA Updates ==
  ASSUME NEW d \in Contexts
  PROVE  /\ \A v \in {"", "uuid"} \cup {k.xid : k \in Kinds} :
              Same([d EXCEPT !.id = v], d, {"id"}) /\ [d EXCEPT !.id = v].id = v
         /\ /\ Same([d EXCEPT !.logs = "request"], d, {"logs"})
            /\ [d EXCEPT !.logs = "request"].logs = "request"
         /\ \A v \in {"user", "admin"} :
              /\ Same([d EXCEPT !.principal = v], d, {"principal"})
              /\ [d EXCEPT !.principal = v].principal = v
         /\ \A v \in Nat :
              Same([d EXCEPT !.limit = v], d, {"limit"}) /\ [d EXCEPT !.limit = v].limit = v
         /\ \A v \in {"begun", "read"} :
              Same([d EXCEPT !.work = v], d, {"work"}) /\ [d EXCEPT !.work = v].work = v
         /\ \A v \in Nat :
              Same([d EXCEPT !.count = v], d, {"count"}) /\ [d EXCEPT !.count = v].count = v
         /\ Same([d EXCEPT !.at = "done"], d, {"at"}) /\ [d EXCEPT !.at = "done"].at = "done"
  <1> USE DEF Contexts, Same, Fields
  <1>1. \A v \in {"", "uuid"} \cup {k.xid : k \in Kinds} :
          Same([d EXCEPT !.id = v], d, {"id"}) /\ [d EXCEPT !.id = v].id = v
    BY ZenonT(40)
  <1>2. /\ Same([d EXCEPT !.logs = "request"], d, {"logs"})
        /\ [d EXCEPT !.logs = "request"].logs = "request"
    BY ZenonT(40)
  <1>3. \A v \in {"user", "admin"} :
          /\ Same([d EXCEPT !.principal = v], d, {"principal"})
          /\ [d EXCEPT !.principal = v].principal = v
    BY ZenonT(40)
  <1>4. \A v \in Nat :
          Same([d EXCEPT !.limit = v], d, {"limit"}) /\ [d EXCEPT !.limit = v].limit = v
    BY ZenonT(40)
  <1>5. \A v \in {"begun", "read"} :
          Same([d EXCEPT !.work = v], d, {"work"}) /\ [d EXCEPT !.work = v].work = v
    BY ZenonT(40)
  <1>6. \A v \in Nat :
          Same([d EXCEPT !.count = v], d, {"count"}) /\ [d EXCEPT !.count = v].count = v
    BY ZenonT(40)
  <1>7. Same([d EXCEPT !.at = "done"], d, {"at"}) /\ [d EXCEPT !.at = "done"].at = "done"
    BY ZenonT(40)
  <1>8. QED
    BY <1>1, <1>2, <1>3, <1>4, <1>5, <1>6, <1>7, Zenon

\* The line and the report, with the name they give the request.
LEMMA Records ==
  ASSUME NEW d \in Contexts
  PROVE  /\ \A v \in Nat, n \in {"", "prefix", "id"} :
              /\ Same([d EXCEPT !.line = v, !.named = n], d, {"line", "named"})
              /\ [d EXCEPT !.line = v, !.named = n].line = v
              /\ [d EXCEPT !.line = v, !.named = n].named = n
         /\ \A n \in {"", "prefix", "id"} :
              /\ Same([d EXCEPT !.reported = TRUE, !.named = n], d, {"reported", "named"})
              /\ [d EXCEPT !.reported = TRUE, !.named = n].reported
              /\ [d EXCEPT !.reported = TRUE, !.named = n].named = n
  <1> USE DEF Contexts, Same, Fields
  <1>1. \A v \in Nat, n \in {"", "prefix", "id"} :
          /\ Same([d EXCEPT !.line = v, !.named = n], d, {"line", "named"})
          /\ [d EXCEPT !.line = v, !.named = n].line = v
          /\ [d EXCEPT !.line = v, !.named = n].named = n
    BY ZenonT(40)
  <1>2. \A n \in {"", "prefix", "id"} :
          /\ Same([d EXCEPT !.reported = TRUE, !.named = n], d, {"reported", "named"})
          /\ [d EXCEPT !.reported = TRUE, !.named = n].reported
          /\ [d EXCEPT !.reported = TRUE, !.named = n].named = n
    BY ZenonT(40)
  <1>3. QED
    BY <1>1, <1>2, Zenon

LEMMA ContinueDoes ==
  ASSUME NEW d \in Contexts, NEW h \in Outer \cup Inner, After(d.kind, d.next) = h
  PROVE  Same(Continue(d), d, {"next"}) /\ Continue(d).next = h
  <1>1. Same([d EXCEPT !.next = h], d, {"next"}) /\ [d EXCEPT !.next = h].next = h
    BY ZenonT(40) DEF Contexts, Same, Fields
  <1>2. QED
    BY <1>1 DEF Continue

LEMMA FramesDo ==
  ASSUME NEW d \in Contexts, NEW F \in SUBSET {"Recovery", "Logger", "Metrics"}
  PROVE  Same([d EXCEPT !.frames = F], d, {"frames"}) /\ [d EXCEPT !.frames = F].frames = F
  BY ZenonT(40) DEF Contexts, Same, Fields

LEMMA CallNextDoes ==
  ASSUME NEW d \in Contexts, NEW h \in Outer \cup Inner, After(d.kind, d.next) = h,
         d.next \in {"Recovery", "Logger", "Metrics"}
  PROVE  /\ Same(CallNext(d), d, {"next", "frames"}) /\ CallNext(d).next = h
         /\ CallNext(d).frames = d.frames \cup {d.next}
  <1> DEFINE e == [d EXCEPT !.next = h]
             F == d.frames \cup {d.next}
  <1>1. F \in SUBSET {"Recovery", "Logger", "Metrics"}
    BY DEF Contexts
  <1>2. Same(e, d, {"next"}) /\ e.next = h
    BY ZenonT(40) DEF Contexts, Same, Fields
  <1>3. CallNext(d) = [e EXCEPT !.frames = F]
    BY <1>2 DEF CallNext, Same, Fields, Contexts
  <1> HIDE DEF e, F
  <1>4. /\ Same([e EXCEPT !.frames = F], e, {"frames"})
        /\ [e EXCEPT !.frames = F].frames = F
    BY <1>1, <1>2, FramesDo DEF Same
  <1>5. QED
    BY <1>2, <1>3, <1>4 DEF Same, Fields, F

LEMMA AbortDoes ==
  ASSUME NEW d \in Contexts
  PROVE  Same(Abort(d), d, {"at"}) /\ Abort(d).at = "up"
  BY DEF Contexts, Same, Fields, Abort

LEMMA PanicDoes ==
  ASSUME NEW d \in Contexts
  PROVE  Same(Panic(d), d, {"at"}) /\ Panic(d).at = "panic"
  BY DEF Contexts, Same, Fields, Panic

LEMMA SendDoes ==
  ASSUME NEW d \in Contexts, NEW status \in Nat
  PROVE  /\ Same(Send(d, status), d, {"answers", "status"})
         /\ Send(d, status).answers = d.answers + 1 /\ Send(d, status).status = status
  <1>1. d.answers + 1 \in Nat
    <2>1. d.answers \in Nat
      BY DEF Contexts
    <2>2. QED
      BY <2>1
  <1>2. \A n \in Nat :
          /\ Same([d EXCEPT !.answers = n, !.status = status], d, {"answers", "status"})
          /\ [d EXCEPT !.answers = n, !.status = status].answers = n
          /\ [d EXCEPT !.answers = n, !.status = status].status = status
    BY DEF Contexts, Same, Fields
  <1>3. QED
    BY <1>1, <1>2 DEF Send

\* A handler that answers and ends the chain.
LEMMA EndsDoes ==
  ASSUME NEW d \in Contexts, NEW status \in Nat
  PROVE  /\ Same(Abort(Send(d, status)), d, {"at", "answers", "status"})
         /\ Abort(Send(d, status)).at = "up"
         /\ Abort(Send(d, status)).answers = d.answers + 1
         /\ Abort(Send(d, status)).status = status
  <1> DEFINE e == Send(d, status)
  <1>1. /\ Same(e, d, {"answers", "status"})
        /\ e.answers = d.answers + 1 /\ e.status = status
    BY SendDoes
  <1> HIDE DEF e
  <1>2. Same(Abort(e), e, {"at"}) /\ Abort(e).at = "up"
    BY <1>1, AbortDoes DEF Same
  <1>3. QED
    BY <1>1, <1>2 DEF Same, Fields, e
-----------------------------------------------------------------------------
(* The way in *)

LEMMA ArriveKeeps ==
  ASSUME PipelineInvariant, NEW r \in Requests, Arrive(r)
  PROVE  PipelineInvariant'
  <1>1. PICK k \in Kinds : req' = [req EXCEPT ![r] = [@ EXCEPT !.at = "down", !.kind = k]]
    BY DEF Arrive
  <1> DEFINE c == [req[r] EXCEPT !.at = "down", !.kind = k]
  <1>2. req[r] \in Contexts /\ req[r] = Idle
    BY Here DEF Arrive, Control
  <1>3. Same(c, req[r], {"at", "kind"}) /\ c.at = "down"
    BY <1>2 DEF Contexts, Same, Fields
  <1>4. req' = [req EXCEPT ![r] = c]
    BY <1>1
  <1> HIDE DEF c
  <1>5. c \in Contexts /\ Moved(r, c) /\ r \notin leaked
    BY <1>3, <1>4, Here DEF Arrive, Moved, Same
  <1>6. /\ req[r].next = "RequestID" /\ req[r].frames = {} /\ req[r].work = "none"
        /\ req[r].answers = 0 /\ req[r].line = 0 /\ req[r].count = 0
        /\ ~ req[r].reported /\ req[r].named = "" /\ req[r].logs = "base"
        /\ req[r].allow = ""
    BY <1>2, IdleContext
  <1>7. Control(c) /\ Private(c)
    BY <1>3, <1>6 DEF Control, GoesIn, Unrecorded, Private, Inner, Same, Fields
  <1>8. GaugeAccounted'
    BY <1>3, <1>5, <1>6, Here, GaugeStays DEF Arrive, Same, Fields
  <1>9. QED
    BY <1>5, <1>7, <1>8, MovedKeeps DEF Arrive, Unmetered

LEMMA RequestIDKeeps ==
  ASSUME PipelineInvariant, NEW r \in Requests, RequestID(r)
  PROVE  PipelineInvariant'
  <1> DEFINE id == GivenId(req[r].kind)
             d == [req[r] EXCEPT !.id = id]
             c == Continue(d)
  <1>1. Calls(r, "RequestID", c) /\ Unmetered
    BY DEF RequestID
  <1>2. /\ req[r] \in Contexts /\ Private(req[r]) /\ GoesIn(req[r])
        /\ req[r].at = "down" /\ req[r].next = "RequestID"
    BY <1>1, Here DEF Calls, Control
  <1>3. Same(d, req[r], {"id"}) /\ d.id = id
    <2>1. id \in {"", "uuid"} \cup {k.xid : k \in Kinds}
      BY <1>2 DEF GivenId, Contexts
    <2> HIDE DEF id
    <2>2. QED
      BY <1>2, <2>1, Updates, Zenon
  <1> HIDE DEF d
  <1>4. After(d.kind, d.next) = "Recovery"
    BY <1>2, <1>3 DEF After, Same, Fields
  <1>5. Same(c, d, {"next"}) /\ c.next = "Recovery"
    BY <1>3, <1>4, ContinueDoes DEF Outer, Same
  <1> HIDE DEF c
  <1>6. Private(c)
    BY <1>2, <1>3, <1>5, ZenonT(40) DEF Private, Same, Fields
  <1>7. c.id = GivenId(c.kind)
    BY <1>3, <1>5 DEF Same, Fields
  <1>8. GoesIn(c) /\ c.at = "down"
    <2>1. /\ c.work = req[r].work /\ c.answers = req[r].answers /\ c.line = req[r].line
          /\ c.count = req[r].count /\ c.reported = req[r].reported
          /\ c.named = req[r].named /\ c.frames = req[r].frames /\ c.logs = req[r].logs
          /\ c.at = req[r].at
      BY <1>3, <1>5 DEF Same, Fields
    <2>2. /\ c.work = "none" /\ c.answers = 0 /\ Unrecorded(c) /\ c.frames = {}
          /\ c.logs = "base" /\ c.at = "down"
      BY <1>2, <2>1 DEF GoesIn, Unrecorded
    <2>3. QED
      BY <1>5, <1>7, <2>2 DEF GoesIn, Inner
  <1>9. QED
    BY <1>1, <1>2, <1>3, <1>5, <1>6, <1>8, CallsKeep DEF Same, Fields, Control

LEMMA RecoveryKeeps ==
  ASSUME PipelineInvariant, NEW r \in Requests, Recovery(r)
  PROVE  PipelineInvariant'
  <1> DEFINE c == CallNext(req[r])
  <1>1. Calls(r, "Recovery", c) /\ Unmetered
    BY DEF Recovery
  <1>2. /\ req[r] \in Contexts /\ Private(req[r]) /\ GoesIn(req[r])
        /\ req[r].at = "down" /\ req[r].next = "Recovery"
    BY <1>1, Here DEF Calls, Control
  <1>3. /\ Same(c, req[r], {"next", "frames"}) /\ c.next = "Logger"
        /\ c.frames = req[r].frames \cup {"Recovery"}
    BY <1>2, CallNextDoes DEF After, Outer
  <1> HIDE DEF c
  <1>4. Private(c)
    BY <1>2, <1>3 DEF Private, Same, Fields
  <1>5. GoesIn(c) /\ c.at = "down"
    BY <1>2, <1>3 DEF GoesIn, Unrecorded, Inner, Same, Fields, Skips
  <1>6. QED
    BY <1>1, <1>2, <1>3, <1>4, <1>5, CallsKeep DEF Same, Fields, Control

LEMMA LoggerKeeps ==
  ASSUME PipelineInvariant, NEW r \in Requests, Logger(r)
  PROVE  PipelineInvariant'
  <1> DEFINE d == [req[r] EXCEPT !.logs = "request"]
             c == IF Skipped(r) THEN Continue(req[r]) ELSE CallNext(d)
  <1>1. Calls(r, "Logger", c) /\ Unmetered
    BY DEF Logger
  <1>2. /\ req[r] \in Contexts /\ Private(req[r]) /\ GoesIn(req[r])
        /\ req[r].at = "down" /\ req[r].next = "Logger"
    BY <1>1, Here DEF Calls, Control
  <1>3. After(req[r].kind, req[r].next) = "CORS"
    BY <1>2 DEF After
  <1>4. /\ Same(c, req[r], {"next", "frames", "logs"}) /\ c.next = "CORS"
        /\ ~ Skipped(r) => c.logs = "request"
        /\ Skipped(r) => c.logs = req[r].logs
        /\ c.frames = req[r].frames \cup (IF Skipped(r) THEN {} ELSE {"Logger"})
    <2>1. CASE Skipped(r)
      BY <1>2, <1>3, <2>1, ContinueDoes DEF Outer, Same, Fields
    <2>2. CASE ~ Skipped(r)
      <3>1. Same(d, req[r], {"logs"}) /\ d.logs = "request"
        BY <1>2, Updates
      <3> HIDE DEF d
      <3>2. After(d.kind, d.next) = "CORS" /\ d.next = "Logger"
        BY <1>2, <1>3, <3>1 DEF Same, Fields
      <3>3. /\ Same(CallNext(d), d, {"next", "frames"}) /\ CallNext(d).next = "CORS"
            /\ CallNext(d).frames = d.frames \cup {"Logger"}
        BY <3>1, <3>2, CallNextDoes DEF Outer, Same
      <3>4. QED
        BY <2>2, <3>1, <3>3 DEF Same, Fields
    <2>3. QED
      BY <2>1, <2>2
  <1> HIDE DEF c, d
  <1>5. Private(c)
    BY <1>2, <1>4 DEF Private, Same, Fields
  <1>6. GoesIn(c) /\ c.at = "down"
    <2>1. /\ c.kind = req[r].kind /\ c.id = req[r].id /\ c.work = req[r].work
          /\ c.answers = req[r].answers /\ c.line = req[r].line /\ c.count = req[r].count
          /\ c.reported = req[r].reported /\ c.named = req[r].named /\ c.at = "down"
      BY <1>2, <1>4 DEF Same, Fields
    <2>2. c.work = "none" /\ c.answers = 0 /\ Unrecorded(c) /\ c.id = GivenId(c.kind)
      BY <1>2, <2>1 DEF GoesIn, Unrecorded
    <2>3. /\ Skips(c) <=> Skipped(r)
          /\ req[r].frames = {"Recovery"} /\ req[r].logs = "base"
      BY <1>2, <2>1 DEF GoesIn, Skips, Skipped
    <2>4. c.frames = Frames(c) \ {"Metrics"}
      BY <1>4, <2>3 DEF Frames
    <2>5. c.logs = LogsBy(c)
      BY <1>4, <2>3 DEF LogsBy
    <2>6. QED
      BY <1>4, <2>1, <2>2, <2>4, <2>5 DEF GoesIn, Inner
  <1>7. QED
    BY <1>1, <1>2, <1>4, <1>5, <1>6, CallsKeep DEF Same, Fields, Control

\* A request whose chain ends before anything was recorded is on its way out.
LEMMA EndsKeep ==
  ASSUME PipelineInvariant, NEW r \in Requests, NEW h, NEW d \in Contexts, NEW status \in Nat,
         Calls(r, h, Abort(Send(d, status))), Unmetered, GoesIn(req[r]),
         req[r].next # "RequestID",
         Same(d, req[r], {"allow", "credentials", "work"}), Private(d), d.frames = Frames(d)
  PROVE  PipelineInvariant'
  <1> DEFINE c == Abort(Send(d, status))
  <1>1. /\ Same(c, d, {"at", "answers", "status"})
        /\ c.at = "up" /\ c.answers = d.answers + 1 /\ c.status = status
    BY EndsDoes
  <1>2. Calls(r, h, c)
    OBVIOUS
  <1> HIDE DEF c
  <1>3. Private(c)
    BY <1>1 DEF Private, Same, Fields
  <1>4. /\ c.answers = 1 /\ Unrecorded(c)
        /\ c.id = GivenId(c.kind) /\ c.frames = Frames(c) /\ c.frames = req[r].frames
    <2>1. /\ d.answers = 0 /\ Unrecorded(d)
          /\ d.id = GivenId(d.kind) /\ d.frames = req[r].frames
      BY DEF Same, Fields, GoesIn, Unrecorded
    <2>2. c.kind = d.kind /\ c.frames = d.frames /\ c.id = d.id
      BY <1>1 DEF Same, Fields
    <2>3. Frames(c) = Frames(d) /\ (Skips(c) <=> Skips(d))
      BY <2>2 DEF Frames, Skips
    <2>4. Unrecorded(c)
      BY <1>1, <2>1 DEF Same, Fields, Unrecorded
    <2>5. c.answers = 1
      BY <1>1, <2>1
    <2>6. c.id = GivenId(c.kind)
      BY <2>1, <2>2
    <2>7. QED
      BY <2>1, <2>2, <2>3, <2>4, <2>5, <2>6
  <1>5. Control(c)
    BY <1>1, <1>4 DEF Control, GoesOut, Unrecorded, Frames
  <1>6. QED
    BY <1>1, <1>2, <1>3, <1>4, <1>5, CallsKeep DEF Same

LEMMA CORSKeeps ==
  ASSUME PipelineInvariant, NEW r \in Requests, CORS(r)
  PROVE  PipelineInvariant'
  <1> DEFINE origin == req[r].kind.origin
             allow == IF AllowAll THEN "*"
                      ELSE IF \E i \in DOMAIN engine.origins : engine.origins[i] = origin
                             THEN origin ELSE ""
             d == IF origin = "" THEN req[r]
                  ELSE [req[r] EXCEPT !.allow = allow, !.credentials = Credentials(origin)]
  <1>1. /\ Calls(r, "CORS", IF req[r].kind.method = "OPTIONS"
                              THEN Abort(Send(d, 204)) ELSE Continue(d))
        /\ Unmetered
    BY DEF CORS
  <1>2. /\ req[r] \in Contexts /\ Private(req[r]) /\ GoesIn(req[r])
        /\ req[r].at = "down" /\ req[r].next = "CORS"
    BY <1>1, Here DEF Calls, Control
  <1>3. Same(d, req[r], {"allow", "credentials"}) /\ Private(d)
    <2>1. CASE origin = ""
      BY <1>2, <2>1 DEF Same
    <2>2. CASE origin # ""
      <3>1. allow \in {"", "*"} \cup {k.origin : k \in Kinds}
        BY <1>2 DEF Contexts
      <3>2. Credentials(origin) \in BOOLEAN
        BY Zenon DEF Credentials
      <3>3. \A a \in {"", "*"} \cup {k.origin : k \in Kinds}, b \in BOOLEAN :
              LET e == [req[r] EXCEPT !.allow = a, !.credentials = b]
              IN  /\ Same(e, req[r], {"allow", "credentials"})
                  /\ e.allow = a /\ e.credentials = b
        BY <1>2, ZenonT(60) DEF Contexts, Same, Fields
      <3>4. /\ Same(d, req[r], {"allow", "credentials"})
            /\ d.allow = allow /\ d.credentials = Credentials(origin)
        BY <2>2, <3>1, <3>2, <3>3, Zenon
      <3> HIDE DEF d
      <3>5. d.kind = req[r].kind /\ d.work = req[r].work
        BY <3>4 DEF Same, Fields
      <3>6. d.allow = "*" /\ d.kind.origin # "*" => AllowAll /\ ~ d.credentials
        BY <3>4, <3>5, Zenon DEF Credentials
      <3>7. d.allow \notin {"", "*"} =>
              /\ d.allow = d.kind.origin
              /\ \E i \in DOMAIN engine.origins : engine.origins[i] = d.allow
        BY <3>4, <3>5
      <3>8. QED
        BY <1>2, <3>4, <3>5, <3>6, <3>7 DEF Private, AllowAll
    <2>3. QED
      BY <2>1, <2>2
  <1> HIDE DEF d
  <1>4. CASE req[r].kind.method = "OPTIONS"
    <2>1. d.frames = Frames(d)
      BY <1>2, <1>3, <1>4 DEF GoesIn, Same, Fields, Frames, Skips, SkipInstrumentation
    <2>2. QED
      BY <1>1, <1>2, <1>3, <1>4, <2>1, EndsKeep DEF Same, Fields
  <1>5. CASE req[r].kind.method # "OPTIONS"
    <2> DEFINE c == Continue(d)
    <2>1. After(d.kind, d.next) = "MaxBodySize"
      BY <1>2, <1>3 DEF After, Same, Fields
    <2>2. Same(c, d, {"next"}) /\ c.next = "MaxBodySize"
      BY <1>3, <2>1, ContinueDoes DEF Outer, Same
    <2>3. Calls(r, "CORS", c)
      BY <1>1, <1>5
    <2> HIDE DEF c
    <2>4. Private(c)
      BY <1>3, <2>2 DEF Private, Same, Fields
    <2>5. GoesIn(c) /\ c.at = "down"
      <3>1. /\ c.kind = req[r].kind /\ c.id = req[r].id /\ c.work = req[r].work
            /\ c.answers = req[r].answers /\ c.line = req[r].line
            /\ c.count = req[r].count /\ c.reported = req[r].reported
            /\ c.frames = req[r].frames /\ c.at = req[r].at
            /\ c.logs = req[r].logs /\ c.named = req[r].named
        BY <1>3, <2>2 DEF Same, Fields
      <3>2. Frames(c) = Frames(req[r]) /\ (Skips(c) <=> Skips(req[r]))
        BY <3>1 DEF Frames, Skips
      <3>3. GoesIn(req[r]) /\ req[r].next = "CORS" /\ req[r].at = "down"
        BY <1>2
      <3>4. /\ c.work = "none" /\ c.answers = 0 /\ Unrecorded(c) /\ c.id = GivenId(c.kind)
            /\ c.frames = Frames(c) \ {"Metrics"} /\ c.logs = LogsBy(c)
        BY <3>1, <3>2, <3>3 DEF GoesIn, Unrecorded, LogsBy
      <3>5. QED
        BY <2>2, <3>1, <3>3, <3>4 DEF GoesIn, Inner
    <2>6. QED
      BY <1>1, <1>2, <1>3, <2>2, <2>3, <2>4, <2>5, CallsKeep DEF Same, Fields, Control
  <1>6. QED
    BY <1>4, <1>5

\* The handler behind the global ones finds what they have left.
LEMMA Enters ==
  ASSUME NEW d \in Contexts, GoesIn(d), d.next \in {"MaxBodySize", "Metrics"},
         NEW c \in Contexts, Same(c, d, {"limit", "next", "frames"}), c.next = Entry(d.kind),
         c.frames = Frames(d), c.limit = IF Skips(d) THEN 0 ELSE engine.limit
  PROVE  GoesIn(c)
  <1>1. /\ c.kind = d.kind /\ c.id = d.id /\ c.work = d.work /\ c.answers = d.answers
        /\ c.line = d.line /\ c.count = d.count /\ c.reported = d.reported
        /\ c.logs = d.logs /\ c.named = d.named
    BY DEF Same, Fields
  <1>2. Frames(c) = Frames(d) /\ (Skips(c) <=> Skips(d))
    BY <1>1 DEF Frames, Skips
  <1>3. /\ c.work = "none" /\ c.answers = 0 /\ Unrecorded(c)
        /\ c.id = GivenId(c.kind) /\ c.logs = LogsBy(c)
    BY <1>1 DEF GoesIn, Unrecorded, LogsBy, Skips
  <1>4. /\ c.next \in {"NoRoute", "JWT", "handler"}
        /\ c.next # "NoRoute" => Matches(c.kind)
        /\ c.next = "handler" => c.kind.path \notin Protected \cup AdminOnly
    BY <1>1 DEF Entry, Protected, AdminOnly
  <1>5. QED
    BY <1>2, <1>3, <1>4 DEF GoesIn, Inner

LEMMA MaxBodySizeKeeps ==
  ASSUME PipelineInvariant, NEW r \in Requests, MaxBodySize(r)
  PROVE  PipelineInvariant'
  <1> DEFINE limit == IF Skipped(r) THEN 0 ELSE engine.limit
             d == [req[r] EXCEPT !.limit = limit]
             c == Continue(d)
  <1>1. Calls(r, "MaxBodySize", c) /\ Unmetered
    BY DEF MaxBodySize
  <1>2. /\ req[r] \in Contexts /\ Private(req[r]) /\ GoesIn(req[r])
        /\ req[r].at = "down" /\ req[r].next = "MaxBodySize"
    BY <1>1, Here DEF Calls, Control
  <1>3. Same(d, req[r], {"limit"}) /\ d.limit = limit
    <2>1. limit \in Nat
      BY Here
    <2> HIDE DEF limit
    <2>2. QED
      BY <1>2, <2>1, Updates
  <1> HIDE DEF d
  <1>4. CASE engine.metrics = ""
    <2>1. After(d.kind, d.next) = Entry(req[r].kind)
      BY <1>2, <1>3, <1>4 DEF After, Same, Fields
    <2>2. Entry(req[r].kind) \in Outer \cup Inner
      BY DEF Entry, Inner
    <2>3. Same(c, d, {"next"}) /\ c.next = Entry(req[r].kind)
      BY <1>3, <2>1, <2>2, ContinueDoes DEF Same
    <2> HIDE DEF c
    <2>4. Private(c)
      BY <1>2, <1>3, <2>3 DEF Private, Same, Fields
    <2>5. Same(c, req[r], {"limit", "next", "frames"}) /\ c.frames = req[r].frames
      BY <1>3, <2>3 DEF Same, Fields
    <2>6. c.frames = Frames(req[r])
      BY <1>2, <1>4, <2>5 DEF GoesIn, Frames, Inner
    <2>7. c.limit = (IF Skips(req[r]) THEN 0 ELSE engine.limit)
      BY <1>3, <2>3 DEF Same, Fields, Skips, Skipped
    <2>8. GoesIn(c) /\ c.at = "down"
      BY <1>2, <2>3, <2>5, <2>6, <2>7, Enters DEF Same, Fields
    <2>9. QED
      BY <1>1, <2>3, <2>4, <2>5, <2>8, CallsKeep DEF Same, Control
  <1>5. CASE engine.metrics # ""
    <2>1. After(d.kind, d.next) = "Metrics"
      BY <1>2, <1>3, <1>5 DEF After, Same, Fields
    <2>2. Same(c, d, {"next"}) /\ c.next = "Metrics"
      BY <1>3, <2>1, ContinueDoes DEF Outer, Same
    <2> HIDE DEF c
    <2>3. Private(c)
      BY <1>2, <1>3, <2>2, ZenonT(40) DEF Private, Same, Fields
    <2>4. Same(c, req[r], {"limit", "next"}) /\ c.frames = req[r].frames
      BY <1>3, <2>2 DEF Same, Fields
    <2>5. c.limit = (IF Skips(c) THEN 0 ELSE engine.limit)
      BY <1>3, <2>2 DEF Same, Fields, Skips, Skipped
    <2>6. GoesIn(c) /\ c.at = "down"
      BY <1>2, <1>5, <2>2, <2>4, <2>5, ZenonT(40)
         DEF GoesIn, Unrecorded, LogsBy, Inner, Same, Fields, Frames, Skips
    <2>7. QED
      BY <1>1, <2>2, <2>3, <2>4, <2>6, CallsKeep DEF Same, Control
  <1>6. QED
    BY <1>4, <1>5

LEMMA MetricsKeeps ==
  ASSUME PipelineInvariant, NEW r \in Requests, Metrics(r)
  PROVE  PipelineInvariant'
  <1> DEFINE c == IF Skipped(r) THEN Continue(req[r]) ELSE CallNext(req[r])
  <1>1. Calls(r, "Metrics", c)
    BY DEF Metrics
  <1>2. /\ req[r] \in Contexts /\ Private(req[r]) /\ GoesIn(req[r])
        /\ req[r].at = "down" /\ req[r].next = "Metrics"
    BY <1>1, Here DEF Calls, Control
  <1>3. After(req[r].kind, req[r].next) = Entry(req[r].kind)
    BY <1>2 DEF After
  <1>4. Entry(req[r].kind) \in Outer \cup Inner
    BY DEF Entry, Inner
  <1>5. /\ Same(c, req[r], {"next", "frames"}) /\ c.next = Entry(req[r].kind)
        /\ c.frames = req[r].frames \cup (IF Skipped(r) THEN {} ELSE {"Metrics"})
    <2>1. CASE Skipped(r)
      BY <1>2, <1>3, <1>4, <2>1, ContinueDoes DEF Same, Fields
    <2>2. CASE ~ Skipped(r)
      BY <1>2, <1>3, <1>4, <2>2, CallNextDoes
    <2>3. QED
      BY <2>1, <2>2
  <1> HIDE DEF c
  <1>6. Private(c)
    BY <1>2, <1>5 DEF Private, Same, Fields
  <1>7. c.frames = Frames(req[r]) /\ "Metrics" \notin req[r].frames
    BY <1>2, <1>5 DEF GoesIn, Frames, Skips, Skipped, Inner
  <1>8. req[r].limit = (IF Skips(req[r]) THEN 0 ELSE engine.limit)
    BY <1>2 DEF GoesIn, Inner
  <1>9. GoesIn(c) /\ c.at = "down"
    BY <1>2, <1>5, <1>7, <1>8, Enters DEF Same, Fields
  <1>10. Moved(r, c) /\ r \notin leaked
    BY <1>1, Here DEF Calls, Moved
  <1>11. GaugeAccounted'
    <2>1. CASE Skipped(r)
      BY <1>5, <1>7, <1>10, <2>1, Here, GaugeStays DEF Metrics, Unmetered, Same
    <2>2. CASE ~ Skipped(r)
      BY <1>5, <1>7, <1>10, <2>2, Here, GaugeUp DEF Metrics, Same
    <2>3. QED
      BY <2>1, <2>2
  <1>12. QED
    BY <1>5, <1>6, <1>9, <1>10, <1>11, MovedKeeps DEF Same, Control, Metrics

\* A request that is refused or answered behind the global handlers.
LEMMA InnerEnds ==
  ASSUME PipelineInvariant, NEW r \in Requests, NEW h \in Inner, NEW status \in Nat,
         Calls(r, h, Abort(Send(req[r], status))), Unmetered
  PROVE  PipelineInvariant'
  <1>1. /\ req[r] \in Contexts /\ Private(req[r]) /\ GoesIn(req[r])
        /\ req[r].at = "down" /\ req[r].next = h
    BY Here DEF Calls, Control
  <1>2. req[r].frames = Frames(req[r]) /\ req[r].next # "RequestID"
    BY <1>1 DEF GoesIn, Inner
  <1>3. QED
    BY <1>1, <1>2, EndsKeep DEF Same

LEMMA JWTKeeps ==
  ASSUME PipelineInvariant, NEW r \in Requests, JWT(r)
  PROVE  PipelineInvariant'
  <1> DEFINE token == req[r].kind.token
             d == [req[r] EXCEPT !.principal = token]
             c == Continue(d)
  <1>1. Unmetered /\ "JWT" \in Inner
    BY DEF JWT, Inner
  <1>2. CASE \E status \in Nat : Calls(r, "JWT", Abort(Send(req[r], status)))
    BY <1>1, <1>2, InnerEnds
  <1>3. CASE token \in {"user", "admin"} /\ Calls(r, "JWT", c)
    <2>1. /\ req[r] \in Contexts /\ Private(req[r]) /\ GoesIn(req[r])
          /\ req[r].at = "down" /\ req[r].next = "JWT"
      BY <1>3, Here DEF Calls, Control
    <2>2. Same(d, req[r], {"principal"}) /\ d.principal = token
      BY <1>3, <2>1, Updates
    <2> HIDE DEF d
    <2> DEFINE h == IF req[r].kind.path \in AdminOnly THEN "RequireRole" ELSE "handler"
    <2>3. After(d.kind, d.next) = h
      BY <2>1, <2>2 DEF After, Same, Fields
    <2>4. h \in Outer \cup Inner
      BY DEF Inner
    <2>5. Same(c, d, {"next"}) /\ c.next = h
      BY <2>2, <2>3, <2>4, ContinueDoes DEF Same
    <2>6. Calls(r, "JWT", c)
      BY <1>3
    <2> HIDE DEF c
    <2>7. Private(c)
      BY <2>1, <2>2, <2>5 DEF Private, Same, Fields
    <2>8. /\ Same(c, req[r], {"principal", "next"})
          /\ c.principal = c.kind.token /\ c.kind.token \in {"user", "admin"}
      BY <1>3, <2>2, <2>5 DEF Same, Fields
    <2>9. GoesIn(c) /\ c.at = "down"
      <3>1. /\ c.kind = req[r].kind /\ c.frames = req[r].frames /\ c.limit = req[r].limit
            /\ c.id = req[r].id /\ c.at = "down"
            /\ c.work = req[r].work /\ c.answers = req[r].answers /\ c.line = req[r].line
            /\ c.count = req[r].count /\ c.reported = req[r].reported
            /\ c.logs = req[r].logs /\ c.named = req[r].named
        BY <2>1, <2>8 DEF Same, Fields
      <3>2. /\ Matches(c.kind) /\ c.frames = Frames(c)
            /\ c.limit = (IF Skips(c) THEN 0 ELSE engine.limit)
            /\ c.id = GivenId(c.kind) /\ c.logs = LogsBy(c)
        BY <2>1, <3>1 DEF GoesIn, LogsBy, Inner, Frames, Skips
      <3>3. c.work = "none" /\ c.answers = 0 /\ Unrecorded(c)
        BY <2>1, <3>1 DEF GoesIn, Unrecorded
      <3>4. c.next \in {"RequireRole", "handler"}
            /\ (c.next = "RequireRole" <=> c.kind.path \in AdminOnly)
        BY <2>5, <3>1
      <3>5. QED
        BY <2>8, <3>1, <3>2, <3>3, <3>4 DEF GoesIn, Inner
    <2>10. QED
      BY <1>1, <2>1, <2>6, <2>7, <2>8, <2>9, CallsKeep DEF Same, Fields, Control
  <1>4. QED
    BY <1>2, <1>3 DEF JWT

LEMMA RequireRoleKeeps ==
  ASSUME PipelineInvariant, NEW r \in Requests, RequireRole(r)
  PROVE  PipelineInvariant'
  <1>1. Unmetered /\ "RequireRole" \in Inner
    BY DEF RequireRole, Inner
  <1>2. /\ req[r] \in Contexts /\ Private(req[r]) /\ GoesIn(req[r])
        /\ req[r].at = "down" /\ req[r].next = "RequireRole"
    BY Here DEF RequireRole, Calls, Control
  <1>3. /\ req[r].kind.path \in AdminOnly
        /\ req[r].principal = req[r].kind.token /\ req[r].principal \in {"user", "admin"}
    BY <1>2 DEF GoesIn, AdminOnly, Protected
  <1>4. CASE req[r].principal = "user"
    <2>1. Calls(r, "RequireRole", Abort(Send(req[r], 403)))
      BY <1>4 DEF RequireRole
    <2>2. QED
      BY <1>1, <2>1, InnerEnds
  <1>5. CASE req[r].principal = "admin"
    <2> DEFINE c == Continue(req[r])
    <2>1. Calls(r, "RequireRole", c)
      BY <1>5 DEF RequireRole
    <2>2. After(req[r].kind, req[r].next) = "handler"
      BY <1>2 DEF After
    <2>3. Same(c, req[r], {"next"}) /\ c.next = "handler"
      BY <1>2, <2>2, ContinueDoes DEF Inner
    <2> HIDE DEF c
    <2>4. Private(c)
      BY <1>2, <2>3 DEF Private, Same, Fields
    <2>5. GoesIn(c) /\ c.at = "down"
      BY <1>2, <1>3, <1>5, <2>3, ZenonT(40)
         DEF GoesIn, Unrecorded, LogsBy, Inner, Same, Fields, Frames, Skips
    <2>6. QED
      BY <1>1, <1>2, <2>1, <2>3, <2>4, <2>5, CallsKeep DEF Same, Fields, Control
  <1>6. QED
    BY <1>3, <1>4, <1>5

LEMMA NoRouteKeeps ==
  ASSUME PipelineInvariant, NEW r \in Requests, NoRoute(r)
  PROVE  PipelineInvariant'
  BY InnerEnds DEF NoRoute, Inner

\* Binding refuses what is larger than the limit, which is never lifted for a
\* route that binds.
LEMMA HandlerKeeps ==
  ASSUME PipelineInvariant, NEW r \in Requests, Handler(r)
  PROVE  PipelineInvariant'
  <1> DEFINE k == req[r].kind
             tooLarge == k.path \in Binds /\ 0 < req[r].limit /\ req[r].limit < k.size
             work == IF k.path \in Binds /\ ~ tooLarge THEN "read" ELSE "begun"
             d == [req[r] EXCEPT !.work = work]
  <1>1. /\ Unmetered
        /\ \/ \E status \in Nat : Calls(r, "handler", Abort(Send(d, status)))
           \/ Calls(r, "handler", Panic(d))
    BY DEF Handler
  <1>2. /\ req[r] \in Contexts /\ Private(req[r]) /\ GoesIn(req[r])
        /\ req[r].at = "down" /\ req[r].next = "handler"
    BY <1>1, Here DEF Calls, Control
  <1>3. Same(d, req[r], {"work"}) /\ d.work = work
    <2>1. work \in {"begun", "read"}
      OBVIOUS
    <2> HIDE DEF work
    <2>2. QED
      BY <1>2, <2>1, Updates, Zenon
  <1> HIDE DEF d
  <1>4. d.kind = k /\ d.allow = req[r].allow /\ d.credentials = req[r].credentials
    BY <1>3 DEF Same, Fields
  <1>5. /\ k.path \in Protected => k.token \in {"user", "admin"}
        /\ k.path \in AdminOnly => k.token = "admin"
    BY <1>2 DEF GoesIn
  <1>6. work = "read" => k.size <= engine.limit
    <2> SUFFICES ASSUME k.path \in Binds, ~ tooLarge PROVE k.size <= engine.limit
      OBVIOUS
    <2>1. req[r].limit = engine.limit
      BY <1>2 DEF GoesIn, Matches, Skips, SkipInstrumentation, Binds, Inner
    <2>2. k.size \in Nat /\ engine.limit \in Nat /\ engine.limit > 0
      BY <1>2, Here, PipelineAssumption DEF Contexts
    <2>3. QED
      BY <2>1, <2>2
  <1>7. Private(d)
    BY <1>2, <1>3, <1>4, <1>5, <1>6 DEF Private
  <1>8. d.frames = Frames(d)
    BY <1>2, <1>3, <1>4 DEF GoesIn, Inner, Frames, Skips, Same, Fields
  <1>9. CASE \E status \in Nat : Calls(r, "handler", Abort(Send(d, status)))
    <2>1. Same(d, req[r], {"allow", "credentials", "work"})
      BY <1>3 DEF Same
    <2>2. QED
      BY <1>1, <1>2, <1>3, <1>7, <1>8, <1>9, <2>1, EndsKeep DEF Same
  <1>10. CASE Calls(r, "handler", Panic(d))
    <2> DEFINE c == Panic(d)
    <2>1. Same(c, d, {"at"}) /\ c.at = "panic"
      BY <1>3, PanicDoes DEF Same
    <2>2. Calls(r, "handler", c)
      BY <1>10
    <2> HIDE DEF c
    <2>3. Private(c)
      BY <1>7, <2>1 DEF Private, Same, Fields
    <2>4. Same(c, req[r], {"at", "work"}) /\ c.frames = req[r].frames
      BY <1>3, <2>1 DEF Same, Fields
    <2>5. Panics(c)
      <3>1. /\ c.kind = req[r].kind /\ c.id = req[r].id /\ c.answers = req[r].answers
            /\ c.line = req[r].line /\ c.count = req[r].count /\ c.reported = req[r].reported
            /\ c.logs = req[r].logs /\ c.named = req[r].named
        BY <2>4 DEF Same, Fields
      <3>2. c.frames = Frames(c) /\ c.id = GivenId(c.kind) /\ c.logs = LogsBy(c)
        BY <1>2, <2>4, <3>1 DEF GoesIn, LogsBy, Inner, Frames, Skips
      <3>3. c.answers = 0 /\ Unrecorded(c)
        BY <1>2, <3>1 DEF GoesIn, Unrecorded
      <3>4. QED
        BY <3>2, <3>3 DEF Panics, Frames
    <2>6. QED
      BY <1>1, <2>1, <2>2, <2>3, <2>4, <2>5, CallsKeep DEF Same, Control
  <1>11. QED
    BY <1>1, <1>9, <1>10
-----------------------------------------------------------------------------
(* The way out *)

\* Who leaves a handler other than Metrics does not move the gauge.
LEMMA OutKeeps ==
  ASSUME PipelineInvariant, NEW r \in Requests, NEW c \in Contexts,
         req[r].at # "none", req' = [req EXCEPT ![r] = c],
         UNCHANGED <<configVars, engine>>, Unmetered, Control(c), Private(c),
         c.at \in {"panic", "up", "done"},
         "Metrics" \in c.frames <=> "Metrics" \in req[r].frames
  PROVE  PipelineInvariant'
  <1>1. Moved(r, c)
    BY Here DEF Moved
  <1>2. GaugeAccounted'
    BY <1>1, Here, GaugeStays
  <1>3. r \in leaked' => c.at \in {"panic", "up", "done"} /\ "Metrics" \notin c.frames
    BY Here DEF Unmetered
  <1>4. QED
    BY <1>1, <1>2, <1>3, MovedKeeps DEF Unmetered

\* What is left of a context when the handler h has returned.
LEMMA LeavesDoes ==
  ASSUME NEW d \in Contexts, NEW h
  PROVE  LET c == [d EXCEPT !.frames = @ \ {h}]
         IN  Same(c, d, {"frames"}) /\ c.frames = d.frames \ {h}
  <1>1. d.frames \ {h} \in SUBSET {"Recovery", "Logger", "Metrics"}
    BY DEF Contexts
  <1>2. QED
    BY <1>1, FramesDo

LEMMA LeaveMetricsKeeps ==
  ASSUME PipelineInvariant, NEW r \in Requests, LeaveMetrics(r)
  PROVE  PipelineInvariant'
  <1> DEFINE d == [req[r] EXCEPT !.count = req[r].status]
             c == [d EXCEPT !.frames = @ \ {"Metrics"}]
  <1>1. /\ req[r] \in Contexts /\ Private(req[r]) /\ GoesOut(req[r])
        /\ req[r].at = "up" /\ "Metrics" \in req[r].frames /\ r \notin leaked
    BY Here DEF LeaveMetrics, Leaves, Control
  <1>2. req[r].status \in Nat
    BY <1>1 DEF Contexts
  <1>3. Same(d, req[r], {"count"}) /\ d.count = req[r].status
    BY <1>1, <1>2, Updates
  <1>4. req' = [req EXCEPT ![r] = c] /\ UNCHANGED <<configVars, engine>>
    BY DEF LeaveMetrics, Leaves
  <1> HIDE DEF d
  <1>5. Same(c, d, {"frames"}) /\ c.frames = d.frames \ {"Metrics"}
    BY <1>3, LeavesDoes DEF Same
  <1> HIDE DEF c
  <1>6. /\ Same(c, req[r], {"count", "frames"}) /\ c.count = req[r].status
        /\ c.frames = req[r].frames \ {"Metrics"}
    BY <1>3, <1>5 DEF Same, Fields
  <1>7. Private(c)
    BY <1>1, <1>6 DEF Private, Same, Fields
  <1>8. /\ c.at = "up" /\ c.kind = req[r].kind /\ c.id = req[r].id /\ c.status = req[r].status
        /\ c.answers = req[r].answers /\ c.line = req[r].line /\ c.reported = req[r].reported
        /\ c.named = req[r].named
    BY <1>1, <1>6 DEF Same, Fields
  <1>9. Frames(c) = Frames(req[r]) /\ (Skips(c) <=> Skips(req[r]))
    BY <1>8 DEF Frames, Skips
  <1>10. Control(c)
    BY <1>1, <1>6, <1>8, <1>9 DEF Control, GoesOut
  <1>11. Moved(r, c)
    BY <1>1, <1>4, Here DEF Moved
  <1>12. GaugeAccounted'
    BY <1>1, <1>6, <1>11, Here, GaugeDown DEF LeaveMetrics, Same
  <1>13. QED
    BY <1>1, <1>6, <1>7, <1>10, <1>11, <1>12, MovedKeeps DEF Same, LeaveMetrics

LEMMA LeaveLoggerKeeps ==
  ASSUME PipelineInvariant, NEW r \in Requests, LeaveLogger(r)
  PROVE  PipelineInvariant'
  <1> DEFINE name == Naming(req[r].id, req[r].status)
             d == [req[r] EXCEPT !.line = req[r].status, !.named = name]
             c == [d EXCEPT !.frames = @ \ {"Logger"}]
  <1>1. /\ req[r] \in Contexts /\ Private(req[r]) /\ GoesOut(req[r])
        /\ req[r].at = "up" /\ "Logger" \in req[r].frames /\ "Metrics" \notin req[r].frames
    BY Here DEF LeaveLogger, Leaves, Control
  <1>2. req[r].status \in Nat /\ name \in {"", "prefix", "id"}
    BY <1>1 DEF Contexts, Naming
  <1>3. /\ Same(d, req[r], {"line", "named"})
        /\ d.line = req[r].status /\ d.named = name
    <2>1. \A v \in Nat, n \in {"", "prefix", "id"} :
            /\ Same([req[r] EXCEPT !.line = v, !.named = n], req[r], {"line", "named"})
            /\ [req[r] EXCEPT !.line = v, !.named = n].line = v
            /\ [req[r] EXCEPT !.line = v, !.named = n].named = n
      BY <1>1, Records
    <2> HIDE DEF name
    <2>2. QED
      BY <1>2, <2>1, Zenon
  <1>4. req' = [req EXCEPT ![r] = c] /\ UNCHANGED <<configVars, engine>> /\ Unmetered
    BY DEF LeaveLogger, Leaves
  <1> HIDE DEF d
  <1>5. Same(c, d, {"frames"}) /\ c.frames = d.frames \ {"Logger"}
    BY <1>3, LeavesDoes DEF Same
  <1> HIDE DEF c
  <1>6. /\ Same(c, req[r], {"line", "named", "frames"}) /\ c.line = req[r].status
        /\ c.named = Naming(req[r].id, req[r].status) /\ c.frames = req[r].frames \ {"Logger"}
    BY <1>3, <1>5 DEF Same, Fields
  <1>7. Private(c)
    BY <1>1, <1>6 DEF Private, Same, Fields
  <1>8. /\ c.at = "up" /\ c.kind = req[r].kind /\ c.id = req[r].id /\ c.status = req[r].status
        /\ c.answers = req[r].answers /\ c.count = req[r].count /\ c.reported = req[r].reported
    BY <1>1, <1>6 DEF Same, Fields
  <1>9. Frames(c) = Frames(req[r]) /\ (Skips(c) <=> Skips(req[r]))
    BY <1>8 DEF Frames, Skips
  <1>10. Control(c)
    BY <1>1, <1>6, <1>8, <1>9 DEF Control, GoesOut
  <1>11. QED
    BY <1>1, <1>4, <1>6, <1>7, <1>8, <1>10, OutKeeps DEF Same

LEMMA LeaveRecoveryKeeps ==
  ASSUME PipelineInvariant, NEW r \in Requests, LeaveRecovery(r)
  PROVE  PipelineInvariant'
  <1> DEFINE c == [req[r] EXCEPT !.frames = @ \ {"Recovery"}]
  <1>1. /\ req[r] \in Contexts /\ Private(req[r]) /\ GoesOut(req[r])
        /\ req[r].at = "up" /\ req[r].frames = {"Recovery"}
    BY Here DEF LeaveRecovery, Leaves, Control
  <1>2. req' = [req EXCEPT ![r] = c] /\ UNCHANGED <<configVars, engine>> /\ Unmetered
    BY DEF LeaveRecovery, Leaves
  <1>3. Same(c, req[r], {"frames"}) /\ c.frames = {}
    BY <1>1, LeavesDoes
  <1> HIDE DEF c
  <1>4. Private(c)
    BY <1>1, <1>3 DEF Private, Same, Fields
  <1>5. /\ c.at = "up" /\ c.kind = req[r].kind /\ c.id = req[r].id /\ c.status = req[r].status
        /\ c.answers = req[r].answers /\ c.line = req[r].line /\ c.count = req[r].count
        /\ c.reported = req[r].reported /\ c.named = req[r].named
    BY <1>1, <1>3 DEF Same, Fields
  <1>6. Frames(c) = Frames(req[r]) /\ (Skips(c) <=> Skips(req[r]))
    BY <1>5 DEF Frames, Skips
  <1>7. Control(c)
    BY <1>1, <1>3, <1>5, <1>6 DEF Control, GoesOut
  <1>8. QED
    BY <1>1, <1>2, <1>3, <1>4, <1>5, <1>7, OutKeeps DEF Same

LEMMA UnwindKeeps ==
  ASSUME PipelineInvariant, NEW r \in Requests, Unwind(r)
  PROVE  PipelineInvariant'
  <1>1. PICK h \in {"Metrics", "Logger"} :
          /\ Leaves(r, "panic", h, req[r])
          /\ h = "Metrics" => leaked' = leaked \cup {r} /\ UNCHANGED inFlight
          /\ h = "Logger" => Unmetered
    BY DEF Unwind
  <1> DEFINE c == [req[r] EXCEPT !.frames = @ \ {h}]
  <1>2. /\ req[r] \in Contexts /\ Private(req[r]) /\ Panics(req[r])
        /\ req[r].at = "panic" /\ h \in req[r].frames
        /\ h = "Logger" => "Metrics" \notin req[r].frames
    BY <1>1, Here DEF Leaves, Control
  <1>3. req' = [req EXCEPT ![r] = c] /\ UNCHANGED <<configVars, engine>>
    BY <1>1 DEF Leaves
  <1>4. Same(c, req[r], {"frames"}) /\ c.frames = req[r].frames \ {h}
    BY <1>2, LeavesDoes
  <1> HIDE DEF c
  <1>5. Private(c)
    BY <1>2, <1>4 DEF Private, Same, Fields
  <1>6. /\ c.at = "panic" /\ c.kind = req[r].kind /\ c.id = req[r].id
        /\ c.answers = req[r].answers /\ c.line = req[r].line /\ c.count = req[r].count
        /\ c.reported = req[r].reported /\ c.logs = req[r].logs /\ c.named = req[r].named
    BY <1>2, <1>4 DEF Same, Fields
  <1>7. Frames(c) = Frames(req[r]) /\ (Skips(c) <=> Skips(req[r]))
    BY <1>6 DEF Frames, Skips
  <1>8. Control(c)
    BY <1>2, <1>4, <1>6, <1>7 DEF Control, Panics, Unrecorded, LogsBy
  <1>9. CASE h = "Metrics"
    <2>1. Moved(r, c) /\ r \notin leaked
      BY <1>2, <1>3, <1>9, Here DEF Moved
    <2>2. GaugeAccounted'
      BY <1>1, <1>2, <1>4, <1>9, <2>1, Here, GaugeLeaks DEF Same
    <2>3. QED
      BY <1>1, <1>4, <1>5, <1>6, <1>8, <1>9, <2>1, <2>2, MovedKeeps DEF Same
  <1>10. CASE h = "Logger"
    BY <1>1, <1>2, <1>3, <1>4, <1>5, <1>6, <1>8, <1>10, OutKeeps DEF Same
  <1>11. QED
    BY <1>9, <1>10

LEMMA RecoverKeeps ==
  ASSUME PipelineInvariant, NEW r \in Requests, Recover(r)
  PROVE  PipelineInvariant'
  <1> DEFINE d == [req[r] EXCEPT !.reported = TRUE, !.named = ReportsAs(req[r])]
             e == Abort(Send(d, 500))
             c == [e EXCEPT !.frames = @ \ {"Recovery"}]
  <1>1. /\ req[r] \in Contexts /\ Private(req[r]) /\ Panics(req[r])
        /\ req[r].at = "panic" /\ req[r].frames = {"Recovery"}
    BY Here DEF Recover, Leaves, Control
  <1>2. req' = [req EXCEPT ![r] = c] /\ UNCHANGED <<configVars, engine>> /\ Unmetered
    BY DEF Recover, Leaves
  <1>3. /\ Same(d, req[r], {"reported", "named"})
        /\ d.reported /\ d.named = ReportsAs(req[r])
    <2>1. ReportsAs(req[r]) \in {"", "prefix", "id"}
      BY DEF ReportsAs
    <2>2. \A n \in {"", "prefix", "id"} :
            /\ Same([req[r] EXCEPT !.reported = TRUE, !.named = n], req[r],
                    {"reported", "named"})
            /\ [req[r] EXCEPT !.reported = TRUE, !.named = n].reported
            /\ [req[r] EXCEPT !.reported = TRUE, !.named = n].named = n
      BY <1>1, Records
    <2>3. QED
      BY <2>1, <2>2, Zenon
  <1> HIDE DEF d
  <1>4. /\ Same(e, d, {"at", "answers", "status"}) /\ e.at = "up"
        /\ e.answers = d.answers + 1 /\ e.status = 500
    BY <1>3, EndsDoes DEF Same
  <1> HIDE DEF e
  <1>5. Same(c, e, {"frames"}) /\ c.frames = e.frames \ {"Recovery"}
    BY <1>4, LeavesDoes DEF Same
  <1> HIDE DEF c
  <1>6. d.answers = 0 /\ d.frames = {"Recovery"}
    BY <1>1, <1>3 DEF Same, Fields, Panics, Unrecorded
  <1>7. c.answers = 1 /\ c.frames = {} /\ c.at = "up" /\ c.status = 500
    BY <1>4, <1>5, <1>6 DEF Same, Fields
  <1>8. /\ Same(c, req[r], {"at", "answers", "status", "reported", "named", "frames"})
        /\ c.reported /\ c.named = ReportsAs(req[r])
    BY <1>3, <1>4, <1>5 DEF Same, Fields
  <1>9. Private(c)
    BY <1>1, <1>8 DEF Private, Same, Fields
  <1>10. /\ c.kind = req[r].kind /\ c.id = req[r].id
         /\ c.line = req[r].line /\ c.count = req[r].count
    BY <1>8 DEF Same, Fields
  <1>11. c.id = GivenId(c.kind) /\ c.line = 0 /\ c.count = 0
    BY <1>1, <1>10 DEF Panics, Unrecorded
  <1>12. c.named = IF "Logger" \in Frames(c) THEN Naming(c.id, c.status) ELSE ""
    <2>1. Naming(c.id, c.status) = "id"
      BY <1>7 DEF Naming
    <2>2. req[r].logs = (IF Skips(c) THEN "base" ELSE "request")
      BY <1>1, <1>10 DEF Panics, LogsBy, Skips
    <2>3. "Logger" \in Frames(c) <=> ~ Skips(c)
      BY DEF Frames
    <2>4. QED
      BY <1>8, <2>1, <2>2, <2>3 DEF ReportsAs
  <1>13. Control(c)
    <2>1. Frames(c) \ c.frames = Frames(c) /\ c.status >= 400
      BY <1>7
    <2>2. GoesOut(c)
      BY <1>7, <1>8, <1>11, <1>12, <2>1 DEF GoesOut
    <2>3. QED
      BY <1>7, <2>2 DEF Control
  <1>14. QED
    BY <1>1, <1>2, <1>7, <1>8, <1>9, <1>13, OutKeeps DEF Same

LEMMA FinishKeeps ==
  ASSUME PipelineInvariant, NEW r \in Requests, Finish(r)
  PROVE  PipelineInvariant'
  <1> DEFINE c == [req[r] EXCEPT !.at = "done"]
  <1>1. /\ req[r] \in Contexts /\ Private(req[r]) /\ GoesOut(req[r])
        /\ req[r].at = "up" /\ req[r].frames = {}
    BY Here DEF Finish, Control
  <1>2. req' = [req EXCEPT ![r] = c] /\ UNCHANGED <<configVars, engine>> /\ Unmetered
    BY DEF Finish
  <1>3. Same(c, req[r], {"at"}) /\ c.at = "done"
    BY <1>1, Updates
  <1> HIDE DEF c
  <1>4. Private(c)
    BY <1>1, <1>3 DEF Private, Same, Fields
  <1>5. /\ c.frames = {} /\ c.kind = req[r].kind /\ c.id = req[r].id /\ c.status = req[r].status
        /\ c.answers = req[r].answers /\ c.line = req[r].line /\ c.count = req[r].count
        /\ c.reported = req[r].reported /\ c.named = req[r].named
    BY <1>1, <1>3 DEF Same, Fields
  <1>6. Frames(c) = Frames(req[r]) /\ (Skips(c) <=> Skips(req[r]))
    BY <1>5 DEF Frames, Skips
  <1>7. Control(c)
    BY <1>1, <1>3, <1>5, <1>6 DEF Control, GoesOut
  <1>8. QED
    BY <1>1, <1>2, <1>3, <1>4, <1>5, <1>7, OutKeeps DEF Same
-----------------------------------------------------------------------------
(* Before the engine serves there are no requests *)

LEMMA AllIdle ==
  ASSUME req = [r \in Requests |-> Idle], inFlight = 0, leaked = {}
  PROVE  /\ req \in [Requests -> Contexts] /\ inFlight \in 0 .. Cardinality(Requests)
         /\ \A r \in Requests : Control(req[r])
         /\ GuardsHold /\ BodiesLimited /\ SharedAsConfigured /\ GaugeAccounted
  <1>1. Cardinality(Requests) \in Nat
    BY PipelineAssumption, FS_CardinalityType
  <1>2. \A r \in Requests : req[r] = Idle
    OBVIOUS
  <1>3. Inside = {} /\ Cardinality({}) = 0
    BY <1>2, IdleContext, FS_EmptySet DEF Inside
  <1>4. Control(Idle) /\ Private(Idle)
    BY IdleContext DEF Control, Private
  <1>5. GuardsHold /\ BodiesLimited /\ SharedAsConfigured
    BY <1>2, <1>4, PrivateParts
  <1>6. req \in [Requests -> Contexts]
    BY IdleContext
  <1>7. \A r \in Requests : Control(req[r])
    BY <1>2, <1>4
  <1>8. QED
    BY <1>1, <1>3, <1>5, <1>6, <1>7 DEF GaugeAccounted

LEMMA InitPipeline == Init => PipelineInvariant
  <1> SUFFICES ASSUME Init PROVE PipelineInvariant
    OBVIOUS
  <1>1. ConfigInvariant /\ phase = "configuring"
    BY InitConfigures DEF Init, ConfigInit
  <1>2. /\ DOMAIN engine = {"metrics", "origins", "credentials", "limit"}
        /\ engine.limit \in Nat
    BY DEF Init
  <1>3. \A r \in Requests : req[r] = Idle
    BY DEF Init
  <1>4. QED
    BY <1>1, <1>2, <1>3, AllIdle DEF Init, TypeOK, PipelineInvariant

\* A step that only prepares the engine.
LEMMA PrepareKeeps ==
  ASSUME PipelineInvariant, phase # "serving", UNCHANGED requests,
         ConfigInvariant', (phase = "serving" => engine.limit > 0)',
         (DOMAIN engine = {"metrics", "origins", "credentials", "limit"}
            /\ engine.limit \in Nat)'
  PROVE  PipelineInvariant'
  <1>1. req' = req /\ inFlight' = inFlight /\ leaked' = leaked
    BY DEF requests
  <1>2. \A r \in Requests : req[r] = Idle
    BY DEF PipelineInvariant
  <1>3. /\ Idle.at = "none" /\ Idle.work = "none" /\ Idle.allow = ""
    BY IdleContext
  <1>4. (\A r \in Requests : Control(req[r]))'
    BY <1>1, <1>2, <1>3 DEF Control
  <1>5. (GuardsHold /\ BodiesLimited /\ SharedAsConfigured)'
    BY <1>1, <1>2, <1>3 DEF GuardsHold, BodiesLimited, SharedAsConfigured
  <1>6. GaugeAccounted'
    BY <1>1 DEF PipelineInvariant, GaugeAccounted, Inside
  <1>7. TypeOK'
    BY <1>1 DEF PipelineInvariant, TypeOK
  <1>8. QED
    BY <1>1, <1>2, <1>4, <1>5, <1>6, <1>7 DEF PipelineInvariant

LEMMA ConfigKeeps ==
  ASSUME PipelineInvariant, ConfigNext, UNCHANGED <<engine, requests>>
  PROVE  PipelineInvariant'
  <1>1. phase # "serving" /\ phase' # "serving"
    BY DEF ConfigNext, SetFile, SetEnv, Unsettled, ParseFails, Load, ValidateFails, NewLogger,
           NewLoggerFails, Refuse, Settled, configVars
  <1>2. ConfigInvariant'
    BY ConfigStep DEF PipelineInvariant, TypeOK
  <1>3. QED
    BY <1>1, <1>2, PrepareKeeps DEF PipelineInvariant, TypeOK

LEMMA NewKeeps ==
  ASSUME PipelineInvariant, New
  PROVE  PipelineInvariant'
  <1>1. phase = "logging" /\ phase' \in {"crashed", "serving"}
    BY DEF New
  <1>2. Valid(config) /\ config.max_body_bytes \in Nat
    BY <1>1 DEF PipelineInvariant, TypeOK, ConfigInvariant, Accepted
  <1>3. ConfigInvariant'
    <2>1. DOMAIN DefaultConfig = Keys /\ DefaultConfig.max_body_bytes \in Nat
      BY DEF DefaultConfig, Keys, Durations, Secrets, Lists, Flags
    <2>2. config' = DefaultConfig /\ cores' = {}
      BY DEF New
    <2>3. QED
      BY <1>1, <2>1, <2>2 DEF ConfigInvariant, Accepted
  <1>4. CASE phase' = "crashed" /\ UNCHANGED engine
    BY <1>1, <1>3, <1>4, PrepareKeeps DEF New, PipelineInvariant, TypeOK
  <1>5. CASE phase' # "crashed"
    <2>1. /\ engine' = [metrics |-> IF config.metrics_enabled
                                      THEN Joined(config.metrics_path) ELSE "",
                        origins |-> config.allow_origins,
                        credentials |-> config.allow_credentials,
                        limit |-> config.max_body_bytes]
          /\ UNCHANGED requests
      BY <1>5 DEF New
    <2>2. config.max_body_bytes > 0
      BY <1>2 DEF Valid
    <2>3. QED
      BY <1>1, <1>2, <1>3, <2>1, <2>2, PrepareKeeps
  <1>6. QED
    BY <1>1, <1>4, <1>5 DEF New

LEMMA StutterKeeps ==
  ASSUME PipelineInvariant, UNCHANGED vars
  PROVE  PipelineInvariant'
  <1>1. ConfigInvariant'
    BY ConfigStep DEF PipelineInvariant, TypeOK, vars
  <1>2. CASE phase # "serving"
    BY <1>1, <1>2, PrepareKeeps DEF vars, configVars, PipelineInvariant, TypeOK
  <1>3. CASE phase = "serving"
    <2>1. /\ UNCHANGED <<configVars, engine>>
          /\ req' = req /\ inFlight' = inFlight /\ leaked' = leaked
      BY DEF vars, requests
    <2>2. ASSUME NEW r \in Requests PROVE PipelineInvariant'
      <3>1. Moved(r, req[r])
        BY <1>3, <2>1, Here DEF Moved, TypeOK
      <3>2. GaugeAccounted'
        BY <2>1 DEF PipelineInvariant, GaugeAccounted, Inside
      <3>3. QED
        BY <2>1, <3>1, <3>2, Here, MovedKeeps
    <2>3. CASE Requests = {}
      BY <1>1, <1>3, <2>1, <2>3 DEF PipelineInvariant, TypeOK, GuardsHold, BodiesLimited,
         SharedAsConfigured, GaugeAccounted, Inside, configVars
    <2>4. QED
      BY <2>2, <2>3
  <1>4. QED
    BY <1>2, <1>3
-----------------------------------------------------------------------------
(* Results *)

LEMMA StepPipeline == PipelineInvariant /\ [Next]_vars => PipelineInvariant'
  <1> SUFFICES ASSUME PipelineInvariant, [Next]_vars PROVE PipelineInvariant'
    OBVIOUS
  <1>1. ASSUME NEW r \in Requests, Walk(r) PROVE PipelineInvariant'
    BY <1>1, ArriveKeeps, RequestIDKeeps, RecoveryKeeps, LoggerKeeps, CORSKeeps,
       MaxBodySizeKeeps, MetricsKeeps, JWTKeeps, RequireRoleKeeps, HandlerKeeps, NoRouteKeeps,
       LeaveMetricsKeeps, LeaveLoggerKeeps, LeaveRecoveryKeeps, UnwindKeeps, RecoverKeeps,
       FinishKeeps DEF Walk
  <1>2. CASE Quiet \/ UNCHANGED vars
    BY <1>2, StutterKeeps DEF Quiet
  <1>3. QED
    BY <1>1, <1>2, ConfigKeeps, NewKeeps DEF Next

LEMMA InvariantAnswers == PipelineInvariant => AnsweredOnce
  <1> SUFFICES ASSUME PipelineInvariant, NEW r \in Requests
               PROVE  /\ req[r].answers <= 1
                      /\ req[r].at = "done" => req[r].answers = 1
    BY DEF AnsweredOnce
  <1>1. req[r].at \in {"none", "down", "up", "panic", "done"}
    BY Here DEF Contexts
  <1>2. req[r].at = "none" => req[r].answers = 0
    BY Here, IdleContext DEF Control
  <1>3. /\ req[r].at = "down" => req[r].answers = 0
        /\ req[r].at = "panic" => req[r].answers = 0
        /\ req[r].at \in {"up", "done"} => req[r].answers = 1
    BY Here DEF Control, GoesIn, Panics, GoesOut
  <1>4. QED
    BY <1>1, <1>2, <1>3

LEMMA InvariantTraces == PipelineInvariant => LeavesOneTrace
  <1> SUFFICES ASSUME PipelineInvariant, NEW r \in Requests, req[r].at = "done"
               PROVE  LET k == req[r].kind
                          own == k.method # "OPTIONS" /\ ~ Skipped(r)
                          traced == own /\ ~ req[r].reported
                      IN  /\ req[r].line = IF traced THEN req[r].status ELSE 0
                          /\ req[r].count = IF traced /\ engine.metrics # ""
                                              THEN req[r].status ELSE 0
                          /\ own => /\ req[r].id = IF k.xid = "" THEN "uuid" ELSE k.xid
                                    /\ req[r].status >= 400 => req[r].named = "id"
                                    /\ req[r].status < 400 =>
                                         req[r].named = IF req[r].id \in LongIds
                                                          THEN "prefix" ELSE ""
                          /\ ~ own => req[r].named = ""
    BY DEF LeavesOneTrace
  <1>1. GoesOut(req[r]) /\ req[r].frames = {}
    <2>1. GoesOut(req[r])
      BY Here DEF Control
    <2>2. QED
      BY <2>1 DEF GoesOut
  <1>2. Skips(req[r]) <=> Skipped(r)
    BY DEF Skips, Skipped
  <1>3. req[r].kind.method = "OPTIONS" => Skipped(r)
    BY DEF Skipped, SkipInstrumentation
  <1>4. /\ req[r].line = IF "Logger" \in Frames(req[r]) /\ ~ req[r].reported
                            THEN req[r].status ELSE 0
        /\ req[r].count = IF "Metrics" \in Frames(req[r]) /\ ~ req[r].reported
                             THEN req[r].status ELSE 0
        /\ req[r].named = IF "Logger" \in Frames(req[r])
                             THEN Naming(req[r].id, req[r].status) ELSE ""
        /\ req[r].id = GivenId(req[r].kind)
    BY <1>1 DEF GoesOut
  <1>5. /\ "Logger" \in Frames(req[r]) <=> ~ Skipped(r)
        /\ "Metrics" \in Frames(req[r]) <=> ~ Skipped(r) /\ engine.metrics # ""
    BY <1>2 DEF Frames
  <1>6. /\ req[r].status >= 400 => Naming(req[r].id, req[r].status) = "id"
        /\ req[r].status < 400 => Naming(req[r].id, req[r].status) =
                                   IF req[r].id \in LongIds THEN "prefix" ELSE ""
    <2>1. req[r].status \in Nat
      BY Here DEF Contexts
    <2>2. req[r].status < 400 => ~ (req[r].status >= 400)
      BY <2>1
    <2>3. QED
      BY <2>2 DEF Naming
  <1>7. ~ Skipped(r) =>
          req[r].id = IF req[r].kind.xid = "" THEN "uuid" ELSE req[r].kind.xid
    BY <1>4 DEF GivenId, Skipped
  <1>8. QED
    BY <1>2, <1>3, <1>4, <1>5, <1>6, <1>7

\* However many requests are under way, of whatever kinds, the control of every one
\* of them and the gauge are as the inductive invariant says (server.go:31-83).
THEOREM PipelineInvariantHolds == Spec => []PipelineInvariant
  BY InitPipeline, StepPipeline, PTL DEF Spec

\* No handler behind guards works for a caller they should have stopped, and none
\* of the user administration for anyone but an admin (middleware/auth.go:18-62).
THEOREM GuardsAlwaysHold == Spec => []GuardsHold
  <1>1. PipelineInvariant => GuardsHold
    BY DEF PipelineInvariant
  <1>2. QED
    BY <1>1, PipelineInvariantHolds, PTL

\* Every request is answered once, panics, refusals and unknown paths included
\* (recovery.go:13-18, middleware/auth.go:22-37).
THEOREM AlwaysAnsweredOnce == Spec => []AnsweredOnce
  BY InvariantAnswers, PipelineInvariantHolds, PTL

\* Every request leaves the trace that it should and no other, and what went wrong can
\* be found by the id its client knows, whatever ids they send (logger.go:17-50,
\* recovery.go:14-15, metrics.go:44-53).
THEOREM AlwaysLeavesOneTrace == Spec => []LeavesOneTrace
  BY InvariantTraces, PipelineInvariantHolds, PTL

\* The gauge is off by exactly the panics that passed Metrics, for any number of
\* requests (metrics.go:43-45).
THEOREM GaugeAlwaysAccounted == Spec => []GaugeAccounted
  <1>1. PipelineInvariant => GaugeAccounted
    BY DEF PipelineInvariant
  <1>2. QED
    BY <1>1, PipelineInvariantHolds, PTL

\* No body larger than was configured is read whole, whatever the limit and the
\* sizes (recovery.go:24-31).
THEOREM BodiesAlwaysLimited == Spec => []BodiesLimited
  <1>1. PipelineInvariant => BodiesLimited
    BY DEF PipelineInvariant
  <1>2. QED
    BY <1>1, PipelineInvariantHolds, PTL

\* No answer that any page may read offers credentials, for every list of origins
\* (cors.go:12-35).
THEOREM AlwaysSharedAsConfigured == Spec => []SharedAsConfigured
  <1>1. PipelineInvariant => SharedAsConfigured
    BY DEF PipelineInvariant
  <1>2. QED
    BY <1>1, PipelineInvariantHolds, PTL

\* However many settings the operator makes, an accepted configuration is what he
\* wrote and can be used (config.go:195-260).
THEOREM AcceptedAlwaysUsable == Spec => []AcceptedIsUsable
  <1>1. PipelineInvariant => AcceptedIsUsable
    BY InvariantUsable DEF PipelineInvariant, TypeOK
  <1>2. QED
    BY <1>1, PipelineInvariantHolds, PTL

\* However the settings are mixed, production signs with secrets that were chosen
\* (config.go:214-252).
THEOREM ProductionAlwaysChosen == Spec => []ProductionSecretsChosen
  <1>1. PipelineInvariant => ProductionSecretsChosen
    BY InvariantChosen DEF PipelineInvariant, TypeOK
  <1>2. QED
    BY <1>1, PipelineInvariantHolds, PTL
=============================================================================
