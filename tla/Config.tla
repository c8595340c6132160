------------------------------- MODULE Config -------------------------------
(***************************************************************************)
(* The configuration and the logger: what an operator writes in the file   *)
(* and in the environment, and what config.Load and logger.New make of it  *)
(* before the process opens its stores.                                    *)
(*                                                                         *)
(* Settings that nothing depends on (names, hosts, ports, pool sizes, the  *)
(* level of the log) are left out.  A text is one of a few that the code   *)
(* tells apart; a list in the environment is the sequence of the parts     *)
(* that its commas separate.                                               *)
(*                                                                         *)
(* Operators whose name ends in _Bug are what a slip in the code would     *)
(* make of the definition after them; they are not part of the             *)
(* specification.                                                          *)
(***************************************************************************)
EXTENDS Integers, Sequences, FiniteSets

CONSTANT MaxSettings   \* how many settings the operator makes (a bound)

VARIABLES
    file,    \* the settings in the file
    env,     \* the settings in the environment
    config,  \* the Config that Load returned
    cores,   \* where the logger writes
    phase    \* how far the process has come

configVars == <<file, env, config, cores, phase>>

Durations == {"read_timeout", "write_timeout", "idle_timeout", "shutdown_timeout",
              "conn_max_lifetime", "access_ttl", "refresh_ttl"}
Secrets == {"access_secret", "refresh_secret"}
Lists == {"outputs", "allow_origins"}
Flags == {"metrics_enabled", "allow_credentials"}
Keys == Durations \cup Secrets \cup Lists \cup Flags
          \cup {"environment", "max_body_bytes", "metrics_path"}
EnvKeys == Keys \ {"allow_credentials"}   \* no variable sets this one

\* What an operator may write for key k.
Texts(k) ==
    CASE k \in Durations -> {"", "soon", "-1s"}
      [] k \in Secrets -> {"", "change-me-access", "change-me-refresh", "own"}
      [] k = "outputs" -> {<<"">>, <<"syslog">>, <<"console", " file">>}
      [] k = "allow_origins" -> {<<"">>, <<"*", "a">>, <<" a", "">>}
      [] k \in Flags -> {"true", "false", "maybe"}
      [] k = "environment" -> {"", "Production", "prod", "PROD"}
      [] k = "max_body_bytes" -> {"many", "0", "64"}
      [] k = "metrics_path" -> {"", "stats", "/stats", "/health/live"}

DefaultConfig ==
    [read_timeout |-> "10s", write_timeout |-> "10s", idle_timeout |-> "60s",
     shutdown_timeout |-> "15s", conn_max_lifetime |-> "1h",
     access_ttl |-> "15m", refresh_ttl |-> "168h",
     access_secret |-> "change-me-access", refresh_secret |-> "change-me-refresh",
     outputs |-> <<"console">>, allow_origins |-> <<"*">>,
     metrics_enabled |-> TRUE, allow_credentials |-> FALSE,
     environment |-> "development", max_body_bytes |-> 1048576,
     metrics_path |-> "/metrics"]
-----------------------------------------------------------------------------
(* Conversions *)

TrimSpace(p) == CASE p = " a" -> "a" [] p = " file" -> "file" [] OTHER -> p

SplitCSV(parts) ==
    LET NotEmpty(p) == p # ""
    IN  SelectSeq([i \in DOMAIN parts |-> TrimSpace(parts[i])], NotEmpty)

ParseInt64 == [v \in {"0", "64"} |-> IF v = "0" THEN 0 ELSE 64]
ParseBool == [v \in {"true", "false"} |-> v = "true"]
IsDuration(v) == v \notin {"", "soon"}

IsProduction(environment) == environment \in {"production", "Production", "prod"}

\* Can v be read as a value of k, and what is it?
Readable(k, v) ==
    /\ k \in Flags => v \in DOMAIN ParseBool
    /\ k = "max_body_bytes" => v \in DOMAIN ParseInt64
Value(k, v) ==
    CASE k \in Flags -> ParseBool[v]
      [] k = "max_body_bytes" -> ParseInt64[v]
      [] OTHER -> v

\* What the accessors hand out: a text that is no duration falls back to a value
\* that is the default one for each of the seven.
Accessor(k) == IF IsDuration(config[k]) THEN config[k] ELSE DefaultConfig[k]
-----------------------------------------------------------------------------
(* Load *)

\* The file changes what it names, to the empty text too.
Unmarshal ==
    [k \in Keys |-> IF k \in DOMAIN file THEN Value(k, file[k]) ELSE DefaultConfig[k]]

\* A variable that is empty or cannot be read is passed over without an error.
Heeded(k) ==
    /\ k \in DOMAIN env
    /\ env[k] # (IF k \in Lists THEN <<"">> ELSE "")
    /\ Readable(k, env[k])
ApplyEnv(c) ==
    [k \in Keys |->
        IF ~ Heeded(k) THEN c[k]
        ELSE IF k \in Lists THEN SplitCSV(env[k]) ELSE Value(k, env[k])]

\* Valid_Bug: a timeout is forgotten.  Valid_Positive: the limit is not looked at.
Valid_Bug(c) ==
    /\ \A k \in Durations \ {"idle_timeout"} : IsDuration(c[k])
    /\ \A k \in Secrets : c[k] # ""
    /\ IsProduction(c.environment) => \A k \in Secrets : c[k] # DefaultConfig[k]
    /\ c.max_body_bytes > 0
Valid_Positive(c) ==
    /\ \A k \in Durations : IsDuration(c[k])
    /\ \A k \in Secrets : c[k] # ""
    /\ IsProduction(c.environment) => \A k \in Secrets : c[k] # DefaultConfig[k]
Valid(c) ==
    /\ \A k \in Durations : IsDuration(c[k])
    /\ \A k \in Secrets : c[k] # ""
    /\ IsProduction(c.environment) => \A k \in Secrets : c[k] # DefaultConfig[k]
    /\ c.max_body_bytes > 0

Validated(c) == [c EXCEPT !.metrics_path = IF @ = "" THEN "/metrics" ELSE @]

Refuse == phase' = "refused" /\ UNCHANGED <<file, env, config, cores>>

\* There is a file, and it or a value in it cannot be read.
ParseFails ==
    /\ phase = "configuring"
    /\ DOMAIN file # {}
    /\ Refuse

\* Load_Bug: the environment is applied to what was validated.
Load_Bug ==
    /\ phase = "configuring"
    /\ \A k \in DOMAIN file : Readable(k, file[k])
    /\ Valid(Unmarshal)
    /\ config' = Validated(ApplyEnv(Unmarshal))
    /\ phase' = "loaded"
    /\ UNCHANGED <<file, env, cores>>
Load ==
    /\ phase = "configuring"
    /\ \A k \in DOMAIN file : Readable(k, file[k])
    /\ Valid(ApplyEnv(Unmarshal))
    /\ config' = Validated(ApplyEnv(Unmarshal))
    /\ phase' = "loaded"
    /\ UNCHANGED <<file, env, cores>>

ValidateFails ==
    /\ phase = "configuring"
    /\ \A k \in DOMAIN file : Readable(k, file[k])
    /\ ~ Valid(ApplyEnv(Unmarshal))
    /\ Refuse
-----------------------------------------------------------------------------
(* logger.New: no output at all means the console, an unknown one is left out *)

Outputs ==
    IF config.outputs = << >> THEN {"console"}
    ELSE {TrimSpace(config.outputs[i]) : i \in DOMAIN config.outputs}
           \cap {"console", "file"}

NewLogger ==
    /\ phase = "loaded"
    /\ Outputs # {}
    /\ cores' = Outputs
    /\ phase' = "logging"
    /\ UNCHANGED <<file, env, config>>

\* There is nowhere to write, or the file of the log cannot be opened.
NewLoggerFails ==
    /\ phase = "loaded"
    /\ Outputs = {} \/ "file" \in Outputs
    /\ Refuse
-----------------------------------------------------------------------------
ConfigInit ==
    /\ file = << >>
    /\ env = << >>
    /\ config = DefaultConfig
    /\ cores = {}
    /\ phase = "configuring"

With(settings, k, v) ==
    [x \in DOMAIN settings \cup {k} |-> IF x = k THEN v ELSE settings[x]]

Unsettled ==
    /\ phase = "configuring"
    /\ Cardinality(DOMAIN file) + Cardinality(DOMAIN env) < MaxSettings

SetFile(k, v) ==
    /\ Unsettled /\ k \notin DOMAIN file
    /\ file' = With(file, k, v)
    /\ UNCHANGED <<env, config, cores, phase>>

SetEnv(k, v) ==
    /\ Unsettled /\ k \notin DOMAIN env
    /\ env' = With(env, k, v)
    /\ UNCHANGED <<file, config, cores, phase>>

\* A process that gave up, or goes on to serve.
Settled == phase \in {"refused", "logging"} /\ UNCHANGED configVars

ConfigNext ==
    \/ \E k \in Keys : \E v \in Texts(k) : SetFile(k, v)
    \/ \E k \in EnvKeys : \E v \in Texts(k) : SetEnv(k, v)
    \/ ParseFails \/ Load \/ ValidateFails
    \/ NewLogger \/ NewLoggerFails
    \/ Settled

ConfigSpec == ConfigInit /\ [][ConfigNext]_configVars
-----------------------------------------------------------------------------
(* Properties *)

Accepted == phase \in {"loaded", "logging"}

\* A process whose configuration was accepted runs on what the operator wrote: no
\* accessor falls back in silence, the limit of bodies limits, there are secrets
\* and a path for the metrics, and once there is a logger it writes somewhere
\* (config.go:47-119, 223-260, logger.go:57-59).
AcceptedIsUsable ==
    /\ Accepted =>
         /\ \A k \in Durations : Accessor(k) = config[k]
         /\ config.max_body_bytes > 0
         /\ "" \notin {config.access_secret, config.refresh_secret, config.metrics_path}
    /\ phase = "logging" => cores # {}

\* What the operator said of k last, the environment after the file.
LastSaid(k) ==
    IF k \in DOMAIN env /\ env[k] # "" THEN env[k]
    ELSE IF k \in DOMAIN file THEN file[k] ELSE DefaultConfig[k]

\* However file and environment are mixed, a process that is told that this is
\* production signs no token with the secret that this repository publishes for
\* that kind of token (config.go:214-252).
ProductionSecretsChosen ==
    Accepted /\ IsProduction(LastSaid("environment")) =>
        \A k \in Secrets : LastSaid(k) # DefaultConfig[k] /\ config[k] = LastSaid(k)

\* "Production refuses the placeholder JWT secrets (`change-me-access` /
\* `change-me-refresh`)" (README.md:176).
PlaceholdersRefused ==
    Accepted /\ IsProduction(config.environment) =>
        \A k \in Secrets : config[k] \notin {"change-me-access", "change-me-refresh"}
-----------------------------------------------------------------------------
(* The inductive invariant *)

\* Until the process serves, the configuration it holds is the merged one that was
\* found valid.
ConfigInvariant ==
    /\ phase \in {"configuring", "loaded", "logging", "refused", "crashed", "serving"}
    /\ cores \subseteq {"console", "file"}
    /\ DOMAIN config = Keys /\ config.max_body_bytes \in Nat
    /\ Accepted => Valid(config) /\ config = Validated(ApplyEnv(Unmarshal))
    /\ phase = "logging" => cores # {}
=============================================================================
