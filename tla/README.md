# A verification of the Go API boilerplate

TLA+ models of the service in `src/`, checked with TLC on small instances and, for most
safety properties, proved with TLAPS for instances of any size. The source is the reference:
every definition was read off the Go code named in `PROJECT.json` under `map`, or, where the
behaviour is that of gorm, Postgres, Redis or `net/http`, off how the code calls them
(these entries are marked external).

To repeat it, inside this directory:

    tlc -workers 2 -config auth_faults.cfg MCAuthService
    tlapm AuthServiceProofs.tla

`PROJECT.json` lists all runs with their modules, and all theorems.

## The system

A JSON API over HTTP, in one process, with Postgres for accounts and Redis for tokens.

| part | code | state it keeps | operations |
|---|---|---|---|
| Sessions | `internal/auth/service.go`, `handler.go`, `dto.go` | none of its own | Register, Login, Refresh, Logout, ValidateAccess |
| Tokens | `internal/auth/token.go` | the secrets and lifetimes | issue and parse access and refresh tokens (JWT) |
| Token store | `internal/auth/store.go` | Redis: `auth:refresh:<jti>`, `auth:blacklist:<jti>`, each with a TTL | SaveRefresh, GetRefresh, RevokeRefresh, BlacklistAccess, IsAccessBlacklisted |
| Access check | `internal/middleware/auth.go`, `internal/authctx` | the principal of a request | JWT, RequireRole |
| Users | `internal/user/*`, `migrations/` | Postgres: `users`, soft-deleted, a unique index on the email of live rows | GET/PATCH `/users/me`, list, get, update, delete |
| Configuration | `internal/config`, `internal/logger` | the settings, the outputs of the log | file, environment, validation, accessors, opening the outputs |
| Pipeline | `internal/server/server.go`, `internal/middleware/*` | Prometheus counters and the gauge of requests in flight | request id, recovery, log, CORS, body limit, metrics, guards |
| Pagination | `internal/httpx/pagination.go` | none | parse and clamp the query, offset, the meta of a page |
| Probes | `internal/server/health.go` | none | liveness, readiness: all stores pinged side by side |
| Process | `cmd/server/main.go` | the two pools, the listener, the signal and error channels | connect, serve, stop |
| Support | `internal/httpx`, `database`, `cache` | none that changes after the start | binding, envelopes, connections |

How they meet: the access check runs before every protected handler and asks the token
store; sessions read and create rows through the repository of users; the user routes
write the same rows; the role that RequireRole looks at is the one a token was issued
with; every request walks the chain of middleware that `server.New` built from the
configuration; the process opens the stores before, and closes them after, everything
else.

What is hard about it:

- **Interleaving.** Nothing holds a lock or a transaction over two calls of a store
  (`database.go:22` turns off even gorm's own). Between any two calls of a request other
  requests, the clock and key expiry may act.
- **Check then act.** Refresh reads a key and deletes it later; updates read a row and
  save all of it later; login and refresh sign what they read earlier.
- **Partial failure.** A call may fail before or after it took effect, and a request that
  needs several calls has no way back. Two errors are dropped (`service.go:84` and `91`).
- **Two clocks.** A token carries its own expiry; the key that speaks of it gets a TTL
  later, from the same setting.
- **Two statements in one call.** gorm's `Save` updates, and if there was no live row it
  inserts with `ON CONFLICT (id) DO UPDATE`.
- **Order of the chain.** What runs before and after `c.Next()`, what `Abort` stops and what
  a panic skips decides who is answered, counted and logged.
- **Text that becomes settings.** File, environment, validation and accessors each convert,
  and some of them fall back in silence.
- **Pages of a table that changes.** A count and a select for each page, an offset that may
  wrap around, and other requests that write in between.
- **Stopping.** Handlers, the listener, signals and the deferred closing of the stores.
- **Redis may restart.** It runs without a volume, and the code cannot tell a key that was
  never set from one that is gone.

`PROJECT.json` lists the single hazards at their lines, each with the properties that
would notice it, or the reason why there is none.

## The modules

| module | models | extends or uses | proofs |
|---|---|---|---|
| `UsersTable` | abstract: what the table of users promises | | |
| `RefreshTokenLifecycle` | abstract: what the store promises about a refresh token | | |
| `AuthService` | sessions, tokens, token store, access check | both of the above | `AuthServiceProofs` |
| `UserService` | the writing user routes, role guard, repository | `UsersTable` | `UserServiceProofs` |
| `Listing` | `GET /users`: query, two statements, pages | | `ListingProofs` |
| `System` | both services over one table, as `main.go` wires them | extends `AuthService`, instantiates `UserService` | `SystemProofs` |
| `StoreRestart` | sessions over a Redis that restarts | extends `AuthService` | `StoreRestartProofs` |
| `Config` | settings, `Load`, accessors, outputs of the log | | in `PipelineProofs` |
| `Pipeline` | the engine and the chain of every request | extends `Config` | `PipelineProofs` |
| `Server` | the process and the handlers it waits for | | `ServerProofs` |
| `ReadyCheck` | the readiness probe | | `ReadyCheckProofs` |
| `MCAuthService`, `MCUserService`, `MCSystem`, `MCStoreRestart`, `MCListing`, `MCPipeline` | symmetry sets and kinds of request for TLC | | |

Operators that end in `_Bug`, `_Positive`, `_Hang` or `_Leak` are not part of any
specification. Each states what a plausible slip would make of the definition after it;
replaced by it, some property of a passing run fails (`mutants` in `PROJECT.json` says
which).

### AuthService

A request is a process. `pc[r]` is its next call to a store (`create`, `getByEmail`,
`getRefresh`, `getByID`, `revoke`, `save`, `validate`, `logout`, `blacklist`), or `issue`,
where both tokens are signed. One action is one SQL statement or Redis command together
with the code up to the next one, in the order of the code and with all its early
returns. `reply[r]` is the answer.

- `users` is the table, `refreshKeys` and `blacklist` are the two key spaces. A key is
  there while `now` is before its expiry; deleting it sets the expiry to 0. `KeyExpiry`
  keeps a corner of Redis: SET with a duration that is not positive stores a key for good.
- `claims[j]` is what the pair minted by request `j` says. UUIDs never collide, so user
  ids and both token ids are named after the request that minted them.
- Clients present any token of any pair that was answered to anybody, also of the wrong
  type, expired, or a refresh token with somebody else's access token. Forged tokens do
  not parse and are left out, as are bodies that do not bind: they change nothing.
- `DBFaults` and `RedisFaults` let every call fail, with or without having taken effect.
- `Admins` and `Members` are the accounts there are from the start. Each is named after
  the request that would have registered it; an admin has to be made by hand
  (`README.md:110-113` of the repository).
- `UserRoutes` is what the user service may do to the table between any two calls: the
  step `Change` of `UsersTable`.
- `spent`, `lost` and `witnessed` are history: tokens whose DEL was sent, tokens of which
  a DEL failed without effect, and rows that were live while a request was in flight.

Passwords are not modelled. A login with the wrong one is a choice of `GetByEmail`, a
password that bcrypt refuses is one of `Register`.

### UserService

A request reads (`GetByID`), prepares the struct (`Asked`), and saves it (`Save`, then
perhaps `Upsert`); or it deletes (`DeleteRow`); registrations (`CreateRow`) come from the
auth service. The two statements of gorm's Save are two actions. `input[r].as` is the role
in the token: any role the row ever had (`Principal`), as a token may be older than the row's
last change. An action whose name ends in `As` takes the principal, or the id of a new
account, as an argument and assumes nothing of it; `Register`, `UpdateMe` and `AdminRoute`
add what this module by itself assumes. `disturbed` is history: the requests whose row others
wrote since they read it.

### How the two services meet: UsersTable

Both services write one table. Each assumes of the other only what `UsersTable` says: a row
is inserted once, with role user, and from then on rewritten, deleted or brought back; one
row at a time; and it goes live, or takes an address, only when that address is free among
the live rows. Each is shown to write the table in no other way (`UsersTableKept`, a
refinement with `users` or `rows` for `table`), so neither is checked against a world
that the other could leave.

### How they meet for real: System

`System` is the API with both: `AuthService` as it is, and `UserService` with `users` for
its `rows`. A step is a step of one of them or of both. `SignUp` and `Insert` are the two
halves of a registration, which each module describes from its side. `Serve` starts a user
route for a request that the access check let through (`Admitted`), with the principal that
it set, whoever that is; `Handler` is a statement of that route, and counts for
`AuthService` as one of its `UserRoutes`. What `UserService` assumes by itself is no guard of
the system: neither that a principal is somebody whose row came up once and who was an admin
if the token says so, nor that the id of a registration is new. `Agreement` says that it is so
all the same; `CallsFollowTokens` that a user route acts for nobody but the user of its token.

### Redis restarts: StoreRestart

`Snapshot` saves an image of both key spaces at any moment, `Restart` brings the last image
back or starts with nothing. That is what `docker-compose.yml:20-30` (no volume, no
append-only file) leaves open, and the worst that Redis does under any setting of its own.
`exposed` and `restartedAt` are history: the tokens that were signed when it last
restarted, and when that was.

### Config and Pipeline

`Config` starts from `file` and `env`, two functions from settings to one of the few texts
that the code tells apart (nothing, unreadable, readable but wrong, good), which the
operator fills in one setting at a time. `Load` is `Unmarshal` over the defaults, `ApplyEnv`
with its silent skips (`Heeded`), `Valid`, and the default path of the metrics; `Accessor`
is what `config.go` hands out later. `NewLogger` opens the outputs.

`Pipeline` continues where the logger is there. `New` copies what the engine needs, or
panics when the path of the metrics, joined to the group's as gin does it (`Joined`), is that
of another route. Then each request walks: `at` is `down` while handlers
call on, `up` after an Abort or the last handler, `panic` while a panic unwinds. `next` is
the handler that is called next (`After` is the order in `server.go`), `frames` are the
handlers whose code after `c.Next()` has still to run. One action is one handler up to its
Next or return, or the code after Next. What the handlers leave in the gin context
(`id`, `logs`, `principal`, `limit`, the headers of CORS) and what is recorded outside
(`line`, `count`, `reported`, `named`, `inFlight`) is state. `named` is by what the line or
the report names its request: the whole id from status 400 on, the first eight characters of
an id that has as many below, or nothing. A body over the limit is refused, or, when its JSON
ends before the limit, not read to its end. A route of every kind is there: with and without
a body, guard, role and instrumentation.

### Listing

`ParsePositiveInt`, `Clamp` and `Offset` with an int that wraps around; `Count` and
`Select` as two statements, with `Orders`, the orders that `ORDER BY created_at DESC` leaves
to Postgres; a client that asks for one page anywhere (`Jump`) or walks from the first page
to the first short one (`StartWalk`, `WalkOn`); and `Write`, other requests that insert
(with a `created_at` that may be in the past, as it is taken before the INSERT) and delete
between any two statements.

### Server and ReadyCheck

`Server` follows `run()` step by step in `main`, from the configuration over opening and
pinging each store to the end; `how` says why it ends. The listening goroutine, the two
channels, signals before `signal.Notify` (which kill) and after (which are queued) and
kept-alive connections act at any time. `ReadyCheck` is `CompositeReady.Ready` with its
goroutines and its channel, for any number of checks, with the short cuts for none and one.

## What the runs show

TLC explores every interleaving within these bounds.

| run | instance | shows | result |
|---|---|---|---|
| `auth_faults` | 1 account and 3 requests, 1 address, TTLs 1 and 2, 2 ticks, both stores may fail, 1 write by the user routes | `SessionInvariant`; a logout answered 204 keeps the access token out for all its life (`LogoutCoversTokenLife`, `NoPrincipalAfterLogout`); an unspent session is not lost (`SessionNotLost`); after an answered rotation or logout the old token opens nothing, unless its DEL was lost (`EndedSessionsRefused`); a pair says what was true during its request (`PairReflectsRequestInterval`); `RefreshTokensNeverRevive` and `UsersTableKept` (refinements) | holds |
| `auth_single_use` | 3 requests, no failures | `RefreshTokenSingleUse` | violated |
| `auth_logout_fault` | 2 requests, Redis may fail | `LogoutAlwaysRevokes` | violated |
| `user_races` | 3 users, 3 requests, 2 addresses, failures | `AccountInvariant`, `LoneAdminStays`, `RejectedChangesNothing`; a deleted row comes back only by a stale save (`RevivedByStaleSaveOnly`), and a role changes only by one or as an admin asked (`RoleChangesOwned`); an update that nothing overlapped is exact (`QuietUpdateExact`); `UsersTableKept` (refinement) | holds |
| `user_delete_race` | 2 users, 2 requests | `DeletedStaysDeleted` | violated |
| `user_role_race` | 2 users, 2 requests | `ProfileUpdateKeepsRole` | violated |
| `server_stop` | 3 requests | `StopInvariant`, `StoresOutliveHandlers`, `CleanExitAnswersAll`, `ReturnsClosed`, `StopIsObeyed` (liveness) | holds |
| `ready` | 0 to 3 checks, 2 errors | `ReadyInvariant`, `ReadyIffAllUp`, `NoGoroutineLeft`, `Answers` (liveness) | holds |
| `pipeline` | up to 3 settings, 2 requests of 10 kinds | `PipelineInvariant`; what is accepted can be used (`AcceptedIsUsable`), also in production (`ProductionSecretsChosen`); guards, one answer, one trace by which the request can be found, the gauge and CORS (`GuardsHold`, `AnsweredOnce`, `LeavesOneTrace`, `GaugeAccounted`, `SharedAsConfigured`) | holds |
| `listing` | 4 accounts, 4 times, an int of 5 bits, numbers up to 17, 2 writes | `ListInvariant`; a walk misses nobody who was there from the start (`WalkMissesNothing`), a quiet walk is exact (`QuietWalkExact`), a page is the one that was asked for (`PageIsWhereAsked`) | holds |
| `system` | an admin and 3 requests, 2 addresses, TTLs 1 and 2, 1 tick, 2 writes by the user routes, no failures | the two services take nothing for granted of each other that is not so (`Agreement`), and user routes act for whom their token says (`CallsFollowTokens`) | holds |
| `store_restart` | 3 requests, 1 address, TTLs 1 and 2, 3 ticks, any number of images and restarts | a restart harms only tokens signed before it, for a lifetime at most (`HarmPasses`, `LateAdmittance`) | holds |

The type invariants are checked in the same runs, as the first part of the inductive
invariant. Two more violations can be had by hand, with `pipeline_gauge.cfg` for
`MCPipeline` and `config_secrets.cfg` for `Config`: a handler that panics leaves the gauge of
requests in flight one too high (`GaugeExact`, `metrics.go:45`; `GaugeAccounted` says how much),
and production accepts the placeholder of one secret in the place of the other
(`PlaceholdersRefused`, `config.go:249`; the README of the repository says at line 176 that it
refuses them).

**The bounds.**

- *Sessions.* An account that is there and three requests are enough for a login (or a
  registration) and two requests that race with its pair. With TTLs 1 and 2 and two ticks,
  access tokens, their blacklist keys and refresh keys all expire while requests are between
  two calls. `MaxTime` stops the clock and
  `MaxUserWrites` counts the foreign writes; one write is enough to change or delete the row
  between the read and the signature.
- *Users.* Three users are an admin, a member and a new account; two addresses allow a swap.
- *System.* The admin logs in, and the token serves two requests that race; or it serves one
  that races with a registration. Failures are in the runs of the halves, and in the proofs.
- *Redis.* Three ticks are a restart in between and a whole refresh TTL after it.
- *Pipeline.* Three settings are an environment of production and both secrets; or a path for
  the metrics, a limit and an origin. `MCKinds` has a request for every guard with every kind of token,
  bodies above and below the limits of 64 bytes and 1 MiB, a page's origin on the list and
  off it, ids that are missing, short and long, and paths that are instrumented and that are
  not. Two requests share the gauge.
- *Listing.* 5 bits make offsets negative and small again within numbers up to 17; two
  writes are a delete and an insert, or two inserts that shift two pages.
- *Server, ReadyCheck.* Three requests or checks allow one to be done, one in progress and
  one to come.

These are bounds of the models, not of the code. For the invariants that are proved they do
not matter: there the runs are the small check made before the proof. Requests (and
addresses and ids) are interchangeable, so the safety runs use symmetry; the two runs with a
liveness property do not. Deadlock is checked everywhere: a final state has a step of its
own (`Terminating`, `Exited`, `Returned`, `Settled`, `Quiet`, `Ended`), so every other stuck
state would be reported.

**The violations** are things that the code does and that its documents or tests deny;
`findings` in `PROJECT.json` quotes them.

1. Two concurrent refreshes with one token both succeed (`service.go:73` and `84`).
2. A logout whose DEL failed is answered 204, and the refresh token lives on (`service.go:91`).
3. A PATCH that overlaps a delete brings the account back (`repository.go:88`).
4. A PATCH `/users/me` that overlaps a change of role undoes it (`service.go:42-49`).

None of them contradicts the properties that hold, which say how far the harm goes. A
rotation ends the *old* token for everybody, so that two pairs come of one token only when
the refreshes overlap; a logout ends the token unless its DEL was lost; an account comes back
only by the second statement of a save that was prepared before the delete; and a stale save
may bring back a role but never makes it up.

**Fairness.** The safety runs assume none. `Server` assumes weak fairness of `run()`
itself: the scheduler runs the main goroutine and the timer of the shutdown context fires
(`main.go:110`). Handlers get none, and may hang for ever; the process ends all the same.
`ReadyCheck` assumes that Ready and every check go on; that a ping ends is an assumption
about the drivers, as the request context has no deadline. Nothing in the session and user
services is claimed to happen eventually: a request may stop between two calls when its
client goes away. Nor in `Pipeline`: a handler may take for ever.

## What is proved

All proofs hold for constants of any size. They use only the named assumptions on the
constants, which TLC evaluates in the runs. The TTLs are arbitrary integers: the
configuration accepts any duration, and none of the session theorems needs it positive.
`Pipeline` assumes that there are finitely many requests, some kind of request, and sizes
that are naturals; `ReadyCheck` finitely many checks; `Listing` that a page has at least
one row and at most an int's worth, and (`AccountsAssumption`) that an int is wide enough to
count the accounts.

None of the properties is inductive by itself. Each module states the strengthening last.

**AuthServiceProofs** (`SessionInvariant`). The parts:

- `Control` and `Presented`: where a request is says what it was sent, and tokens that
  come in were answered before, so their claims are fixed.
- `ExpiryBounds`: expiries lie at most one lifetime ahead of the clock. This is why the
  full access TTL that Logout writes covers what is left of the token
  (`BlacklistOutlives`), and why a key that is stored after the token was signed cannot
  die before it (`KeyOutlives`).
- `KeySetLast`: a refresh key is set by the last step of the request that minted its id,
  so no request in flight can set again what another one deleted. The refinement of
  `RefreshTokenLifecycle` follows.
- `Rotated` and `Dropped`: between the DEL and the answer the key stays gone, unless the
  DEL was lost. `auth_logout_fault` shows that the exception is needed.
- `Witnessed`: a request acts for a row that was live while it was in flight.

From it follow `TypeCorrect`, `LogoutCovers`, `LogoutIsFinal` (an action property),
`SessionsKept`, `PairsReflect`, `RotationEnds`, `LogoutEnds`, `EndedSessionsStayEnded` (an
action property: what a client sees of the last two), `LifecycleImplemented` and
`TableImplemented`; and from the last of them `OneAccountAnAddress`: what the table allows of
single steps keeps live accounts apart.

**UserServiceProofs** (`AccountInvariant`). That the only admin stays needs a statement
about saves in progress (`LoneAdminKept`: a struct prepared for the only admin says admin),
one about tokens (`EntitledTo`: only somebody who was an admin holds an admin's token, so
nobody else could have demoted him), and `Prepared` and `MintedApart` (a registration never
writes an existing row). `Undisturbed` says that a struct whose row nobody else wrote is
that row with the columns that were asked for. From it follow `AccountTypes`,
`AdminsAreMade`, `LastAdminStays`, `RefusalsChangeNothing`, the action properties
`QuietUpdates`, `RevivalsAreStale` and `RolesChangeHands`, and, with the index over live
rows, the refinement `TableImplemented`. For the two about stale saves, `Undisturbed` is used
the other way round: a save that changes a column nobody asked for, or finds no live row, has
a struct that is not the row, so it was disturbed.

**SystemProofs** (`SystemInvariant`). Each half assumes something of the other, and neither
assumption can be shown first, so there is one joint induction.

1. `SystemInvariantHolds`: the invariants of both services (`Halves`) and `SystemInvariant`,
   which ties them, are inductive together. `SightsKept`: a row that a request saw live was known to
   `UserService` with that role, for good. With `Witnessed`, what a token says was seen by the
   request that issued it. `PrincipalsAreClaims`: the principal is what the token says, and
   `NamedAlike`: both halves mean the same registration and the same new row. From these
   follows `Agreement` (`Agreed`); with it a step of the system is one of `UserService`
   (`AccountsStep`), and with that one of `AuthService` (`RouteWrites`, `SameTable`).
2. `HalvesAgree`: whoever is admitted has a row, and was an admin if the token says so; the id
   of a registration is new; both halves describe the same insert.
3. `AccountsImplemented`: so the system implements the specification of `UserService`, although
   it has none of its guards on principals and ids. `AccountsKept` is its invariant.
4. `SessionsImplemented`: the statements of the user routes are the `Change` of the table that
   `AuthService` allows. So its invariant holds too (`SessionsKeptToo`), and all that is proved
   in `AuthServiceProofs`, for instance `AddressesStayApart`.
5. `CallsKeepToTokens` and `NoFirstAdmin`: an admin route acts for somebody who was an admin
   while the token was issued, and where there is no admin none ever comes.

**StoreRestartProofs** (`RestartInvariant`). A restart breaks `BlacklistOutlives`,
`KeyOutlives`, `Rotated` and `Dropped`, and with them the properties that TLC finds violated
(`LogoutCoversTokenLife`, `SessionNotLost`, `RotationRevokes`, `LogoutRevokes`). The
invariant keeps them for the tokens that are not in `exposed`, token by token, and adds
`ExposedExpire` (those that are expire within a lifetime of the restart) and `ImageKept` (the
image holds no key of a request that has yet to set it, so a restart cannot make one up).
The lemmas of `AuthServiceProofs` are about one token or one request each, so the steps of
the sessions need no second proof. Theorems: `RestartInvariantHolds`, `HarmIsBounded`,
`LateAdmittanceEnds` (an action property), and `PairsReflectThroughRestarts`, which no
restart touches.

**PipelineProofs** (`ConfigInvariant`, `PipelineInvariant`). Until the
process serves, the configuration it holds is the merged one that was found valid, with the
path of the metrics filled in; so what the properties say of it can be read off `Valid`.
From then on the engine does not change, and `Control` says of every request by itself what
its place in the chain implies: on the way in (`GoesIn`) the next handler fixes which frames
wait, what the guards let through and what limit is set; a panic (`Panics`) has recorded
nothing and still carries its logger; on the way out (`GoesOut`) exactly the frames that have
returned have recorded the one status, under the name that its id and status ask for. The
requests meet only in the gauge, which is counted. Theorems:
`ConfigInvariantHolds`, `PipelineInvariantHolds`, `GuardsAlwaysHold`, `AlwaysAnsweredOnce`,
`AlwaysLeavesOneTrace`, `GaugeAlwaysAccounted`, `BodiesAlwaysLimited`,
`AlwaysSharedAsConfigured`, `AcceptedAlwaysUsable`, `ProductionAlwaysChosen`.

**ServerProofs** (`StopInvariant`: where `run()` is says what is open, who may still work
and what has become of the listener): `StoresStayOpen`, `CleanExits`, `StoresAreClosed`.

**ReadyCheckProofs** (`ReadyInvariant`: the checks that have ended are as many as the
results received and in the channel, and an error among them is not lost on the way):
`ReadyExactly`, `SendersHaveRoom`, `AllGoroutinesEnd`, for any finite set of checks. Two
more are as much of the liveness property `Answers` as can be proved: every step of Ready or a
goroutine lowers `StepsLeft`, which starts at 4 n + 2 at most (`StepsRunOut`), and until Ready
returns somebody can go on (`NobodyIsStuck`, with the guards of the actions written out). What
is left to fairness is that who can go on does.

**ListingProofs** (`ListInvariant`). The parts:

- `Blank`: before it selects, List has no rows; so what it answers is what Select alone has
  read, whatever was written since Count.
- `OwedIsAhead`: every account that a walk still owes its client (there at the start, tied
  with no other, not yet got) has at least as many newer rows before it as the next page
  skips. An insert only adds newer rows, a page takes what it passes, and on a short page
  nothing is left behind it. A delete breaks this, and is excluded by `past.deleted`.
- `QuietIsRanked`: without writes and ties, row i that was got has i - 1 newer ones.
- `Collected`: what the client holds are rows.

`OffsetExact`: for every width of int, the offset of a page that is no further than
`MaxInt \div MaxPerPage` is the number of rows that the pages before it hold. The code does
not enforce that bound; beyond it an offset may wrap. `PagesAreWhereAsked`: up to there a
page is the one that was asked for, in tables of any size. It rests on `PlaceInOrder`, which
counts by injections into the places before and behind a row, and on `PageCuts`.
`WalksMissNothing` follows from `OwedIsAhead`; `QuietWalksAreExact` from `QuietIsRanked`, as
rows with different ranks are different, and so many of them are all (`RanksAreExact`).
`ListInvariantHolds` is the invariant.

In each module the proofs go by one lemma for each kind of step, one step for each conjunct
that it can disturb, and a last lemma over `Next`.

**Only model-checked.** The liveness properties `StopIsObeyed` and `Answers`: liveness under
fairness, and `ENABLED`, are out of the prover's reach. The violated properties are refuted by
TLC. That the actions of `System` and `StoreRestart` can all happen is shown by their runs.

**Only proved.** Some properties are part of others that the runs check, or stand beside
them, and are stated as theorems only: `RotationRevokes` and `LogoutRevokes` (beside `EndedSessionsRefused`),
`AdminProvenance` (a part of `AccountInvariant`), `BodiesLimited` (a part of
`PipelineInvariant`), `AddressesApart` (beside `UsersTableKept`), `NobodyWaitsToSend`,
`EveryStepCounts`, `NeverStuck`, and `NoAdminFromNothing`, which says nothing where there is
an admin. TLC agrees with each of them on instances like those of the runs.

## What is not modelled, and why

- Signatures, encodings, bcrypt: functions of their input, with no state that lasts. The
  email in the claims is read by no route.
- The messages of the validator and the layout of envelopes and log lines: wording. That a
  body is bound before the work, may be too large, and that each error becomes one answer is
  in `Pipeline`.
- Log levels, encoders and file names; host names, ports, DSN and pool sizes: copied from
  the settings to a library. Pools at their limits queue inside the libraries.
- The read, write and idle timeouts of `net/http`: the server enforces them on the
  connection, and a handler that is cut off there looks like one whose client went away.
- gin's redirects of paths with a trailing slash: answered before any middleware.
- Restarts of the process with tokens outstanding change nothing, as no state lives in it;
  those of Postgres lose nothing that it confirmed. Redis evicting keys when its memory is
  full is not modelled: `docker-compose.yml` sets no limit.
- `GET /users/me` and `/users/:id` look up one row, and `/health/live` answers at once.
- The generated API documentation: its statements were compared with the models.

## What is left

1. What happens to `System` when Redis restarts: `StoreRestart` and `System` both extend
   `AuthService`, and could be composed in the same way.
2. `Server` and `Pipeline` count the same requests from two sides: that a drained server has
   no request between Arrive and Finish of `Pipeline` is not stated.
