---------------------------- MODULE AuthService ----------------------------
(***************************************************************************)
(* The session half of the API: register, login, refresh, logout and the   *)
(* check of an access token, as concurrent HTTP requests over Postgres     *)
(* (the users table) and Redis (the token store).                          *)
(*                                                                         *)
(* Every call to a store is one atomic step, because a single SQL          *)
(* statement or Redis command is; nothing holds a lock or a transaction    *)
(* between two calls, so any other request, the clock and the user         *)
(* service may act in between.  A call that fails may still have taken     *)
(* effect (the reply was lost, or the client hung up and the context was   *)
(* cancelled after the command was sent).                                  *)
(*                                                                         *)
(* Operators whose name ends in _Bug are what a slip in the code would make *)
(* of the definition after them.  They are not part of the specification:  *)
(* each one shows that some property would notice.                         *)
(*                                                                         *)
(* A request is served once.  UUIDs never collide, so the user id and the  *)
(* two token ids that a request mints are all named after the request.  An *)
(* account that is there from the start is named after the request that    *)
(* registered it, which has long been answered.                            *)
(* Access and refresh ids live in different key spaces of Redis            *)
(* (auth:blacklist: and auth:refresh:), and never meet.                    *)
(***************************************************************************)
EXTENDS Integers

CONSTANTS
    Requests,     \* the HTTP requests
    Emails,       \* normalised email addresses
    None,         \* no user, email or token
    Admins,       \* the accounts there are from the start, with role admin
    Members,      \* and with role user
    AccessTTL,    \* jwt.access_ttl, in ticks of the clock
    RefreshTTL,   \* jwt.refresh_ttl, in ticks of the clock
    MaxTime,      \* bound: the clock stops here
    DBFaults,     \* may a Postgres call fail?
    RedisFaults,  \* may a Redis call fail?
    MaxUserWrites \* bound: how many rows the user routes write meanwhile

ASSUME AuthAssumption ==
    /\ None \notin Requests
    /\ None \notin Emails
    /\ None \notin {"user", "admin"}
    /\ Admins \subseteq Requests
    /\ Members \subseteq Requests \ Admins
    /\ AccessTTL \in Int
    /\ RefreshTTL \in Int
    /\ MaxTime \in Nat
    /\ DBFaults \in BOOLEAN
    /\ RedisFaults \in BOOLEAN
    /\ MaxUserWrites \in Nat

VARIABLES
    now,          \* the clock that tokens and Redis keys expire by
    users,        \* the users table
    userWrites,   \* how often the user routes wrote it
    refreshKeys,  \* auth:refresh:<jti>  -> the user and the key's expiry
    blacklist,    \* auth:blacklist:<jti> -> the key's expiry
    claims,       \* what the token pair minted by a request says
    pc,           \* the next call of each request
    reply,        \* the HTTP answer of each request
    input,        \* what each request was sent
    subject,      \* the user, or the principal, the request acts for
    spent,        \* history: refresh tokens that RevokeRefresh was called for
    lost,         \* history: refresh tokens of which a DEL was lost
    witnessed     \* history: the live <<user, role>> rows during a request

dbVars == <<users, userWrites, witnessed>>
storeVars == <<refreshKeys, blacklist, spent, lost>>
requestVars == <<pc, reply, input, subject, claims>>
vars == <<now, dbVars, storeVars, requestVars>>
-----------------------------------------------------------------------------
(* Types *)

Ids == Requests \cup {None}
Roles == {"user", "admin"}
Statuses == {"none", "ok", "created", "noContent", "unauthorized", "conflict",
             "internal"}
Labels == {"idle", "create", "getByEmail", "getRefresh", "getByID", "revoke",
           "issue", "save", "validate", "logout", "blacklist", "done"}

User == [status : {"absent", "live", "deleted"}, email : Emails \cup {None},
         role : Roles]
RefreshKey == [user : Ids, expires : Int]
Claims == [user : Ids, role : Roles, accessExp : Int, refreshExp : Int]
Token == [typ : {"access", "refresh", "none"}, jti : Ids]
Input == [op : {"none", "register", "login", "refresh", "logout", "me"},
          email : Emails \cup {None}, access : Token, refresh : Token]
Subject == [user : Ids, role : Roles]

NoToken == [typ |-> "none", jti |-> None]
NoInput == [op |-> "none", email |-> None, access |-> NoToken,
            refresh |-> NoToken]
NoSubject == [user |-> None, role |-> "user"]
NoKey == [user |-> None, expires |-> 0]
NoClaims == [user |-> None, role |-> "user", accessExp |-> 0, refreshExp |-> 0]

TypeOK ==
    /\ now \in 0 .. MaxTime
    /\ users \in [Requests -> User]
    /\ userWrites \in 0 .. MaxUserWrites
    /\ refreshKeys \in [Requests -> RefreshKey]
    /\ blacklist \in [Requests -> Int]
    /\ claims \in [Requests -> Claims]
    /\ pc \in [Requests -> Labels]
    /\ reply \in [Requests -> Statuses]
    /\ input \in [Requests -> Input]
    /\ subject \in [Requests -> Subject]
    /\ spent \in SUBSET Requests
    /\ lost \in SUBSET Requests
    /\ witnessed \in [Requests -> SUBSET (Requests \X Roles)]

\* The accounts there are from the start, with addresses of their own.
Seeds == Admins \cup Members
Seeded(table) ==
    /\ \A u \in Requests :
         /\ table[u].status = IF u \in Seeds THEN "live" ELSE "absent"
         /\ table[u].role = IF u \in Admins THEN "admin" ELSE "user"
         /\ table[u].email = None <=> u \notin Seeds
    /\ \A u, v \in Seeds : table[u].email = table[v].email => u = v

\* The start of a deployment: no keys, no tokens.  A key whose expiry is 0 is one
\* that was never set.
Init ==
    /\ now = 0
    /\ users \in [Requests -> User] /\ Seeded(users)
    /\ userWrites = 0
    /\ refreshKeys = [j \in Requests |-> NoKey]
    /\ blacklist = [j \in Requests |-> 0]
    /\ claims = [j \in Requests |-> NoClaims]
    /\ pc = [r \in Requests |-> IF r \in Seeds THEN "done" ELSE "idle"]
    /\ reply = [r \in Requests |-> "none"]
    /\ input = [r \in Requests |-> NoInput]
    /\ subject = [r \in Requests |-> NoSubject]
    /\ spent = {}
    /\ lost = {}
    /\ witnessed = [r \in Requests |-> {}]
-----------------------------------------------------------------------------
(* Redis.  A key is there until its expiry; deleting it is setting the     *)
(* expiry to 0.  SET with a duration that is not positive stores a key     *)
(* without expiry, which outlives the bound of the clock.                  *)

Forever == MaxTime + 1
KeyExpiry(ttl) == IF ttl > 0 THEN now + ttl ELSE Forever

Stored(j) == now < refreshKeys[j].expires
Blacklisted(j) == now < blacklist[j]

\* The minute that BlacklistAccess puts in place of a TTL that is not positive.
Minute == 1

\* The key gets the access token's life.
AfterSaveRefresh_Bug(j, u, ttl) ==
    [refreshKeys EXCEPT ![j] = [user |-> u, expires |-> KeyExpiry(AccessTTL)]]
AfterSaveRefresh(j, u, ttl) ==
    [refreshKeys EXCEPT ![j] = [user |-> u, expires |-> KeyExpiry(ttl)]]
AfterRevokeRefresh(j) == [refreshKeys EXCEPT ![j] = NoKey]
AfterBlacklistAccess(j, ttl) ==
    [blacklist EXCEPT ![j] = KeyExpiry(IF ttl <= 0 THEN Minute ELSE ttl)]
-----------------------------------------------------------------------------
(* Tokens *)

\* Clients hold the pairs that were answered to them.
Delivered == {j \in Requests : /\ claims[j].user # None
                               /\ reply[j] \in {"ok", "created"}}
Presentable == [typ : {"access", "refresh"}, jti : Delivered]

\* parse: the signature and type are those asked for and the token has not
\* expired.  What it yields is claims[t.jti].
Parses(t, typ) ==
    /\ t.typ = typ
    /\ now < IF typ = "access" THEN claims[t.jti].accessExp
                               ELSE claims[t.jti].refreshExp
-----------------------------------------------------------------------------
(* The users table *)

\* gorm adds deleted_at IS NULL to every query.
\* Found_Bug: the query is Unscoped and finds deleted rows too.
Found_Bug(u) == users[u].status # "absent"
Found(u) == users[u].status = "live"

LiveRows(table) ==
    {<<u, table[u].role>> : u \in {v \in Requests : table[v].status = "live"}}

\* The partial unique index on the email of live rows.  EmailFree_Bug: the
\* migration left it out.
EmailFree_Bug(e) == TRUE
EmailFree(e) == \A u \in Requests : ~ (Found(u) /\ users[u].email = e)

\* Every write of the table is seen by the requests then in flight.
See(table) ==
    witnessed' = [r \in Requests |->
                    IF pc[r] \in {"idle", "done"} THEN witnessed[r]
                    ELSE witnessed[r] \cup LiveRows(table)]
SetUsers(table) == users' = table /\ See(table)

\* What the table promises to everybody who writes it.
Table == INSTANCE UsersTable WITH Ids <- Requests, table <- users
-----------------------------------------------------------------------------
(* Control of a request *)

Goto(r, label) ==
    /\ pc' = [pc EXCEPT ![r] = label]
    /\ UNCHANGED reply

Answer(r, status) ==
    /\ pc' = [pc EXCEPT ![r] = "done"]
    /\ reply' = [reply EXCEPT ![r] = status]

\* The handler bound a request; a body that does not bind is answered 400
\* without touching anything, and is left out.
Receive(r, in) ==
    /\ pc[r] = "idle"
    /\ input' = [input EXCEPT ![r] = in]
    /\ witnessed' = [witnessed EXCEPT ![r] = LiveRows(users)]
    /\ UNCHANGED <<now, users, userWrites, storeVars, subject, claims>>

Register(r) == \E e \in Emails :
    /\ Receive(r, [NoInput EXCEPT !.op = "register", !.email = e])
    /\ \/ Goto(r, "create")
       \/ Answer(r, "internal")          \* bcrypt refuses the password

Login(r) == \E e \in Emails :
    /\ Receive(r, [NoInput EXCEPT !.op = "login", !.email = e])
    /\ Goto(r, "getByEmail")

Refresh(r) == \E t \in Presentable :
    /\ Receive(r, [NoInput EXCEPT !.op = "refresh", !.refresh = t])
    /\ IF Parses(t, "refresh") THEN Goto(r, "getRefresh")
                               ELSE Answer(r, "unauthorized")

\* The JWT middleware in front of logout and of the user routes ("me" stands
\* for them): it parses the bearer token before the handler runs.
Protected(r) == \E t \in Presentable, u \in Presentable, op \in {"logout", "me"} :
    /\ op = "me" => u = t
    /\ Receive(r, [NoInput EXCEPT !.op = op, !.access = t,
                      !.refresh = IF op = "logout" THEN u ELSE NoToken])
    /\ IF Parses(t, "access") THEN Goto(r, "validate")
                              ELSE Answer(r, "unauthorized")
-----------------------------------------------------------------------------
(* Register and Login up to the pair *)

\* The id of the new user is minted by this request.
Inserted(r) ==
    [users EXCEPT ![r] = [status |-> "live", email |-> input[r].email,
                          role |-> "user"]]

CreateUser(r) ==
    /\ pc[r] = "create"
    /\ \/ /\ EmailFree(input[r].email)
          /\ SetUsers(Inserted(r))
          /\ UNCHANGED userWrites
          /\ subject' = [subject EXCEPT ![r] = [user |-> r, role |-> "user"]]
          /\ Goto(r, "issue")
       \/ /\ ~ EmailFree(input[r].email)
          /\ Answer(r, "conflict")
          /\ UNCHANGED <<dbVars, subject>>
       \/ /\ DBFaults
          /\ \/ EmailFree(input[r].email) /\ SetUsers(Inserted(r)) /\ UNCHANGED userWrites
             \/ UNCHANGED dbVars
          /\ Answer(r, "internal")
          /\ UNCHANGED subject
    /\ UNCHANGED <<now, storeVars, input, claims>>

GetByEmail(r) ==
    /\ pc[r] = "getByEmail"
    /\ \/ \E u \in Requests :
             /\ Found(u)
             /\ users[u].email = input[r].email
             /\ subject' = [subject EXCEPT
                              ![r] = [user |-> u, role |-> users[u].role]]
             /\ Goto(r, "issue")
       \/ /\ Answer(r, "unauthorized")   \* no such user, or wrong password
          /\ UNCHANGED subject
       \/ /\ DBFaults
          /\ Answer(r, "internal")
          /\ UNCHANGED subject
    /\ UNCHANGED <<now, dbVars, storeVars, input, claims>>
-----------------------------------------------------------------------------
(* Refresh up to the pair *)

GetRefresh(r) ==
    LET j == input[r].refresh.jti IN
    /\ pc[r] = "getRefresh"
    /\ \/ /\ Stored(j)
          /\ refreshKeys[j].user = claims[j].user
          /\ Goto(r, "getByID")
       \/ /\ \/ ~ Stored(j)
             \/ refreshKeys[j].user # claims[j].user
             \/ RedisFaults
          /\ Answer(r, "unauthorized")
    /\ UNCHANGED <<now, dbVars, storeVars, input, subject, claims>>

GetByID(r) ==
    LET u == claims[input[r].refresh.jti].user IN
    /\ pc[r] = "getByID"
    /\ \/ /\ Found(u)
          /\ subject' = [subject EXCEPT
                           ![r] = [user |-> u, role |-> users[u].role]]
          /\ Goto(r, "revoke")
       \/ /\ ~ Found(u)
          /\ Answer(r, "unauthorized")
          /\ UNCHANGED subject
       \/ /\ DBFaults
          /\ Answer(r, "internal")
          /\ UNCHANGED subject
    /\ UNCHANGED <<now, dbVars, storeVars, input, claims>>

\* DEL of the key.  Its error is dropped by both callers, so a failed call
\* only shows in whether the key is gone.
RevokeRefresh(j) ==
    /\ spent' = spent \cup {j}
    /\ \/ refreshKeys' = AfterRevokeRefresh(j) /\ UNCHANGED lost
       \/ RedisFaults /\ UNCHANGED refreshKeys /\ lost' = lost \cup {j}
    /\ UNCHANGED blacklist

\* The old token is left in place.
RevokePresented_Bug(r) ==
    /\ pc[r] = "revoke"
    /\ Goto(r, "issue")
    /\ UNCHANGED <<now, dbVars, storeVars, input, subject, claims>>

RevokePresented(r) ==
    /\ pc[r] = "revoke"
    /\ RevokeRefresh(input[r].refresh.jti)
    /\ Goto(r, "issue")
    /\ UNCHANGED <<now, dbVars, input, subject, claims>>
-----------------------------------------------------------------------------
(* issuePair: sign both tokens, then store the refresh token *)

Issue(r) ==
    /\ pc[r] = "issue"
    /\ claims' = [claims EXCEPT ![r] =
                    [user |-> subject[r].user, role |-> subject[r].role,
                     accessExp |-> now + AccessTTL,
                     refreshExp |-> now + RefreshTTL]]
    /\ Goto(r, "save")
    /\ UNCHANGED <<now, dbVars, storeVars, input, subject>>

\* A refresh keeps the id of the token it was given.
SaveRefresh_Bug(r) ==
    LET j == IF input[r].op = "refresh" THEN input[r].refresh.jti ELSE r IN
    /\ pc[r] = "save"
    /\ refreshKeys' = AfterSaveRefresh(j, claims[r].user, RefreshTTL)
    /\ Answer(r, IF input[r].op = "register" THEN "created" ELSE "ok")
    /\ UNCHANGED <<now, dbVars, blacklist, spent, lost, input, subject, claims>>

SaveRefresh(r) ==
    /\ pc[r] = "save"
    /\ \/ /\ refreshKeys' = AfterSaveRefresh(r, claims[r].user, RefreshTTL)
          /\ Answer(r, IF input[r].op = "register" THEN "created" ELSE "ok")
       \/ /\ RedisFaults
          /\ \/ refreshKeys' = AfterSaveRefresh(r, claims[r].user, RefreshTTL)
             \/ UNCHANGED refreshKeys
          /\ Answer(r, "internal")
    /\ UNCHANGED <<now, dbVars, blacklist, spent, lost, input, subject, claims>>
-----------------------------------------------------------------------------
(* The access check and logout *)

\* IsAccessBlacklisted_Bug: the key is looked up without its prefix.
IsAccessBlacklisted_Bug(j) == FALSE
IsAccessBlacklisted(j) == Blacklisted(j)

\* A principal is set exactly when the check lets the request through.
\* ValidateAccess_Bug: its user is read from the id of the token, also a uuid, where
\* the subject belongs (token.go:110).
ValidateAccess_Bug(r) ==
    LET j == input[r].access.jti IN
    /\ pc[r] = "validate" /\ ~ IsAccessBlacklisted(j)
    /\ subject' = [subject EXCEPT ![r] = [user |-> j, role |-> claims[j].role]]
    /\ IF input[r].op = "logout" THEN Goto(r, "logout") ELSE Answer(r, "ok")
    /\ UNCHANGED <<now, dbVars, storeVars, input, claims>>

ValidateAccess(r) ==
    LET j == input[r].access.jti IN
    /\ pc[r] = "validate"
    /\ \/ /\ ~ IsAccessBlacklisted(j)
          /\ subject' = [subject EXCEPT ![r] =
                           [user |-> claims[j].user, role |-> claims[j].role]]
          /\ IF input[r].op = "logout" THEN Goto(r, "logout")
                                       ELSE Answer(r, "ok")
       \/ /\ IsAccessBlacklisted(j)
          /\ Answer(r, "unauthorized")
          /\ UNCHANGED subject
       \/ /\ RedisFaults
          /\ Answer(r, "internal")
          /\ UNCHANGED subject
    /\ UNCHANGED <<now, dbVars, storeVars, input, claims>>

\* The refresh token's key is deleted under the id of the access token.
Logout_Bug(r) ==
    /\ pc[r] = "logout"
    /\ IF Parses(input[r].refresh, "refresh")
       THEN RevokeRefresh(input[r].access.jti)
       ELSE UNCHANGED storeVars
    /\ Goto(r, "blacklist")
    /\ UNCHANGED <<now, dbVars, input, subject, claims>>

\* A refresh token that does not parse is skipped without a word.
Logout(r) ==
    /\ pc[r] = "logout"
    /\ IF Parses(input[r].refresh, "refresh")
       THEN RevokeRefresh(input[r].refresh.jti)
       ELSE UNCHANGED storeVars
    /\ Goto(r, "blacklist")
    /\ UNCHANGED <<now, dbVars, input, subject, claims>>

\* BlacklistAccess_Bug: the error of the SET is dropped, as that of the DEL is.
BlacklistAccess_Bug(r) ==
    /\ pc[r] = "blacklist"
    /\ \/ blacklist' = AfterBlacklistAccess(input[r].access.jti, AccessTTL)
       \/ RedisFaults /\ UNCHANGED blacklist
    /\ Answer(r, "noContent")
    /\ UNCHANGED <<now, dbVars, refreshKeys, spent, lost, input, subject, claims>>

BlacklistAccess(r) ==
    LET after == AfterBlacklistAccess(input[r].access.jti, AccessTTL) IN
    /\ pc[r] = "blacklist"
    /\ \/ blacklist' = after /\ Answer(r, "noContent")
       \/ /\ RedisFaults
          /\ blacklist' = after \/ UNCHANGED blacklist
          /\ Answer(r, "internal")
    /\ UNCHANGED <<now, dbVars, refreshKeys, spent, lost, input, subject, claims>>
-----------------------------------------------------------------------------
(* The surroundings *)

Tick ==
    /\ now < MaxTime
    /\ now' = now + 1
    /\ UNCHANGED <<dbVars, storeVars, requestVars>>

\* The user routes write a row in any way that the table allows them; that
\* UserService does no more than that is a property of UserService.
UserRoutes(u) ==
    /\ userWrites < MaxUserWrites
    /\ userWrites' = userWrites + 1
    /\ Table!Change(u)
    /\ See(users')
    /\ UNCHANGED <<now, storeVars, requestVars>>

\* Every request was answered and the bounded clock has stopped.
Terminating ==
    /\ now = MaxTime
    /\ \A r \in Requests : pc[r] = "done"
    /\ UNCHANGED vars

Handle(r) ==
    \/ Register(r) \/ Login(r) \/ Refresh(r) \/ Protected(r)
    \/ CreateUser(r) \/ GetByEmail(r)
    \/ GetRefresh(r) \/ GetByID(r) \/ RevokePresented(r)
    \/ Issue(r) \/ SaveRefresh(r)
    \/ ValidateAccess(r) \/ Logout(r) \/ BlacklistAccess(r)

Next ==
    \/ \E r \in Requests : Handle(r) \/ UserRoutes(r)
    \/ Tick
    \/ Terminating

Spec == Init /\ [][Next]_vars
-----------------------------------------------------------------------------
(* Safety *)

Answered(r, op, status) == input[r].op = op /\ reply[r] = status

LoggedOut(j) ==
    \E r \in Requests : Answered(r, "logout", "noContent") /\ input[r].access.jti = j

\* Logout (service.go:94-98) blacklists an access token for a full access TTL
\* counted from the logout.  A logout that was answered 204 keeps the token
\* on the blacklist for as long as its signature would still be accepted,
\* however many logouts of the same token run side by side.
LogoutCoversTokenLife ==
    \A j \in Requests :
        LoggedOut(j) => (now < claims[j].accessExp => Blacklisted(j))

\* ValidateAccess (service.go:102-120) parses the token and asks Redis in two
\* steps.  Once a logout was answered 204, no check in progress or started
\* later lets the token through while it has not expired.
Admits(r) == pc[r] = "validate" /\ pc'[r] # "validate" /\ subject'[r] # NoSubject
NoPrincipalAfterLogout ==
    [][\A r \in Requests :
         LET j == input[r].access.jti IN
         Admits(r) /\ now < claims[j].accessExp => ~ LoggedOut(j)]_vars

\* issuePair (service.go:122-135) fixes the token's expiry before it starts the
\* key's.  A client that was handed a pair and never spent its refresh token
\* can use it until it expires: the store never forgets it early.
SessionNotLost ==
    \A j \in Delivered \ spent : now < claims[j].refreshExp => Stored(j)

\* Login, Register and Refresh read the user and sign its id and role later,
\* with bcrypt and two Redis calls in between.  The pair names a user and a
\* role that were those of a live row at some instant of the request: never
\* those of a row deleted or changed before the request began.
PairReflectsRequestInterval ==
    \A r \in Requests : claims[r].user # None =>
        <<claims[r].user, claims[r].role>> \in witnessed[r]

\* What the refresh endpoint would make of a token: it parses and its key is
\* there.
Usable(j) == now < claims[j].refreshExp /\ Stored(j)

\* A refresh that was answered 200 has ended the token it was given
\* (service.go:84), for good and for every other client, unless a DEL of that
\* very token was lost: its error is dropped.
RotationRevokes ==
    \A r \in Requests : Answered(r, "refresh", "ok") =>
        input[r].refresh.jti \in lost \/ ~ Usable(input[r].refresh.jti)

\* A logout that was answered 204 has ended the refresh token it was given
\* (service.go:89-93), whoever's it was, with the same exception.
LogoutRevokes ==
    \A r \in Requests :
        Answered(r, "logout", "noContent") /\ input[r].refresh.typ = "refresh" =>
            input[r].refresh.jti \in lost \/ ~ Usable(input[r].refresh.jti)

\* "Logout revokes the refresh token" (README.md:99), without the exception.
LogoutAlwaysRevokes ==
    \A r \in Requests :
        Answered(r, "logout", "noContent") /\ input[r].refresh.typ = "refresh" =>
            ~ Usable(input[r].refresh.jti)

\* The test of rotation (service_test.go:183-184) expects a second refresh with
\* the same token to fail.
RefreshTokenSingleUse ==
    \A r, s \in Requests :
        /\ Answered(r, "refresh", "ok")
        /\ Answered(s, "refresh", "ok")
        /\ input[r].refresh.jti = input[s].refresh.jti
        => r = s

\* What the code holds to in its place (service.go:68-98): a refresh that looks a
\* token up after a rotation or a logout of it was answered is refused, unless a DEL
\* of that token was lost, or a logout came when the token had expired and let its
\* key be.  Two pairs come of one token only when the refreshes overlap.
Ended(j) ==
    \E r \in Requests :
        /\ input[r].refresh = [typ |-> "refresh", jti |-> j]
        /\ \/ Answered(r, "refresh", "ok")
           \/ Answered(r, "logout", "noContent") /\ now < claims[j].refreshExp
ReadsKey(r) == pc[r] = "getRefresh" /\ pc'[r] = "getByID"
EndedSessionsRefused ==
    [][\A r \in Requests :
         LET j == input[r].refresh.jti IN
         ReadsKey(r) /\ Ended(j) => j \in lost]_vars

\* What the store makes of each refresh token.
Tokens == Requests \ Seeds
tokenStatus == [j \in Tokens |-> IF Stored(j) THEN "live"
                                ELSE IF pc[j] = "done" THEN "dead"
                                ELSE "unborn"]
Lifecycle == INSTANCE RefreshTokenLifecycle WITH status <- tokenStatus

\* The token store implements the life of a refresh token: no interleaving and
\* no failure brings a retired token back (store.go:32-48).
RefreshTokensNeverRevive == Lifecycle!Spec

\* Registration and the user routes together write the table in no other way than
\* the table promises: of two registrations of one address that run side by side,
\* or race with a change of address, one is told 409 (service.go:42-47).
UsersTableKept == Table!Spec
-----------------------------------------------------------------------------
(* The inductive invariant behind the safety properties *)

\* Where a request is says what it was sent and what it did not do yet.
ControlOf(r) ==
    /\ reply[r] # "none" => pc[r] = "done"
    /\ claims[r].user # None => pc[r] \in {"save", "done"}
    /\ pc[r] \in {"idle", "validate"} => subject[r] = NoSubject
    /\ pc[r] = "create" => input[r].op = "register"
    /\ pc[r] = "getByEmail" => input[r].op = "login"
    /\ pc[r] \in {"getRefresh", "getByID", "revoke"} => input[r].op = "refresh"
    /\ pc[r] \in {"issue", "save"} => input[r].op \in {"register", "login", "refresh"}
    /\ pc[r] = "validate" => input[r].op \in {"logout", "me"}
    /\ pc[r] \in {"logout", "blacklist"} => input[r].op = "logout"
Control == \A r \in Requests : ControlOf(r)

\* Tokens that come in were answered to somebody before.
Presented ==
    \A r \in Requests :
        /\ input[r].op \in {"logout", "me"} => input[r].access.jti \in Delivered
        /\ input[r].op \in {"logout", "refresh"} => input[r].refresh.jti \in Delivered

\* Expiries lie at most one lifetime ahead.
ExpiryBounds ==
    \A j \in Requests : claims[j].user # None =>
        /\ claims[j].accessExp <= now + AccessTTL
        /\ claims[j].refreshExp <= now + RefreshTTL

\* A key is set by the request that mints its id, as its last step.
KeySetLast == \A j \in Requests : pc[j] # "done" => refreshKeys[j].expires = 0

\* Each store key outlives the token that it speaks of.
BlacklistOutlivesOf(j) == LoggedOut(j) => claims[j].accessExp <= blacklist[j]
BlacklistOutlives == \A j \in Requests : BlacklistOutlivesOf(j)
KeyOutlivesOf(j) == j \in Delivered \ spent => claims[j].refreshExp <= refreshKeys[j].expires
KeyOutlives == \A j \in Requests : KeyOutlivesOf(j)

\* The row that a registration is about to insert is not there yet.
Fresh ==
    \A r \in Requests :
        /\ pc[r] \in {"idle", "create"} => users[r].status = "absent"
        /\ pc[r] = "create" => input[r].email \in Emails

\* What holds between the DEL of a presented token and the answer.
RotatedOf(r) ==
    /\ input[r].op = "refresh"
    /\ pc[r] \in {"issue", "save"} \/ reply[r] = "ok"
    /\ input[r].refresh.jti \notin lost
    => refreshKeys[input[r].refresh.jti].expires = 0
Rotated == \A r \in Requests : RotatedOf(r)
DroppedOf(r) ==
    /\ input[r].op = "logout"
    /\ input[r].refresh.typ = "refresh"
    /\ pc[r] = "blacklist" \/ reply[r] = "noContent"
    /\ input[r].refresh.jti \notin lost
    => \/ refreshKeys[input[r].refresh.jti].expires = 0
       \/ claims[input[r].refresh.jti].refreshExp <= now
Dropped == \A r \in Requests : DroppedOf(r)

\* A request in flight has seen the table as it is, and acts for a row it saw.
Witnessed ==
    \A r \in Requests :
        /\ pc[r] \notin {"idle", "done"} => LiveRows(users) \subseteq witnessed[r]
        /\ pc[r] \in {"revoke", "issue"} =>
             <<subject[r].user, subject[r].role>> \in witnessed[r]

\* Why the stores never disagree with the answers: the properties above follow
\* from it, and every step of issuePair, Refresh, Logout and ValidateAccess
\* (service.go:68-135) keeps it.
SessionInvariant ==
    /\ TypeOK
    /\ Control
    /\ Presented
    /\ Fresh
    /\ ExpiryBounds
    /\ KeySetLast
    /\ BlacklistOutlives
    /\ KeyOutlives
    /\ Rotated
    /\ Dropped
    /\ Witnessed
    /\ PairReflectsRequestInterval
=============================================================================
