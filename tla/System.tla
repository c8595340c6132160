------------------------------- MODULE System -------------------------------
(***************************************************************************)
(* The API over its one users table: the sessions of AuthService and the   *)
(* user routes of UserService, where a request of the second is one that   *)
(* the access check of the first let through.                              *)
(*                                                                         *)
(* A step of the system is a step of one half or, where main.go:69-76      *)
(* wires them together, of both: a registration inserts its row through    *)
(* the repository of UserService, and a user route starts with the         *)
(* principal that the JWT middleware set.  UserService alone assumes of    *)
(* that principal and of the id of a new row what it cannot know; nothing  *)
(* of the kind is assumed here, so that it has to follow.                  *)
(*                                                                         *)
(* A registration and a user route keep the name that their request has in *)
(* AuthService; `step', `call' and `answer' are the pc, input and reply of *)
(* UserService.  It is instantiated by way of UserServiceProofs, which     *)
(* adds theorems to it and nothing else, so that they can be cited here.   *)
(***************************************************************************)
EXTENDS AuthService

VARIABLES
    step,      \* the next statement of a registration or a user route
    call,      \* who sent it, for which row, with which fields
    draft,     \* the struct it is about to save
    answer,    \* what it was told
    wasAdmin,  \* history: users whose live row had role admin at some time
    wrote,     \* history: requests that changed the table
    disturbed  \* history: requests whose row others wrote since they read it

Accounts == INSTANCE UserServiceProofs WITH
    Users <- Requests, rows <- users, pc <- step, input <- call, reply <- answer

routeVars == <<step, call, draft, answer, wasAdmin, wrote, disturbed>>
systemVars == <<vars, routeVars>>

SystemInit == Init /\ Accounts!Init
-----------------------------------------------------------------------------
(* Steps of the sessions alone *)

Session(r) ==
    /\ \/ Login(r) \/ Refresh(r) \/ Protected(r)
       \/ GetByEmail(r) \/ GetRefresh(r) \/ GetByID(r) \/ RevokePresented(r)
       \/ Issue(r) \/ SaveRefresh(r)
       \/ ValidateAccess(r) \/ Logout(r) \/ BlacklistAccess(r)
    /\ UNCHANGED routeVars

Time == (Tick \/ Terminating) /\ UNCHANGED routeVars
-----------------------------------------------------------------------------
(* Registration: the auth service prepares a row under an id it mints, the *)
(* repository inserts it, and both tell the client the same of a failure.  *)

SignUp(r) ==
    /\ Register(r)
    /\ \/ pc'[r] = "create" /\ Accounts!RegisterAs(r, r, input'[r].email)
       \/ pc'[r] = "done" /\ UNCHANGED routeVars

Insert(r) ==
    /\ CreateUser(r)
    /\ Accounts!CreateRow(r)
    /\ reply'[r] = IF answer'[r] = "created" THEN reply[r] ELSE answer'[r]
-----------------------------------------------------------------------------
(* A user route *)

\* The access check let the request through; the handler has the principal.
Admitted(r) == input[r].op = "me" /\ reply[r] = "ok"

\* Me serves whoever it is; the admin routes look at the role that the token says.
Serve(r) ==
    /\ Admitted(r)
    /\ \/ Accounts!UpdateMeAs(r, subject[r].user)
       \/ Accounts!AdminRouteAs(r, subject[r].user, subject[r].role)
    /\ UNCHANGED vars

\* The statements of the handler.  The requests in flight see what it writes; the
\* bound on the writes of the user routes is that of AuthService.
Seen ==
    \/ users' = users /\ UNCHANGED <<userWrites, witnessed>>
    \/ /\ users' # users
       /\ userWrites < MaxUserWrites
       /\ userWrites' = userWrites + 1
       /\ See(users')

Handler(r) ==
    /\ \/ Accounts!GetByID(r) \/ Accounts!Save(r) \/ Accounts!Upsert(r)
       \/ Accounts!DeleteRow(r)
    /\ Seen
    /\ UNCHANGED <<now, storeVars, requestVars>>
-----------------------------------------------------------------------------
SystemNext ==
    \/ \E r \in Requests :
          Session(r) \/ SignUp(r) \/ Insert(r) \/ Serve(r) \/ Handler(r)
    \/ Time

SystemSpec == SystemInit /\ [][SystemNext]_systemVars
-----------------------------------------------------------------------------
(* Properties *)

\* What UserService alone takes for granted is so in the whole: the principal that the
\* middleware sets (middleware/auth.go:32-38) has a row and, with the role admin, was
\* an admin; the id of a registration (auth/service.go:32-41) has no row yet; and
\* the row that the auth service hands over is the one that the repository inserts.
Vouched(r) ==
    Admitted(r) =>
        /\ subject[r].user \in Requests
        /\ users[subject[r].user].status # "absent"
        /\ subject[r].role = "admin" => subject[r].user \in wasAdmin
NamedAlike(r) ==
    /\ pc[r] = "idle" => /\ step[r] = "idle"
                         /\ users[r].status = "absent"
                         /\ \A q \in Requests : call[q].op = "register" => call[q].target # r
    /\ pc[r] = "create" <=> step[r] = "create"
    /\ pc[r] = "create" => call[r].target = r /\ draft[r] = Inserted(r)[r]
Agreement == \A r \in Requests : Vouched(r) /\ NamedAlike(r)

\* Every user route acts for the user of the access token that its request came with,
\* and an admin route only for one whose row was live with role admin at some instant
\* of the request that issued the token (server.go:73-79, middleware/auth.go:43-59).
CallsFollowTokens ==
    \A r \in Requests : step[r] # "idle" /\ call[r].op # "register" =>
        LET j == input[r].access.jti IN
        /\ Admitted(r) /\ j \in Delivered
        /\ call[r].actor = claims[j].user
        /\ call[r].op \in {"adminUpdate", "adminDelete"} =>
              claims[j].role = "admin" /\ <<call[r].actor, "admin">> \in witnessed[j]

\* The API cannot make its first admin: without one to start with no row gets the role,
\* no token says it and no admin route runs, however the two halves interleave and
\* whatever fails.  That is why README.md:110-113 has it made by hand.
NoAdmin ==
    /\ wasAdmin = {}
    /\ \A r \in Requests :
         /\ claims[r].role = "user"
         /\ call[r].op \notin {"adminUpdate", "adminDelete"}
NoAdminFromNothing == Admins = {} => NoAdmin
-----------------------------------------------------------------------------
(* The inductive invariant *)

\* Every row that a request saw live is still there, and its user is known for the
\* role that it had.
SightsKept ==
    \A r, u \in Requests, role \in Roles : <<u, role>> \in witnessed[r] =>
        /\ users[u].status # "absent"
        /\ role = "admin" => u \in wasAdmin

\* The principal is what the token says.
PrincipalsAreClaims ==
    \A r \in Requests : Admitted(r) =>
        LET j == input[r].access.jti IN
        subject[r] = [user |-> claims[j].user, role |-> claims[j].role]

RegistersItself ==
    \A r \in Requests : call[r].op = "register" => call[r].target = r /\ pc[r] # "idle"

\* Why each half may rely on the other, given the invariants of both.
SystemInvariant ==
    /\ SightsKept
    /\ PrincipalsAreClaims
    /\ RegistersItself
    /\ \A r \in Requests : NamedAlike(r)
    /\ CallsFollowTokens
=============================================================================
