---------------------------- MODULE UserService ----------------------------
(***************************************************************************)
(* The account half of the API: the user routes and their repository, as   *)
(* concurrent HTTP requests over the users table of Postgres.              *)
(*                                                                         *)
(* An update reads the row into a struct, changes the struct and saves     *)
(* every column of it.  Each SQL statement is one atomic step; gorm opens  *)
(* no transaction around them (database.go: SkipDefaultTransaction), so    *)
(* other requests may act between two statements of one request, also      *)
(* between the two that gorm's Save may take.  A statement that fails may  *)
(* still have been carried out.                                            *)
(*                                                                         *)
(* Passwords are left out: no property tells them apart.  That bcrypt may  *)
(* refuse one is kept.                                                     *)
(*                                                                         *)
(* Operators whose name ends in _Bug are what a slip in the code would     *)
(* make of the definition after them; they are not part of the            *)
(* specification.                                                          *)
(***************************************************************************)
EXTENDS Integers

CONSTANTS
    Users,     \* the user ids
    Requests,  \* the HTTP requests
    Emails,    \* normalised email addresses
    None,      \* no user, email or role
    Admins,    \* the users seeded with role admin
    Members,   \* the users seeded with role user
    DBFaults   \* may a statement fail?

ASSUME UserAssumption ==
    /\ None \notin Users
    /\ None \notin Emails
    /\ None \notin {"user", "admin"}
    /\ Admins \subseteq Users
    /\ Members \subseteq Users \ Admins
    /\ DBFaults \in BOOLEAN

VARIABLES
    rows,      \* the users table
    pc,        \* the next statement of each request
    input,     \* who sent each request, for which row, with which fields
    draft,     \* the struct a request is about to save
    reply,     \* the HTTP answer of each request
    wasAdmin,  \* history: users whose live row had role admin at some time
    wrote,     \* history: requests that changed the table
    disturbed  \* history: requests whose row others wrote since they read it

history == <<wasAdmin, wrote, disturbed>>
vars == <<rows, pc, input, draft, reply, history>>
-----------------------------------------------------------------------------
(* Types *)

Roles == {"user", "admin"}
Row == [status : {"absent", "live", "deleted"}, email : Emails \cup {None},
        role : Roles]
Ops == {"none", "register", "updateMe", "adminUpdate", "adminDelete"}
Input == [op : Ops, actor : Users \cup {None}, as : Roles,
          target : Users \cup {None}, email : Emails \cup {None}, role : Roles \cup {None}]
Labels == {"idle", "create", "read", "save", "upsert", "delete", "done"}
Statuses == {"none", "ok", "created", "noContent", "forbidden", "notFound",
             "conflict", "internal"}

NoRow == [status |-> "absent", email |-> None, role |-> "user"]
NoInput == [op |-> "none", actor |-> None, as |-> "user", target |-> None,
            email |-> None, role |-> None]

TypeOK ==
    /\ rows \in [Users -> Row]
    /\ \A u \in Users : rows[u].status = "live" => rows[u].email \in Emails
    /\ pc \in [Requests -> Labels]
    /\ input \in [Requests -> Input]
    /\ draft \in [Requests -> Row]
    /\ reply \in [Requests -> Statuses]
    /\ wasAdmin \subseteq Users
    /\ wrote \subseteq Requests
    /\ disturbed \subseteq Requests

\* Some users exist before the first request, with addresses of their own.
Seeded(table) ==
    /\ \A u \in Users :
         /\ table[u].status = IF u \in Admins \cup Members THEN "live" ELSE "absent"
         /\ table[u].role = IF u \in Admins THEN "admin" ELSE "user"
         /\ table[u].email = None <=> u \notin Admins \cup Members
    /\ \A u, v \in Admins \cup Members : table[u].email = table[v].email => u = v

Init ==
    /\ rows \in [Users -> Row] /\ Seeded(rows)
    /\ pc = [r \in Requests |-> "idle"]
    /\ input = [r \in Requests |-> NoInput]
    /\ draft = [r \in Requests |-> NoRow]
    /\ reply = [r \in Requests |-> "none"]
    /\ wasAdmin = Admins
    /\ wrote = {}
    /\ disturbed = {}
-----------------------------------------------------------------------------
(* The users table *)

\* gorm adds deleted_at IS NULL to every query, update and soft delete.  Found_Bug:
\* they are Unscoped and see deleted rows too.
Found_Bug(u) == rows[u].status # "absent"
Found(u) == rows[u].status = "live"

\* The partial unique index on the email of live rows lets row u have e.
\* EmailFree_Bug: the index was not created.
EmailFree_Bug(u, e) == TRUE
EmailFree(u, e) == \A v \in Users \ {u} : ~ (Found(v) /\ rows[v].email = e)

\* Request r writes row u.
Write(r, u, row) ==
    /\ rows' = [rows EXCEPT ![u] = row]
    /\ wasAdmin' = IF row.status = "live" /\ row.role = "admin"
                   THEN wasAdmin \cup {u} ELSE wasAdmin
    /\ wrote' = wrote \cup {r}
    /\ disturbed' = disturbed \cup {q \in Requests \ {r} :
                       pc[q] \in {"save", "upsert"} /\ input[q].target = u}

\* A statement of r that writes row u if the index allows it, and what the
\* caller is told.  The repository turns a duplicate key into ErrEmailTaken
\* and the services turn that into 409.
Statement(r, u, row, answer) ==
    /\ \/ /\ EmailFree(u, row.email)
          /\ Write(r, u, row)
          /\ reply' = [reply EXCEPT ![r] = answer]
       \/ /\ ~ EmailFree(u, row.email)
          /\ reply' = [reply EXCEPT ![r] = "conflict"]
          /\ UNCHANGED <<rows, history>>
       \/ /\ DBFaults
          /\ \/ EmailFree(u, row.email) /\ Write(r, u, row)
             \/ UNCHANGED <<rows, history>>
          /\ reply' = [reply EXCEPT ![r] = "internal"]
    /\ pc' = [pc EXCEPT ![r] = "done"]
    /\ draft' = [draft EXCEPT ![r] = NoRow]
    /\ UNCHANGED input
-----------------------------------------------------------------------------
(* Control of a request *)

Goto(r, label) ==
    /\ pc' = [pc EXCEPT ![r] = label]
    /\ UNCHANGED <<rows, reply, history>>

Answer(r, status) ==
    /\ pc' = [pc EXCEPT ![r] = "done"]
    /\ reply' = [reply EXCEPT ![r] = status]
    /\ UNCHANGED <<rows, history>>

NewRow(e) == [status |-> "live", email |-> e, role |-> "user"]

\* Register of the auth service mints id u and goes on to create its row with address
\* e.  No id is minted twice.
RegisterAs(r, u, e) ==
    /\ pc[r] = "idle"
    /\ input' = [input EXCEPT ![r] = [NoInput EXCEPT !.op = "register",
                                        !.target = u, !.email = e]]
    /\ draft' = [draft EXCEPT ![r] = NewRow(e)]
    /\ Goto(r, "create")
Unused(u) ==
    /\ rows[u].status = "absent"
    /\ \A q \in Requests : input[q].op = "register" => input[q].target # u
Register(r) == \E u \in Users, e \in Emails : Unused(u) /\ RegisterAs(r, u, e)

\* A request with a valid access token.  Its role is that of the row when the
\* token was issued, which need not be the one the row has now; nor need the row
\* be live still.
Take(r, in) ==
    /\ pc[r] = "idle"
    /\ input' = [input EXCEPT ![r] = in]
    /\ UNCHANGED draft
Principal(u, as) ==
    /\ rows[u].status # "absent"
    /\ as = "admin" => u \in wasAdmin

\* UpdateMe acts on the row of the principal, whatever the role in the token.
UpdateMeAs(r, u) == \E e \in Emails \cup {None} :
    /\ Take(r, [op |-> "updateMe", actor |-> u, as |-> "user",
                target |-> u, email |-> e, role |-> None])
    /\ Goto(r, "read")
UpdateMe(r) == \E u \in Users : Principal(u, "user") /\ UpdateMeAs(r, u)

\* RequireRole looks at nothing but the role in the token.  RequireRole_Bug: it
\* is not mounted on the group of routes.
RequireRole_Bug(role) == TRUE
RequireRole(role) == role = "admin"

\* Update of the admin routes, for any id.
AdminUpdateAs(r, u, as) ==
    \E t \in Users, e \in Emails \cup {None}, role \in Roles \cup {None} :
        /\ RequireRole(as)
        /\ Take(r, [op |-> "adminUpdate", actor |-> u, as |-> as,
                    target |-> t, email |-> e, role |-> role])
        /\ Goto(r, "read")

\* Delete of the admin routes, for any id but the own.
AdminDeleteAs(r, u, as) == \E t \in Users :
    /\ RequireRole(as)
    /\ Take(r, [op |-> "adminDelete", actor |-> u, as |-> as,
                target |-> t, email |-> None, role |-> None])
    /\ IF u = t THEN Answer(r, "forbidden") ELSE Goto(r, "delete")

\* A token that RequireRole does not let pass; the handler does not run.
AdminRefusedAs(r, u, as) ==
    /\ ~ RequireRole(as)
    /\ Take(r, [NoInput EXCEPT !.actor = u, !.as = as])
    /\ Answer(r, "forbidden")

AdminRouteAs(r, u, as) ==
    AdminUpdateAs(r, u, as) \/ AdminDeleteAs(r, u, as) \/ AdminRefusedAs(r, u, as)
AdminRoute(r) == \E u \in Users, as \in Roles : Principal(u, as) /\ AdminRouteAs(r, u, as)
-----------------------------------------------------------------------------
(* Reading and preparing the struct *)

\* applyProfileUpdate and the role of AdminUpdate.  Asked_Bug: a role that was
\* not sent is taken for the default one.
Asked_Bug(row, in) ==
    [row EXCEPT !.email = IF in.email = None THEN @ ELSE in.email,
                !.role = IF in.role = None THEN "user" ELSE in.role]
Asked(row, in) ==
    [row EXCEPT !.email = IF in.email = None THEN @ ELSE in.email,
                !.role = IF in.role = None THEN @ ELSE in.role]

\* AdminUpdate does not let an admin give up the own role.
DemotesSelf_Bug(in) == FALSE
DemotesSelf(in) == in.actor = in.target /\ in.role \notin {None, "admin"}

GetByID(r) ==
    LET in == input[r] IN
    /\ pc[r] = "read"
    /\ \/ ~ Found(in.target) /\ Answer(r, "notFound") /\ UNCHANGED draft
       \/ DBFaults /\ Answer(r, "internal") /\ UNCHANGED draft
       \/ /\ Found(in.target)
          /\ \/ Answer(r, "internal") /\ UNCHANGED draft   \* bcrypt refuses the password
             \/ DemotesSelf(in) /\ Answer(r, "forbidden") /\ UNCHANGED draft
             \/ /\ ~ DemotesSelf(in)
                /\ draft' = [draft EXCEPT ![r] = Asked(rows[in.target], in)]
                /\ Goto(r, "save")
    /\ UNCHANGED input
-----------------------------------------------------------------------------
(* The statements that write *)

CreateRow(r) ==
    /\ pc[r] = "create"
    /\ Statement(r, input[r].target, draft[r], "created")

\* Save is an UPDATE of every column of the live row ...
Save(r) ==
    LET u == input[r].target IN
    /\ pc[r] = "save"
    /\ \/ Found(u) /\ Statement(r, u, draft[r], "ok")
       \/ /\ ~ Found(u)
          /\ \/ Goto(r, "upsert")
             \/ DBFaults /\ Answer(r, "internal")
          /\ UNCHANGED <<input, draft>>

\* ... and, when there was no live row, an INSERT that on a conflict of the id
\* overwrites every column, deleted_at included.  Upsert_Bug: the caller is told
\* that there was no row.
Upsert_Bug(r) ==
    /\ pc[r] = "upsert"
    /\ Statement(r, input[r].target, draft[r], "notFound")
Upsert(r) ==
    /\ pc[r] = "upsert"
    /\ Statement(r, input[r].target, draft[r], "ok")

\* Delete sets deleted_at of the live row.
DeleteRow(r) ==
    LET u == input[r].target
        after == [rows[u] EXCEPT !.status = "deleted"] IN
    /\ pc[r] = "delete"
    /\ \/ /\ Found(u)
          /\ Write(r, u, after)
          /\ reply' = [reply EXCEPT ![r] = "noContent"]
       \/ /\ ~ Found(u)
          /\ UNCHANGED <<rows, history>>
          /\ reply' = [reply EXCEPT ![r] = "notFound"]
       \/ /\ DBFaults
          /\ \/ Found(u) /\ Write(r, u, after)
             \/ UNCHANGED <<rows, history>>
          /\ reply' = [reply EXCEPT ![r] = "internal"]
    /\ pc' = [pc EXCEPT ![r] = "done"]
    /\ UNCHANGED <<input, draft>>
-----------------------------------------------------------------------------
Terminating == (\A r \in Requests : pc[r] = "done") /\ UNCHANGED vars

Handle(r) ==
    \/ Register(r) \/ UpdateMe(r) \/ AdminRoute(r)
    \/ GetByID(r)
    \/ CreateRow(r) \/ Save(r) \/ Upsert(r) \/ DeleteRow(r)

Next == (\E r \in Requests : Handle(r)) \/ Terminating

Spec == Init /\ [][Next]_vars
-----------------------------------------------------------------------------
(* Safety *)

\* Whatever the interleaving of inserts, updates, deletes and upserts, and
\* whichever of them fail, the table is written as UsersTable promises: no two
\* live rows hold one address, none takes it in the step that another gives it up,
\* and no row comes up twice (repository.go:34-104 and the partial index of the
\* migration).  This is what AuthService assumes of the user routes.
Table == INSTANCE UsersTable WITH Ids <- Users, table <- rows
UsersTableKept == Table!Spec

\* The role admin is given by admins only: a row that says admin was seeded so or
\* a request with an admin's token asked for it (service.go:63-68).  A stale save
\* may bring the role back but never makes it up.
Asks(r) ==
    input[r].op = "adminUpdate" /\ input[r].as = "admin" /\ input[r].role = "admin"
AdminProvenance ==
    \A u \in wasAdmin \ Admins : \E r \in Requests : Asks(r) /\ input[r].target = u

\* As long as nobody else ever was an admin, the only admin stays one: the two
\* guards on the own account (service.go:64-66 and 76-78) close every path by
\* which the last admin could leave, stale saves included.
LoneAdminStays ==
    \A a \in Users : wasAdmin = {a} => Found(a) /\ rows[a].role = "admin"

\* A request that was told that it failed, other than by a 500, changed nothing,
\* also when gorm's Save took two statements (repository.go:87-93).
RejectedChangesNothing ==
    \A r \in wrote : reply[r] \in {"ok", "created", "noContent", "internal"}

\* An update whose row nobody else wrote since it was read changes the columns it
\* was asked to change and no other (service.go:41-73 and 85-97).
Saves(r) == pc[r] \in {"save", "upsert"} /\ r \in wrote' \ wrote
QuietUpdateExact ==
    [][\A r \in Requests : Saves(r) /\ r \notin disturbed =>
         LET u == input[r].target IN
         /\ rows[u].status = "live" /\ rows'[u].status = "live"
         /\ input[r].email = None => rows'[u].email = rows[u].email
         /\ input[r].role = None => rows'[u].role = rows[u].role]_vars

\* A soft-deleted account (docs.go:153) stays deleted: the repository of the tests
\* answers ErrNotFound to an update of it (service_test.go:66-69).
DeletedStaysDeleted ==
    [][\A u \in Users : rows[u].status = "deleted" => rows'[u].status = "deleted"]_vars

\* PATCH /users/me is for email and password (README.md:80): it leaves the role
\* that the row has alone.
ProfileUpdateKeepsRole ==
    [][\A r \in Requests : Saves(r) /\ input[r].op = "updateMe" =>
         rows'[input[r].target].role = rows[input[r].target].role]_vars

\* What the code does hold to (service.go:41-73, repository.go:87-93).  A deleted
\* account comes back only in the second statement of a save that was prepared from
\* the row as it was before others wrote it ...
RevivedByStaleSaveOnly ==
    [][\A u \in Users : rows[u].status = "deleted" /\ rows'[u].status # "deleted" =>
         \E r \in disturbed :
            pc[r] = "upsert" /\ input[r].target = u /\ rows'[u] = draft[r]]_vars

\* ... and the role of an account changes only by a save that an admin's token asked
\* for with that role, or by such a stale one.
RoleChangesOwned ==
    [][\A u \in Users : rows[u].status # "absent" /\ rows'[u].role # rows[u].role =>
         \E r \in Requests :
            /\ Saves(r) /\ input[r].target = u
            /\ \/ /\ input[r].op = "adminUpdate" /\ input[r].as = "admin"
                  /\ input[r].role = rows'[u].role
               \/ r \in disturbed]_vars
-----------------------------------------------------------------------------
(* The inductive invariant behind the safety properties *)

\* Where a request is says what it was sent and what it did not do yet.
ControlOf(r) ==
    /\ pc[r] = "idle" => input[r] = NoInput
    /\ pc[r] = "create" => input[r].op = "register"
    /\ pc[r] \in {"read", "save", "upsert"} => input[r].op \in {"updateMe", "adminUpdate"}
    /\ pc[r] = "delete" => /\ input[r].op = "adminDelete"
                           /\ input[r].actor # input[r].target
    /\ pc[r] \notin {"idle", "done"} => input[r].target \in Users
    /\ r \in wrote => pc[r] = "done"

\* Only the admin routes carry a role, and only once an admin's token let them.
EntitledTo(r) ==
    /\ input[r].op = "updateMe" => input[r].role = None
    /\ input[r].op \in {"adminUpdate", "adminDelete"} => input[r].as = "admin"
    /\ input[r].as = "admin" => input[r].actor \in wasAdmin

\* The ids that registrations mint are their own.
MintedApart ==
    \A r, q \in Requests :
        /\ input[r].op = "register" /\ input[q].op = "register"
        /\ input[r].target = input[q].target
        => r = q

\* What a request is about to write, however stale, is a row that somebody was
\* entitled to.
Prepared(r) ==
    /\ pc[r] \in {"create", "save", "upsert"} =>
         draft[r].status = "live" /\ draft[r].email \in Emails
    /\ pc[r] = "create" =>
         draft[r].role = "user" /\ rows[input[r].target].status = "absent"
    /\ pc[r] \in {"save", "upsert"} =>
         /\ rows[input[r].target].status # "absent"
         /\ draft[r].role = "admin" => Asks(r) \/ input[r].target \in wasAdmin

AdminsKnown ==
    \A u \in Users :
        /\ Found(u) /\ rows[u].role = "admin" => u \in wasAdmin
        /\ u \in wasAdmin => rows[u].status # "absent"

\* No save under way would take the role from the only admin there ever was.
LoneAdminKept ==
    \A a \in Users, r \in Requests :
        wasAdmin = {a} /\ pc[r] \in {"save", "upsert"} /\ input[r].target = a =>
            draft[r].role = "admin"

\* The struct of a request whose row nobody else wrote is that row with the columns
\* that the request asked for.
Undisturbed(r) ==
    pc[r] \in {"save", "upsert"} /\ r \notin disturbed =>
        /\ Found(input[r].target)
        /\ draft[r] = Asked(rows[input[r].target], input[r])

Entitlement ==
    /\ TypeOK
    /\ \A r \in Requests : ControlOf(r) /\ EntitledTo(r) /\ Prepared(r)
    /\ MintedApart
    /\ AdminsKnown
    /\ AdminProvenance
    /\ LoneAdminStays
    /\ LoneAdminKept
    /\ RejectedChangesNothing

\* Why no order of stale saves, deletes and failures takes an admin's word for
\* granted: the properties of the run of races follow from it (service.go:41-83).
AccountInvariant == Entitlement /\ \A r \in Requests : Undisturbed(r)
=============================================================================
