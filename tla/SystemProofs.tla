---------------------------- MODULE SystemProofs ----------------------------
(***************************************************************************)
(* Proofs about System: each half runs as its own module says, for any     *)
(* number of requests and addresses, any seed of accounts, with or without *)
(* failures; and what neither half can say alone.                          *)
(*                                                                         *)
(* The two halves rely on each other: AuthService lets the user routes     *)
(* write rows as the table allows, UserService takes the principal and the *)
(* id of a registration for granted, and System guards neither.  So no     *)
(* half can be shown to run as its module says before the other: that both *)
(* invariants hold, and the one that ties them, is one induction, each     *)
(* step of which is a step of UserService by what its requests carry       *)
(* (Agreement) and one of AuthService by what UserService keeps.           *)
(***************************************************************************)
EXTENDS System, AuthServiceProofs

USE AuthAssumption

LEMMA AccountsAssumed == Accounts!UserAssumption
  BY DEF Accounts!UserAssumption, Seeds
-----------------------------------------------------------------------------
(* A step of the system is a step of the sessions, when the user service   *)
(* keeps its invariant                                                     *)

\* What the user service calls a change of its table is one for AuthService.
LEMMA SameTable ==
  ASSUME NEW u \in Requests, Accounts!Table!Change(u) PROVE Table!Change(u)
  BY DEF Accounts!Table!Change, Accounts!Table!Save, Accounts!Table!Delete,
     Accounts!Table!Store, Accounts!Table!Free, Accounts!Table!Live,
     Accounts!Table!Roles, Table!Change, Table!Save, Table!Delete, Table!Store,
     Table!Free, Table!Live, Table!Roles

LEMMA HandlerWrites ==
  ASSUME Accounts!AccountInvariant, NEW r \in Requests, Handler(r)
  PROVE  UNCHANGED vars \/ \E u \in Requests : UserRoutes(u)
  <1>1. CASE users' = users
    BY <1>1 DEF Handler, Seen, vars, dbVars
  <1>2. CASE users' # users
    <2>1. \/ Accounts!GetByID(r) \/ Accounts!Save(r) \/ Accounts!Upsert(r)
          \/ Accounts!DeleteRow(r)
      BY DEF Handler
    <2>2. call[r].target \in Requests /\ Accounts!Table!Change(call[r].target)
      BY <1>2, <2>1, AccountsAssumed, Accounts!RouteWrites
    <2>3. UserRoutes(call[r].target)
      BY <1>2, <2>2, SameTable DEF Handler, Seen, UserRoutes
    <2>4. QED
      BY <2>2, <2>3
  <1>3. QED
    BY <1>1, <1>2

LEMMA SessionsStep ==
  Accounts!AccountInvariant /\ [SystemNext]_systemVars => [Next]_vars
  <1> SUFFICES ASSUME Accounts!AccountInvariant, [SystemNext]_systemVars
               PROVE  [Next]_vars
    OBVIOUS
  <1>1. ASSUME NEW r \in Requests, Session(r) \/ SignUp(r) \/ Insert(r)
        PROVE  Handle(r)
    BY <1>1 DEF Session, SignUp, Insert, Handle
  <1>2. ASSUME NEW r \in Requests, Serve(r) PROVE UNCHANGED vars
    BY <1>2 DEF Serve
  <1>3. Time => Tick \/ Terminating
    BY DEF Time
  <1>4. UNCHANGED systemVars => UNCHANGED vars
    BY DEF systemVars
  <1>5. QED
    BY <1>1, <1>2, <1>3, <1>4, HandlerWrites DEF SystemNext, Next

(* ... and a step of the user service, when the principals and the ids are *)
(* what it takes them for                                                  *)

Halves == SessionInvariant /\ Accounts!AccountInvariant

LEMMA HalvesTypes ==
  ASSUME Halves PROVE TypeOK /\ Control /\ Presented /\ Fresh /\ Accounts!TypeOK
  BY DEF Halves, SessionInvariant, Accounts!AccountInvariant, Accounts!Entitlement

\* The principal of an admitted request is what its token says (PrincipalsAreClaims),
\* the token says what was so during the request that issued it, and what a request
\* saw of the table is not forgotten (SightsKept).
LEMMA Agreed == Halves /\ SystemInvariant => Agreement
  <1> SUFFICES ASSUME Halves, SystemInvariant PROVE Agreement
    OBVIOUS
  <1>1. SUFFICES ASSUME NEW r \in Requests, Admitted(r)
                 PROVE  /\ subject[r].user \in Requests
                        /\ users[subject[r].user].status # "absent"
                        /\ subject[r].role = "admin" => subject[r].user \in wasAdmin
    BY DEF Agreement, Vouched, SystemInvariant
  <1> DEFINE j == input[r].access.jti
  <1>2. j \in Requests /\ claims[j].user # None /\ claims[j] \in Claims
    BY <1>1, HalvesTypes DEF Admitted, Presented, Delivered, TypeOK
  <1>3. claims[j].user \in Requests /\ claims[j].role \in Roles
    BY <1>2 DEF Claims, Ids
  <1>4. <<claims[j].user, claims[j].role>> \in witnessed[j]
    BY <1>2 DEF Halves, SessionInvariant, PairReflectsRequestInterval
  <1>5. subject[r] = [user |-> claims[j].user, role |-> claims[j].role]
    BY <1>1 DEF SystemInvariant, PrincipalsAreClaims
  <1>6. SightsKept
    BY DEF SystemInvariant
  <1>7. QED
    BY <1>2, <1>3, <1>4, <1>5, <1>6 DEF SightsKept

\* The id that a registration mints has no row and nobody else has it, and a request
\* that was let through brings a principal that UserService knows.
LEMMA Joins ==
  ASSUME Halves, Agreement, NEW r \in Requests
  PROVE  /\ SignUp(r) => Accounts!Register(r) \/ UNCHANGED routeVars
         /\ Serve(r) => Accounts!UpdateMe(r) \/ Accounts!AdminRoute(r)
  <1>1. TypeOK
    BY HalvesTypes
  <1>2. ASSUME Register(r), Accounts!RegisterAs(r, r, input'[r].email)
        PROVE  Accounts!Register(r)
    <2>1. pc[r] = "idle" /\ input'[r].email \in Emails
      BY <1>1, <1>2 DEF Register, Receive, TypeOK, NoInput
    <2>2. Accounts!Unused(r)
      BY <2>1 DEF Agreement, NamedAlike, Accounts!Unused
    <2>3. QED
      BY <1>2, <2>1, <2>2 DEF Accounts!Register
  <1>3. ASSUME Serve(r) PROVE Accounts!UpdateMe(r) \/ Accounts!AdminRoute(r)
    <2> DEFINE u == subject[r].user
               as == subject[r].role
    <2>1. /\ u \in Requests /\ users[u].status # "absent"
          /\ as = "admin" => u \in wasAdmin
      BY <1>3 DEF Serve, Agreement, Vouched
    <2>2. as \in Accounts!Roles
      BY <1>1 DEF TypeOK, Subject, Roles, Accounts!Roles
    <2>3. Accounts!Principal(u, "user") /\ Accounts!Principal(u, as)
      BY <2>1 DEF Accounts!Principal
    <2>4. CASE Accounts!UpdateMeAs(r, u)
      BY <2>1, <2>3, <2>4 DEF Accounts!UpdateMe
    <2>5. CASE Accounts!AdminRouteAs(r, u, as)
      BY <2>1, <2>2, <2>3, <2>5 DEF Accounts!AdminRoute
    <2>6. QED
      BY <1>3, <2>4, <2>5 DEF Serve
  <1>4. QED
    BY <1>2, <1>3 DEF SignUp

\* The sessions read the table and write no row but that of a registration.
LEMMA SessionReads ==
  ASSUME NEW r \in Requests, Session(r) PROVE users' = users
  BY DEF Session, Login, Refresh, Protected, Receive, GetByEmail, GetRefresh, GetByID,
     RevokePresented, Issue, SaveRefresh, ValidateAccess, Logout, BlacklistAccess, dbVars

LEMMA AccountsStep ==
  Halves /\ Agreement /\ [SystemNext]_systemVars => [Accounts!Next]_(Accounts!vars)
  <1> SUFFICES ASSUME Halves, Agreement, [SystemNext]_systemVars
               PROVE  [Accounts!Next]_(Accounts!vars)
    OBVIOUS
  <1> USE DEF Accounts!vars, Accounts!history, routeVars
  <1>1. ASSUME NEW r \in Requests, Session(r) PROVE UNCHANGED Accounts!vars
    BY <1>1, SessionReads DEF Session
  <1>2. Time => UNCHANGED Accounts!vars
    BY DEF Time, Tick, Terminating, vars, dbVars
  <1>3. ASSUME NEW r \in Requests, SignUp(r)
        PROVE  Accounts!Handle(r) \/ UNCHANGED Accounts!vars
    <2>1. users' = users
      BY <1>3 DEF SignUp, Register, Receive
    <2>2. QED
      BY <1>3, <2>1, Joins DEF Accounts!Handle
  <1>4. ASSUME NEW r \in Requests, Insert(r) \/ Serve(r) \/ Handler(r)
        PROVE  Accounts!Handle(r)
    BY <1>4, Joins DEF Insert, Handler, Accounts!Handle
  <1>5. UNCHANGED systemVars => UNCHANGED Accounts!vars
    BY DEF systemVars, vars, dbVars
  <1>6. QED
    BY <1>1, <1>2, <1>3, <1>4, <1>5 DEF SystemNext, Accounts!Next

\* So a step of the system keeps what each half promises.
LEMMA HalvesStep ==
  Halves /\ Agreement /\ [SystemNext]_systemVars => Halves'
  <1> SUFFICES ASSUME Halves, Agreement, [SystemNext]_systemVars PROVE Halves'
    OBVIOUS
  <1>1. SessionInvariant /\ Accounts!AccountInvariant
    BY DEF Halves
  <1>2. SessionInvariant'
    BY <1>1, SessionsStep, InvariantStep
  <1>3. Accounts!AccountInvariant'
    BY <1>1, AccountsStep, AccountsAssumed, Accounts!AccountInvariantStep
  <1>4. QED
    BY <1>2, <1>3 DEF Halves

LEMMA HalvesInit == SystemInit => Halves
  BY InvariantInit, AccountsAssumed, Accounts!AccountInvariantInit DEF SystemInit, Halves

-----------------------------------------------------------------------------
(* What a step leaves alone *)

\* The steps that are some request's own.
Acts(r) == Session(r) \/ SignUp(r) \/ Insert(r) \/ Serve(r) \/ Handler(r)
Rests(q) ==
    /\ Same(q)
    /\ step'[q] = step[q] /\ call'[q] = call[q] /\ draft'[q] = draft[q]

LEMMA Apart ==
  ASSUME Halves, Agreement, NEW r \in Requests, Acts(r), NEW q \in Requests \ {r}
  PROVE  Rests(q)
  <1>1. TypeOK /\ Accounts!TypeOK
    BY HalvesTypes
  <1>2. Handle(r) => Same(q)
    BY <1>1, Local
  <1>3. Accounts!Handle(r) => step'[q] = step[q] /\ call'[q] = call[q] /\ draft'[q] = draft[q]
    BY <1>1, AccountsAssumed, Accounts!Effects DEF Accounts!Bystander
  <1>4. CASE Session(r)
    BY <1>2, <1>4 DEF Session, Handle, Rests, routeVars
  <1>5. CASE SignUp(r)
    BY <1>2, <1>3, <1>5, Joins DEF SignUp, Handle, Accounts!Handle, Rests, routeVars
  <1>6. CASE Insert(r)
    BY <1>2, <1>3, <1>6 DEF Insert, Handle, Accounts!Handle, Rests
  <1>7. CASE Serve(r)
    BY <1>3, <1>7, Joins DEF Serve, Accounts!Handle, Rests, Same, vars, requestVars
  <1>8. CASE Handler(r)
    BY <1>3, <1>8 DEF Handler, Accounts!Handle, Rests, Same, requestVars
  <1>9. QED
    BY <1>4, <1>5, <1>6, <1>7, <1>8 DEF Acts

LEMMA Pauses ==
  ASSUME [SystemNext]_systemVars, \A r \in Requests : ~ Acts(r), NEW q \in Requests
  PROVE  Rests(q)
  BY DEF SystemNext, Acts, Time, Tick, Terminating, Rests, Same, systemVars, vars,
     requestVars, routeVars

\* A request is asked one thing: by a registration, or by an access check that let it
\* through.
LEMMA Asking ==
  ASSUME Halves, Agreement, [SystemNext]_systemVars,
         NEW r \in Requests, call'[r] # call[r]
  PROVE  /\ step[r] = "idle"
         /\ \/ Serve(r) /\ call'[r].op # "register"
            \/ SignUp(r) /\ pc'[r] = "create" /\ call'[r].target = r
               /\ call'[r].op = "register"
  <1>1. Acts(r)
    BY Apart, Pauses DEF Rests
  <1>2. Accounts!Handle(r)
    BY <1>1, Joins DEF Acts, Session, Insert, Handler, Accounts!Handle, routeVars
  <1>3. step[r] = "idle" /\ Accounts!TypeOK
    BY <1>2, HalvesTypes, AccountsAssumed, Accounts!AskedOnce
  <1>4. CASE SignUp(r)
    <2>1. pc'[r] = "create" /\ Accounts!RegisterAs(r, r, input'[r].email)
      BY <1>4 DEF SignUp, routeVars
    <2>2. call'[r].op = "register" /\ call'[r].target = r
      BY <1>3, <2>1, AccountsAssumed, Accounts!Registering
    <2>3. QED
      BY <1>3, <1>4, <2>1, <2>2
  <1>5. CASE Serve(r)
    BY <1>3, <1>5, AccountsAssumed, Accounts!TakingAs DEF Serve
  <1>6. QED
    BY <1>1, <1>3, <1>4, <1>5
    DEF Acts, Session, routeVars, Insert, Handler, Accounts!CreateRow,
        Accounts!GetByID, Accounts!Save, Accounts!Upsert, Accounts!DeleteRow
-----------------------------------------------------------------------------
(* The parts of the system's invariant *)

\* What both halves keep, on both sides of a step of the system.
Proceeds == Halves /\ Agreement /\ Halves' /\ [SystemNext]_systemVars

LEMMA BothStep ==
  ASSUME Proceeds
  PROVE  /\ [Next]_vars /\ [Accounts!Next]_(Accounts!vars)
         /\ Halves /\ Agreement /\ [SystemNext]_systemVars
  BY AccountsStep, SessionsStep DEF Proceeds, Halves

LEMMA NothingUnseen ==
  ASSUME Proceeds
  PROVE  /\ wasAdmin \subseteq wasAdmin'
         /\ \A u \in Requests : users[u].status # "absent" => users'[u].status # "absent"
  BY BothStep, AccountsAssumed, Accounts!NothingForgotten DEF Halves

\* Sights are of the table before or after the step.
LEMMA NewSights ==
  ASSUME Proceeds, NEW r \in Requests, NEW s \in witnessed'[r], s \notin witnessed[r]
  PROVE  s \in LiveRows(users) \/ s \in LiveRows(users')
  <1>1. TypeOK /\ [Next]_vars
    BY BothStep, HalvesTypes
  <1>2. ASSUME NEW table \in [Requests -> User], SetUsers(table)
        PROVE  s \in LiveRows(users')
    BY <1>2 DEF SetUsers, See
  <1>3. ASSUME NEW q \in Requests, witnessed' = [witnessed EXCEPT ![q] = LiveRows(users)]
        PROVE  s \in LiveRows(users)
    BY <1>1, <1>3 DEF TypeOK
  <1>4. QED
    BY <1>1, <1>2, <1>3, TableWrites

LEMMA SightsStep ==
  ASSUME Proceeds, SightsKept PROVE SightsKept'
  <1> SUFFICES ASSUME NEW r \in Requests, NEW u \in Requests, NEW role \in Roles,
                      <<u, role>> \in witnessed'[r]
               PROVE  /\ users'[u].status # "absent"
                      /\ role = "admin" => u \in wasAdmin'
    BY DEF SightsKept
  <1>1. Accounts!AdminsKnown /\ Accounts!AdminsKnown'
    BY DEF Proceeds, Halves, Accounts!AccountInvariant, Accounts!Entitlement
  <1>2. CASE <<u, role>> \in witnessed[r]
    BY <1>2, NothingUnseen DEF SightsKept
  <1>3. CASE <<u, role>> \in LiveRows(users)
    <2>1. users[u].status = "live" /\ users[u].role = role
      BY <1>3 DEF LiveRows
    <2>2. QED
      BY <1>1, <2>1, NothingUnseen DEF Accounts!AdminsKnown, Accounts!Found
  <1>4. CASE <<u, role>> \in LiveRows(users')
    <2>1. users'[u].status = "live" /\ users'[u].role = role
      BY <1>4 DEF LiveRows
    <2>2. QED
      BY <1>1, <2>1 DEF Accounts!AdminsKnown, Accounts!Found
  <1>5. QED
    BY <1>2, <1>3, <1>4, NewSights

\* An answered request was let through for good, with the token it came with.
LEMMA StaysAdmitted ==
  ASSUME Proceeds, NEW r \in Requests, Admitted(r)
  PROVE  LET j == input[r].access.jti IN
         /\ Admitted(r)' /\ input'[r] = input[r] /\ subject'[r] = subject[r]
         /\ j \in Delivered /\ j \in Delivered' /\ claims'[j] = claims[j]
         /\ pc[j] = "done" /\ claims[j].user \in Requests
  <1> DEFINE j == input[r].access.jti
  <1>1. TypeOK /\ Control /\ Presented /\ [Next]_vars
    BY BothStep, HalvesTypes
  <1>2. pc[r] = "done" /\ j \in Delivered
    BY <1>1 DEF Admitted, Control, ControlOf, Presented
  <1>3. j \in Requests /\ pc[j] = "done" /\ claims[j].user \in Requests
    BY <1>1, <1>2 DEF Delivered, Control, ControlOf, TypeOK, Claims, Ids
  <1>4. Same(r) /\ Same(j)
    BY <1>1, <1>2, <1>3, Settled
  <1>5. j \in Delivered'
    BY <1>1, <1>2, DeliveredGrows
  <1>6. QED
    BY <1>2, <1>3, <1>4, <1>5 DEF Same, Admitted

LEMMA Admitting ==
  ASSUME Proceeds, NEW r \in Requests, ~ Admitted(r), Admitted(r)'
  PROVE  ValidateAccess(r) /\ input'[r] = input[r]
  <1>1. TypeOK /\ Control /\ [Next]_vars
    BY BothStep, HalvesTypes
  <1>2. Handle(r)
    BY <1>1, Steps, Outside, Local DEF Same, Admitted
  <1>3. reply[r] = "none"
    BY <1>1, <1>2, Local DEF Control, ControlOf
  <1>4. CASE Register(r) \/ Login(r) \/ Refresh(r) \/ Protected(r)
    BY <1>1, <1>3, <1>4 DEF Register, Login, Refresh, Protected, Goto, Answer, Admitted, TypeOK
  <1>5. CASE CreateUser(r) \/ GetByEmail(r)
    BY <1>1, <1>3, <1>5 DEF CreateUser, GetByEmail, Goto, Answer, Admitted, TypeOK
  <1>6. CASE GetRefresh(r) \/ GetByID(r) \/ RevokePresented(r) \/ Issue(r)
    BY <1>1, <1>3, <1>6 DEF GetRefresh, GetByID, RevokePresented, Issue, Goto, Answer,
       Admitted, TypeOK
  <1>7. CASE SaveRefresh(r)
    BY <1>1, <1>7 DEF SaveRefresh, Admitted, Control, ControlOf
  <1>8. CASE Logout(r) \/ BlacklistAccess(r)
    BY <1>1, <1>8 DEF Logout, BlacklistAccess, Admitted, Control, ControlOf
  <1>9. CASE ValidateAccess(r)
    BY <1>9 DEF ValidateAccess
  <1>10. QED
    BY <1>2, <1>4, <1>5, <1>6, <1>7, <1>8, <1>9 DEF Handle

LEMMA PrincipalsStep ==
  ASSUME Proceeds, PrincipalsAreClaims PROVE PrincipalsAreClaims'
  <1> SUFFICES ASSUME NEW r \in Requests, Admitted(r)'
               PROVE  LET j == input'[r].access.jti IN
                      subject'[r] = [user |-> claims'[j].user, role |-> claims'[j].role]
    BY DEF PrincipalsAreClaims
  <1>1. CASE Admitted(r)
    BY <1>1, StaysAdmitted DEF PrincipalsAreClaims
  <1>2. CASE ~ Admitted(r)
    <2>1. ValidateAccess(r) /\ TypeOK
      BY <1>2, Admitting, BothStep, HalvesTypes
    <2>2. QED
      BY <2>1 DEF ValidateAccess, Admitted, Goto, Answer, TypeOK
  <1>3. QED
    BY <1>1, <1>2

\* A request that was taken up is not waiting again.
LEMMA TakenUp ==
  ASSUME Proceeds, NEW r \in Requests, pc'[r] = "idle"
  PROVE  pc[r] = "idle" /\ Same(r)
  <1>1. TypeOK /\ [Next]_vars
    BY BothStep, HalvesTypes
  <1>2. ~ Handle(r)
    BY <1>1 DEF TypeOK, Handle, Register, Login, Refresh, Protected, CreateUser,
       GetByEmail, GetRefresh, GetByID, RevokePresented, Issue, SaveRefresh,
       ValidateAccess, Logout, BlacklistAccess, Goto, Answer
  <1>3. QED
    BY <1>1, <1>2, Steps, Outside, Local DEF Same

LEMMA RegistersStep ==
  ASSUME Proceeds, RegistersItself PROVE RegistersItself'
  <1> SUFFICES ASSUME NEW r \in Requests, call'[r].op = "register"
               PROVE  call'[r].target = r /\ pc'[r] # "idle"
    BY DEF RegistersItself
  <1>1. CASE call'[r] = call[r]
    BY <1>1, TakenUp DEF RegistersItself
  <1>2. CASE call'[r] # call[r]
    BY <1>2, Asking, BothStep
  <1>3. QED
    BY <1>1, <1>2

\* The steps of a session are none of a registration's row.
LEMMA SessionElsewhere ==
  ASSUME TypeOK, NEW r \in Requests, Session(r)
  PROVE  pc[r] # "create" /\ pc'[r] \notin {"idle", "create"}
  <1> USE DEF TypeOK, Goto, Answer
  <1>1. CASE Login(r) \/ Refresh(r) \/ Protected(r)
    <2>1. pc[r] = "idle"
      BY <1>1 DEF Login, Refresh, Protected, Receive
    <2>2. CASE Login(r)
      BY <2>1, <2>2 DEF Login
    <2>3. CASE Refresh(r)
      BY <2>1, <2>3 DEF Refresh
    <2>4. CASE Protected(r)
      BY <2>1, <2>4 DEF Protected
    <2>5. QED
      BY <1>1, <2>2, <2>3, <2>4
  <1>2. CASE GetByEmail(r) \/ GetRefresh(r) \/ GetByID(r) \/ RevokePresented(r)
    BY <1>2 DEF GetByEmail, GetRefresh, GetByID, RevokePresented
  <1>3. CASE Issue(r) \/ SaveRefresh(r)
    BY <1>3 DEF Issue, SaveRefresh
  <1>4. CASE ValidateAccess(r) \/ Logout(r) \/ BlacklistAccess(r)
    BY <1>4 DEF ValidateAccess, Logout, BlacklistAccess
  <1>5. QED
    BY <1>1, <1>2, <1>3, <1>4 DEF Session

LEMMA ServingElsewhere ==
  ASSUME Accounts!TypeOK, NEW r \in Requests, Serve(r)
  PROVE  step[r] = "idle" /\ step'[r] \notin {"idle", "create"}
  BY AccountsAssumed, Accounts!TakingAs DEF Serve

LEMMA HandlingElsewhere ==
  ASSUME Accounts!TypeOK, NEW r \in Requests, Handler(r)
  PROVE  step[r] \notin {"idle", "create"} /\ step'[r] \notin {"idle", "create"}
  <1> USE DEF Accounts!TypeOK, Accounts!Goto, Accounts!Answer
  <1>1. CASE Accounts!GetByID(r)
    BY <1>1 DEF Accounts!GetByID
  <1>2. CASE Accounts!Save(r) \/ Accounts!Upsert(r)
    BY <1>2 DEF Accounts!Save, Accounts!Upsert, Accounts!Statement
  <1>3. CASE Accounts!DeleteRow(r)
    BY <1>3 DEF Accounts!DeleteRow
  <1>4. QED
    BY <1>1, <1>2, <1>3 DEF Handler

\* The two names that a request has for the step it is at.
LEMMA NamedStep ==
  ASSUME Proceeds, RegistersItself', NEW r \in Requests, NamedAlike(r)
  PROVE  NamedAlike(r)'
  <1>1. TypeOK /\ Fresh' /\ Accounts!TypeOK /\ Halves /\ Agreement /\ [SystemNext]_systemVars
    BY BothStep, HalvesTypes DEF Proceeds, Halves, SessionInvariant
  <1>2. pc'[r] = "idle" => /\ users'[r].status = "absent"
                           /\ \A q \in Requests :
                                call'[q].op = "register" => call'[q].target # r
    BY <1>1 DEF Fresh, RegistersItself
  <1> DEFINE Alike == /\ pc'[r] = "idle" => step'[r] = "idle"
                      /\ pc'[r] = "create" <=> step'[r] = "create"
                      /\ pc'[r] = "create" => call'[r].target = r /\ draft'[r] = Inserted(r)'[r]
  <1>3. CASE Rests(r)
    <2>1. TypeOK' /\ Inserted(r)[r] = [status |-> "live", email |-> input[r].email, role |-> "user"]
      BY <1>1, HalvesTypes DEF Inserted, TypeOK, Proceeds, Halves, SessionInvariant
    <2>2. Inserted(r)'[r] = [status |-> "live", email |-> input'[r].email, role |-> "user"]
      BY <2>1 DEF Inserted, TypeOK
    <2>3. Alike
      BY <1>3, <2>1, <2>2 DEF Rests, Same, NamedAlike
    <2>4. QED
      BY <1>2, <2>3 DEF NamedAlike
  <1>4. CASE ~ Rests(r)
    <2>1. Acts(r)
      BY <1>1, <1>4, Apart, Pauses
    <2>2. CASE Session(r)
      <3>1. UNCHANGED <<step, call, draft>> /\ pc'[r] \notin {"idle", "create"} /\ pc[r] # "create"
        BY <1>1, <2>2, SessionElsewhere DEF Session, routeVars
      <3>2. QED
        BY <3>1 DEF NamedAlike
    <2>3. CASE SignUp(r)
      <3>1. pc[r] = "idle" /\ step[r] = "idle" /\ pc'[r] \in {"create", "done"}
        BY <1>1, <2>3 DEF SignUp, Register, Receive, Goto, Answer, TypeOK, NamedAlike
      <3>2. CASE pc'[r] = "done" /\ UNCHANGED routeVars
        BY <3>1, <3>2 DEF NamedAlike, routeVars
      <3>3. CASE pc'[r] = "create" /\ Accounts!RegisterAs(r, r, input'[r].email)
        <4>1. /\ step'[r] = "create" /\ call'[r].target = r
              /\ draft'[r] = [status |-> "live", email |-> input'[r].email, role |-> "user"]
          BY <1>1, <3>3, AccountsAssumed, Accounts!Registering DEF Accounts!NewRow
        <4>2. users' = users /\ Inserted(r)'[r] =
                [status |-> "live", email |-> input'[r].email, role |-> "user"]
          BY <1>1, <2>3 DEF SignUp, Register, Receive, Inserted, TypeOK
        <4>3. QED
          BY <3>3, <4>1, <4>2 DEF NamedAlike
      <3>4. QED
        BY <2>3, <3>2, <3>3 DEF SignUp
    <2>4. CASE Insert(r)
      <3>1. pc'[r] \notin {"idle", "create"}
        BY <1>1, <2>4 DEF Insert, CreateUser, Goto, Answer, TypeOK
      <3>2. step'[r] = "done"
        BY <1>1, <2>4 DEF Insert, Accounts!CreateRow, Accounts!Statement, Accounts!TypeOK
      <3>3. QED
        BY <3>1, <3>2 DEF NamedAlike
    <2>5. CASE Serve(r) \/ Handler(r)
      <3>1. pc'[r] = pc[r]
        BY <2>5 DEF Serve, Handler, vars, requestVars
      <3>2. step'[r] # "create" /\ step'[r] # "idle" /\ step[r] # "create"
        BY <1>1, <2>5, ServingElsewhere, HandlingElsewhere
      <3>3. pc[r] # "idle"
        BY <1>1, <2>5, HalvesTypes, HandlingElsewhere
        DEF Serve, Admitted, Control, ControlOf, NamedAlike
      <3>4. QED
        BY <3>1, <3>2, <3>3 DEF NamedAlike
    <2>6. QED
      BY <2>1, <2>2, <2>3, <2>4, <2>5 DEF Acts
  <1>5. QED
    BY <1>3, <1>4

LEMMA CallsStep ==
  ASSUME Proceeds, PrincipalsAreClaims, CallsFollowTokens PROVE CallsFollowTokens'
  <1> SUFFICES ASSUME NEW r \in Requests, step'[r] # "idle", call'[r].op # "register"
               PROVE  LET j == input'[r].access.jti IN
                      /\ Admitted(r)' /\ j \in Delivered'
                      /\ call'[r].actor = claims'[j].user
                      /\ call'[r].op \in {"adminUpdate", "adminDelete"} =>
                           /\ claims'[j].role = "admin"
                           /\ <<call'[r].actor, "admin">> \in witnessed'[j]
    BY DEF CallsFollowTokens
  <1> DEFINE j == input[r].access.jti
             Follows == /\ Admitted(r)
                        /\ call'[r].actor = claims[j].user
                        /\ call'[r].op \in {"adminUpdate", "adminDelete"} =>
                             claims[j].role = "admin" /\ <<call'[r].actor, "admin">> \in witnessed[j]
  <1>1. Follows
    <2>1. Halves /\ Agreement /\ [SystemNext]_systemVars /\ Accounts!TypeOK
          /\ PairReflectsRequestInterval
      BY BothStep, HalvesTypes DEF Halves, SessionInvariant
    <2>2. CASE Serve(r)
      <3>1. /\ Admitted(r) /\ call'[r].actor = subject[r].user
            /\ call'[r].op \in {"adminUpdate", "adminDelete"} => subject[r].role = "admin"
        BY <2>1, <2>2, AccountsAssumed, Accounts!TakingAs DEF Serve
      <3>2. subject[r] = [user |-> claims[j].user, role |-> claims[j].role]
        BY <3>1 DEF PrincipalsAreClaims
      <3>3. j \in Requests /\ claims[j].user # None
        BY <3>1, StaysAdmitted DEF Delivered
      <3>4. <<claims[j].user, claims[j].role>> \in witnessed[j]
        BY <2>1, <3>3 DEF PairReflectsRequestInterval
      <3>5. QED
        BY <3>1, <3>2, <3>4
    <2>3. CASE ~ Serve(r)
      <3>1. call'[r] = call[r]
        BY <2>1, <2>3, Asking
      <3>2. step[r] # "idle"
        <4>1. SUFFICES ASSUME step[r] = "idle" PROVE FALSE
          OBVIOUS
        <4>2. Acts(r)
          BY <2>1, <4>1, Apart, Pauses DEF Rests
        <4>3. SignUp(r) /\ Accounts!RegisterAs(r, r, input'[r].email)
          BY <2>1, <2>3, <4>1, <4>2, HandlingElsewhere
          DEF Acts, Session, SignUp, Insert, Accounts!CreateRow, routeVars
        <4>4. QED
          BY <2>1, <4>3, AccountsAssumed, Accounts!Registering
      <3>3. QED
        BY <3>1, <3>2 DEF CallsFollowTokens
    <2>4. QED
      BY <2>2, <2>3
  <1>2. /\ Admitted(r)' /\ input'[r] = input[r] /\ j \in Delivered'
        /\ claims'[j] = claims[j] /\ pc[j] = "done" /\ j \in Requests
    BY <1>1, StaysAdmitted DEF Delivered
  <1>3. witnessed[j] \subseteq witnessed'[j]
    <2>1. TypeOK /\ Control /\ Witnessed /\ [Next]_vars
      BY BothStep, HalvesTypes DEF Halves, SessionInvariant
    <2>2. QED
      BY <1>2, <2>1, Sees
  <1>4. QED
    BY <1>1, <1>2, <1>3
-----------------------------------------------------------------------------
(* The theorems *)

LEMMA SystemInvariantInit == SystemInit => SystemInvariant
  <1> SUFFICES ASSUME SystemInit PROVE SystemInvariant
    OBVIOUS
  <1>1. ASSUME NEW r \in Requests
        PROVE  /\ pc[r] = IF r \in Seeds THEN "done" ELSE "idle"
               /\ reply[r] = "none" /\ witnessed[r] = {}
               /\ step[r] = "idle" /\ call[r].op = "none"
               /\ r \notin Seeds => users[r].status = "absent"
    BY DEF SystemInit, Init, Seeded, Accounts!Init, Accounts!NoInput
  <1>2. SightsKept /\ PrincipalsAreClaims /\ RegistersItself /\ CallsFollowTokens
    BY <1>1 DEF SightsKept, PrincipalsAreClaims, Admitted, RegistersItself, CallsFollowTokens
  <1>3. \A r \in Requests : NamedAlike(r)
    BY <1>1 DEF NamedAlike
  <1>4. QED
    BY <1>2, <1>3 DEF SystemInvariant

LEMMA SystemInvariantStep == Proceeds /\ SystemInvariant => SystemInvariant'
  <1> SUFFICES ASSUME Proceeds, SystemInvariant PROVE SystemInvariant'
    OBVIOUS
  <1>1. RegistersItself'
    BY RegistersStep DEF SystemInvariant
  <1>2. \A r \in Requests : NamedAlike(r)'
    BY <1>1, NamedStep DEF SystemInvariant
  <1>3. QED
    BY <1>1, <1>2, SightsStep, PrincipalsStep, CallsStep DEF SystemInvariant

\* Why each half may rely on the other, in every reachable state of the API: the two
\* invariants and the one that ties them hold by one induction, as none of the three
\* is kept without the others (middleware/auth.go:32-38, auth/service.go:25-48).
THEOREM SystemInvariantHolds == SystemSpec => [](Halves /\ SystemInvariant)
  <1>1. Halves /\ SystemInvariant /\ [SystemNext]_systemVars => Halves' /\ SystemInvariant'
    BY Agreed, HalvesStep, SystemInvariantStep DEF Proceeds
  <1>2. SystemInit => Halves /\ SystemInvariant
    BY HalvesInit, SystemInvariantInit
  <1>3. QED
    BY <1>1, <1>2, PTL DEF SystemSpec

\* What UserService takes for granted is so: principals are users of the table, an
\* admin's was an admin, a new id has no row (middleware/auth.go:32-61,
\* auth/service.go:32-41).
THEOREM HalvesAgree == SystemSpec => []Agreement
  BY Agreed, SystemInvariantHolds, PTL

\* However the sessions interleave with them, the registrations and the user routes do
\* what UserService says of them.  The system has no guard on principals and ids; that
\* those which UserService puts on them are met is what the tokens, the middleware and
\* the minting of ids come to (middleware/auth.go:32-61, auth/service.go:25-48,
\* user/service.go:41-83).
THEOREM AccountsImplemented == SystemSpec => Accounts!Spec
  <1>1. SystemInit => Accounts!Init
    BY DEF SystemInit
  <1>2. Halves /\ SystemInvariant /\ [SystemNext]_systemVars => [Accounts!Next]_(Accounts!vars)
    BY Agreed, AccountsStep
  <1>3. QED
    BY <1>1, <1>2, SystemInvariantHolds, PTL DEF SystemSpec, Accounts!Spec

\* So every account is as UserService proves it, with principals that come from tokens
\* (middleware/auth.go:32-61).
THEOREM AccountsKept == SystemSpec => []Accounts!AccountInvariant
  BY AccountsImplemented, AccountsAssumed, Accounts!AccountInvariantHolds

\* The user routes write the table in no other way than AuthService lets them, so
\* that all that it proves of sessions holds of the API (user/repository.go:87-104).
THEOREM SessionsImplemented == SystemSpec => Spec
  <1>1. SystemInit => Init
    BY DEF SystemInit
  <1>2. QED
    BY <1>1, AccountsKept, SessionsStep, PTL DEF SystemSpec, Spec

\* So every session is as AuthService proves it, with the user routes as they are
\* (auth/service.go:25-135, user/service.go:41-83).
THEOREM SessionsKeptToo == SystemSpec => []SessionInvariant
  BY SessionsImplemented, SessionInvariantHolds

\* No registration, update, delete or stale save of the API, in any order, gives one
\* address to two live accounts (user/repository.go:34-104).
THEOREM AddressesStayApart == SystemSpec => []Table!AddressesApart
  BY SessionsImplemented, OneAccountAnAddress

\* Nobody is served in another's name, and an admin route only runs for one whose row
\* was live with role admin while the token was being issued, however old that is by
\* now (server.go:73-79, middleware/auth.go:43-59).
THEOREM CallsKeepToTokens == SystemSpec => []CallsFollowTokens
  <1>1. SystemInvariant => CallsFollowTokens
    BY DEF SystemInvariant
  <1>2. QED
    BY <1>1, SystemInvariantHolds, PTL

LEMMA NoAdminStep ==
  ASSUME Proceeds, SystemInvariant', SightsKept, Admins = {}, NoAdmin
  PROVE  NoAdmin'
  <1>1. ASSUME NEW r \in Requests, call'[r].op \in {"adminUpdate", "adminDelete"}
        PROVE  FALSE
    <2>1. Accounts!EntitledTo(r)'
      BY DEF Proceeds, Halves, Accounts!AccountInvariant, Accounts!Entitlement
    <2>2. call'[r] # call[r]
      BY <1>1 DEF NoAdmin
    <2>3. Accounts!TypeOK /\ Halves /\ Agreement /\ [SystemNext]_systemVars
      BY BothStep, HalvesTypes
    <2>4. Serve(r)
      BY <1>1, <2>2, <2>3, Asking
    <2>5. UNCHANGED wasAdmin
      BY <2>3, <2>4, AccountsAssumed, Accounts!TakingAs DEF Serve, Accounts!history
    <2>6. call'[r].actor \in wasAdmin'
      BY <1>1, <2>1 DEF Accounts!EntitledTo
    <2>7. QED
      BY <2>5, <2>6 DEF NoAdmin
  <1>2. wasAdmin' = {}
    <2>1. Accounts!AdminProvenance'
      BY DEF Proceeds, Halves, Accounts!AccountInvariant, Accounts!Entitlement
    <2>2. QED
      BY <1>1, <2>1 DEF Accounts!AdminProvenance, Accounts!Asks
  <1>3. ASSUME NEW r \in Requests PROVE claims'[r].role = "user"
    <2>1. TypeOK /\ Control /\ Witnessed /\ [Next]_vars
      BY BothStep, HalvesTypes DEF Halves, SessionInvariant
    <2>2. CASE claims'[r] = claims[r]
      BY <2>2 DEF NoAdmin
    <2>3. CASE claims'[r] # claims[r]
      <3>1. pc[r] = "issue" /\ claims'[r].role = subject[r].role
        BY <2>1, <2>3, Minting
      <3>2. <<subject[r].user, subject[r].role>> \in witnessed[r]
        BY <2>1, <3>1 DEF Witnessed
      <3>3. subject[r].user \in Requests /\ subject[r].role \in Roles
        BY <2>1, <3>2 DEF TypeOK
      <3>4. subject[r].role # "admin"
        BY <3>2, <3>3 DEF SightsKept, NoAdmin
      <3>5. QED
        BY <3>1, <3>3, <3>4 DEF Roles
    <2>4. QED
      BY <2>2, <2>3
  <1>4. QED
    BY <1>1, <1>2, <1>3 DEF NoAdmin

\* Without an admin among the first accounts nothing that the API does, in any order
\* and with any failure, makes one: the role has to come from outside
\* (README.md:110-113, auth/service.go:40, user/service.go:63-68).
THEOREM NoFirstAdmin == SystemSpec => []NoAdminFromNothing
  <1>1. SystemInit => NoAdminFromNothing
    BY DEF SystemInit, Init, NoClaims, Accounts!Init, Accounts!NoInput, NoAdminFromNothing, NoAdmin
  <1>2. /\ Halves /\ SystemInvariant /\ Halves' /\ SystemInvariant'
        /\ [SystemNext]_systemVars /\ NoAdminFromNothing
        => NoAdminFromNothing'
    BY Agreed, NoAdminStep DEF Proceeds, SystemInvariant, NoAdminFromNothing
  <1>3. QED
    BY <1>1, <1>2, SystemInvariantHolds, PTL DEF SystemSpec
=============================================================================
