------------------------- MODULE AuthServiceProofs -------------------------
(***************************************************************************)
(* Proofs about AuthService, for any number of requests and emails, any    *)
(* lifetimes of the tokens (also none), and any combination of failures.   *)
(***************************************************************************)
EXTENDS AuthService, TLAPS

USE AuthAssumption

-----------------------------------------------------------------------------
(* Type correctness *)

LEMMA InitType == Init => TypeOK
  BY DEF Init, TypeOK, NoKey, NoClaims, NoInput, NoToken, NoSubject, Ids, Roles,
         Statuses, Labels, User, RefreshKey, Claims, Token, Input, Subject

LEMMA GotoType ==
  ASSUME TypeOK, NEW r \in Requests, NEW l \in Labels, Goto(r, l)
  PROVE  pc' \in [Requests -> Labels] /\ reply' \in [Requests -> Statuses]
  BY DEF TypeOK, Goto

LEMMA AnswerType ==
  ASSUME TypeOK, NEW r \in Requests, NEW a \in Statuses, Answer(r, a)
  PROVE  pc' \in [Requests -> Labels] /\ reply' \in [Requests -> Statuses]
  BY DEF TypeOK, Answer, Labels

\* Every value that the operators on the two stores produce is of their type.
LEMMA SaveType ==
  ASSUME TypeOK, NEW j \in Requests, NEW u \in Ids, NEW ttl \in Int
  PROVE  AfterSaveRefresh(j, u, ttl) \in [Requests -> RefreshKey]
  BY DEF TypeOK, KeyExpiry, Forever, AfterSaveRefresh, RefreshKey, Ids

LEMMA RevokeType ==
  ASSUME TypeOK, NEW j \in Requests
  PROVE  AfterRevokeRefresh(j) \in [Requests -> RefreshKey]
  BY DEF TypeOK, AfterRevokeRefresh, RefreshKey, NoKey, Ids

LEMMA BlacklistType ==
  ASSUME TypeOK, NEW j \in Requests
  PROVE  AfterBlacklistAccess(j, AccessTTL) \in [Requests -> Int]
  BY DEF TypeOK, KeyExpiry, Forever, AfterBlacklistAccess, Minute

LEMMA LiveRowsType ==
  ASSUME NEW table \in [Requests -> User]
  PROVE  LiveRows(table) \subseteq Requests \X Roles
  BY DEF LiveRows, User

LEMMA SetUsersType ==
  ASSUME TypeOK, NEW table \in [Requests -> User], SetUsers(table)
  PROVE  /\ users' \in [Requests -> User]
         /\ witnessed' \in [Requests -> SUBSET (Requests \X Roles)]
  BY LiveRowsType DEF TypeOK, SetUsers, See

\* Receiving a request sets its input and what it has witnessed.
LEMMA ReceiveType ==
  ASSUME TypeOK, NEW r \in Requests, NEW in \in Input, Receive(r, in),
         pc' \in [Requests -> Labels], reply' \in [Requests -> Statuses]
  PROVE  TypeOK'
  <1>1. LiveRows(users) \in SUBSET (Requests \X Roles)
    BY LiveRowsType DEF TypeOK
  <1>2. witnessed' \in [Requests -> SUBSET (Requests \X Roles)]
    BY <1>1 DEF TypeOK, Receive
  <1>3. input' \in [Requests -> Input]
    BY DEF TypeOK, Receive
  <1>4. QED
    BY <1>2, <1>3 DEF TypeOK, Receive, storeVars

LEMMA PresentableType ==
  ASSUME NEW t \in Presentable PROVE t \in Token /\ t.jti \in Delivered
  BY DEF Presentable, Delivered, Token, Ids

LEMMA InputType ==
  /\ \A e \in Emails :
        /\ [NoInput EXCEPT !.op = "register", !.email = e] \in Input
        /\ [NoInput EXCEPT !.op = "login", !.email = e] \in Input
  /\ \A t \in Token : [NoInput EXCEPT !.op = "refresh", !.refresh = t] \in Input
  /\ \A t, u \in Token : \A op \in {"logout", "me"} :
        [NoInput EXCEPT !.op = op, !.access = t,
                       !.refresh = IF op = "logout" THEN u ELSE NoToken] \in Input
  BY DEF NoInput, NoToken, Input, Token, Ids

LEMMA ReceiveActionsType ==
  ASSUME TypeOK, NEW r \in Requests,
         Register(r) \/ Login(r) \/ Refresh(r) \/ Protected(r)
  PROVE  TypeOK'
  <1>0. /\ {"create", "getByEmail", "getRefresh", "validate"} \subseteq Labels
        /\ {"internal", "unauthorized"} \subseteq Statuses
    BY DEF Labels, Statuses
  <1>1. CASE Register(r)
    BY <1>0, <1>1, ReceiveType, InputType, GotoType, AnswerType DEF Register
  <1>2. CASE Login(r)
    BY <1>0, <1>2, ReceiveType, InputType, GotoType DEF Login
  <1>3. CASE Refresh(r)
    <2>1. PICK t \in Presentable :
            /\ Receive(r, [NoInput EXCEPT !.op = "refresh", !.refresh = t])
            /\ Goto(r, "getRefresh") \/ Answer(r, "unauthorized")
      BY <1>3 DEF Refresh
    <2>2. QED
      BY <1>0, <2>1, PresentableType, ReceiveType, InputType, GotoType, AnswerType
  <1>4. CASE Protected(r)
    <2>1. PICK t \in Presentable, u \in Presentable, op \in {"logout", "me"} :
            /\ Receive(r, [NoInput EXCEPT !.op = op, !.access = t,
                              !.refresh = IF op = "logout" THEN u ELSE NoToken])
            /\ Goto(r, "validate") \/ Answer(r, "unauthorized")
      BY <1>4 DEF Protected
    <2>2. QED
      BY <1>0, <2>1, PresentableType, ReceiveType, InputType, GotoType, AnswerType
  <1>5. QED
    BY <1>1, <1>2, <1>3, <1>4

\* The ids that a request looks up are those of delivered pairs.
LEMMA Lookups ==
  ASSUME TypeOK, Control, Presented, NEW r \in Requests
  PROVE  /\ pc[r] \in {"validate", "logout", "blacklist"} =>
              input[r].access.jti \in Requests /\ claims[input[r].access.jti] \in Claims
         /\ pc[r] \in {"getRefresh", "getByID", "revoke", "logout"} =>
              /\ input[r].refresh.jti \in Requests
              /\ claims[input[r].refresh.jti] \in Claims
              /\ claims[input[r].refresh.jti].user \in Requests
  <1>1. \A j \in Delivered : /\ j \in Requests
                             /\ claims[j] \in Claims
                             /\ claims[j].user \in Requests
    BY DEF TypeOK, Delivered, Claims, Ids
  <1>2. QED
    BY <1>1 DEF Control, ControlOf, Presented

LEMMA CallActionsType ==
  ASSUME TypeOK, Control, Presented, NEW r \in Requests,
         \/ CreateUser(r) \/ GetByEmail(r) \/ GetRefresh(r) \/ GetByID(r)
         \/ RevokePresented(r) \/ Issue(r) \/ SaveRefresh(r)
         \/ ValidateAccess(r) \/ Logout(r) \/ BlacklistAccess(r)
  PROVE  TypeOK'
  <1> USE DEF dbVars, storeVars
  <1>l. /\ {"issue", "getByID", "revoke", "save", "logout", "blacklist"} \subseteq Labels
        /\ {"internal", "unauthorized", "conflict", "created", "ok", "noContent"}
             \subseteq Statuses
    BY DEF Labels, Statuses
  <1>u. ASSUME NEW u \in Requests, NEW role \in Roles,
               \/ subject' = subject
               \/ subject' = [subject EXCEPT ![r] = [user |-> u, role |-> role]]
        PROVE  subject' \in [Requests -> Subject]
    <2>1. [user |-> u, role |-> role] \in Subject
      BY DEF Subject, Ids
    <2>2. QED
      BY <1>u, <2>1 DEF TypeOK
  <1>r. \A u \in Requests : users[u].role \in Roles
    BY DEF TypeOK, User
  <1>c. pc' \in [Requests -> Labels] /\ reply' \in [Requests -> Statuses]
    BY <1>l, GotoType, AnswerType
    DEF CreateUser, GetByEmail, GetRefresh, GetByID, RevokePresented, Issue,
        SaveRefresh, ValidateAccess, Logout, BlacklistAccess
  <1>1. CASE CreateUser(r)
    <2>1. Inserted(r) \in [Requests -> User]
      BY DEF TypeOK, Inserted, User, Input, Roles
    <2>2. subject' \in [Requests -> Subject]
      BY <1>1, <1>u DEF CreateUser, Roles
    <2>3. /\ users' \in [Requests -> User]
          /\ witnessed' \in [Requests -> SUBSET (Requests \X Roles)]
      BY <1>1, <2>1, SetUsersType DEF CreateUser, TypeOK
    <2>4. userWrites' = userWrites
      BY <1>1 DEF CreateUser
    <2>5. QED
      BY <1>1, <1>c, <2>2, <2>3, <2>4 DEF CreateUser, TypeOK
  <1>2. CASE GetByEmail(r)
    <2>1. \/ \E u \in Requests :
               subject' = [subject EXCEPT ![r] = [user |-> u, role |-> users[u].role]]
          \/ subject' = subject
      BY <1>2 DEF GetByEmail
    <2>2. subject' \in [Requests -> Subject]
      BY <1>u, <1>r, <2>1 DEF TypeOK
    <2>3. QED
      BY <1>2, <1>c, <2>2 DEF GetByEmail, TypeOK
  <1>3. CASE GetRefresh(r)
    BY <1>3, <1>c DEF GetRefresh, TypeOK
  <1>4. CASE GetByID(r)
    <2>1. pc[r] = "getByID"
      BY <1>4 DEF GetByID
    <2>2. claims[input[r].refresh.jti].user \in Requests
      BY <2>1, Lookups
    <2>3. subject' \in [Requests -> Subject]
      BY <1>4, <1>u, <1>r, <2>2 DEF GetByID
    <2>4. QED
      BY <1>4, <1>c, <2>3 DEF GetByID, TypeOK
  <1>5. CASE RevokePresented(r)
    <2>1. pc[r] = "revoke" /\ input[r].refresh.jti \in Requests
      BY <1>5, Lookups DEF RevokePresented
    <2>2. AfterRevokeRefresh(input[r].refresh.jti) \in [Requests -> RefreshKey]
      BY <2>1, RevokeType
    <2>3. /\ refreshKeys' \in [Requests -> RefreshKey] /\ spent' \in SUBSET Requests
          /\ lost' \in SUBSET Requests
      BY <1>5, <2>1, <2>2 DEF RevokePresented, RevokeRefresh, TypeOK
    <2>4. QED
      BY <1>5, <1>c, <2>3 DEF RevokePresented, RevokeRefresh, TypeOK
  <1>6. CASE Issue(r)
    <2>1. [user |-> subject[r].user, role |-> subject[r].role,
           accessExp |-> now + AccessTTL, refreshExp |-> now + RefreshTTL] \in Claims
      BY DEF TypeOK, Subject, Claims
    <2>2. claims' \in [Requests -> Claims]
      BY <1>6, <2>1 DEF Issue, TypeOK
    <2>3. QED
      BY <1>6, <1>c, <2>2 DEF Issue, TypeOK
  <1>7. CASE SaveRefresh(r)
    <2>1. claims[r].user \in Ids
      BY DEF TypeOK, Claims
    <2>2. refreshKeys' \in [Requests -> RefreshKey]
      BY <1>7, <2>1, SaveType DEF SaveRefresh, TypeOK
    <2>3. QED
      BY <1>7, <1>c, <2>2 DEF SaveRefresh, TypeOK
  <1>8. CASE ValidateAccess(r)
    <2>1. claims[input[r].access.jti] \in Claims
      BY <1>8, Lookups DEF ValidateAccess
    <2>2. [user |-> claims[input[r].access.jti].user,
           role |-> claims[input[r].access.jti].role] \in Subject
      BY <2>1 DEF Claims, Subject
    <2>3. subject' \in [Requests -> Subject]
      BY <1>8, <2>2 DEF ValidateAccess, TypeOK
    <2>4. QED
      BY <1>8, <1>c, <2>3 DEF ValidateAccess, TypeOK
  <1>9. CASE Logout(r)
    <2>1. pc[r] = "logout" /\ input[r].refresh.jti \in Requests
      BY <1>9, Lookups DEF Logout
    <2>2. AfterRevokeRefresh(input[r].refresh.jti) \in [Requests -> RefreshKey]
      BY <2>1, RevokeType
    <2>3. /\ refreshKeys' \in [Requests -> RefreshKey] /\ spent' \in SUBSET Requests
          /\ lost' \in SUBSET Requests
      BY <1>9, <2>1, <2>2 DEF Logout, RevokeRefresh, TypeOK
    <2>4. QED
      BY <1>9, <1>c, <2>3 DEF Logout, RevokeRefresh, TypeOK
  <1>10. CASE BlacklistAccess(r)
    <2>1. pc[r] = "blacklist" /\ input[r].access.jti \in Requests
      BY <1>10, Lookups DEF BlacklistAccess
    <2>2. AfterBlacklistAccess(input[r].access.jti, AccessTTL) \in [Requests -> Int]
      BY <2>1, BlacklistType
    <2>3. blacklist' \in [Requests -> Int]
      BY <1>10, <2>2 DEF BlacklistAccess, TypeOK
    <2>4. QED
      BY <1>10, <1>c, <2>3 DEF BlacklistAccess, TypeOK
  <1>11. QED
    BY <1>1, <1>2, <1>3, <1>4, <1>5, <1>6, <1>7, <1>8, <1>9, <1>10

\* A write that the table allows leaves rows of their type.
LEMMA TableType ==
  ASSUME TypeOK, NEW u \in Requests, Table!Change(u)
  PROVE  users' \in [Requests -> User]
  <1>1. ASSUME NEW row \in User, users' = [users EXCEPT ![u] = row]
        PROVE  users' \in [Requests -> User]
    BY <1>1 DEF TypeOK
  <1>2. CASE Table!Save(u)
    <2>1. PICK e \in Emails, role \in Roles :
            users' = [users EXCEPT ![u] = [status |-> "live", email |-> e, role |-> role]]
      BY <1>2 DEF Table!Save, Table!Store, Table!Roles, Roles
    <2>2. [status |-> "live", email |-> e, role |-> role] \in User
      BY DEF User
    <2>3. QED
      BY <1>1, <2>1, <2>2
  <1>3. CASE Table!Delete(u)
    <2>1. [users[u] EXCEPT !.status = "deleted"] \in User
      BY DEF TypeOK, User
    <2>2. users' = [users EXCEPT ![u] = [users[u] EXCEPT !.status = "deleted"]]
      BY <1>3 DEF Table!Delete, TypeOK
    <2>3. QED
      BY <1>1, <2>1, <2>2
  <1>4. QED
    BY <1>2, <1>3 DEF Table!Change

LEMMA SurroundingsType ==
  ASSUME TypeOK
  PROVE  /\ Tick => TypeOK'
         /\ \A u \in Requests : UserRoutes(u) => TypeOK'
         /\ UNCHANGED vars => TypeOK'
  <1>1. Tick => TypeOK'
    BY DEF Tick, TypeOK, dbVars, storeVars, requestVars
  <1>2. ASSUME NEW u \in Requests, UserRoutes(u)
        PROVE  TypeOK'
    <2>1. users' \in [Requests -> User]
      BY <1>2, TableType DEF UserRoutes
    <2>2. SetUsers(users')
      BY <1>2 DEF UserRoutes, SetUsers
    <2>3. witnessed' \in [Requests -> SUBSET (Requests \X Roles)]
      BY <2>1, <2>2, SetUsersType
    <2>4. QED
      BY <1>2, <2>1, <2>3 DEF UserRoutes, TypeOK, storeVars, requestVars
  <1>3. UNCHANGED vars => TypeOK'
    BY DEF TypeOK, vars, dbVars, storeVars, requestVars
  <1>4. QED
    BY <1>1, <1>2, <1>3

LEMMA NextType ==
  ASSUME TypeOK, Control, Presented, [Next]_vars
  PROVE  TypeOK'
  BY ReceiveActionsType, CallActionsType, SurroundingsType
  DEF Next, Handle, Terminating
-----------------------------------------------------------------------------
(* What a step leaves alone *)

\* The five variables that hold the control of request q.
Same(q) ==
    /\ pc'[q] = pc[q]
    /\ reply'[q] = reply[q]
    /\ input'[q] = input[q]
    /\ subject'[q] = subject[q]
    /\ claims'[q] = claims[q]

LEMMA Local ==
  ASSUME TypeOK, NEW r \in Requests, Handle(r)
  PROVE  pc[r] # "done" /\ \A q \in Requests \ {r} : Same(q)
  <1> USE DEF TypeOK, Same, Goto, Answer, Receive
  <1>1. CASE Register(r) \/ Login(r) \/ Refresh(r) \/ Protected(r)
    <2>1. ASSUME NEW in, Receive(r, in),
                 \/ \E l \in Labels : Goto(r, l)
                 \/ \E a \in Statuses : Answer(r, a)
          PROVE  pc[r] # "done" /\ \A q \in Requests \ {r} : Same(q)
      BY <2>1
    <2>2. CASE Register(r)
      BY <2>1, <2>2 DEF Register, Labels, Statuses
    <2>3. CASE Login(r)
      BY <2>1, <2>3 DEF Login, Labels
    <2>4. CASE Refresh(r)
      BY <2>1, <2>4 DEF Refresh, Labels, Statuses
    <2>5. CASE Protected(r)
      BY <2>1, <2>5 DEF Protected, Labels, Statuses
    <2>6. QED
      BY <1>1, <2>2, <2>3, <2>4, <2>5
  <1>2. CASE CreateUser(r)
    BY <1>2 DEF CreateUser
  <1>3. CASE GetByEmail(r)
    BY <1>3 DEF GetByEmail
  <1>4. CASE GetRefresh(r) \/ GetByID(r) \/ RevokePresented(r)
    BY <1>4 DEF GetRefresh, GetByID, RevokePresented
  <1>5. CASE Issue(r) \/ SaveRefresh(r)
    BY <1>5 DEF Issue, SaveRefresh
  <1>6. CASE ValidateAccess(r) \/ Logout(r) \/ BlacklistAccess(r)
    BY <1>6 DEF ValidateAccess, Logout, BlacklistAccess
  <1>7. QED
    BY <1>1, <1>2, <1>3, <1>4, <1>5, <1>6 DEF Handle

\* A step that is no handler's.
Surroundings ==
    \/ Tick
    \/ \E u \in Requests : UserRoutes(u)
    \/ UNCHANGED vars

LEMMA Steps ==
  [Next]_vars => Surroundings \/ \E r \in Requests : Handle(r)
  BY DEF Next, Surroundings, Terminating

LEMMA Outside ==
  ASSUME Surroundings
  PROVE  UNCHANGED requestVars /\ UNCHANGED storeVars /\ \A q \in Requests : Same(q)
  BY DEF Surroundings, Tick, UserRoutes, Same, vars, requestVars

\* An answered request keeps its answer, its input and its pair.
LEMMA Settled ==
  ASSUME TypeOK, [Next]_vars, NEW j \in Requests, pc[j] = "done"
  PROVE  Same(j)
  BY Steps, Local, Outside

LEMMA DeliveredGrows ==
  ASSUME TypeOK, Control, [Next]_vars
  PROVE  Delivered \subseteq Delivered'
  <1>1. \A j \in Delivered : pc[j] = "done"
    BY DEF Delivered, Control, ControlOf
  <1>2. QED
    BY <1>1, Settled DEF Delivered, Same
-----------------------------------------------------------------------------
(* Control *)

LEMMA ControlInit == Init => Control
  <1>1. ASSUME Init, NEW r \in Requests
        PROVE  /\ pc[r] \in {"idle", "done"} /\ reply[r] = "none"
               /\ claims[r].user = None /\ subject[r] = NoSubject
    BY <1>1 DEF Init, NoClaims
  <1>2. QED
    BY <1>1 DEF Control, ControlOf

LEMMA ControlStep ==
  ASSUME TypeOK, Control, [Next]_vars
  PROVE  Control'
  <1>1. ASSUME NEW r \in Requests, Handle(r) PROVE Control'
    <2>1. \A q \in Requests \ {r} : ControlOf(q)'
      BY <1>1, Local DEF Control, ControlOf, Same
    <2>2. ControlOf(r)'
      <3> USE DEF TypeOK, Control, ControlOf, Goto, Answer, Receive
      <3>1. CASE Register(r)
        BY <3>1 DEF Register, NoInput
      <3>2. CASE Login(r)
        BY <3>2 DEF Login, NoInput
      <3>3. CASE Refresh(r)
        BY <3>3 DEF Refresh, NoInput
      <3>4. CASE Protected(r)
        BY <3>4 DEF Protected, NoInput
      <3>5. CASE CreateUser(r)
        BY <3>5 DEF CreateUser
      <3>6. CASE GetByEmail(r)
        BY <3>6 DEF GetByEmail
      <3>7. CASE GetRefresh(r) \/ GetByID(r) \/ RevokePresented(r)
        BY <3>7 DEF GetRefresh, GetByID, RevokePresented
      <3>8. CASE Issue(r) \/ SaveRefresh(r)
        BY <3>8 DEF Issue, SaveRefresh
      <3>9. CASE ValidateAccess(r) \/ Logout(r) \/ BlacklistAccess(r)
        BY <3>9 DEF ValidateAccess, Logout, BlacklistAccess
      <3>10. QED
        BY <1>1, <3>1, <3>2, <3>3, <3>4, <3>5, <3>6, <3>7, <3>8, <3>9 DEF Handle
    <2>3. QED
      BY <2>1, <2>2 DEF Control
  <1>2. CASE Surroundings
    BY <1>2, Outside DEF Control, ControlOf, Same
  <1>3. QED
    BY <1>1, <1>2, Steps
-----------------------------------------------------------------------------
(* The only steps that write a request's input, a pair, a key *)

LEMMA Receiving ==
  ASSUME TypeOK, [Next]_vars, NEW r \in Requests, input'[r] # input[r]
  PROVE  /\ pc[r] = "idle" /\ pc'[r] # "idle"
         /\ input'[r].op \in {"logout", "me"} => input'[r].access.jti \in Delivered
         /\ input'[r].op \in {"logout", "refresh"} => input'[r].refresh.jti \in Delivered
         /\ pc'[r] \notin {"issue", "save", "blacklist"}
         /\ reply'[r] # reply[r] => reply'[r] \in {"internal", "unauthorized"}
  <1>1. Handle(r)
    BY Steps, Local, Outside DEF Same
  <1>2. Register(r) \/ Login(r) \/ Refresh(r) \/ Protected(r)
    BY <1>1 DEF Handle, CreateUser, GetByEmail, GetRefresh, GetByID,
       RevokePresented, Issue, SaveRefresh, ValidateAccess, Logout, BlacklistAccess
  <1> USE DEF Receive, Goto, Answer, TypeOK, NoInput
  <1>3. CASE Register(r)
    BY <1>3 DEF Register
  <1>4. CASE Login(r)
    BY <1>4 DEF Login
  <1>5. CASE Refresh(r)
    BY <1>5, PresentableType DEF Refresh
  <1>6. CASE Protected(r)
    BY <1>6, PresentableType DEF Protected
  <1>7. QED
    BY <1>2, <1>3, <1>4, <1>5, <1>6

LEMMA Minting ==
  ASSUME TypeOK, Control, [Next]_vars, NEW r \in Requests, claims'[r] # claims[r]
  PROVE  /\ pc[r] = "issue" /\ pc'[r] = "save"
         /\ claims'[r].user = subject[r].user /\ claims'[r].role = subject[r].role
         /\ claims'[r].accessExp = now + AccessTTL
         /\ claims'[r].refreshExp = now + RefreshTTL
         /\ UNCHANGED <<now, dbVars, storeVars>>
  <1>1. Handle(r)
    BY Steps, Local, Outside DEF Same
  <1>2. Issue(r)
    BY <1>1 DEF Handle, Register, Login, Refresh, Protected, Receive, CreateUser,
       GetByEmail, GetRefresh, GetByID, RevokePresented, SaveRefresh,
       ValidateAccess, Logout, BlacklistAccess
  <1>3. QED
    BY <1>2 DEF Issue, Goto, TypeOK

LEMMA KeyWrites ==
  ASSUME TypeOK, [Next]_vars, NEW j \in Requests
  PROVE  \/ refreshKeys'[j] = refreshKeys[j]
         \/ /\ refreshKeys'[j] = NoKey
            /\ j \in spent'
            /\ \E r \in Requests :
                 /\ pc[r] \in {"revoke", "logout"}
                 /\ j = input[r].refresh.jti
         \/ /\ pc[j] = "save" /\ pc'[j] = "done"
            /\ refreshKeys'[j].expires = KeyExpiry(RefreshTTL)
  <1>1. ASSUME NEW r \in Requests, Handle(r), refreshKeys' # refreshKeys
        PROVE  RevokePresented(r) \/ SaveRefresh(r) \/ Logout(r)
    BY <1>1 DEF Handle, Register, Login, Refresh, Protected, Receive, CreateUser,
       GetByEmail, GetRefresh, GetByID, Issue, ValidateAccess, BlacklistAccess,
       storeVars
  <1>2. ASSUME NEW r \in Requests, RevokePresented(r) \/ Logout(r),
               refreshKeys'[j] # refreshKeys[j]
        PROVE  /\ refreshKeys'[j] = NoKey
               /\ j \in spent'
               /\ pc[r] \in {"revoke", "logout"}
               /\ j = input[r].refresh.jti
    BY <1>2 DEF RevokePresented, Logout, RevokeRefresh, AfterRevokeRefresh,
       storeVars, TypeOK
  <1>3. ASSUME NEW r \in Requests, SaveRefresh(r), refreshKeys'[j] # refreshKeys[j]
        PROVE  /\ pc[j] = "save" /\ pc'[j] = "done"
               /\ refreshKeys'[j].expires = KeyExpiry(RefreshTTL)
    BY <1>3 DEF SaveRefresh, AfterSaveRefresh, Answer, TypeOK
  <1>4. Surroundings => refreshKeys' = refreshKeys
    BY Outside DEF storeVars
  <1>5. QED
    BY <1>1, <1>2, <1>3, <1>4, Steps

LEMMA SpentGrows ==
  ASSUME [Next]_vars PROVE spent \subseteq spent'
  <1>1. ASSUME NEW r \in Requests, Handle(r) PROVE spent \subseteq spent'
    BY <1>1 DEF Handle, Register, Login, Refresh, Protected, Receive, CreateUser,
       GetByEmail, GetRefresh, GetByID, RevokePresented, RevokeRefresh, Issue,
       SaveRefresh, ValidateAccess, Logout, BlacklistAccess, storeVars
  <1>2. QED
    BY <1>1, Steps, Outside DEF storeVars

\* A DEL that is lost stays lost; one that is not deletes the key.
LEMMA Losing ==
  ASSUME TypeOK, [Next]_vars
  PROVE  /\ lost \subseteq lost'
         /\ \A j \in Requests :
              RevokeRefresh(j) /\ j \notin lost' => refreshKeys'[j] = NoKey
  <1>1. ASSUME NEW r \in Requests, Handle(r) PROVE lost \subseteq lost'
    BY <1>1 DEF Handle, Register, Login, Refresh, Protected, Receive, CreateUser,
       GetByEmail, GetRefresh, GetByID, RevokePresented, RevokeRefresh, Issue,
       SaveRefresh, ValidateAccess, Logout, BlacklistAccess, storeVars
  <1>2. lost \subseteq lost'
    BY <1>1, Steps, Outside DEF storeVars
  <1>3. ASSUME NEW j \in Requests, RevokeRefresh(j), j \notin lost'
        PROVE  refreshKeys'[j] = NoKey
    BY <1>3 DEF RevokeRefresh, AfterRevokeRefresh, TypeOK
  <1>4. QED
    BY <1>2, <1>3

LEMMA ClockGrows ==
  ASSUME TypeOK, [Next]_vars
  PROVE  now \in Int /\ now' \in Int /\ now <= now' /\ now' <= MaxTime
  <1>1. ASSUME NEW r \in Requests, Handle(r) PROVE now' = now
    BY <1>1 DEF Handle, Register, Login, Refresh, Protected, Receive, CreateUser,
       GetByEmail, GetRefresh, GetByID, RevokePresented, Issue,
       SaveRefresh, ValidateAccess, Logout, BlacklistAccess
  <1>2. Surroundings => now' = now \/ (now < MaxTime /\ now' = now + 1)
    BY DEF Surroundings, Tick, UserRoutes, vars
  <1>3. QED
    BY <1>1, <1>2, Steps DEF TypeOK

\* Blacklisting lasts a full lifetime from now, for the token that is presented.
LEMMA BlacklistWrites ==
  ASSUME TypeOK, [Next]_vars, NEW j \in Requests
  PROVE  \/ blacklist'[j] = blacklist[j]
         \/ blacklist'[j] \in Int /\ now + AccessTTL <= blacklist'[j] /\ now < blacklist'[j]
  <1>1. ASSUME NEW r \in Requests, Handle(r), blacklist' # blacklist
        PROVE  BlacklistAccess(r)
    BY <1>1 DEF Handle, Register, Login, Refresh, Protected, Receive, CreateUser,
       GetByEmail, GetRefresh, GetByID, RevokePresented, RevokeRefresh, Issue,
       SaveRefresh, ValidateAccess, Logout, storeVars
  <1>2. ASSUME NEW r \in Requests, BlacklistAccess(r), blacklist'[j] # blacklist[j]
        PROVE  blacklist'[j] = IF AccessTTL <= 0 THEN now + 1 ELSE now + AccessTTL
    BY <1>2 DEF BlacklistAccess, AfterBlacklistAccess, KeyExpiry, Minute, TypeOK
  <1>3. now \in Int /\ AccessTTL \in Int
    BY DEF TypeOK
  <1>4. Surroundings => blacklist' = blacklist
    BY Outside DEF storeVars
  <1>5. QED
    BY <1>1, <1>2, <1>3, <1>4, Steps

\* What an answer of success took.
LEMMA Answering ==
  ASSUME TypeOK, Control, [Next]_vars, NEW r \in Requests, reply'[r] # reply[r]
  PROVE  /\ pc'[r] = "done" /\ pc[r] # "done"
         /\ input[r].op = "refresh" /\ reply'[r] = "ok" => pc[r] = "save"
         /\ reply'[r] = "noContent" => pc[r] = "blacklist"
         /\ claims'[r].user # None /\ reply'[r] \in {"ok", "created"} =>
              /\ pc[r] = "save" /\ claims'[r] = claims[r]
              /\ refreshKeys'[r].expires = KeyExpiry(RefreshTTL)
  <1>1. Handle(r) /\ pc[r] # "done"
    BY Steps, Local, Outside DEF Same
  <1> USE DEF TypeOK, Control, ControlOf, Goto, Answer, Receive
  <1>2. CASE Register(r) \/ Login(r) \/ Refresh(r) \/ Protected(r)
    <2>1. CASE Register(r) \/ Login(r)
      BY <1>1, <2>1 DEF Register, Login
    <2>2. CASE Refresh(r)
      BY <1>1, <2>2 DEF Refresh
    <2>3. CASE Protected(r)
      BY <1>1, <2>3 DEF Protected
    <2>4. QED
      BY <1>2, <2>1, <2>2, <2>3
  <1>3. CASE CreateUser(r) \/ GetByEmail(r)
    BY <1>1, <1>3 DEF CreateUser, GetByEmail
  <1>4. CASE GetRefresh(r) \/ GetByID(r) \/ RevokePresented(r) \/ Issue(r)
    BY <1>1, <1>4 DEF GetRefresh, GetByID, RevokePresented, Issue
  <1>5. CASE SaveRefresh(r)
    BY <1>1, <1>5 DEF SaveRefresh, AfterSaveRefresh
  <1>6. CASE ValidateAccess(r) \/ Logout(r)
    BY <1>1, <1>6 DEF ValidateAccess, Logout
  <1>7. CASE BlacklistAccess(r)
    BY <1>1, <1>7, Lookups
    DEF BlacklistAccess
  <1>8. QED
    BY <1>1, <1>2, <1>3, <1>4, <1>5, <1>6, <1>7 DEF Handle

\* An answer of 204 comes with the key on the blacklist.
LEMMA LoggingOut ==
  ASSUME TypeOK, Control, Presented, [Next]_vars, NEW r \in Requests,
         reply'[r] # reply[r], reply'[r] = "noContent"
  PROVE  LET j == input[r].access.jti
         IN  now + AccessTTL <= blacklist'[j] /\ now < blacklist'[j]
  <1>1. Handle(r) /\ pc[r] = "blacklist"
    BY Steps, Local, Outside, Answering DEF Same
  <1>2. BlacklistAccess(r) /\ input[r].access.jti \in Requests
    BY <1>1, Lookups DEF Handle, Register, Login, Refresh, Protected, Receive,
       CreateUser, GetByEmail, GetRefresh, GetByID, RevokePresented, Issue,
       SaveRefresh, ValidateAccess, Logout
  <1>3. blacklist' = AfterBlacklistAccess(input[r].access.jti, AccessTTL)
    BY <1>2 DEF BlacklistAccess, Answer, TypeOK
  <1>4. blacklist'[input[r].access.jti] =
          IF AccessTTL <= 0 THEN now + 1 ELSE now + AccessTTL
    BY <1>2, <1>3 DEF AfterBlacklistAccess, KeyExpiry, Minute, TypeOK
  <1>5. QED
    BY <1>4 DEF TypeOK
-----------------------------------------------------------------------------
(* The conjuncts of SessionInvariant, one by one *)

LEMMA PresentedStep ==
  ASSUME TypeOK, Control, Presented, [Next]_vars
  PROVE  Presented'
  BY DeliveredGrows, Receiving DEF Presented

LEMMA ExpiryBoundsStep ==
  ASSUME TypeOK, Control, ExpiryBounds, [Next]_vars
  PROVE  ExpiryBounds'
  <1>1. ASSUME NEW j \in Requests, claims'[j].user # None, claims'[j] = claims[j]
        PROVE  /\ claims'[j].accessExp <= now' + AccessTTL
               /\ claims'[j].refreshExp <= now' + RefreshTTL
    <2>1. claims[j].accessExp \in Int /\ claims[j].refreshExp \in Int
      BY DEF TypeOK, Claims
    <2>2. QED
      BY <1>1, <2>1, ClockGrows DEF ExpiryBounds
  <1>2. ASSUME NEW j \in Requests, claims'[j] # claims[j]
        PROVE  /\ claims'[j].accessExp <= now' + AccessTTL
               /\ claims'[j].refreshExp <= now' + RefreshTTL
    <2>1. /\ claims'[j].accessExp = now + AccessTTL
          /\ claims'[j].refreshExp = now + RefreshTTL
      BY <1>2, Minting
    <2>2. now' = now /\ now \in Int /\ AccessTTL \in Int /\ RefreshTTL \in Int
      BY <1>2, Minting, ClockGrows
    <2>3. QED
      BY <2>1, <2>2
  <1>3. QED
    BY <1>1, <1>2 DEF ExpiryBounds

LEMMA KeySetLastStep ==
  ASSUME TypeOK, Control, KeySetLast, [Next]_vars
  PROVE  KeySetLast'
  <1>1. ASSUME NEW j \in Requests, pc'[j] # "done" PROVE pc[j] # "done"
    BY <1>1, Settled DEF Same
  <1>2. QED
    BY <1>1, KeyWrites DEF KeySetLast, NoKey

LEMMA BlacklistOutlivesStep ==
  ASSUME TypeOK, Control, Presented, ExpiryBounds, [Next]_vars,
         NEW j \in Requests, BlacklistOutlivesOf(j)
  PROVE  BlacklistOutlivesOf(j)'
  <1> SUFFICES ASSUME LoggedOut(j)'
               PROVE  claims'[j].accessExp <= blacklist'[j]
    BY DEF BlacklistOutlivesOf
  <1>1. PICK r \in Requests : /\ input'[r].op = "logout"
                             /\ reply'[r] = "noContent"
                             /\ input'[r].access.jti = j
    BY DEF LoggedOut, Answered
  <1>2. input'[r] = input[r]
    BY <1>1, Receiving, Answering, Settled DEF Same, Control, ControlOf
  <1>3. j \in Delivered /\ claims'[j] = claims[j] /\ claims[j].user # None
    BY <1>1, <1>2, Settled DEF Presented, Delivered, Control, ControlOf, Same
  <1>4. /\ claims[j].accessExp \in Int /\ blacklist[j] \in Int /\ now \in Int
        /\ AccessTTL \in Int /\ claims[j].accessExp <= now + AccessTTL
    BY <1>3, ClockGrows DEF TypeOK, Claims, ExpiryBounds
  <1>5. CASE reply'[r] # reply[r]
    <2>1. now + AccessTTL <= blacklist'[j] /\ blacklist'[j] \in Int
      BY <1>1, <1>2, <1>4, <1>5, LoggingOut, BlacklistWrites
    <2>2. QED
      BY <1>3, <1>4, <2>1
  <1>6. CASE reply'[r] = reply[r]
    <2>1. LoggedOut(j)
      BY <1>1, <1>2, <1>6 DEF LoggedOut, Answered
    <2>2. claims[j].accessExp <= blacklist[j]
      BY <2>1 DEF BlacklistOutlivesOf
    <2>3. QED
      BY <1>3, <1>4, <2>2, BlacklistWrites
  <1>7. QED
    BY <1>5, <1>6

LEMMA KeyOutlivesStep ==
  ASSUME TypeOK, Control, ExpiryBounds, [Next]_vars, NEW j \in Requests, KeyOutlivesOf(j)
  PROVE  KeyOutlivesOf(j)'
  <1> SUFFICES ASSUME j \in Delivered', j \notin spent'
               PROVE  claims'[j].refreshExp <= refreshKeys'[j].expires
    BY DEF KeyOutlivesOf
  <1>1. j \notin spent
    BY SpentGrows
  <1>2. /\ now \in Int /\ now <= MaxTime /\ MaxTime \in Int /\ RefreshTTL \in Int
        /\ claims[j].refreshExp \in Int
    BY DEF TypeOK, Claims
  <1>3. CASE reply'[j] # reply[j]
    <2>1. /\ pc[j] = "save" /\ claims'[j] = claims[j] /\ claims[j].user # None
          /\ refreshKeys'[j].expires = KeyExpiry(RefreshTTL)
      BY <1>3, Answering DEF Delivered
    <2>2. claims[j].refreshExp <= now + RefreshTTL
      BY <2>1 DEF ExpiryBounds
    <2>3. KeyExpiry(RefreshTTL) = IF RefreshTTL > 0 THEN now + RefreshTTL ELSE MaxTime + 1
      BY DEF KeyExpiry, Forever
    <2>4. QED
      BY <1>2, <2>1, <2>2, <2>3
  <1>4. CASE reply'[j] = reply[j]
    <2>1. pc[j] = "done"
      BY <1>4 DEF Delivered, Control, ControlOf, TypeOK
    <2>2. j \in Delivered /\ claims'[j] = claims[j]
      BY <2>1, Settled DEF Same, Delivered
    <2>3. refreshKeys'[j] = refreshKeys[j]
      BY <2>1, KeyWrites
    <2>4. QED
      BY <1>1, <2>2, <2>3 DEF KeyOutlivesOf
  <1>5. QED
    BY <1>3, <1>4

\* A key of a delivered pair is never set again.
LEMMA NeverSetAgain ==
  ASSUME TypeOK, Control, [Next]_vars, NEW j \in Delivered,
         refreshKeys[j].expires = 0
  PROVE  refreshKeys'[j].expires = 0
  BY KeyWrites DEF Delivered, Control, ControlOf, NoKey

LEMMA RotatedStep ==
  ASSUME TypeOK, Control, Presented, [Next]_vars, NEW r \in Requests, RotatedOf(r)
  PROVE  RotatedOf(r)'
  <1> SUFFICES ASSUME input'[r].op = "refresh",
                      pc'[r] \in {"issue", "save"} \/ reply'[r] = "ok",
                      input'[r].refresh.jti \notin lost'
               PROVE  refreshKeys'[input'[r].refresh.jti].expires = 0
    BY DEF RotatedOf
  <1>1. input'[r] = input[r]
    BY Receiving, Answering, Settled DEF Same, Control, ControlOf
  <1>2. input[r].refresh.jti \in Delivered
    BY <1>1 DEF Presented
  <1>3. CASE pc[r] \in {"issue", "save"} \/ reply[r] = "ok"
    BY <1>1, <1>2, <1>3, NeverSetAgain, Losing DEF RotatedOf
  <1>4. CASE ~ (pc[r] \in {"issue", "save"} \/ reply[r] = "ok")
    <2>1. Handle(r)
      BY <1>4, Steps, Local, Outside DEF Same
    <2>2. pc'[r] \in {"issue", "save"}
      BY <1>1, <1>4, Answering
    <2>3. RevokePresented(r)
      BY <1>1, <1>4, <2>1, <2>2, ZenonT(40)
      DEF Handle, Register, Login, Refresh, Protected, CreateUser, GetByEmail,
          GetRefresh, GetByID, Issue, SaveRefresh, ValidateAccess, Logout,
          BlacklistAccess, Goto, Answer, TypeOK, Control, ControlOf
    <2>4. QED
      BY <1>1, <1>2, <2>3, Losing DEF RevokePresented, NoKey, Delivered
  <1>5. QED
    BY <1>3, <1>4

LEMMA DroppedStep ==
  ASSUME TypeOK, Control, Presented, [Next]_vars, NEW r \in Requests, DroppedOf(r)
  PROVE  DroppedOf(r)'
  <1> SUFFICES ASSUME input'[r].op = "logout",
                      input'[r].refresh.typ = "refresh",
                      pc'[r] = "blacklist" \/ reply'[r] = "noContent",
                      input'[r].refresh.jti \notin lost'
               PROVE  \/ refreshKeys'[input'[r].refresh.jti].expires = 0
                      \/ claims'[input'[r].refresh.jti].refreshExp <= now'
    BY DEF DroppedOf
  <1>1. input'[r] = input[r]
    BY Receiving, Answering, Settled DEF Same, Control, ControlOf
  <1> DEFINE j == input[r].refresh.jti
  <1>2. /\ j \in Delivered /\ claims'[j] = claims[j] /\ claims[j].refreshExp \in Int
        /\ now \in Int /\ now' \in Int /\ now <= now'
    BY <1>1, Settled, ClockGrows
    DEF Presented, Same, Delivered, Control, ControlOf, TypeOK, Claims
  <1>3. CASE pc[r] = "blacklist" \/ reply[r] = "noContent"
    <2>1. refreshKeys[j].expires = 0 \/ claims[j].refreshExp <= now
      BY <1>1, <1>3, Losing DEF DroppedOf
    <2>2. QED
      BY <1>1, <1>2, <2>1, NeverSetAgain
  <1>4. CASE ~ (pc[r] = "blacklist" \/ reply[r] = "noContent")
    <2>1. Handle(r)
      BY <1>4, Steps, Local, Outside DEF Same
    <2>2. pc'[r] = "blacklist"
      BY <1>1, <1>4, Answering
    <2>3. Logout(r)
      BY <1>1, <1>4, <2>1, <2>2, ZenonT(40)
      DEF Handle, Register, Login, Refresh, Protected, CreateUser, GetByEmail,
          GetRefresh, GetByID, RevokePresented, Issue, SaveRefresh, ValidateAccess,
          BlacklistAccess, Goto, Answer, TypeOK, Control, ControlOf
    <2>4. CASE now < claims[j].refreshExp
      BY <1>1, <1>2, <2>3, <2>4
      DEF Logout, Parses, RevokeRefresh, AfterRevokeRefresh, NoKey, TypeOK, Delivered
    <2>5. CASE ~ (now < claims[j].refreshExp)
      BY <1>1, <1>2, <2>5
    <2>6. QED
      BY <2>4, <2>5
  <1>5. QED
    BY <1>3, <1>4

\* How a step changes the table and what requests have seen of it.
LEMMA TableWrites ==
  ASSUME TypeOK, [Next]_vars
  PROVE  \/ users' = users /\ witnessed' = witnessed
         \/ \E table \in [Requests -> User] : SetUsers(table)
         \/ \E r \in Requests : /\ pc[r] = "idle" /\ users' = users
                               /\ witnessed' = [witnessed EXCEPT ![r] = LiveRows(users)]
  <1>1. ASSUME NEW r \in Requests, Register(r) \/ Login(r) \/ Refresh(r) \/ Protected(r)
        PROVE  /\ pc[r] = "idle" /\ users' = users
               /\ witnessed' = [witnessed EXCEPT ![r] = LiveRows(users)]
    BY <1>1 DEF Register, Login, Refresh, Protected, Receive
  <1>2. ASSUME NEW r \in Requests, CreateUser(r)
        PROVE  SetUsers(Inserted(r)) \/ UNCHANGED <<users, witnessed>>
    BY <1>2 DEF CreateUser, dbVars
  <1>3. ASSUME NEW r \in Requests, Handle(r), ~ CreateUser(r),
               ~ (Register(r) \/ Login(r) \/ Refresh(r) \/ Protected(r))
        PROVE  UNCHANGED <<users, witnessed>>
    BY <1>3 DEF Handle, GetByEmail, GetRefresh, GetByID, RevokePresented, Issue,
       SaveRefresh, ValidateAccess, Logout, BlacklistAccess, dbVars
  <1>4. \A r \in Requests : Inserted(r) \in [Requests -> User]
    BY DEF TypeOK, Inserted, User, Input, Roles
  <1>5. ASSUME Surroundings
        PROVE  UNCHANGED <<users, witnessed>> \/ SetUsers(users')
    BY <1>5 DEF Surroundings, Tick, UserRoutes, SetUsers, vars, dbVars
  <1>6. ASSUME Surroundings
        PROVE  users' \in [Requests -> User]
    BY <1>6, SurroundingsType DEF Surroundings, TypeOK
  <1>7. QED
    BY <1>1, <1>2, <1>3, <1>4, <1>5, <1>6, Steps

\* What the handlers and the user routes do to the table is what it allows.
LEMMA TableSteps ==
  ASSUME TypeOK, Fresh, [Next]_vars
  PROVE  \/ users' = users
         \/ \E u \in Requests : Table!Change(u)
         \/ \E u \in Requests : pc[u] = "create" /\ pc'[u] # "create" /\ Table!Insert(u)
  <1>1. ASSUME NEW r \in Requests, CreateUser(r), users' # users
        PROVE  pc[r] = "create" /\ pc'[r] # "create" /\ Table!Insert(r)
    <2>1. /\ pc[r] = "create" /\ EmailFree(input[r].email)
          /\ users' = Inserted(r) /\ pc'[r] # "create"
      BY <1>1 DEF CreateUser, SetUsers, Goto, Answer, dbVars, TypeOK
    <2>2. users[r].status = "absent" /\ input[r].email \in Emails
      BY <2>1 DEF Fresh
    <2>3. Table!Free(r, input[r].email)
      BY <2>1 DEF EmailFree, Found, Table!Free, Table!Live
    <2>4. Table!Store(r, input[r].email, "user")
      BY <2>1, <2>3 DEF Inserted, Table!Store
    <2>5. QED
      BY <2>1, <2>2, <2>4 DEF Table!Insert
  <1>2. ASSUME NEW r \in Requests, Handle(r), ~ CreateUser(r)
        PROVE  users' = users
    BY <1>2 DEF Handle, Register, Login, Refresh, Protected, Receive, GetByEmail,
       GetRefresh, GetByID, RevokePresented, Issue, SaveRefresh, ValidateAccess,
       Logout, BlacklistAccess, dbVars
  <1>3. ASSUME Surroundings
        PROVE  users' = users \/ \E u \in Requests : Table!Change(u)
    BY <1>3 DEF Surroundings, Tick, UserRoutes, vars, dbVars
  <1>4. QED
    BY <1>1, <1>2, <1>3, Steps

LEMMA FreshStep ==
  ASSUME TypeOK, Control, Fresh, [Next]_vars
  PROVE  Fresh'
  <1>1. ASSUME NEW r \in Requests, pc'[r] \in {"idle", "create"}
        PROVE  pc[r] \in {"idle", "create"} /\ users[r].status = "absent"
    <2>1. CASE Same(r)
      BY <1>1, <2>1 DEF Same, Fresh
    <2>2. CASE ~ Same(r)
      <3>1. Handle(r)
        BY <2>2, Steps, Local, Outside
      <3>2. QED
        BY <1>1, <3>1
        DEF Handle, Register, Login, Refresh, Protected, Receive, CreateUser, GetByEmail,
            GetRefresh, GetByID, RevokePresented, Issue, SaveRefresh, ValidateAccess,
            Logout, BlacklistAccess, Goto, Answer, TypeOK, Fresh
    <2>3. QED
      BY <2>1, <2>2
  <1>2. ASSUME NEW r \in Requests, pc'[r] \in {"idle", "create"}
        PROVE  users'[r].status = "absent"
    <2>1. ASSUME NEW u \in Requests, Table!Change(u)
          PROVE  u # r /\ users'[r] = users[r]
      BY <1>1, <1>2, <2>1
      DEF Table!Change, Table!Save, Table!Store, Table!Delete, Table!Live, TypeOK
    <2>2. ASSUME NEW u \in Requests, pc[u] = "create", pc'[u] # "create",
                 Table!Insert(u)
          PROVE  users'[r] = users[r]
      <3>1. u # r
        <4>1. SUFFICES ASSUME u = r PROVE FALSE
          OBVIOUS
        <4>2. pc[r] = "create" /\ pc'[r] = "idle"
          BY <1>2, <2>2, <4>1
        <4>3. Handle(r)
          BY <4>2, Steps, Local, Outside DEF Same
        <4>4. CreateUser(r)
          BY <4>2, <4>3
          DEF Handle, Register, Login, Refresh, Protected, Receive, GetByEmail,
              GetRefresh, GetByID, RevokePresented, Issue, SaveRefresh,
              ValidateAccess, Logout, BlacklistAccess
        <4>5. QED
          BY <4>2, <4>4 DEF CreateUser, Goto, Answer, TypeOK
      <3>2. QED
        BY <2>2, <3>1 DEF Table!Insert, Table!Store, TypeOK
    <2>3. QED
      BY <1>1, <1>2, <2>1, <2>2, TableSteps
  <1>3. ASSUME NEW r \in Requests, pc'[r] = "create"
        PROVE  input'[r].email \in Emails
    <2>1. CASE Same(r)
      BY <1>3, <2>1 DEF Same, Fresh
    <2>2. CASE ~ Same(r)
      <3>1. Handle(r)
        BY <2>2, Steps, Local, Outside
      <3>2. Register(r)
        BY <1>3, <3>1
        DEF Handle, Login, Refresh, Protected, CreateUser, GetByEmail,
            GetRefresh, GetByID, RevokePresented, Issue, SaveRefresh, ValidateAccess,
            Logout, BlacklistAccess, Goto, Answer, TypeOK
      <3>3. QED
        BY <3>2 DEF Register, Receive, NoInput, TypeOK
    <2>3. QED
      BY <2>1, <2>2
  <1>4. QED
    BY <1>2, <1>3 DEF Fresh

LEMMA Starting ==
  ASSUME TypeOK, [Next]_vars, NEW r \in Requests, pc[r] = "idle", pc'[r] # "idle"
  PROVE  users' = users /\ witnessed'[r] = LiveRows(users)
  <1>1. Handle(r)
    BY Steps, Local, Outside DEF Same
  <1>2. Register(r) \/ Login(r) \/ Refresh(r) \/ Protected(r)
    BY <1>1 DEF Handle, CreateUser, GetByEmail, GetRefresh, GetByID,
       RevokePresented, Issue, SaveRefresh, ValidateAccess, Logout, BlacklistAccess
  <1>3. users' = users /\ witnessed' = [witnessed EXCEPT ![r] = LiveRows(users)]
    BY <1>2 DEF Register, Login, Refresh, Protected, Receive
  <1>4. QED
    BY <1>3 DEF TypeOK

\* What a request has seen only grows, and while it is in flight it has seen the
\* table as it is.
LEMMA Sees ==
  ASSUME TypeOK, Control, Witnessed, [Next]_vars, NEW r \in Requests
  PROVE  /\ pc[r] # "idle" => witnessed[r] \subseteq witnessed'[r]
         /\ pc'[r] \notin {"idle", "done"} => LiveRows(users') \subseteq witnessed'[r]
  <1>1. pc[r] \notin {"idle", "done"} => LiveRows(users) \subseteq witnessed[r]
    BY DEF Witnessed
  <1>2. pc[r] = "done" => pc'[r] = "done"
    BY Settled DEF Same
  <1>3. CASE users' = users /\ witnessed' = witnessed
    BY <1>1, <1>2, <1>3, Starting
  <1>4. ASSUME NEW table \in [Requests -> User], SetUsers(table)
        PROVE  /\ pc[r] # "idle" => witnessed[r] \subseteq witnessed'[r]
               /\ pc'[r] \notin {"idle", "done"} =>
                    LiveRows(users') \subseteq witnessed'[r]
    <2>1. users' = table
      BY <1>4 DEF SetUsers
    <2>2. witnessed'[r] = IF pc[r] \in {"idle", "done"} THEN witnessed[r]
                          ELSE witnessed[r] \cup LiveRows(table)
      BY <1>4 DEF SetUsers, See
    <2>3. CASE pc[r] = "idle"
      BY <2>3, Starting
    <2>4. CASE pc[r] # "idle"
      BY <1>2, <2>1, <2>2, <2>4
    <2>5. QED
      BY <2>3, <2>4
  <1>5. ASSUME NEW q \in Requests, pc[q] = "idle", users' = users,
               witnessed' = [witnessed EXCEPT ![q] = LiveRows(users)]
        PROVE  /\ pc[r] # "idle" => witnessed[r] \subseteq witnessed'[r]
               /\ pc'[r] \notin {"idle", "done"} =>
                    LiveRows(users') \subseteq witnessed'[r]
    <2>1. CASE q = r
      BY <1>5, <2>1 DEF TypeOK
    <2>2. CASE q # r
      BY <1>1, <1>2, <1>5, <2>2, Starting DEF TypeOK
    <2>3. QED
      BY <2>1, <2>2
  <1>6. QED
    BY <1>3, <1>4, <1>5, TableWrites

LEMMA WitnessedStep ==
  ASSUME TypeOK, Control, Presented, Witnessed, [Next]_vars
  PROVE  Witnessed'
  <1> SUFFICES ASSUME NEW r \in Requests, pc'[r] \in {"revoke", "issue"}
               PROVE  <<subject'[r].user, subject'[r].role>> \in witnessed'[r]
    BY Sees DEF Witnessed
  <1>1. LiveRows(users') \subseteq witnessed'[r]
    BY Sees
  <1>2. CASE Same(r) \/ RevokePresented(r)
    <2>1. pc[r] \in {"revoke", "issue"} /\ subject'[r] = subject[r]
      BY <1>2 DEF Same, RevokePresented
    <2>2. witnessed[r] \subseteq witnessed'[r]
      BY <2>1, Sees
    <2>3. QED
      BY <2>1, <2>2 DEF Witnessed
  <1>3. CASE CreateUser(r)
    <2>1. /\ pc[r] = "create" /\ users' = Inserted(r)
          /\ subject'[r] = [user |-> r, role |-> "user"]
      BY <1>3 DEF CreateUser, SetUsers, Goto, Answer, TypeOK
    <2>2. users'[r].status = "live" /\ users'[r].role = "user"
      BY <2>1 DEF Inserted, TypeOK
    <2>3. <<r, "user">> \in LiveRows(users')
      BY <2>2 DEF LiveRows
    <2>4. QED
      BY <1>1, <2>1, <2>3
  <1>4. CASE GetByEmail(r) \/ GetByID(r)
    <2>1. PICK u \in Requests : /\ Found(u) /\ users' = users
                               /\ subject'[r] = [user |-> u, role |-> users[u].role]
      <3>1. CASE GetByEmail(r)
        BY <3>1, SMTT(20) DEF GetByEmail, Goto, Answer, TypeOK, dbVars
      <3>2. CASE GetByID(r)
        BY <3>2, Lookups, SMTT(20) DEF GetByID, Goto, Answer, TypeOK, dbVars
      <3>3. QED
        BY <1>4, <3>1, <3>2
    <2>2. <<u, users[u].role>> \in LiveRows(users)
      BY <2>1 DEF LiveRows, Found
    <2>3. QED
      BY <1>1, <2>1, <2>2
  <1>5. QED
    <2>1. CASE Handle(r) /\ ~ Same(r)
      BY <1>2, <1>3, <1>4, <2>1
      DEF Handle, Register, Login, Refresh, Protected, GetRefresh, Issue,
          SaveRefresh, ValidateAccess, Logout, BlacklistAccess, Goto, Answer, TypeOK
    <2>2. QED
      BY <1>2, <2>1, Steps, Local, Outside

LEMMA PairStep ==
  ASSUME TypeOK, Control, Witnessed, PairReflectsRequestInterval, [Next]_vars
  PROVE  PairReflectsRequestInterval'
  <1> SUFFICES ASSUME NEW r \in Requests, claims'[r].user # None
               PROVE  <<claims'[r].user, claims'[r].role>> \in witnessed'[r]
    BY DEF PairReflectsRequestInterval
  <1>1. pc[r] # "idle" => witnessed[r] \subseteq witnessed'[r]
    BY Sees
  <1>2. CASE claims'[r] = claims[r]
    BY <1>1, <1>2 DEF PairReflectsRequestInterval, Control, ControlOf
  <1>3. CASE claims'[r] # claims[r]
    BY <1>1, <1>3, Minting DEF Witnessed
  <1>4. QED
    BY <1>2, <1>3
-----------------------------------------------------------------------------
(* The theorems *)

LEMMA InvariantInit == Init => SessionInvariant
  <1> SUFFICES ASSUME Init PROVE SessionInvariant
    OBVIOUS
  <1>1. TypeOK /\ Control
    BY InitType, ControlInit
  <1>2. \A r \in Requests : /\ pc[r] \in {"idle", "done"} /\ reply[r] = "none"
                            /\ input[r].op = "none" /\ claims[r].user = None
                            /\ refreshKeys[r].expires = 0
                            /\ pc[r] = "idle" => users[r].status = "absent"
    BY DEF Init, Seeded, NoInput, NoClaims, NoKey
  <1>3. QED
    BY <1>1, <1>2
    DEF SessionInvariant, Presented, Fresh, ExpiryBounds, KeySetLast, BlacklistOutlives,
        BlacklistOutlivesOf, KeyOutlives, KeyOutlivesOf, Rotated, RotatedOf, Dropped,
        DroppedOf, Witnessed, PairReflectsRequestInterval, LoggedOut, Answered, Delivered

LEMMA InvariantStep == SessionInvariant /\ [Next]_vars => SessionInvariant'
  BY NextType, ControlStep, PresentedStep, FreshStep, ExpiryBoundsStep,
     KeySetLastStep, BlacklistOutlivesStep, KeyOutlivesStep, RotatedStep, DroppedStep,
     WitnessedStep, PairStep
  DEF SessionInvariant, BlacklistOutlives, KeyOutlives, Rotated, Dropped

\* What the parts of the invariant say of one token or one request.
LEMMA Covered ==
  ASSUME TypeOK, NEW j \in Requests, BlacklistOutlivesOf(j), LoggedOut(j),
         now < claims[j].accessExp
  PROVE  Blacklisted(j)
  <1>1. claims[j].accessExp \in Int /\ blacklist[j] \in Int /\ now \in Int
    BY DEF TypeOK, Claims
  <1>2. QED
    BY <1>1 DEF BlacklistOutlivesOf, Blacklisted

LEMMA Remembered ==
  ASSUME TypeOK, NEW j \in Delivered \ spent, KeyOutlivesOf(j), now < claims[j].refreshExp
  PROVE  Stored(j)
  <1>1. claims[j].refreshExp \in Int /\ refreshKeys[j].expires \in Int /\ now \in Int
    BY DEF TypeOK, Claims, RefreshKey, Delivered
  <1>2. QED
    BY <1>1 DEF KeyOutlivesOf, Stored

LEMMA EndedByRotation ==
  ASSUME TypeOK, NEW r \in Requests, RotatedOf(r), Answered(r, "refresh", "ok"),
         input[r].refresh.jti \notin lost
  PROVE  ~ Usable(input[r].refresh.jti)
  BY DEF RotatedOf, Answered, Usable, Stored, TypeOK

LEMMA EndedByLogout ==
  ASSUME TypeOK, Presented, NEW r \in Requests, DroppedOf(r),
         Answered(r, "logout", "noContent"), input[r].refresh.typ = "refresh",
         input[r].refresh.jti \notin lost
  PROVE  ~ Usable(input[r].refresh.jti)
  <1>1. \/ refreshKeys[input[r].refresh.jti].expires = 0
        \/ claims[input[r].refresh.jti].refreshExp <= now
    BY DEF DroppedOf, Answered
  <1>2. now \in Nat /\ claims[input[r].refresh.jti].refreshExp \in Int
    BY DEF TypeOK, Claims, Presented, Answered, Delivered
  <1>3. QED
    BY <1>1, <1>2 DEF Usable, Stored

\* A check that lets a token through has not found it on the blacklist.
LEMMA Admittance ==
  ASSUME TypeOK, Control, Presented, Next, NEW r \in Requests, Admits(r)
  PROVE  input[r].access.jti \in Requests /\ ~ Blacklisted(input[r].access.jti)
  <1>1. pc[r] = "validate" /\ pc'[r] # "validate" /\ subject'[r] # subject[r]
    BY DEF Admits, Control, ControlOf
  <1>2. Handle(r)
    BY <1>1, Steps, Local, Outside DEF Same
  <1>3. ValidateAccess(r) /\ input[r].access.jti \in Requests
    BY <1>1, <1>2, Lookups
    DEF Handle, Register, Login, Refresh, Protected, Receive, CreateUser,
        GetByEmail, GetRefresh, GetByID, RevokePresented, Issue, SaveRefresh,
        Logout, BlacklistAccess
  <1>4. QED
    BY <1>1, <1>3 DEF ValidateAccess, IsAccessBlacklisted

\* The inductive invariant: every request is where its input allows it to be,
\* every key of the stores outlives the token it speaks of, and what a request
\* acts for is what it has seen.
THEOREM SessionInvariantHolds == Spec => []SessionInvariant
  BY InvariantInit, InvariantStep, PTL DEF Spec

\* No handler, failure or write of the user routes leaves a value outside its
\* type: every row keeps a known role, every key a user and an expiry.
THEOREM TypeCorrect == Spec => []TypeOK
  <1>1. SessionInvariant => TypeOK
    BY DEF SessionInvariant
  <1>2. QED
    BY <1>1, SessionInvariantHolds, PTL

\* A logout that was answered 204 keeps the access token on the blacklist for as
\* long as it would be accepted, whatever the lifetimes configured.
THEOREM LogoutCovers == Spec => []LogoutCoversTokenLife
  <1>1. SessionInvariant => LogoutCoversTokenLife
    BY Covered DEF SessionInvariant, BlacklistOutlives, LogoutCoversTokenLife
  <1>2. QED
    BY <1>1, SessionInvariantHolds, PTL

\* No check of an access token that has not expired lets it through once a
\* logout of it was answered 204.
THEOREM LogoutIsFinal == Spec => NoPrincipalAfterLogout
  <1> DEFINE Refused == \A r \in Requests :
               LET j == input[r].access.jti IN
               Admits(r) /\ now < claims[j].accessExp => ~ LoggedOut(j)
  <1>1. SessionInvariant /\ [Next]_vars => [Refused]_vars
    BY Admittance, Covered DEF SessionInvariant, BlacklistOutlives
  <1>2. QED
    BY <1>1, SessionInvariantHolds, PTL DEF Spec, NoPrincipalAfterLogout

\* A client that was handed a pair can use its refresh token until it expires,
\* unless somebody spent it: the store does not forget it before.
THEOREM SessionsKept == Spec => []SessionNotLost
  <1>1. SessionInvariant => SessionNotLost
    BY Remembered DEF SessionInvariant, KeyOutlives, SessionNotLost, Delivered
  <1>2. QED
    BY <1>1, SessionInvariantHolds, PTL

\* A pair names a user and a role that were those of a live row during the
\* request that issued it.
THEOREM PairsReflect == Spec => []PairReflectsRequestInterval
  <1>1. SessionInvariant => PairReflectsRequestInterval
    BY DEF SessionInvariant
  <1>2. QED
    BY <1>1, SessionInvariantHolds, PTL

\* A refresh that was answered 200 has ended the token it was given, unless a DEL
\* of that token was lost.
THEOREM RotationEnds == Spec => []RotationRevokes
  <1>1. SessionInvariant => RotationRevokes
    BY EndedByRotation DEF SessionInvariant, Rotated, RotationRevokes
  <1>2. QED
    BY <1>1, SessionInvariantHolds, PTL

\* A logout that was answered 204 has ended the refresh token it was given, unless
\* a DEL of that token was lost.
THEOREM LogoutEnds == Spec => []LogoutRevokes
  <1>1. SessionInvariant => LogoutRevokes
    BY EndedByLogout DEF SessionInvariant, Dropped, LogoutRevokes
  <1>2. QED
    BY <1>1, SessionInvariantHolds, PTL

\* A refresh of a token that was rotated or logged out before it read the key is
\* refused (service.go:68-98), unless a DEL of that token was lost.
THEOREM EndedSessionsStayEnded == Spec => EndedSessionsRefused
  <1> DEFINE Refused == \A r \in Requests :
               LET j == input[r].refresh.jti IN ReadsKey(r) /\ Ended(j) => j \in lost
  <1>1. SessionInvariant /\ [Next]_vars => [Refused]_vars
    <2> SUFFICES ASSUME SessionInvariant, [Next]_vars, NEW r \in Requests, ReadsKey(r),
                        Ended(input[r].refresh.jti), input[r].refresh.jti \notin lost
                 PROVE  FALSE
      OBVIOUS
    <2> DEFINE j == input[r].refresh.jti
    <2>1. TypeOK /\ Control /\ Presented
      BY DEF SessionInvariant
    <2>2. Handle(r) /\ pc[r] = "getRefresh" /\ pc'[r] = "getByID"
      BY <2>1, Steps, Local, Outside DEF ReadsKey, Same
    <2>3. GetRefresh(r) /\ j \in Requests
      BY <2>1, <2>2, Lookups
      DEF Handle, Register, Login, Refresh, Protected, Receive, CreateUser,
          GetByEmail, GetByID, RevokePresented, Issue, SaveRefresh, ValidateAccess,
          Logout, BlacklistAccess
    <2>4. Stored(j)
      BY <2>1, <2>2, <2>3 DEF GetRefresh, Answer, TypeOK
    <2>5. PICK q \in Requests :
            /\ input[q].refresh = [typ |-> "refresh", jti |-> j]
            /\ \/ Answered(q, "refresh", "ok")
               \/ Answered(q, "logout", "noContent") /\ now < claims[j].refreshExp
      BY DEF Ended
    <2>6. input[q].refresh.jti = j /\ input[q].refresh.typ = "refresh"
      BY <2>5
    <2>7. now \in Nat /\ claims[j].refreshExp \in Int
      BY <2>1, <2>3 DEF TypeOK, Claims
    <2> HIDE DEF j
    <2>8. refreshKeys[j].expires = 0
      BY <2>5, <2>6, <2>7 DEF SessionInvariant, Rotated, RotatedOf, Dropped, DroppedOf, Answered, j
    <2>9. QED
      BY <2>4, <2>7, <2>8 DEF Stored
  <1>2. QED
    BY <1>1, SessionInvariantHolds, PTL DEF Spec, EndedSessionsRefused

\* How the store's view of one token moves.
Status(j) == IF Stored(j) THEN "live" ELSE IF pc[j] = "done" THEN "dead" ELSE "unborn"

LEMMA StatusStep ==
  ASSUME SessionInvariant, [Next]_vars, NEW j \in Requests, Status(j)' # Status(j)
  PROVE  \/ Status(j)' = "dead"
         \/ /\ Status(j) = "unborn" /\ Status(j)' = "live"
            /\ pc[j] = "save" /\ pc'[j] = "done"
  <1>1. TypeOK /\ Control /\ KeySetLast
    BY DEF SessionInvariant
  <1>2. /\ now \in Nat /\ now' \in Int /\ now <= now'
        /\ refreshKeys[j].expires \in Int
    BY <1>1, ClockGrows DEF TypeOK, RefreshKey
  <1>3. pc[j] = "done" => pc'[j] = "done"
    BY <1>1, Settled DEF Same
  <1>4. pc[j] # "done" => ~ Stored(j)
    BY <1>1, <1>2 DEF KeySetLast, Stored
  <1>5. CASE refreshKeys'[j] = refreshKeys[j]
    BY <1>2, <1>3, <1>4, <1>5 DEF Status, Stored
  <1>6. CASE refreshKeys'[j] = NoKey /\ \E r \in Requests :
               /\ pc[r] \in {"revoke", "logout"}
               /\ j = input[r].refresh.jti
    <2>1. pc[j] = "done"
      BY <1>1, <1>6 DEF SessionInvariant, Presented, Control, ControlOf, Delivered
    <2>2. QED
      BY <1>2, <1>3, <1>6, <2>1 DEF Status, Stored, NoKey
  <1>7. CASE pc[j] = "save" /\ pc'[j] = "done"
    BY <1>4, <1>7 DEF Status
  <1>8. QED
    BY <1>1, <1>5, <1>6, <1>7, KeyWrites

\* The token store implements RefreshTokenLifecycle: every step of the sessions
\* stores one token for the first time, retires some, or does neither.
THEOREM LifecycleImplemented == Spec => RefreshTokensNeverRevive
  <1>1. Init => Lifecycle!Init
    BY DEF Init, Lifecycle!Init, tokenStatus, Tokens, Stored, NoKey
  <1>2. SessionInvariant /\ [Next]_vars => [Lifecycle!Next]_tokenStatus
    <2> SUFFICES ASSUME SessionInvariant, [Next]_vars
                 PROVE  tokenStatus' = tokenStatus \/ Lifecycle!Next
      OBVIOUS
    <2>1. /\ tokenStatus = [j \in Tokens |-> Status(j)]
          /\ tokenStatus' = [j \in Tokens |-> Status(j)']
      BY DEF tokenStatus, Status
    <2>2. CASE \E j \in Tokens : /\ Status(j) = "unborn" /\ Status(j)' = "live"
                                /\ pc[j] = "save" /\ pc'[j] = "done"
      <3>1. PICK j \in Tokens : /\ Status(j) = "unborn" /\ Status(j)' = "live"
                               /\ pc[j] = "save" /\ pc'[j] = "done"
        BY <2>2
      <3>2. TypeOK /\ Handle(j) /\ j \in Requests
        BY <3>1, Steps, Local, Outside DEF Same, SessionInvariant, Tokens
      <3>3. SaveRefresh(j)
        BY <3>1, <3>2
        DEF Handle, Register, Login, Refresh, Protected, Receive, CreateUser,
            GetByEmail, GetRefresh, GetByID, RevokePresented, Issue,
            ValidateAccess, Logout, BlacklistAccess
      <3>4. ASSUME NEW q \in Tokens, q # j
            PROVE  Status(q)' = Status(q)
        <4>1. now' = now /\ refreshKeys'[q] = refreshKeys[q]
          BY <3>2, <3>3, <3>4 DEF SaveRefresh, AfterSaveRefresh, TypeOK, Tokens
        <4>2. pc'[q] = pc[q]
          BY <3>2, <3>4, Local DEF Same, Tokens
        <4>3. QED
          BY <4>1, <4>2 DEF Status, Stored
      <3>5. tokenStatus' = [tokenStatus EXCEPT ![j] = "live"]
        BY <2>1, <3>1, <3>4
      <3>6. QED
        BY <2>1, <3>1, <3>5 DEF Lifecycle!Next, Lifecycle!Store
    <2>3. CASE \A j \in Tokens : Status(j)' # Status(j) => Status(j)' = "dead"
      <3> DEFINE S == {j \in Tokens : Status(j)' # Status(j)}
      <3>1. tokenStatus' = [j \in Tokens |-> IF j \in S THEN "dead" ELSE tokenStatus[j]]
        BY <2>1, <2>3
      <3>2. S \in SUBSET Tokens
        OBVIOUS
      <3> HIDE DEF S
      <3>3. Lifecycle!Retire(S)
        BY <3>1 DEF Lifecycle!Retire
      <3>4. QED
        BY <3>2, <3>3 DEF Lifecycle!Next
    <2>4. QED
      BY <2>2, <2>3, StatusStep DEF Tokens
  <1>3. QED
    BY <1>1, <1>2, SessionInvariantHolds, PTL
    DEF Spec, RefreshTokensNeverRevive, Lifecycle!Spec

\* Registration, whatever it races with, writes the users table as the table
\* promises: the row is new, and no other live row has its address.
THEOREM TableImplemented == Spec => UsersTableKept
  <1>1. Init => Table!Init
    <2> SUFFICES ASSUME Init PROVE Table!Init
      OBVIOUS
    <2>1. users \in [Requests -> Table!Row]
      BY DEF Init, User, Roles, Table!Row, Table!Roles
    <2>2. ASSUME NEW u \in Requests, Table!Live(u)
          PROVE  users[u].email \in Emails /\ Table!Free(u, users[u].email)
      <3>1. u \in Seeds
        BY <2>2 DEF Init, Seeded, Table!Live
      <3>2. users[u].email \in Emails
        BY <2>2, <3>1 DEF Init, Seeded, User
      <3>3. ASSUME NEW v \in Requests \ {u}, Table!Live(v), users[v].email = users[u].email
            PROVE  FALSE
        BY <3>1, <3>3 DEF Init, Seeded, Table!Live
      <3>4. QED
        BY <3>2, <3>3 DEF Table!Free
    <2>3. QED
      BY <2>1, <2>2 DEF Table!Init
  <1>2. SessionInvariant /\ [Next]_vars => [Table!Next]_users
    BY TableSteps DEF SessionInvariant, Table!Next
  <1>3. QED
    BY <1>1, <1>2, SessionInvariantHolds, PTL DEF Spec, UsersTableKept, Table!Spec

\* No two live accounts ever share an address, whatever registrations and user routes
\* race for it and whichever of their statements fail (auth/service.go:42-52).
THEOREM OneAccountAnAddress == Spec => []Table!AddressesApart
  <1>1. Init => Table!AddressesApart
    <2> SUFFICES ASSUME Init, NEW u \in Requests, NEW v \in Requests,
                        Table!Live(u), Table!Live(v), users[u].email = users[v].email
                 PROVE  u = v
      BY DEF Table!AddressesApart
    <2>1. u \in Seeds /\ v \in Seeds
      BY DEF Init, Seeded, Table!Live
    <2>2. QED
      BY <2>1 DEF Init, Seeded
  <1>2. TypeOK /\ Table!AddressesApart /\ [Table!Next]_users => Table!AddressesApart'
    <2> SUFFICES ASSUME TypeOK, Table!AddressesApart, NEW w \in Requests,
                        Table!Insert(w) \/ Table!Change(w)
                 PROVE  Table!AddressesApart'
      BY DEF Table!Next, Table!AddressesApart, Table!Live
    <2>1. ASSUME NEW e \in Emails, NEW role, Table!Store(w, e, role)
          PROVE  Table!AddressesApart'
      <3> SUFFICES ASSUME NEW u \in Requests, NEW v \in Requests, u # v,
                          Table!Live(u)', Table!Live(v)', users'[u].email = users'[v].email
                   PROVE  FALSE
        BY DEF Table!AddressesApart
      <3>1. \A q \in Requests \ {w} : users'[q] = users[q]
        BY <2>1 DEF Table!Store, TypeOK
      <3>2. users'[w].email = e
        BY <2>1 DEF Table!Store, TypeOK
      <3>3. CASE u = w
        BY <2>1, <3>1, <3>2, <3>3 DEF Table!Store, Table!Free, Table!Live
      <3>4. CASE v = w
        BY <2>1, <3>1, <3>2, <3>4 DEF Table!Store, Table!Free, Table!Live
      <3>5. QED
        BY <3>1, <3>3, <3>4 DEF Table!AddressesApart, Table!Live
    <2>2. CASE Table!Delete(w)
      BY <2>2 DEF Table!Delete, Table!AddressesApart, Table!Live, TypeOK, User
    <2>3. QED
      BY <2>1, <2>2 DEF Table!Insert, Table!Change, Table!Save
  <1>3. QED
    BY <1>1, <1>2, TableImplemented, TypeCorrect, PTL
       DEF Spec, UsersTableKept, Table!Spec
=============================================================================
