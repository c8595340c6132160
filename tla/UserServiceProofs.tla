------------------------- MODULE UserServiceProofs -------------------------
(***************************************************************************)
(* Proofs about UserService, for any number of users, requests and         *)
(* addresses, any seed of admins, and with or without failures.            *)
(***************************************************************************)
EXTENDS UserService, TLAPS

USE UserAssumption

-----------------------------------------------------------------------------
(* The initial states *)

LEMMA InitEntitlement == Init => Entitlement
  <1> SUFFICES ASSUME Init PROVE Entitlement
    OBVIOUS
  <1>1. TypeOK
    BY DEF Init, Seeded, TypeOK, Row, Roles, Input, Ops, Labels, Statuses, NoRow, NoInput
  <1>2. \A r \in Requests : ControlOf(r) /\ EntitledTo(r) /\ Prepared(r)
    BY DEF Init, ControlOf, EntitledTo, Prepared, NoInput
  <1>3. MintedApart
    BY DEF Init, MintedApart, NoInput
  <1>4. AdminsKnown
    BY DEF Init, Seeded, AdminsKnown, Found
  <1>5. LoneAdminStays
    BY DEF Init, Seeded, LoneAdminStays, Found
  <1>6. AdminProvenance /\ LoneAdminKept /\ RejectedChangesNothing
    BY DEF Init, AdminProvenance, LoneAdminKept, RejectedChangesNothing
  <1>7. QED
    BY <1>1, <1>2, <1>3, <1>4, <1>5, <1>6 DEF Entitlement

-----------------------------------------------------------------------------
(* Steps that leave the table alone *)

\* The labels and answers that such a step may give request r, given what it was
\* sent, and the struct it may hold then.
Moves(r, l, a, d) ==
    /\ pc' = [pc EXCEPT ![r] = l]
    /\ reply' = [reply EXCEPT ![r] = a]
    /\ draft' = [draft EXCEPT ![r] = d]
    /\ UNCHANGED <<rows, history>>

\* A step that leaves the table alone keeps the invariant if it keeps it for the
\* request that takes it.
LEMMA QuietKeeps ==
  ASSUME Entitlement,
         NEW r \in Requests, NEW in \in Input, NEW l \in Labels, NEW a \in Statuses,
         NEW d \in Row,
         pc[r] # "done", l # "idle",
         Moves(r, l, a, d),
         input' = [input EXCEPT ![r] = in],
         pc[r] = "idle" \/ in = input[r],
         ControlOf(r)', EntitledTo(r)', Prepared(r)',
         in.op = "register" /\ pc[r] = "idle" =>
           \A q \in Requests : input[q].op = "register" => input[q].target # in.target,
         l \in {"save", "upsert"} => \A u \in Users :
           wasAdmin = {u} /\ in.target = u => d.role = "admin"
  PROVE  Entitlement'
  <1> USE DEF Entitlement
  <1>1. TypeOK'
    BY DEF TypeOK, Moves, history
  <1>2. \A q \in Requests \ {r} :
          /\ pc'[q] = pc[q] /\ input'[q] = input[q]
          /\ draft'[q] = draft[q] /\ reply'[q] = reply[q]
    BY DEF TypeOK, Moves
  <1>3. pc'[r] = l /\ input'[r] = in /\ draft'[r] = d /\ reply'[r] = a
    BY DEF TypeOK, Moves
  <1>4. ASSUME NEW q \in Requests PROVE ControlOf(q)' /\ EntitledTo(q)' /\ Prepared(q)'
    <2>1. CASE q = r
      BY <2>1
    <2>2. CASE q # r
      <3>1. ControlOf(q) /\ EntitledTo(q) /\ Prepared(q)
        OBVIOUS
      <3>2. QED
        BY <1>2, <2>2, <3>1 DEF ControlOf, EntitledTo, Prepared, Asks, Moves, history
    <2>3. QED
      BY <2>1, <2>2
  <1>5. MintedApart'
    BY <1>2, <1>3 DEF MintedApart, ControlOf, NoInput
  <1>6. AdminsKnown' /\ LoneAdminStays'
    BY DEF AdminsKnown, LoneAdminStays, Found, Moves, history
  <1>7. AdminProvenance'
    <2>1. ASSUME NEW q \in Requests, Asks(q) PROVE Asks(q)' /\ input'[q].target = input[q].target
      BY <1>2, <1>3, <2>1 DEF Asks, ControlOf, NoInput
    <2>2. QED
      BY <2>1 DEF AdminProvenance, Moves, history
  <1>8. LoneAdminKept'
    BY <1>2, <1>3 DEF LoneAdminKept, Moves, history
  <1>9. RejectedChangesNothing'
    BY <1>2 DEF RejectedChangesNothing, ControlOf, Moves, history
  <1>10. QED
    BY <1>1, <1>4, <1>5, <1>6, <1>7, <1>8, <1>9

\* The request whose reply and struct stay as they are.
LEMMA StaysMoved ==
  ASSUME TypeOK, NEW r \in Requests, NEW l \in Labels
  PROVE  /\ Goto(r, l) /\ UNCHANGED draft => Moves(r, l, reply[r], draft[r])
         /\ \A d \in Row : Goto(r, l) /\ draft' = [draft EXCEPT ![r] = d] =>
              Moves(r, l, reply[r], d)
         /\ \A a \in Statuses : Answer(r, a) /\ UNCHANGED draft =>
              Moves(r, "done", a, draft[r])
         /\ reply[r] \in Statuses /\ draft[r] \in Row /\ input[r] \in Input
         /\ input = [input EXCEPT ![r] = input[r]]
  BY DEF TypeOK, Goto, Answer, Moves

LEMMA RegisterKeeps ==
  ASSUME Entitlement, NEW r \in Requests, Register(r)
  PROVE  Entitlement'
  <1>1. PICK u \in Users, e \in Emails :
          /\ pc[r] = "idle"
          /\ rows[u].status = "absent"
          /\ \A q \in Requests : input[q].op = "register" => input[q].target # u
          /\ input' = [input EXCEPT ![r] = [NoInput EXCEPT !.op = "register",
                                              !.target = u, !.email = e]]
          /\ draft' = [draft EXCEPT ![r] = NewRow(e)]
          /\ Goto(r, "create")
    BY DEF Register, Unused, RegisterAs
  <1> DEFINE in == [NoInput EXCEPT !.op = "register", !.target = u, !.email = e]
  <1>2. /\ in \in Input /\ in.op = "register" /\ in.target = u
        /\ in.role = None /\ in.as = "user"
    BY DEF NoInput, Input, Ops, Roles
  <1>3. NewRow(e) \in Row /\ NewRow(e).status = "live" /\ NewRow(e).role = "user"
        /\ NewRow(e).email = e
    BY DEF NewRow, Row, Roles
  <1>4. Moves(r, "create", reply[r], NewRow(e)) /\ reply[r] \in Statuses
    BY <1>1, <1>3, StaysMoved DEF Entitlement, Labels
  <1>5. pc'[r] = "create" /\ input'[r] = in /\ draft'[r] = NewRow(e) /\ rows' = rows
        /\ wasAdmin' = wasAdmin /\ wrote' = wrote
    BY <1>1, <1>4 DEF Entitlement, TypeOK, Moves, history
  <1> HIDE DEF in
  <1>6. ControlOf(r)' /\ EntitledTo(r)' /\ Prepared(r)'
    BY <1>1, <1>2, <1>3, <1>5 DEF Entitlement, ControlOf, EntitledTo, Prepared, Asks
  <1>7. "create" \in Labels
    BY DEF Labels
  <1>8. QED
    BY <1>1, <1>2, <1>3, <1>4, <1>6, <1>7, QuietKeeps DEF in

\* A request with a valid token starts with what the routes in front of the
\* handlers make sure of.
LEMMA AuthenticatedKeeps ==
  ASSUME Entitlement, NEW r \in Requests, NEW in \in Input,
         NEW l \in {"read", "delete", "done"}, NEW a \in Statuses,
         Take(r, in), Principal(in.actor, in.as),
         Goto(r, l) \/ (l = "done" /\ Answer(r, a)),
         in.op # "register",
         l = "read" => in.op \in {"updateMe", "adminUpdate"},
         l = "delete" => in.op = "adminDelete" /\ in.actor # in.target,
         l # "done" => in.target \in Users,
         in.op = "updateMe" => in.role = None,
         in.op \in {"adminUpdate", "adminDelete"} => in.as = "admin"
  PROVE  Entitlement'
  <1>1. l \in Labels
    BY DEF Labels
  <1>2. PICK b \in Statuses : Moves(r, l, b, draft[r])
    BY <1>1, StaysMoved DEF Entitlement, Take
  <1>3. draft[r] \in Row
    BY DEF Entitlement, TypeOK
  <1>4. /\ pc'[r] = l /\ input'[r] = in /\ rows' = rows
        /\ wasAdmin' = wasAdmin /\ wrote' = wrote
    BY <1>2 DEF Entitlement, TypeOK, Moves, history, Take
  <1>5. ControlOf(r)' /\ EntitledTo(r)' /\ Prepared(r)'
    BY <1>4 DEF Entitlement, ControlOf, EntitledTo, Prepared, Take, Principal
  <1>6. QED
    BY <1>1, <1>2, <1>3, <1>5, QuietKeeps DEF Take

LEMMA RoutesKeep ==
  ASSUME Entitlement, NEW r \in Requests, UpdateMe(r) \/ AdminRoute(r)
  PROVE  Entitlement'
  <1>0. "forbidden" \in Statuses
    BY DEF Statuses
  <1>1. CASE UpdateMe(r)
    <2>1. PICK u \in Users, e \in Emails \cup {None} :
            /\ Principal(u, "user")
            /\ Take(r, [op |-> "updateMe", actor |-> u, as |-> "user",
                        target |-> u, email |-> e, role |-> None])
            /\ Goto(r, "read")
      BY <1>1 DEF UpdateMe, UpdateMeAs
    <2> DEFINE in == [op |-> "updateMe", actor |-> u, as |-> "user",
                      target |-> u, email |-> e, role |-> None]
    <2>2. in \in Input
      BY DEF Input, Ops, Roles
    <2>3. QED
      BY <1>0, <2>1, <2>2, AuthenticatedKeeps
  <1>2. ASSUME NEW u \in Users, NEW as \in Roles, Principal(u, as), AdminUpdateAs(r, u, as)
        PROVE  Entitlement'
    <2>1. PICK t \in Users, e \in Emails \cup {None}, role \in Roles \cup {None} :
            /\ RequireRole(as)
            /\ Take(r, [op |-> "adminUpdate", actor |-> u, as |-> as,
                        target |-> t, email |-> e, role |-> role])
            /\ Goto(r, "read")
      BY <1>2 DEF AdminUpdateAs
    <2> DEFINE in == [op |-> "adminUpdate", actor |-> u, as |-> as,
                      target |-> t, email |-> e, role |-> role]
    <2>2. in \in Input /\ in.as = "admin"
      BY <2>1 DEF Input, Ops, Roles, RequireRole
    <2>3. QED
      BY <1>0, <1>2, <2>1, <2>2, AuthenticatedKeeps
  <1>3. ASSUME NEW u \in Users, NEW as \in Roles, Principal(u, as), AdminDeleteAs(r, u, as)
        PROVE  Entitlement'
    <2>1. PICK t \in Users :
            /\ RequireRole(as)
            /\ Take(r, [op |-> "adminDelete", actor |-> u, as |-> as,
                        target |-> t, email |-> None, role |-> None])
            /\ IF u = t THEN Answer(r, "forbidden") ELSE Goto(r, "delete")
      BY <1>3 DEF AdminDeleteAs
    <2> DEFINE in == [op |-> "adminDelete", actor |-> u, as |-> as,
                      target |-> t, email |-> None, role |-> None]
    <2>2. in \in Input /\ in.as = "admin"
      BY <2>1 DEF Input, Ops, Roles, RequireRole
    <2>3. QED
      BY <1>0, <1>3, <2>1, <2>2, AuthenticatedKeeps
  <1>4. ASSUME NEW u \in Users, NEW as \in Roles, Principal(u, as), AdminRefusedAs(r, u, as)
        PROVE  Entitlement'
    <2> DEFINE in == [NoInput EXCEPT !.actor = u, !.as = as]
    <2>1. Take(r, in) /\ Answer(r, "forbidden")
      BY <1>4 DEF AdminRefusedAs
    <2>2. in \in Input /\ in.op = "none" /\ in.actor = u /\ in.as = as
      BY DEF Input, Ops, Roles, NoInput
    <2> HIDE DEF in
    <2>3. QED
      BY <1>0, <1>4, <2>1, <2>2, AuthenticatedKeeps
  <1>5. QED
    BY <1>1, <1>2, <1>3, <1>4 DEF AdminRoute, AdminRouteAs

\* Reading the row either answers the request or prepares the struct.
LEMMA GetByIDKeeps ==
  ASSUME Entitlement, NEW r \in Requests, GetByID(r)
  PROVE  Entitlement'
  <1> DEFINE in == input[r]
             row == rows[in.target]
  <1>1. /\ pc[r] = "read" /\ in \in Input /\ in.target \in Users /\ draft[r] \in Row
        /\ in.op \in {"updateMe", "adminUpdate"}
        /\ input' = [input EXCEPT ![r] = in]
        /\ row \in Row
    BY DEF Entitlement, TypeOK, ControlOf, GetByID
  <1>2. CASE \E a \in {"notFound", "internal", "forbidden"} :
               Answer(r, a) /\ UNCHANGED draft
    <2>1. PICK a \in Statuses : Moves(r, "done", a, draft[r])
      BY <1>2, StaysMoved DEF Entitlement, Statuses, Labels
    <2>2. /\ pc'[r] = "done" /\ input'[r] = in /\ wasAdmin' = wasAdmin
      BY <1>1, <2>1 DEF Entitlement, TypeOK, Moves, history
    <2>3. ControlOf(r)' /\ EntitledTo(r)' /\ Prepared(r)'
      BY <2>2 DEF Entitlement, ControlOf, EntitledTo, Prepared
    <2>4. "done" \in Labels
      BY DEF Labels
    <2> HIDE DEF in
    <2>5. QED
      BY <1>1, <2>1, <2>3, <2>4, QuietKeeps DEF in
  <1>3. CASE /\ Found(in.target) /\ ~ DemotesSelf(in)
             /\ draft' = [draft EXCEPT ![r] = Asked(row, in)]
             /\ Goto(r, "save")
    <2> DEFINE d == Asked(row, in)
    <2>1. /\ d \in Row /\ d.status = "live" /\ d.email \in Emails
          /\ d.role = IF in.role = None THEN row.role ELSE in.role
      <3>1. row.status = "live" /\ row.email \in Emails /\ row.role \in Roles
        BY <1>1, <1>3 DEF Entitlement, TypeOK, Found, Row
      <3>2. in.email \in Emails \cup {None} /\ in.role \in Roles \cup {None}
        BY <1>1 DEF Input
      <3>3. d = [row EXCEPT !.email = IF in.email = None THEN row.email ELSE in.email,
                            !.role = IF in.role = None THEN row.role ELSE in.role]
        BY <1>1, <3>1 DEF Asked, Row
      <3>4. QED
        BY <1>1, <3>1, <3>2, <3>3 DEF Row
    <2>2. Moves(r, "save", reply[r], d) /\ reply[r] \in Statuses
      BY <1>3, <2>1, StaysMoved DEF Entitlement, Labels
    <2>3. /\ pc'[r] = "save" /\ input'[r] = in /\ draft'[r] = d
          /\ rows' = rows /\ wasAdmin' = wasAdmin /\ wrote' = wrote
      BY <1>1, <2>1, <2>2 DEF Entitlement, TypeOK, Moves, history
    <2>4. /\ in.op = "updateMe" => in.role = None
          /\ in.op = "adminUpdate" => in.as = "admin"
          /\ in.as = "admin" => in.actor \in wasAdmin
          /\ r \notin wrote
      BY <1>1 DEF Entitlement, ControlOf, EntitledTo
    <2>5. row.role = "admin" => in.target \in wasAdmin
      BY <1>1, <1>3 DEF Entitlement, AdminsKnown
    <2>6. d.role = "admin" => in.target \in wasAdmin
                              \/ (in.op = "adminUpdate" /\ in.as = "admin" /\ in.role = "admin")
      BY <1>1, <2>1, <2>4, <2>5
    <2>7. ASSUME NEW u \in Users, wasAdmin = {u}, in.target = u
          PROVE  d.role = "admin"
      <3>1. row.role = "admin"
        BY <2>7 DEF Entitlement, LoneAdminStays
      <3>2. in.op = "adminUpdate" => in.actor = in.target
        BY <2>4, <2>7
      <3>3. in.role \in {None, "admin"}
        BY <1>1, <1>3, <2>4, <3>2 DEF DemotesSelf
      <3>4. QED
        BY <2>1, <3>1, <3>3
    <2>8. row.status # "absent"
      BY <1>3 DEF Found
    <2>9. "save" \in Labels
      BY DEF Labels
    <2> HIDE DEF d
    <2>10. ControlOf(r)' /\ EntitledTo(r)'
      BY <1>1, <2>3, <2>4 DEF ControlOf, EntitledTo
    <2>11. Prepared(r)'
      BY <1>1, <2>1, <2>3, <2>6, <2>8 DEF Prepared, Asks
    <2>12. QED
      BY <1>1, <2>1, <2>2, <2>7, <2>9, <2>10, <2>11, QuietKeeps
  <1>4. QED
    BY <1>2, <1>3 DEF GetByID

-----------------------------------------------------------------------------
(* Statements that write *)

\* A statement that fails ends its request.
LEMMA FailureKeeps ==
  ASSUME Entitlement, NEW r \in Requests, NEW a \in Statuses, NEW d \in Row,
         pc[r] \notin {"idle", "done"},
         Moves(r, "done", a, d), UNCHANGED input
  PROVE  Entitlement'
  <1>1. input[r] \in Input /\ input' = [input EXCEPT ![r] = input[r]] /\ "done" \in Labels
    BY DEF Entitlement, TypeOK, Labels
  <1>2. pc'[r] = "done" /\ wasAdmin' = wasAdmin
    BY DEF Entitlement, TypeOK, Moves, history
  <1>3. ControlOf(r)' /\ EntitledTo(r)' /\ Prepared(r)'
    BY <1>2 DEF Entitlement, ControlOf, EntitledTo, Prepared
  <1>4. QED
    BY <1>1, <1>3, QuietKeeps

\* A statement that is carried out ends its request, and keeps the invariant if the
\* role admin comes from somebody who may give it and the only admin keeps it.
LEMMA WriteKeeps ==
  ASSUME Entitlement, NEW r \in Requests, NEW row \in Row, NEW d \in Row,
         NEW a \in {"ok", "created", "noContent", "internal"},
         pc[r] \notin {"idle", "done"},
         Write(r, input[r].target, row),
         pc' = [pc EXCEPT ![r] = "done"],
         reply' = [reply EXCEPT ![r] = a],
         draft' = [draft EXCEPT ![r] = d],
         UNCHANGED input,
         row.status # "absent",
         row.status = "live" => row.email \in Emails,
         row.status = "live" /\ row.role = "admin" => Asks(r) \/ input[r].target \in wasAdmin,
         \A q \in Requests \ {r} : pc[q] = "create" => input[q].target # input[r].target,
         wasAdmin = {input[r].target} => row.status = "live" /\ row.role = "admin"
  PROVE  Entitlement'
  <1> DEFINE u == input[r].target
  <1> USE DEF Entitlement
  <1>0. a \in Statuses /\ "done" \in Labels
    BY DEF Statuses, Labels
  <1>1. u \in Users /\ rows' = [rows EXCEPT ![u] = row] /\ rows \in [Users -> Row]
    BY DEF ControlOf, Write, TypeOK
  <1>2. /\ \A v \in Users \ {u} : rows'[v] = rows[v]
        /\ rows'[u] = row
    BY <1>1
  <1>3. /\ \A q \in Requests \ {r} : /\ pc'[q] = pc[q] /\ draft'[q] = draft[q]
                                     /\ reply'[q] = reply[q]
        /\ pc'[r] = "done" /\ reply'[r] = a
        /\ wrote' = wrote \cup {r}
    BY DEF TypeOK, Write
  <1>4. wasAdmin \subseteq wasAdmin' /\ wasAdmin' \subseteq wasAdmin \cup {u}
    BY DEF Write
  <1>5. u \in wasAdmin' \ wasAdmin => row.status = "live" /\ row.role = "admin" /\ Asks(r)
    BY DEF Write
  <1>6. row.status = "live" /\ row.role = "admin" => u \in wasAdmin'
    BY DEF Write
  <1>7. ASSUME NEW v \in Users, wasAdmin' = {v} PROVE wasAdmin = {v}
    <2>1. Asks(r) => wasAdmin # {}
      BY DEF EntitledTo, Asks
    <2>2. QED
      BY <1>4, <1>5, <1>7, <2>1
  <1> HIDE DEF u
  <1>8. TypeOK'
    <2>1. rows' \in [Users -> Row]
      BY <1>1
    <2>2. \A v \in Users : rows'[v].status = "live" => rows'[v].email \in Emails
      BY <1>1, <1>2 DEF TypeOK
    <2>3. wasAdmin' \subseteq Users /\ wrote' \subseteq Requests /\ disturbed' \subseteq Requests
      BY <1>1, <1>3, <1>4 DEF TypeOK, Write
    <2>4. QED
      BY <1>0, <2>1, <2>2, <2>3 DEF TypeOK
  <1>9. ASSUME NEW q \in Requests PROVE ControlOf(q)' /\ EntitledTo(q)' /\ Prepared(q)'
    <2>1. ControlOf(q) /\ EntitledTo(q) /\ Prepared(q)
      OBVIOUS
    <2>2. CASE q = r
      BY <1>3, <1>4, <2>1, <2>2 DEF ControlOf, EntitledTo, Prepared
    <2>3. CASE q # r
      <3>1. pc[q] \notin {"idle", "done"} =>
              input[q].target \in Users /\ (pc[q] = "create" => input[q].target # u)
        BY <2>1, <2>3 DEF ControlOf, u
      <3>2. ControlOf(q)' /\ EntitledTo(q)'
        BY <1>3, <1>4, <2>1, <2>3 DEF ControlOf, EntitledTo
      <3>3. Prepared(q)'
        BY <1>2, <1>3, <1>4, <2>1, <2>3, <3>1 DEF Prepared, Asks
      <3>4. QED
        BY <3>2, <3>3
    <2>4. QED
      BY <2>2, <2>3
  <1>10. MintedApart'
    BY DEF MintedApart
  <1>11. AdminsKnown'
    BY <1>1, <1>2, <1>4, <1>6 DEF AdminsKnown, Found
  <1>12. AdminProvenance'
    BY <1>4, <1>5 DEF AdminProvenance, Asks, u
  <1>13. LoneAdminStays'
    BY <1>1, <1>2, <1>7 DEF LoneAdminStays, Found, u
  <1>14. LoneAdminKept'
    BY <1>3, <1>7 DEF LoneAdminKept
  <1>15. RejectedChangesNothing'
    BY <1>3 DEF RejectedChangesNothing
  <1>16. QED
    BY <1>8, <1>9, <1>10, <1>11, <1>12, <1>13, <1>14, <1>15

\* Create, and either statement of Save.
LEMMA StatementKeeps ==
  ASSUME Entitlement, NEW r \in Requests, NEW a \in {"ok", "created"},
         pc[r] \in {"create", "save", "upsert"},
         Statement(r, input[r].target, draft[r], a)
  PROVE  Entitlement'
  <1> DEFINE u == input[r].target
  <1>0. /\ NoRow \in Row /\ draft[r] \in Row /\ reply[r] \in Statuses
        /\ {"conflict", "internal"} \subseteq Statuses /\ pc[r] \notin {"idle", "done"}
    BY DEF Entitlement, TypeOK, NoRow, Row, Roles, Statuses
  <1>1. /\ pc' = [pc EXCEPT ![r] = "done"]
        /\ draft' = [draft EXCEPT ![r] = NoRow]
        /\ UNCHANGED input
    BY DEF Statement
  <1>2. CASE \E b \in {"conflict", "internal"} :
               reply' = [reply EXCEPT ![r] = b] /\ UNCHANGED <<rows, history>>
    <2>1. PICK b \in {"conflict", "internal"} :
            reply' = [reply EXCEPT ![r] = b] /\ UNCHANGED <<rows, history>>
      BY <1>2
    <2>2. Moves(r, "done", b, NoRow)
      BY <1>1, <2>1 DEF Moves
    <2>3. QED
      BY <1>0, <1>1, <2>2, FailureKeeps
  <1>3. CASE \E b \in {a, "internal"} :
               reply' = [reply EXCEPT ![r] = b] /\ Write(r, u, draft[r])
    <2>1. PICK b \in {a, "internal"} :
            reply' = [reply EXCEPT ![r] = b] /\ Write(r, u, draft[r])
      BY <1>3
    <2>2. ControlOf(r) /\ Prepared(r) /\ EntitledTo(r)
      BY DEF Entitlement
    <2>3. draft[r].status = "live" /\ draft[r].email \in Emails
      BY <2>2 DEF Prepared
    <2>4. draft[r].role = "admin" => Asks(r) \/ u \in wasAdmin
      BY <2>2 DEF Prepared
    <2>5. ASSUME NEW q \in Requests \ {r}, pc[q] = "create"
          PROVE  input[q].target # u
      <3>1. ControlOf(q) /\ Prepared(q)
        BY DEF Entitlement
      <3>2. CASE pc[r] = "create"
        BY <2>2, <2>5, <3>1, <3>2 DEF Entitlement, MintedApart, ControlOf
      <3>3. CASE pc[r] \in {"save", "upsert"}
        BY <2>2, <2>5, <3>1, <3>3 DEF Prepared
      <3>4. QED
        BY <3>2, <3>3
    <2>6. ASSUME wasAdmin = {u} PROVE draft[r].role = "admin"
      <3>1. u \in Users /\ rows[u].status # "absent"
        BY <2>2, <2>6 DEF Entitlement, AdminsKnown, ControlOf
      <3>2. pc[r] \in {"save", "upsert"}
        BY <2>2, <3>1 DEF Prepared
      <3>3. QED
        BY <2>6, <3>1, <3>2 DEF Entitlement, LoneAdminKept
    <2>7. QED
      BY <1>0, <1>1, <2>1, <2>3, <2>4, <2>5, <2>6, WriteKeeps
  <1>4. QED
    BY <1>2, <1>3 DEF Statement

LEMMA SavingKeeps ==
  ASSUME Entitlement, NEW r \in Requests,
         CreateRow(r) \/ Save(r) \/ Upsert(r)
  PROVE  Entitlement'
  <1>1. CASE CreateRow(r)
    BY <1>1, StatementKeeps DEF CreateRow
  <1>2. CASE Upsert(r)
    BY <1>2, StatementKeeps DEF Upsert
  <1>3. CASE Save(r) /\ Statement(r, input[r].target, draft[r], "ok")
    BY <1>3, StatementKeeps DEF Save
  <1>4. CASE Save(r) /\ Answer(r, "internal") /\ UNCHANGED <<input, draft>>
    <2>1. Moves(r, "done", "internal", draft[r]) /\ draft[r] \in Row /\ "internal" \in Statuses
      BY <1>4, StaysMoved DEF Entitlement, Statuses, Labels
    <2>2. QED
      BY <1>4, <2>1, FailureKeeps DEF Save
  <1>5. CASE Save(r) /\ Goto(r, "upsert") /\ UNCHANGED <<input, draft>>
    <2>1. /\ Moves(r, "upsert", reply[r], draft[r])
          /\ draft[r] \in Row /\ reply[r] \in Statuses /\ input[r] \in Input
          /\ input' = [input EXCEPT ![r] = input[r]] /\ "upsert" \in Labels
      BY <1>5, StaysMoved DEF Entitlement, Statuses, Labels
    <2>2. pc[r] = "save" /\ ControlOf(r) /\ EntitledTo(r) /\ Prepared(r)
      BY <1>5 DEF Entitlement, Save
    <2>3. /\ pc'[r] = "upsert" /\ draft'[r] = draft[r] /\ rows' = rows
          /\ wasAdmin' = wasAdmin /\ wrote' = wrote /\ input' = input
      BY <1>5, <2>1 DEF Entitlement, TypeOK, Moves, history
    <2>4. ControlOf(r)' /\ EntitledTo(r)' /\ Prepared(r)'
      BY <2>2, <2>3 DEF ControlOf, EntitledTo, Prepared, Asks
    <2>5. \A u \in Users : wasAdmin = {u} /\ input[r].target = u => draft[r].role = "admin"
      BY <2>2 DEF Entitlement, LoneAdminKept
    <2>6. QED
      BY <2>1, <2>2, <2>4, <2>5, QuietKeeps
  <1>6. QED
    BY <1>1, <1>2, <1>3, <1>4, <1>5 DEF Save

LEMMA DeleteKeeps ==
  ASSUME Entitlement, NEW r \in Requests, DeleteRow(r)
  PROVE  Entitlement'
  <1> DEFINE u == input[r].target
             after == [rows[u] EXCEPT !.status = "deleted"]
  <1>1. /\ pc[r] = "delete" /\ draft[r] \in Row
        /\ pc' = [pc EXCEPT ![r] = "done"]
        /\ draft' = [draft EXCEPT ![r] = draft[r]]
        /\ UNCHANGED input
        /\ {"notFound", "internal"} \subseteq Statuses
    BY DEF Entitlement, TypeOK, DeleteRow, Statuses
  <1>2. CASE \E b \in {"notFound", "internal"} :
               reply' = [reply EXCEPT ![r] = b] /\ UNCHANGED <<rows, history>>
    <2>1. PICK b \in {"notFound", "internal"} : Moves(r, "done", b, draft[r])
      BY <1>1, <1>2 DEF Moves
    <2>2. QED
      BY <1>1, <2>1, FailureKeeps
  <1>3. CASE \E b \in {"noContent", "internal"} :
               reply' = [reply EXCEPT ![r] = b] /\ Found(u) /\ Write(r, u, after)
    <2>1. PICK b \in {"noContent", "internal"} :
            reply' = [reply EXCEPT ![r] = b] /\ Found(u) /\ Write(r, u, after)
      BY <1>3
    <2>2. ControlOf(r) /\ EntitledTo(r) /\ u \in Users /\ rows[u] \in Row
      BY <1>1 DEF Entitlement, ControlOf, TypeOK
    <2>3. after \in Row /\ after.status = "deleted"
      BY <2>2 DEF Row
    <2>4. ASSUME NEW q \in Requests \ {r}, pc[q] = "create" PROVE input[q].target # u
      BY <2>1, <2>4 DEF Entitlement, Prepared, Found
    <2>5. wasAdmin # {u}
      BY <1>1, <2>2 DEF ControlOf, EntitledTo
    <2> HIDE DEF after
    <2>6. QED
      BY <1>1, <2>1, <2>3, <2>4, <2>5, WriteKeeps
  <1>4. QED
    BY <1>2, <1>3 DEF DeleteRow

LEMMA NextKeeps == Entitlement /\ [Next]_vars => Entitlement'
  <1> SUFFICES ASSUME Entitlement, [Next]_vars PROVE Entitlement'
    OBVIOUS
  <1>1. CASE UNCHANGED vars
    BY <1>1 DEF vars, history, Entitlement, TypeOK, ControlOf, EntitledTo, Prepared,
                Asks, MintedApart, AdminsKnown, AdminProvenance, LoneAdminStays,
                LoneAdminKept, RejectedChangesNothing, Found
  <1>2. ASSUME NEW r \in Requests, Handle(r) PROVE Entitlement'
    BY <1>2, RegisterKeeps, RoutesKeep, GetByIDKeeps, SavingKeeps, DeleteKeeps DEF Handle
  <1>3. QED
    BY <1>1, <1>2 DEF Next, Terminating
-----------------------------------------------------------------------------
(* What a step does to the table, and to the requests that do not take it *)

Bystander(r) ==
    pc'[r] = pc[r] /\ input'[r] = input[r] /\ draft'[r] = draft[r]

\* A request to a user route is taken up, and nothing else happens.
LEMMA Registering ==
  ASSUME TypeOK, NEW r \in Requests, NEW u, NEW e, RegisterAs(r, u, e)
  PROVE  /\ pc[r] = "idle" /\ pc'[r] = "create"
         /\ input'[r].op = "register" /\ input'[r].target = u
         /\ draft'[r] = NewRow(e)
  <1> DEFINE in == [NoInput EXCEPT !.op = "register", !.target = u, !.email = e]
  <1>1. in.op = "register" /\ in.target = u
    BY DEF NoInput
  <1>2. input'[r] = in
    BY DEF TypeOK, RegisterAs
  <1>3. pc[r] = "idle" /\ pc'[r] = "create" /\ draft'[r] = NewRow(e)
    BY DEF TypeOK, RegisterAs, Goto
  <1>4. QED
    BY <1>1, <1>2, <1>3

LEMMA TakingAs ==
  ASSUME TypeOK, NEW r \in Requests, NEW u, NEW as,
         UpdateMeAs(r, u) \/ AdminRouteAs(r, u, as)
  PROVE  /\ pc[r] = "idle" /\ pc'[r] \in {"read", "delete", "done"}
         /\ input'[r].op # "register" /\ input'[r].actor = u
         /\ input'[r].op \in {"adminUpdate", "adminDelete"} => as = "admin"
         /\ \A q \in Requests \ {r} : Bystander(q)
         /\ UNCHANGED <<rows, history>> /\ UNCHANGED draft
  <1> USE DEF TypeOK, Bystander, Take, Goto, Answer
  <1>1. CASE UpdateMeAs(r, u)
    BY <1>1 DEF UpdateMeAs
  <1>2. CASE AdminUpdateAs(r, u, as)
    BY <1>2 DEF AdminUpdateAs, RequireRole
  <1>3. CASE AdminDeleteAs(r, u, as)
    BY <1>3 DEF AdminDeleteAs, RequireRole
  <1>4. CASE AdminRefusedAs(r, u, as)
    BY <1>4 DEF AdminRefusedAs, NoInput
  <1>5. QED
    BY <1>1, <1>2, <1>3, <1>4 DEF AdminRouteAs

LEMMA Taking ==
  ASSUME TypeOK, NEW r \in Requests, UpdateMe(r) \/ AdminRoute(r)
  PROVE  /\ pc[r] = "idle" /\ pc'[r] \in {"read", "delete", "done"}
         /\ \A q \in Requests \ {r} : Bystander(q)
         /\ UNCHANGED <<rows, history>> /\ UNCHANGED draft
  <1>1. PICK u \in Users, as \in Roles : UpdateMeAs(r, u) \/ AdminRouteAs(r, u, as)
    BY DEF UpdateMe, AdminRoute, Roles
  <1>2. QED
    BY <1>1, TakingAs

LEMMA Effects ==
  ASSUME TypeOK, NEW r \in Requests, Handle(r)
  PROVE  /\ \A q \in Requests \ {r} : Bystander(q)
         /\ \/ UNCHANGED <<rows, history>>
            \/ /\ CreateRow(r) \/ Upsert(r) \/ Save(r)
               /\ Write(r, input[r].target, draft[r])
               /\ EmailFree(input[r].target, draft[r].email)
               /\ UNCHANGED input
            \/ /\ DeleteRow(r) /\ Found(input[r].target)
               /\ Write(r, input[r].target, [rows[input[r].target] EXCEPT !.status = "deleted"])
               /\ UNCHANGED input
  <1> USE DEF TypeOK, Bystander, Goto, Answer
  <1>1. CASE Register(r)
    BY <1>1 DEF Register, RegisterAs
  <1>2. CASE UpdateMe(r) \/ AdminRoute(r)
    BY <1>2, Taking
  <1>3. CASE GetByID(r)
    BY <1>3 DEF GetByID
  <1>4. CASE CreateRow(r) \/ Upsert(r) \/ Save(r)
    BY <1>4 DEF CreateRow, Upsert, Save, Statement
  <1>5. CASE DeleteRow(r)
    BY <1>5 DEF DeleteRow
  <1>6. QED
    BY <1>1, <1>2, <1>3, <1>4, <1>5 DEF Handle

\* Only reading the row, or finding no live row to save, leads to a save.
LEMMA Saving ==
  ASSUME TypeOK, NEW r \in Requests, Handle(r), pc'[r] \in {"save", "upsert"}
  PROVE  /\ UNCHANGED <<rows, history, input>>
         /\ \/ /\ Found(input[r].target)
               /\ draft'[r] = Asked(rows[input[r].target], input[r])
            \/ pc[r] = "save" /\ ~ Found(input[r].target)
  <1> USE DEF TypeOK, Goto, Answer
  <1>1. CASE Register(r)
    BY <1>1 DEF Register, RegisterAs
  <1>2. CASE UpdateMe(r) \/ AdminRoute(r)
    BY <1>2, Taking
  <1>3. CASE GetByID(r)
    BY <1>3 DEF GetByID
  <1>4. CASE CreateRow(r) \/ Upsert(r) \/ Save(r)
    BY <1>4 DEF CreateRow, Upsert, Save, Statement
  <1>5. CASE DeleteRow(r)
    BY <1>5 DEF DeleteRow
  <1>6. QED
    BY <1>1, <1>2, <1>3, <1>4, <1>5 DEF Handle

LEMMA UndisturbedStep ==
  ASSUME TypeOK, NEW r \in Requests, ControlOf(r), Undisturbed(r), [Next]_vars
  PROVE  Undisturbed(r)'
  <1> SUFFICES ASSUME pc'[r] \in {"save", "upsert"}, r \notin disturbed'
               PROVE  /\ Found(input[r].target)'
                      /\ draft'[r] = Asked(rows[input[r].target], input[r])'
    BY DEF Undisturbed
  <1>1. CASE UNCHANGED vars
    BY <1>1 DEF vars, history, Undisturbed, Found, Asked
  <1>2. CASE Handle(r)
    <2>1. /\ UNCHANGED <<rows, history, input>>
          /\ \/ /\ Found(input[r].target)
                /\ draft'[r] = Asked(rows[input[r].target], input[r])
             \/ pc[r] = "save" /\ ~ Found(input[r].target)
      BY <1>2, Saving
    <2>2. Found(input[r].target) /\ draft'[r] = Asked(rows[input[r].target], input[r])
      BY <2>1 DEF history, Undisturbed
    <2>3. QED
      BY <2>1, <2>2 DEF Found, Asked
  <1>3. ASSUME NEW q \in Requests \ {r}, Handle(q)
        PROVE  /\ Found(input[r].target)'
               /\ draft'[r] = Asked(rows[input[r].target], input[r])'
    <2>1. pc'[r] = pc[r] /\ input'[r] = input[r] /\ draft'[r] = draft[r]
      BY <1>3, Effects DEF Bystander
    <2>2. input[r].target \in Users
      BY <2>1 DEF ControlOf
    <2>3. r \notin disturbed /\ rows'[input[r].target] = rows[input[r].target]
      <3>1. CASE UNCHANGED <<rows, history>>
        BY <3>1 DEF history
      <3>2. ASSUME NEW row, Write(q, input[q].target, row)
            PROVE  r \notin disturbed /\ rows'[input[r].target] = rows[input[r].target]
        BY <2>1, <2>2, <3>2 DEF Write, TypeOK
      <3>3. QED
        BY <1>3, <3>1, <3>2, Effects
    <2>4. Found(input[r].target) /\ draft[r] = Asked(rows[input[r].target], input[r])
      BY <2>1, <2>3 DEF Undisturbed
    <2>5. QED
      BY <2>1, <2>3, <2>4 DEF Found, Asked
  <1>4. QED
    BY <1>1, <1>2, <1>3 DEF Next, Terminating
-----------------------------------------------------------------------------
(* The theorems *)

LEMMA AccountInvariantInit == Init => AccountInvariant
  <1>1. Init => \A r \in Requests : Undisturbed(r)
    BY DEF Init, Undisturbed
  <1>2. QED
    BY <1>1, InitEntitlement DEF AccountInvariant

LEMMA AccountInvariantStep == AccountInvariant /\ [Next]_vars => AccountInvariant'
  BY NextKeeps, UndisturbedStep DEF AccountInvariant, Entitlement

\* The inductive invariant of the account service (service.go:41-83), for any
\* number of users and requests and whatever fails.
THEOREM AccountInvariantHolds == Spec => []AccountInvariant
  BY AccountInvariantInit, AccountInvariantStep, PTL DEF Spec

\* The variables of the account service keep their types.
THEOREM AccountTypes == Spec => []TypeOK
  <1>1. AccountInvariant => TypeOK
    BY DEF AccountInvariant, Entitlement
  <1>2. QED
    BY <1>1, AccountInvariantHolds, PTL

\* Nobody becomes an admin but by the word of an admin (service.go:63-68).
THEOREM AdminsAreMade == Spec => []AdminProvenance
  <1>1. AccountInvariant => AdminProvenance
    BY DEF AccountInvariant, Entitlement
  <1>2. QED
    BY <1>1, AccountInvariantHolds, PTL

\* The only admin there ever was stays a live admin (service.go:64-66, 76-78).
THEOREM LastAdminStays == Spec => []LoneAdminStays
  <1>1. AccountInvariant => LoneAdminStays
    BY DEF AccountInvariant, Entitlement
  <1>2. QED
    BY <1>1, AccountInvariantHolds, PTL

\* A refused request left the table alone (repository.go:87-93).
THEOREM RefusalsChangeNothing == Spec => []RejectedChangesNothing
  <1>1. AccountInvariant => RejectedChangesNothing
    BY DEF AccountInvariant, Entitlement
  <1>2. QED
    BY <1>1, AccountInvariantHolds, PTL

\* An update whose row nobody else wrote since it was read changes the columns it was
\* asked to change and no other (service.go:41-73 and 85-97).
THEOREM QuietUpdates == Spec => QuietUpdateExact
  <1> DEFINE Exact(r) ==
               LET u == input[r].target IN
               /\ rows[u].status = "live" /\ rows'[u].status = "live"
               /\ input[r].email = None => rows'[u].email = rows[u].email
               /\ input[r].role = None => rows'[u].role = rows[u].role
  <1>1. ASSUME AccountInvariant, Next, NEW r \in Requests, Saves(r), r \notin disturbed
        PROVE  Exact(r)
    <2> DEFINE u == input[r].target
    <2>1. TypeOK /\ u \in Users /\ Found(u) /\ draft[r] = Asked(rows[u], input[r])
      BY <1>1 DEF AccountInvariant, Entitlement, ControlOf, Undisturbed, Saves
    <2>2. rows'[u] = draft[r]
      <3>1. PICK q \in Requests : Handle(q)
        BY <1>1 DEF Next, Terminating, vars, history, Saves
      <3>2. q = r
        BY <1>1, <2>1, <3>1, Effects DEF Saves, Write, history
      <3>3. ~ DeleteRow(r)
        BY <1>1 DEF Saves, DeleteRow
      <3>4. Write(r, u, draft[r])
        BY <1>1, <2>1, <3>1, <3>2, <3>3, Effects DEF Saves, history
      <3>5. QED
        BY <2>1, <3>4 DEF Write, TypeOK
    <2>3. rows[u] \in Row
      BY <2>1 DEF TypeOK
    <2> HIDE DEF u
    <2>4. /\ draft[r].status = rows[u].status
          /\ input[r].email = None => draft[r].email = rows[u].email
          /\ input[r].role = None => draft[r].role = rows[u].role
      BY <2>1, <2>3 DEF Asked, Row
    <2>5. QED
      BY <2>1, <2>2, <2>4 DEF Found, u
  <1> HIDE DEF Exact
  <1>2. AccountInvariant /\ [Next]_vars =>
          [\A r \in Requests : Saves(r) /\ r \notin disturbed => Exact(r)]_vars
    BY <1>1
  <1>3. QED
    BY <1>2, AccountInvariantHolds, PTL DEF Spec, QuietUpdateExact, Exact


\* Which request wrote a row that a step changed, and how.
LEMMA Writers ==
  ASSUME AccountInvariant, [Next]_vars, NEW u \in Users, rows'[u] # rows[u]
  PROVE  \E r \in Requests :
           /\ input[r].target = u /\ ControlOf(r) /\ EntitledTo(r) /\ Prepared(r)
           /\ \/ /\ rows'[u] = draft[r] /\ r \in wrote' \ wrote
                 /\ \/ pc[r] = "create"
                    \/ pc[r] = "save" /\ Found(u)
                    \/ pc[r] = "upsert"
              \/ Found(u) /\ rows'[u] = [rows[u] EXCEPT !.status = "deleted"]
  <1>1. TypeOK
    BY DEF AccountInvariant, Entitlement
  <1>2. PICK r \in Requests : Handle(r)
    BY DEF Next, Terminating, vars
  <1>3. ControlOf(r) /\ EntitledTo(r) /\ Prepared(r)
    BY DEF AccountInvariant, Entitlement
  <1>4. CASE /\ CreateRow(r) \/ Upsert(r) \/ Save(r)
             /\ Write(r, input[r].target, draft[r])
    <2>1. rows'[u] = draft[r] /\ input[r].target = u
      BY <1>1, <1>4 DEF Write, TypeOK
    <2>2. pc[r] # "done" /\ r \notin wrote /\ r \in wrote'
      BY <1>3, <1>4 DEF CreateRow, Upsert, Save, Write, ControlOf
    <2>3. \/ pc[r] = "create"
          \/ pc[r] = "save" /\ Found(u)
          \/ pc[r] = "upsert"
      BY <1>1, <1>4, <2>1 DEF CreateRow, Upsert, Save, Goto, Answer
    <2>4. QED
      BY <1>3, <2>1, <2>2, <2>3
  <1>5. CASE /\ DeleteRow(r) /\ Found(input[r].target)
             /\ Write(r, input[r].target, [rows[input[r].target] EXCEPT !.status = "deleted"])
    <2>1. input[r].target = u
      BY <1>1, <1>5 DEF Write, TypeOK
    <2>2. rows'[u] = [rows[u] EXCEPT !.status = "deleted"]
      BY <1>1, <1>5, <2>1 DEF Write, TypeOK
    <2>3. QED
      BY <1>3, <1>5, <2>1, <2>2
  <1>6. QED
    BY <1>1, <1>2, <1>4, <1>5, Effects

\* Who was an admin is never forgotten, and no row vanishes.
LEMMA NothingForgotten ==
  ASSUME AccountInvariant, [Next]_vars
  PROVE  /\ wasAdmin \subseteq wasAdmin'
         /\ \A u \in Users : rows[u].status # "absent" => rows'[u].status # "absent"
  <1>1. TypeOK
    BY DEF AccountInvariant, Entitlement
  <1>2. wasAdmin \subseteq wasAdmin'
    <2>1. CASE UNCHANGED vars
      BY <2>1 DEF vars, history
    <2>2. ASSUME NEW r \in Requests, Handle(r) PROVE wasAdmin \subseteq wasAdmin'
      BY <1>1, <2>2, Effects DEF history, Write
    <2>3. QED
      BY <2>1, <2>2 DEF Next, Terminating
  <1>3. ASSUME NEW u \in Users, rows[u].status # "absent", rows'[u] # rows[u]
        PROVE  rows'[u].status # "absent"
    <2>1. PICK r \in Requests :
            /\ Prepared(r)
            /\ \/ pc[r] \in {"create", "save", "upsert"} /\ rows'[u] = draft[r]
               \/ rows'[u] = [rows[u] EXCEPT !.status = "deleted"]
      BY <1>3, Writers
    <2>2. CASE pc[r] \in {"create", "save", "upsert"} /\ rows'[u] = draft[r]
      BY <2>1, <2>2 DEF Prepared
    <2>3. CASE rows'[u] = [rows[u] EXCEPT !.status = "deleted"]
      BY <1>1, <2>3 DEF TypeOK, Row
    <2>4. QED
      BY <2>1, <2>2, <2>3
  <1>4. QED
    BY <1>2, <1>3

\* A request is asked one thing, once.
LEMMA AskedOnce ==
  ASSUME TypeOK, NEW r \in Requests, Handle(r)
  PROVE  /\ pc'[r] # "idle"
         /\ pc'[r] = "create" => Register(r)
         /\ input'[r] # input[r] => pc[r] = "idle"
  <1> USE DEF TypeOK, Goto, Answer
  <1>1. CASE Register(r)
    BY <1>1 DEF Register, RegisterAs
  <1>2. CASE UpdateMe(r) \/ AdminRoute(r)
    BY <1>2, Taking
  <1>3. CASE GetByID(r)
    BY <1>3 DEF GetByID
  <1>4. CASE CreateRow(r) \/ Upsert(r) \/ Save(r)
    BY <1>4 DEF CreateRow, Upsert, Save, Statement
  <1>5. CASE DeleteRow(r)
    BY <1>5 DEF DeleteRow
  <1>6. QED
    BY <1>1, <1>2, <1>3, <1>4, <1>5 DEF Handle

\* A deleted account comes back only by the second statement of a save that was
\* prepared before others wrote the row (repository.go:87-93).
THEOREM RevivalsAreStale == Spec => RevivedByStaleSaveOnly
  <1> DEFINE Stale(u) == \E r \in disturbed :
               pc[r] = "upsert" /\ input[r].target = u /\ rows'[u] = draft[r]
  <1>1. ASSUME AccountInvariant, [Next]_vars, NEW u \in Users,
               rows[u].status = "deleted", rows'[u].status # "deleted"
        PROVE  Stale(u)
    <2>1. PICK r \in Requests :
            /\ input[r].target = u /\ Prepared(r)
            /\ rows'[u] = draft[r]
            /\ \/ pc[r] = "create"
               \/ pc[r] = "save" /\ Found(u)
               \/ pc[r] = "upsert"
      BY <1>1, Writers DEF Found
    <2>2. pc[r] = "upsert"
      BY <1>1, <2>1 DEF Found, Prepared
    <2>3. r \in disturbed
      BY <1>1, <2>1, <2>2 DEF AccountInvariant, Undisturbed, Found
    <2>4. QED
      BY <2>1, <2>2, <2>3
  <1> HIDE DEF Stale
  <1>2. AccountInvariant /\ [Next]_vars =>
          [\A u \in Users : rows[u].status = "deleted" /\ rows'[u].status # "deleted" =>
              Stale(u)]_vars
    BY <1>1
  <1>3. QED
    BY <1>2, AccountInvariantHolds, PTL DEF Spec, RevivedByStaleSaveOnly, Stale

\* The role of an account changes only by a save that an admin's token asked for with
\* that role, or by a save of a struct that others have overtaken (service.go:41-73).
THEOREM RolesChangeHands == Spec => RoleChangesOwned
  <1> DEFINE Owned(u) == \E r \in Requests :
               /\ Saves(r) /\ input[r].target = u
               /\ \/ /\ input[r].op = "adminUpdate" /\ input[r].as = "admin"
                     /\ input[r].role = rows'[u].role
                  \/ r \in disturbed
  <1>1. ASSUME AccountInvariant, [Next]_vars, NEW u \in Users,
               rows[u].status # "absent", rows'[u].role # rows[u].role
        PROVE  Owned(u)
    <2>1. TypeOK /\ rows[u] \in Row
      BY <1>1 DEF AccountInvariant, Entitlement, TypeOK
    <2>2. PICK r \in Requests :
            /\ input[r].target = u /\ ControlOf(r) /\ EntitledTo(r) /\ Prepared(r)
            /\ rows'[u] = draft[r] /\ r \in wrote' \ wrote
            /\ \/ pc[r] = "create"
               \/ pc[r] = "save" /\ Found(u)
               \/ pc[r] = "upsert"
      <3>1. [rows[u] EXCEPT !.status = "deleted"].role = rows[u].role
        BY <2>1 DEF Row
      <3>2. rows'[u] # [rows[u] EXCEPT !.status = "deleted"] /\ rows'[u] # rows[u]
        BY <1>1, <3>1
      <3>3. QED
        BY <1>1, <3>2, Writers
    <2>3. pc[r] \in {"save", "upsert"} /\ Saves(r)
      BY <1>1, <2>2 DEF Prepared, Saves
    <2>4. CASE r \notin disturbed
      <3>1. draft[r] = Asked(rows[u], input[r])
        BY <1>1, <2>2, <2>3, <2>4 DEF AccountInvariant, Undisturbed
      <3>2. input[r].role # None /\ rows'[u].role = input[r].role
        BY <1>1, <2>1, <2>2, <3>1 DEF Asked, Row
      <3>3. input[r].op = "adminUpdate" /\ input[r].as = "admin"
        BY <2>2, <2>3, <3>2 DEF ControlOf, EntitledTo
      <3>4. QED
        BY <2>2, <2>3, <3>2, <3>3
    <2>5. QED
      BY <2>2, <2>3, <2>4
  <1> HIDE DEF Owned
  <1>2. AccountInvariant /\ [Next]_vars =>
          [\A u \in Users : rows[u].status # "absent" /\ rows'[u].role # rows[u].role =>
              Owned(u)]_vars
    BY <1>1
  <1>3. QED
    BY <1>2, AccountInvariantHolds, PTL DEF Spec, RoleChangesOwned, Owned
-----------------------------------------------------------------------------
(* The rows are written as UsersTable promises *)

LEMMA StatementWrites ==
  ASSUME AccountInvariant, NEW r \in Requests, CreateRow(r) \/ Upsert(r) \/ Save(r),
         Write(r, input[r].target, draft[r]), EmailFree(input[r].target, draft[r].email)
  PROVE  /\ input[r].target \in Users
         /\ pc[r] = "create" => Table!Insert(input[r].target)
         /\ pc[r] # "create" => Table!Save(input[r].target)
  <1> DEFINE u == input[r].target
  <1>1. /\ TypeOK /\ ControlOf(r) /\ Prepared(r)
        /\ pc[r] \in {"create", "save", "upsert"}
    BY DEF CreateRow, Upsert, Save, AccountInvariant, Entitlement
  <1>2. /\ u \in Users /\ draft[r] \in Row
        /\ draft[r].status = "live" /\ draft[r].email \in Emails
        /\ draft[r].role \in {"user", "admin"}
    BY <1>1 DEF TypeOK, ControlOf, Prepared, Row, Roles
  <1>3. draft[r] = [status |-> "live", email |-> draft[r].email, role |-> draft[r].role]
    BY <1>2 DEF Row
  <1>4. Table!Store(u, draft[r].email, draft[r].role)
    BY <1>3 DEF Table!Store, Table!Free, Table!Live, Write, EmailFree, Found
  <1>5. CASE pc[r] = "create"
    BY <1>1, <1>2, <1>4, <1>5 DEF Prepared, Table!Insert
  <1>6. CASE pc[r] \in {"save", "upsert"}
    BY <1>1, <1>2, <1>4, <1>6 DEF Prepared, Table!Save, Table!Roles
  <1>7. QED
    BY <1>1, <1>2, <1>5, <1>6

\* The user routes change rows and insert none.
LEMMA RouteWrites ==
  ASSUME AccountInvariant, NEW r \in Requests,
         GetByID(r) \/ Save(r) \/ Upsert(r) \/ DeleteRow(r), rows' # rows
  PROVE  input[r].target \in Users /\ Table!Change(input[r].target)
  <1>1. TypeOK /\ Handle(r) /\ pc[r] # "create"
    BY DEF AccountInvariant, Entitlement, Handle, GetByID, Save, Upsert, DeleteRow
  <1>2. CASE /\ CreateRow(r) \/ Upsert(r) \/ Save(r)
             /\ Write(r, input[r].target, draft[r])
             /\ EmailFree(input[r].target, draft[r].email)
    BY <1>1, <1>2, StatementWrites DEF Table!Change
  <1>3. CASE /\ DeleteRow(r) /\ Found(input[r].target)
             /\ Write(r, input[r].target, [rows[input[r].target] EXCEPT !.status = "deleted"])
    <2>1. input[r].target \in Users
      BY <1>3 DEF DeleteRow, AccountInvariant, Entitlement, ControlOf
    <2>2. Table!Delete(input[r].target)
      BY <1>1, <1>3, <2>1 DEF Write, Found, Table!Delete, Table!Live, TypeOK
    <2>3. QED
      BY <2>1, <2>2 DEF Table!Change
  <1>4. QED
    BY <1>1, <1>2, <1>3, Effects

LEMMA StepWrites ==
  AccountInvariant /\ [Next]_vars => [Table!Next]_rows
  <1> SUFFICES ASSUME AccountInvariant, [Next]_vars, ~ UNCHANGED rows PROVE Table!Next
    OBVIOUS
  <1>1. TypeOK
    BY DEF AccountInvariant, Entitlement
  <1>2. PICK r \in Requests : Handle(r)
    BY DEF Next, Terminating, vars
  <1>3. CASE GetByID(r) \/ Save(r) \/ Upsert(r) \/ DeleteRow(r)
    BY <1>3, RouteWrites DEF Table!Next
  <1>4. CASE CreateRow(r)
    <2>1. pc[r] = "create"
      BY <1>4 DEF CreateRow
    <2>2. Write(r, input[r].target, draft[r]) /\ EmailFree(input[r].target, draft[r].email)
      BY <1>1, <1>2, <1>4, <2>1, Effects DEF DeleteRow
    <2>3. QED
      BY <1>4, <2>1, <2>2, StatementWrites DEF Table!Next
  <1>5. QED
    BY <1>1, <1>2, <1>3, <1>4, Effects DEF Handle, Save, Upsert, DeleteRow

\* The account service writes the users table as the table promises: addresses are
\* taken only when free, and a row comes up once (repository.go:34-104).
THEOREM TableImplemented == Spec => UsersTableKept
  <1>1. Init => Table!Init
    <2> SUFFICES ASSUME Init PROVE Table!Init
      OBVIOUS
    <2>1. rows \in [Users -> Table!Row]
      BY DEF Init, Row, Roles, Table!Row, Table!Roles
    <2>2. ASSUME NEW u \in Users, Table!Live(u)
          PROVE  rows[u].email \in Emails /\ Table!Free(u, rows[u].email)
      <3>1. u \in Admins \cup Members
        BY <2>2 DEF Init, Seeded, Table!Live
      <3>2. rows[u].email \in Emails
        BY <2>2, <3>1 DEF Init, Seeded, Row
      <3>3. ASSUME NEW v \in Users \ {u}, Table!Live(v), rows[v].email = rows[u].email
            PROVE  FALSE
        BY <3>1, <3>3 DEF Init, Seeded, Table!Live
      <3>4. QED
        BY <3>2, <3>3 DEF Table!Free
    <2>3. QED
      BY <2>1, <2>2 DEF Table!Init
  <1>2. QED
    BY <1>1, StepWrites, AccountInvariantHolds, PTL DEF Spec, UsersTableKept, Table!Spec
=============================================================================
