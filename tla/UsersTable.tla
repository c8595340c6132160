----------------------------- MODULE UsersTable -----------------------------
(***************************************************************************)
(* What the users table promises, and all that the session and the user    *)
(* services may assume of one another: a row comes up once, live and with  *)
(* role user; from then on it may be rewritten, deleted and brought back,  *)
(* but it never vanishes; a step writes one row; and a row goes live, or   *)
(* takes an address, only when no other live row has that address at the   *)
(* moment.                                                                 *)
(***************************************************************************)
CONSTANTS Ids, Emails, None

VARIABLE table

Roles == {"user", "admin"}
Row == [status : {"absent", "live", "deleted"}, email : Emails \cup {None},
        role : Roles]

Live(u) == table[u].status = "live"
Free(u, e) == \A v \in Ids \ {u} : ~ (Live(v) /\ table[v].email = e)

Init ==
    /\ table \in [Ids -> Row]
    /\ \A u \in Ids : Live(u) => table[u].email \in Emails /\ Free(u, table[u].email)

Store(u, e, role) ==
    /\ Free(u, e)
    /\ table' = [table EXCEPT ![u] = [status |-> "live", email |-> e, role |-> role]]

\* A registration.
Insert(u) == table[u].status = "absent" /\ \E e \in Emails : Store(u, e, "user")

\* The user routes: a save, which may also revive a deleted row, and a delete.
Save(u) == /\ table[u].status # "absent"
           /\ \E e \in Emails, role \in Roles : Store(u, e, role)
Delete(u) == Live(u) /\ table' = [table EXCEPT ![u].status = "deleted"]
Change(u) == Save(u) \/ Delete(u)

Next == \E u \in Ids : Insert(u) \/ Change(u)

Spec == Init /\ [][Next]_table

\* What the two services make of it: a login finds at most one account
\* (auth/service.go:52, the unique index of the migration), also after an account was
\* deleted, its address taken by another one and a stale save tried to bring it back.
AddressesApart ==
    \A u, v \in Ids : Live(u) /\ Live(v) /\ table[u].email = table[v].email => u = v
=============================================================================
