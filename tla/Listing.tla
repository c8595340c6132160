------------------------------ MODULE Listing -------------------------------
(***************************************************************************)
(* GET /api/v1/users: how the query is read, the two statements that List  *)
(* runs, and a client that walks page by page until one comes short, while *)
(* other requests insert and delete accounts between any two statements.   *)
(*                                                                         *)
(* A row is its id and its created_at.  Text that is not a positive number *)
(* is written 0: parsePositiveInt treats it all alike.                     *)
(*                                                                         *)
(* Operators whose name ends in _Bug are what a slip in the code would     *)
(* make of the definition after them; they are not part of the             *)
(* specification.                                                          *)
(***************************************************************************)
EXTENDS Integers, Sequences, FiniteSets

CONSTANTS
    Ids,             \* the accounts that may exist
    MaxTime,         \* created_at is in 1 .. MaxTime
    MaxInt,          \* the largest int
    DefaultPerPage, MaxPerPage,
    MaxRaw,          \* the largest number in a query (a bound)
    MaxWrites        \* how often others write (a bound)

ASSUME ListingAssumption ==
    /\ IsFiniteSet(Ids)
    /\ MaxTime \in Nat /\ MaxInt \in Nat /\ MaxRaw \in Nat /\ MaxWrites \in Nat
    /\ DefaultPerPage \in 1 .. MaxPerPage /\ MaxPerPage \in 1 .. MaxInt

\* An int is wide enough to count the accounts.
ASSUME AccountsAssumption == Cardinality(Ids) < MaxInt

VARIABLES
    table,   \* the rows that are not deleted
    call,    \* the request that List works on; seen is history: what Select read
    client,  \* what the client has seen: [mode, got]
    writes,  \* how often others wrote
    past     \* history: [start, tied, written, deleted], of the walk

vars == <<table, call, client, writes, past>>

Row == [id : Ids, created : 1 .. MaxTime]
Tied(rows) == {x \in rows : \E y \in rows : y # x /\ y.created = x.created}
-----------------------------------------------------------------------------
(* The query *)

\* An int wraps around; a number that no int holds is refused by Atoi.
Wrap(n) == ((n + MaxInt + 1) % (2 * (MaxInt + 1))) - (MaxInt + 1)

\* ParsePositiveInt_Bug: 0 passes.
ParsePositiveInt_Bug(n, fallback) == IF n \in 0 .. MaxInt THEN n ELSE fallback
ParsePositiveInt(n, fallback) == IF n \in 1 .. MaxInt THEN n ELSE fallback

\* Clamp_Bug: nothing is too much.
Clamp_Bug(n) == n
Clamp(n) == IF n > MaxPerPage THEN MaxPerPage ELSE n

\* Offset_Bug: pages are counted from 0.
Offset_Bug(page, perPage) == Wrap(page * perPage)
Offset(page, perPage) == Wrap((page - 1) * perPage)

Ask(page, perPage) ==
    [pc |-> "count",
     page |-> ParsePositiveInt(page, 1),
     perPage |-> Clamp(ParsePositiveInt(perPage, DefaultPerPage)),
     total |-> 0, rows |-> << >>, seen |-> {}]
-----------------------------------------------------------------------------
(* The client *)

None == [pc |-> "none", page |-> 1, perPage |-> 1, total |-> 0, rows |-> << >>, seen |-> {}]

Init ==
    /\ table \in SUBSET Row
    /\ \A x, y \in table : x.id = y.id => x = y
    /\ call = None
    /\ client = [mode |-> "none", got |-> << >>]
    /\ writes = 0
    /\ past = [start |-> {}, tied |-> {}, written |-> FALSE, deleted |-> FALSE]

\* One page, somewhere.
Jump(page, perPage) ==
    /\ client.mode = "none"
    /\ client' = [client EXCEPT !.mode = "jump"]
    /\ call' = Ask(page, perPage)
    /\ UNCHANGED <<table, writes, past>>

StartWalk(perPage) ==
    /\ client.mode = "none"
    /\ client' = [client EXCEPT !.mode = "walk"]
    /\ call' = Ask(1, perPage)
    /\ past' = [past EXCEPT !.start = table, !.tied = Tied(table)]
    /\ UNCHANGED <<table, writes>>

\* The client believes the per_page of the answer.
WalkOn ==
    /\ client.mode = "walk" /\ call.pc = "answered"
    /\ client' = [mode |-> IF Len(call.rows) < call.perPage THEN "done" ELSE "walk",
                  got |-> client.got \o call.rows]
    /\ call' = IF Len(call.rows) < call.perPage THEN call
               ELSE Ask(call.page + 1, call.perPage)
    /\ UNCHANGED <<table, writes, past>>
-----------------------------------------------------------------------------
(* List *)

Count ==
    /\ call.pc = "count"
    /\ call' = [call EXCEPT !.total = Cardinality(table),
                            !.pc = IF table = {} THEN "answered" ELSE "select"]
    /\ UNCHANGED <<table, client, writes, past>>

\* The orders in which Postgres may hand out the rows: newest first, ties in any
\* order.  Orders_Bug: without an ORDER BY.
Enumerations(rows) ==
    {s \in [1 .. Cardinality(rows) -> rows] : \A i, j \in DOMAIN s : s[i] = s[j] => i = j}
Orders_Bug(rows) == Enumerations(rows)
Orders(rows) ==
    {s \in Enumerations(rows) :
        \A i, j \in DOMAIN s : i < j => s[i].created >= s[j].created}

\* gorm writes no OFFSET that is not positive.
Page(s, offset, limit) ==
    LET from == IF offset > 0 THEN offset ELSE 0
    IN  SubSeq(s, from + 1, IF from + limit < Len(s) THEN from + limit ELSE Len(s))

Select ==
    /\ call.pc = "select"
    /\ \E s \in Orders(table) :
         call' = [call EXCEPT !.rows = Page(s, Offset(call.page, call.perPage), call.perPage),
                              !.seen = table, !.pc = "answered"]
    /\ UNCHANGED <<table, client, writes, past>>

Fail ==
    /\ call.pc \in {"count", "select"}
    /\ call' = [call EXCEPT !.pc = "failed", !.total = 0]
    /\ UNCHANGED <<table, client, writes, past>>
-----------------------------------------------------------------------------
(* Others write *)

\* created_at is taken before the INSERT, by any of several processes: a row that
\* appears later may well be older.
Insert(i, t) ==
    /\ \A x \in table : x.id # i
    /\ table' = table \cup {[id |-> i, created |-> t]}
    /\ past' = [past EXCEPT !.written = TRUE, !.tied = @ \cup Tied(table')]

Delete(x) ==
    /\ x \in table
    /\ table' = table \ {x}
    /\ past' = [past EXCEPT !.written = TRUE, !.deleted = TRUE]

Write ==
    /\ call.pc \in {"count", "select", "answered"} /\ client.mode # "done"
    /\ writes < MaxWrites
    /\ writes' = writes + 1
    /\ \/ \E i \in Ids, t \in 1 .. MaxTime : Insert(i, t)
       \/ \E x \in table : Delete(x)
    /\ UNCHANGED <<call, client>>

Ended ==
    /\ client.mode = "done" \/ call.pc = "failed" \/ (client.mode = "jump" /\ call.pc = "answered")
    /\ UNCHANGED vars

Next ==
    \/ \E page, perPage \in 0 .. MaxRaw : Jump(page, perPage)
    \/ \E perPage \in 0 .. MaxRaw : StartWalk(perPage)
    \/ WalkOn \/ Count \/ Select \/ Fail
    \/ Write
    \/ Ended

Spec == Init /\ [][Next]_vars
-----------------------------------------------------------------------------
(* Properties *)

TypeOK ==
    /\ table \subseteq Row
    /\ DOMAIN call = DOMAIN None
    /\ call.pc \in {"none", "count", "select", "answered", "failed"}
    /\ call.page \in 1 .. MaxInt
    /\ call.perPage \in 1 .. MaxPerPage
    /\ call.total \in 0 .. Cardinality(Ids)
    /\ client.mode \in {"none", "jump", "walk", "done"}
    /\ writes \in 0 .. MaxWrites
    /\ \A x, y \in table : x.id = y.id => x = y

Elements(s) == {s[i] : i \in DOMAIN s}

\* A client that walks to the first short page has seen every account that was
\* there when it began, whatever is inserted meanwhile, as long as nothing is
\* deleted and no other account has the same created_at (repository.go:69-84).
WalkMissesNothing ==
    client.mode = "done" /\ ~ past.deleted =>
        past.start \ past.tied \subseteq Elements(client.got)

\* When nobody writes and no two accounts were created at once, it has seen every
\* account once, newest first, and the total was right.
QuietWalkExact ==
    client.mode = "done" /\ ~ past.written /\ past.tied = {} =>
        /\ Elements(client.got) = past.start
        /\ Len(client.got) = Cardinality(past.start)
        /\ \A i \in 2 .. Len(client.got) : client.got[i - 1].created > client.got[i].created
        /\ call.total = Cardinality(past.start)

\* A page below MaxInt \div MaxPerPage is the one that was asked for: as many rows
\* come before it in the table as the pages before it hold, and it is not longer
\* than MaxPerPage.  Further pages may wrap around to any place, and page 1 comes in
\* place of one that is no int (pagination.go:20-55).
PageIsWhereAsked ==
    call.pc = "answered" /\ call.page - 1 <= MaxInt \div MaxPerPage =>
        LET before == (call.page - 1) * call.perPage
            n == Cardinality(call.seen)
        IN  /\ Len(call.rows) = IF n <= before THEN 0
                                ELSE IF n - before < call.perPage THEN n - before
                                ELSE call.perPage
            /\ Len(call.rows) <= MaxPerPage
            /\ \A i \in DOMAIN call.rows :
                 LET x == call.rows[i]
                     newer == {y \in call.seen : y.created > x.created}
                     older == {y \in call.seen : y.created < x.created}
                 IN  Cardinality(newer) < before + i /\ before + i <= n - Cardinality(older)
-----------------------------------------------------------------------------
(* The inductive invariant *)

\* Until it selects, List has no rows: what Count answers at once is an empty page
\* of an empty table.
Blank == call.pc \in {"none", "count", "select"} => call.rows = << >> /\ call.seen = {}

\* How many rows come before the page, and which rows before a row.
Before == (call.page - 1) * call.perPage
Newer(x, rows) == {y \in rows : y.created > x.created}

\* What a walk that nobody disturbed by a delete has still to see lies ahead of it:
\* an insert only pushes it further back.
Walking == client.mode = "walk" /\ call.pc \in {"count", "select", "answered"}
Full == Len(call.rows) >= call.perPage
Owed == (past.start \ past.tied) \ Elements(client.got)
Ahead(x, k) == k <= Cardinality(Newer(x, table))
OwedIsAhead ==
    Walking /\ ~ past.deleted =>
        /\ past.start \subseteq table /\ Tied(table) \subseteq past.tied
        /\ Before <= Cardinality(Ids)
        /\ call.pc # "answered" => \A x \in Owed : Ahead(x, Before)
        /\ call.pc = "answered" /\ ~ Full => Owed \subseteq Elements(call.rows)
        /\ call.pc = "answered" /\ Full =>
             /\ Before + call.perPage <= Cardinality(Ids)
             /\ \A x \in Owed \ Elements(call.rows) : Ahead(x, Before + call.perPage)

\* A walk that nobody disturbed at all has got the rows of the pages before, in
\* their order.
Quiet == ~ past.written /\ past.tied = {}
Ranked(s, k) ==
    \A i \in DOMAIN s :
        s[i] \in past.start /\ Cardinality(Newer(s[i], past.start)) = k + i - 1
QuietIsRanked ==
    /\ Quiet /\ Walking =>
         /\ table = past.start /\ Tied(table) = {}
         /\ Before <= Cardinality(table) /\ Len(client.got) = Before
         /\ Ranked(client.got, 0)
         /\ call.pc # "count" => call.total = Cardinality(table)
         /\ call.pc = "answered" =>
              /\ Ranked(call.rows, Before)
              /\ Len(call.rows) = IF Cardinality(table) - Before < call.perPage
                                    THEN Cardinality(table) - Before ELSE call.perPage
    /\ Quiet /\ client.mode = "done" =>
         /\ IsFiniteSet(past.start) /\ Len(client.got) = Cardinality(past.start)
         /\ Ranked(client.got, 0)
         /\ call.total = Cardinality(past.start)

Collected ==
    /\ call.rows \in Seq(Row) /\ client.got \in Seq(Row)
    /\ DOMAIN client = {"mode", "got"}
    /\ DOMAIN past = {"start", "tied", "written", "deleted"}
    /\ client.mode = "none" => client.got = << >>
    /\ client.mode = "done" => call.pc = "answered"
    /\ past.deleted => past.written

\* Why no write between the two statements moves a page, and why a walk loses
\* nothing: a page holds what Select alone has read (repository.go:69-84).
ListInvariant ==
    /\ TypeOK /\ Blank /\ PageIsWhereAsked
    /\ Collected /\ OwedIsAhead /\ QuietIsRanked
    /\ WalkMissesNothing
=============================================================================
