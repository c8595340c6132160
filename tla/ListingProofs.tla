---------------------------- MODULE ListingProofs ---------------------------
(***************************************************************************)
(* Proofs about Listing, for tables of any size, every width of int and    *)
(* every limit of a page: where the offset of a page is the one that was   *)
(* meant, that the page is the one that was asked for whatever others      *)
(* write meanwhile, that a walk over the pages misses nothing that no      *)
(* delete moved, and that a walk which nobody disturbs is exact.           *)
(***************************************************************************)
EXTENDS Listing, FiniteSetTheorems, SequenceTheorems, TLAPS

\* Arithmetic.
LEMMA TimesUp ==
  ASSUME NEW a \in Nat, NEW b \in Nat, NEW c \in Nat, NEW d \in Nat, a <= c, b <= d
  PROVE  a * b \in 0 .. c * d
  <1>1. a * b \in Nat /\ a * b <= a * d
    OBVIOUS
  <1>2. a * d <= c * d /\ a * d \in Nat /\ c * d \in Nat
    OBVIOUS
  <1>3. QED
    BY <1>1, <1>2

LEMMA QuotientFits ==
  ASSUME NEW m \in Nat, NEW c \in Nat, c > 0
  PROVE  m \div c \in Nat /\ (m \div c) * c <= m
  OBVIOUS

\* What an int can hold does not wrap.
LEMMA WrapKeeps ==
  ASSUME NEW k \in 0 .. MaxInt
  PROVE  Wrap(k) = k
  <1>1. MaxInt \in Nat
    BY ListingAssumption
  <1>2. k + MaxInt + 1 \in 0 .. 2 * (MaxInt + 1) - 1
    BY <1>1
  <1>3. \A x, y \in Nat : x < y => x % y = x
    OBVIOUS
  <1>4. (k + MaxInt + 1) % (2 * (MaxInt + 1)) = k + MaxInt + 1
    BY <1>1, <1>2, <1>3
  <1>5. QED
    BY <1>1, <1>4 DEF Wrap

\* Whatever a query says, the page is one from 1 on and has at least one row and
\* no more than MaxPerPage (pagination.go:33-55).
LEMMA AskIsUsable ==
  ASSUME NEW page, NEW perPage
  PROVE  /\ Ask(page, perPage).page \in 1 .. MaxInt
         /\ Ask(page, perPage).perPage \in 1 .. MaxPerPage
         /\ Ask(page, perPage).total = 0
         /\ Ask(page, perPage).pc = "count"
         /\ DOMAIN Ask(page, perPage) = DOMAIN None
  <1>1. 1 \in 1 .. MaxInt /\ DefaultPerPage \in 1 .. MaxInt /\ MaxInt \in Nat
        /\ MaxPerPage \in 1 .. MaxInt
    BY ListingAssumption
  <1>2. ParsePositiveInt(page, 1) \in 1 .. MaxInt
    BY <1>1 DEF ParsePositiveInt
  <1>3. ParsePositiveInt(perPage, DefaultPerPage) \in 1 .. MaxInt
    BY <1>1 DEF ParsePositiveInt
  <1>4. Clamp(ParsePositiveInt(perPage, DefaultPerPage)) \in 1 .. MaxPerPage
    BY <1>1, <1>3 DEF Clamp
  <1>5. QED
    BY <1>2, <1>4 DEF Ask, None

\* A table has no more rows than there are ids.
LEMMA TableFinite ==
  ASSUME TypeOK
  PROVE  /\ IsFiniteSet(table) /\ Cardinality(table) \in Nat
         /\ Cardinality(Ids) \in Nat /\ Cardinality(table) <= Cardinality(Ids)
         /\ \A y \in table : y.created \in Int
  <1>1. [x \in table |-> x.id] \in Injection(table, Ids)
    BY DEF TypeOK, Row, Injection, IsInjective
  <1>2. IsFiniteSet(table) /\ Cardinality(table) <= Cardinality(Ids)
    BY <1>1, ListingAssumption, FS_Injection
  <1>3. \A y \in table : y.created \in Int
    BY ListingAssumption DEF TypeOK, Row
  <1>4. QED
    BY <1>2, <1>3, ListingAssumption, FS_CardinalityType

\* Types.
LEMMA InitTypes == Init => TypeOK
  <1> SUFFICES ASSUME Init PROVE TypeOK
    OBVIOUS
  <1>1. 1 \in 1 .. MaxInt /\ 1 \in 1 .. MaxPerPage /\ MaxWrites \in Nat
    BY ListingAssumption
  <1>2. Cardinality(Ids) \in Nat
    BY ListingAssumption, FS_CardinalityType
  <1>3. QED
    BY <1>1, <1>2 DEF Init, None, TypeOK

LEMMA StepTypes == TypeOK /\ [Next]_vars => TypeOK'
  <1> SUFFICES ASSUME TypeOK, [Next]_vars PROVE TypeOK'
    OBVIOUS
  <1>1. Cardinality(Ids) \in Nat /\ MaxWrites \in Nat
    BY ListingAssumption, FS_CardinalityType
  <1>2. ASSUME NEW page, NEW perPage, Jump(page, perPage) PROVE TypeOK'
    BY <1>1, <1>2, AskIsUsable DEF Jump, TypeOK
  <1>3. ASSUME NEW perPage, StartWalk(perPage) PROVE TypeOK'
    BY <1>1, <1>3, AskIsUsable DEF StartWalk, TypeOK
  <1>4. CASE WalkOn
    BY <1>1, <1>4, AskIsUsable DEF WalkOn, TypeOK
  <1>5. CASE Count
    BY <1>5, TableFinite DEF Count, TypeOK
  <1>6. CASE Select
    BY <1>6 DEF Select, TypeOK
  <1>7. CASE Fail
    BY <1>1, <1>7 DEF Fail, TypeOK
  <1>8. CASE Write
    <2>1. writes' \in 0 .. MaxWrites /\ UNCHANGED <<call, client>>
      BY <1>1, <1>8 DEF Write, TypeOK
    <2>2. ASSUME NEW i \in Ids, NEW t \in 1 .. MaxTime, Insert(i, t)
          PROVE  table' \subseteq Row /\ \A x, y \in table' : x.id = y.id => x = y
      BY <2>2 DEF Insert, TypeOK, Row
    <2>3. ASSUME NEW x \in table, Delete(x)
          PROVE  table' \subseteq Row /\ \A y, z \in table' : y.id = z.id => y = z
      BY <2>3 DEF Delete, TypeOK
    <2>4. QED
      BY <1>8, <2>1, <2>2, <2>3 DEF Write, TypeOK
  <1>9. CASE Ended \/ UNCHANGED vars
    BY <1>9 DEF Ended, vars, TypeOK
  <1>10. QED
    BY <1>2, <1>3, <1>4, <1>5, <1>6, <1>7, <1>8, <1>9 DEF Next

\* An offset is the number of rows that the pages before hold, for every width of
\* int, as long as the page is no further than MaxInt \div MaxPerPage: that bound,
\* which no check of the code enforces, is all that keeps (Page - 1) * PerPage from
\* wrapping around (pagination.go:20-25).
THEOREM OffsetExact ==
  ASSUME NEW page \in 1 .. MaxInt, NEW perPage \in 1 .. MaxPerPage,
         page - 1 <= MaxInt \div MaxPerPage
  PROVE  Offset(page, perPage) = (page - 1) * perPage
  <1>1. MaxInt \in Nat /\ MaxPerPage \in Nat /\ MaxPerPage > 0
    BY ListingAssumption
  <1>2. MaxInt \div MaxPerPage \in Nat /\ (MaxInt \div MaxPerPage) * MaxPerPage <= MaxInt
    BY <1>1, QuotientFits
  <1>3. (page - 1) * perPage \in 0 .. (MaxInt \div MaxPerPage) * MaxPerPage
    <2>1. page - 1 \in Nat /\ perPage \in Nat /\ perPage <= MaxPerPage
      BY <1>1
    <2>2. QED
      BY <1>1, <1>2, <2>1, TimesUp
  <1>4. (page - 1) * perPage \in 0 .. MaxInt
    BY <1>1, <1>2, <1>3
  <1>5. QED
    BY <1>4, WrapKeeps DEF Offset

\* An order of the rows leaves none out.
LEMMA OrderIsOnto ==
  ASSUME TypeOK, NEW s \in Orders(table)
  PROVE  /\ s \in [1 .. Cardinality(table) -> table]
         /\ \A y \in table : \E j \in 1 .. Cardinality(table) : s[j] = y
  <1> DEFINE n == Cardinality(table)
  <1>1. s \in Injection(1 .. n, table)
    BY DEF Orders, Enumerations, Injection, IsInjective
  <1>2. Cardinality(1 .. n) = n
    BY TableFinite, FS_Interval
  <1>3. s \in Surjection(1 .. n, table)
    BY <1>1, <1>2, TableFinite, FS_Injection
  <1>4. QED
    BY <1>1, <1>3 DEF Surjection, Injection

\* Rows in the order of the statement: those that are newer than the one at place p
\* are all before it, and those that are older all behind it.
LEMMA PlaceInOrder ==
  ASSUME TypeOK, NEW s \in Orders(table), NEW p \in 1 .. Cardinality(table)
  PROVE  /\ Cardinality({y \in table : y.created > s[p].created}) < p
         /\ p <= Cardinality(table) - Cardinality({y \in table : y.created < s[p].created})
  <1> DEFINE n == Cardinality(table)
             newer == {y \in table : y.created > s[p].created}
             older == {y \in table : y.created < s[p].created}
             Place(y) == CHOOSE j \in 1 .. n : s[j] = y
  <1>1. IsFiniteSet(table) /\ n \in Nat /\ \A y \in table : y.created \in Int
    BY TableFinite
  <1>2. /\ s \in [1 .. n -> table]
        /\ \A i, j \in 1 .. n : s[i] = s[j] => i = j
        /\ \A i, j \in 1 .. n : i < j => s[i].created >= s[j].created
    BY DEF Orders, Enumerations
  <1>3. \A y \in table : Place(y) \in 1 .. n /\ s[Place(y)] = y
    BY OrderIsOnto
  <1> HIDE DEF Place
  <1>4. Cardinality(newer) <= p - 1
    <2>1. \A y \in newer : Place(y) \in 1 .. p - 1
      <3>1. SUFFICES ASSUME NEW y \in newer, Place(y) >= p PROVE FALSE
        BY <1>1, <1>3
      <3>2. s[p].created >= s[Place(y)].created
        BY <1>1, <1>2, <1>3, <3>1
      <3>3. s[Place(y)] = y /\ y.created > s[p].created
        BY <1>3
      <3>4. QED
        BY <1>1, <1>2, <3>2, <3>3
    <2>2. [y \in newer |-> Place(y)] \in Injection(newer, 1 .. p - 1)
      BY <1>3, <2>1 DEF Injection, IsInjective
    <2>3. IsFiniteSet(1 .. p - 1) /\ Cardinality(1 .. p - 1) = p - 1
      <3>1. p \in Int /\ p - 1 \in Int /\ p >= 1
        BY <1>1
      <3>2. QED
        BY <3>1, FS_Interval
    <2>4. QED
      BY <2>2, <2>3, FS_Injection
  <1>5. Cardinality(older) <= n - p
    <2>1. \A y \in older : Place(y) \in p + 1 .. n
      <3>1. SUFFICES ASSUME NEW y \in older, Place(y) <= p PROVE FALSE
        BY <1>1, <1>3
      <3>2. s[Place(y)].created >= s[p].created
        BY <1>1, <1>2, <1>3, <3>1
      <3>3. s[Place(y)] = y /\ y.created < s[p].created
        BY <1>3
      <3>4. QED
        BY <1>1, <1>2, <3>2, <3>3
    <2>2. [y \in older |-> Place(y)] \in Injection(older, p + 1 .. n)
      BY <1>3, <2>1 DEF Injection, IsInjective
    <2>3. IsFiniteSet(p + 1 .. n) /\ Cardinality(p + 1 .. n) = n - p
      <3>1. n \in Int /\ p + 1 \in Int /\ p <= n
        BY <1>1
      <3>2. QED
        BY <3>1, FS_Interval
    <2>4. QED
      BY <2>2, <2>3, FS_Injection
  <1>6. IsFiniteSet(newer) /\ IsFiniteSet(older)
    BY <1>1, FS_Subset
  <1>7. Cardinality(newer) \in Nat /\ Cardinality(older) \in Nat
    BY <1>6, FS_CardinalityType
  <1>8. QED
    BY <1>1, <1>4, <1>5, <1>7

\* A row that shares its time with no other has one place in every order.
LEMMA RankOfUntied ==
  ASSUME TypeOK, NEW s \in Orders(table), NEW p \in 1 .. Cardinality(table),
         s[p] \notin Tied(table)
  PROVE  Cardinality(Newer(s[p], table)) = p - 1
  <1> DEFINE n == Cardinality(table)
             newer == Newer(s[p], table)
             older == {y \in table : y.created < s[p].created}
  <1>1. /\ IsFiniteSet(table) /\ n \in Nat
        /\ s[p] \in table
        /\ \A y \in table : y.created \in Int
    BY TableFinite, OrderIsOnto
  <1>2. newer \cup older = table \ {s[p]} /\ newer \cap older = {}
    BY <1>1 DEF Tied, Newer
  <1>3. Cardinality(table \ {s[p]}) = n - 1
    BY <1>1, FS_RemoveElement
  <1>4. /\ IsFiniteSet(newer) /\ IsFiniteSet(older)
        /\ Cardinality(newer) \in Nat /\ Cardinality(older) \in Nat
    <2>1. IsFiniteSet(newer) /\ IsFiniteSet(older)
      BY <1>1, FS_Subset DEF Newer
    <2>2. QED
      BY <2>1, FS_CardinalityType
  <1>5. Cardinality(newer \cap older) = 0
    BY <1>2, FS_EmptySet
  <1>6. Cardinality(newer) + Cardinality(older) = n - 1
    <2> HIDE DEF newer, older, n
    <2>1. Cardinality(newer \cup older)
            = Cardinality(newer) + Cardinality(older) - Cardinality(newer \cap older)
      <3>1. \A S, T : IsFiniteSet(S) /\ IsFiniteSet(T) =>
              Cardinality(S \cup T) = Cardinality(S) + Cardinality(T) - Cardinality(S \cap T)
        BY FS_Union
      <3>2. IsFiniteSet(newer) /\ IsFiniteSet(older)
        BY <1>4
      <3>3. QED
        BY <3>1, <3>2, Zenon
    <2>2. Cardinality(newer \cup older) = n - 1
      BY <1>2, <1>3, Zenon
    <2>3. QED
      BY <1>4, <1>5, <2>1, <2>2
  <1>7. Cardinality(newer) < p /\ p <= n - Cardinality(older)
    BY PlaceInOrder DEF Newer
  <1>8. QED
    BY <1>1, <1>4, <1>6, <1>7

\* An insert moves no row forward.
LEMMA NewerGrows ==
  ASSUME NEW S, NEW T, IsFiniteSet(T), S \subseteq T, NEW x
  PROVE  /\ Cardinality(Newer(x, S)) \in Nat /\ Cardinality(Newer(x, T)) \in Nat
         /\ Cardinality(Newer(x, S)) <= Cardinality(Newer(x, T))
  <1>1. Newer(x, S) \subseteq Newer(x, T) /\ Newer(x, T) \subseteq T
    BY DEF Newer
  <1>2. IsFiniteSet(Newer(x, T))
    BY <1>1, FS_Subset
  <1>3. QED
    BY <1>1, <1>2, FS_Subset, FS_CardinalityType

\* What Page cuts out of an order: as many rows as there are from the offset on,
\* and no more than the limit.
LEMMA PageCuts ==
  ASSUME TypeOK, NEW s \in Orders(table), NEW from \in Nat, NEW limit \in Nat
  PROVE  LET n == Cardinality(table)
             rows == Page(s, from, limit)
         IN  /\ Len(rows) = IF n <= from THEN 0
                            ELSE IF n - from < limit THEN n - from ELSE limit
             /\ \A i \in 1 .. Len(rows) : from + i \in 1 .. n /\ rows[i] = s[from + i]
             /\ DOMAIN rows = 1 .. Len(rows) /\ rows \in Seq(table)
  <1> DEFINE n == Cardinality(table)
  <1>1. n \in Nat /\ s \in [1 .. n -> table]
    BY TableFinite DEF Orders, Enumerations
  <1> HIDE DEF n
  <1> DEFINE to == IF from + limit < n THEN from + limit ELSE n
  <1>2. Len(s) = n /\ DOMAIN s = 1 .. n
    BY <1>1
  <1>3. Page(s, from, limit) = SubSeq(s, from + 1, to)
    BY <1>2 DEF Page
  <1>4. \A i \in from + 1 .. to : i \in 1 .. n /\ s[i] \in table
    BY <1>1
  <1>5. /\ Len(SubSeq(s, from + 1, to)) = IF from + 1 <= to THEN to - from ELSE 0
        /\ \A i \in 1 .. to - from : SubSeq(s, from + 1, to)[i] = s[from + i]
        /\ DOMAIN SubSeq(s, from + 1, to) = 1 .. Len(SubSeq(s, from + 1, to))
        /\ SubSeq(s, from + 1, to) \in Seq(table)
    <2> HIDE DEF to
    <2>1. to \in Int
      BY <1>1 DEF to
    <2>2. /\ Len(SubSeq(s, from + 1, to))
               = IF from + 1 <= to THEN to - (from + 1) + 1 ELSE 0
          /\ \A i \in 1 .. to - (from + 1) + 1 :
               SubSeq(s, from + 1, to)[i] = s[from + 1 + i - 1]
          /\ SubSeq(s, from + 1, to) \in Seq(table)
      BY <1>4, <2>1, SubSeqProperties
    <2>3. \A i \in 1 .. to - from : from + 1 + i - 1 = from + i
      BY <2>1
    <2>4. to - (from + 1) + 1 = to - from
      BY <2>1
    <2>5. QED
      BY <2>2, <2>3, <2>4
  <1>6. QED
    BY <1>1, <1>3, <1>4, <1>5 DEF n

\* Select is the only statement that reads rows.
LEMMA SelectCuts == TypeOK /\ Select => PageIsWhereAsked'
  <1> SUFFICES ASSUME TypeOK, Select, call.page - 1 <= MaxInt \div MaxPerPage
               PROVE  PageIsWhereAsked'
    <2>1. TypeOK /\ Select => call'.page = call.page
      BY DEF Select, TypeOK, None
    <2>2. QED
      BY <2>1 DEF PageIsWhereAsked
  <1> DEFINE n == Cardinality(table)
             limit == call.perPage
             before == (call.page - 1) * call.perPage
  <1>1. PICK s \in Orders(table) :
          call' = [call EXCEPT !.rows = Page(s, Offset(call.page, limit), limit),
                               !.seen = table, !.pc = "answered"]
    BY DEF Select
  <1>2. Offset(call.page, limit) = before
    BY OffsetExact DEF TypeOK
  <1>3. /\ call.page \in 1 .. MaxInt /\ limit \in 1 .. MaxPerPage
        /\ MaxInt \in Nat /\ MaxPerPage \in Nat
    BY ListingAssumption DEF TypeOK
  <1>4. before \in Nat /\ limit \in Nat /\ limit <= MaxPerPage
    BY <1>3
  <1>5. n \in Nat
    BY TableFinite
  <1> DEFINE rows == Page(s, before, limit)
  <1>6. /\ Len(rows) = IF n <= before THEN 0 ELSE IF n - before < limit THEN n - before ELSE limit
        /\ \A i \in 1 .. Len(rows) : before + i \in 1 .. n /\ rows[i] = s[before + i]
        /\ DOMAIN rows = 1 .. Len(rows)
    <2> HIDE DEF before, limit
    <2>1. QED
      BY <1>4, PageCuts
  <1>7. /\ call'.rows = rows /\ call'.seen = table
        /\ call'.page = call.page /\ call'.perPage = limit
    BY <1>1, <1>2 DEF TypeOK
  <1> HIDE DEF rows, before, limit, n
  <1>8. \A i \in DOMAIN rows :
           /\ Cardinality({y \in table : y.created > rows[i].created}) < before + i
           /\ before + i <= n - Cardinality({y \in table : y.created < rows[i].created})
    BY <1>6, PlaceInOrder DEF n
  <1>9. Len(rows) <= MaxPerPage
    BY <1>3, <1>4, <1>5, <1>6
  <1>10. QED
    BY <1>6, <1>7, <1>8, <1>9 DEF PageIsWhereAsked, before, limit, n

\* An empty page of an empty table is where it was asked for.
LEMMA CountIsRight ==
  TypeOK /\ Blank /\ Count => PageIsWhereAsked' /\ Blank'
  <1> SUFFICES ASSUME TypeOK, Blank, Count PROVE PageIsWhereAsked' /\ Blank'
    OBVIOUS
  <1>1. /\ call'.rows = << >> /\ call'.seen = {}
        /\ call'.page \in 1 .. MaxInt /\ call'.perPage \in 1 .. MaxPerPage
    BY DEF Count, Blank, TypeOK, None
  <1>2. Len(call'.rows) = 0 /\ DOMAIN call'.rows = {} /\ Cardinality(call'.seen) = 0
    BY <1>1, FS_EmptySet
  <1>3. 0 <= (call'.page - 1) * call'.perPage
    BY <1>1, ListingAssumption
  <1>4. MaxPerPage >= 0
    BY ListingAssumption
  <1>5. QED
    BY <1>1, <1>2, <1>3, <1>4 DEF PageIsWhereAsked, Blank

\* Of all steps, only those two answer.
LEMMA StepPages ==
  TypeOK /\ Blank /\ PageIsWhereAsked /\ [Next]_vars => Blank' /\ PageIsWhereAsked'
  <1> SUFFICES ASSUME TypeOK, Blank, PageIsWhereAsked, [Next]_vars
               PROVE  Blank' /\ PageIsWhereAsked'
    OBVIOUS
  <1>1. ASSUME NEW page, NEW perPage, call' = Ask(page, perPage)
        PROVE  Blank' /\ PageIsWhereAsked'
    BY <1>1 DEF Ask, Blank, PageIsWhereAsked
  <1>2. CASE UNCHANGED call
    BY <1>2 DEF Blank, PageIsWhereAsked
  <1>3. CASE \E page, perPage \in 0 .. MaxRaw : Jump(page, perPage) \/ StartWalk(perPage)
    BY <1>1, <1>3 DEF Jump, StartWalk
  <1>4. CASE WalkOn
    BY <1>1, <1>2, <1>4 DEF WalkOn
  <1>5. CASE Count
    BY <1>5, CountIsRight
  <1>6. CASE Select
    BY <1>6, SelectCuts DEF Select, Blank, TypeOK, None
  <1>7. CASE Fail
    BY <1>7 DEF Fail, Blank, PageIsWhereAsked, TypeOK, None
  <1>8. CASE Write \/ Ended \/ UNCHANGED vars
    BY <1>2, <1>8 DEF Write, Ended, vars
  <1>9. QED
    BY <1>3, <1>4, <1>5, <1>6, <1>7, <1>8 DEF Next

-----------------------------------------------------------------------------
(* A walk *)

\* The page after a full one is asked for as it should be, and its offset is the
\* number of rows before it.
LEMMA NextPage ==
  ASSUME TypeOK, Before + call.perPage <= Cardinality(Ids)
  PROVE  /\ Ask(call.page + 1, call.perPage).page = call.page + 1
         /\ Ask(call.page + 1, call.perPage).perPage = call.perPage
         /\ call.page * call.perPage = Before + call.perPage
  <1>1. /\ call.page \in Nat /\ call.page >= 1 /\ call.perPage \in 1 .. MaxPerPage
        /\ MaxPerPage \in 1 .. MaxInt /\ MaxInt \in Nat /\ Cardinality(Ids) \in Nat
        /\ Cardinality(Ids) < MaxInt
    BY ListingAssumption, AccountsAssumption, TableFinite DEF TypeOK
  <1>2. call.page * call.perPage = Before + call.perPage
    <2>1. \A a, b \in Int : a * b = (a - 1) * b + b
      OBVIOUS
    <2>2. QED
      BY <1>1, <2>1 DEF Before
  <1>3. call.page <= call.page * call.perPage
    <2>1. \A a, b \in Nat : b >= 1 => a <= a * b
      OBVIOUS
    <2>2. QED
      BY <1>1, <2>1
  <1>4. call.page + 1 \in 1 .. MaxInt
    <2>1. call.page < MaxInt
      <3>1. call.page * call.perPage \in Int
        BY <1>1
      <3>2. QED
        BY <1>1, <1>2, <1>3, <3>1
    <2>2. QED
      BY <1>1, <2>1
  <1>5. call.perPage \in 1 .. MaxInt /\ ~ (call.perPage > MaxPerPage)
    BY <1>1
  <1>6. QED
    BY <1>2, <1>4, <1>5 DEF Ask, ParsePositiveInt, Clamp

\* What Select reads for a page that is not beyond the accounts.
LEMMA SelectReads ==
  ASSUME TypeOK, Select, Before <= Cardinality(Ids)
  PROVE  \E s \in Orders(table) :
           /\ call'.rows = Page(s, Before, call.perPage)
           /\ call'.page = call.page /\ call'.perPage = call.perPage
           /\ call'.total = call.total /\ call'.pc = "answered"
           /\ UNCHANGED <<table, client, writes, past>>
           /\ Before \in Nat /\ call.perPage \in Nat
  <1>1. /\ call.page \in 1 .. MaxInt /\ call.perPage \in 1 .. MaxPerPage
        /\ MaxInt \in Nat /\ MaxPerPage \in Nat /\ Cardinality(Ids) \in Nat
        /\ Cardinality(Ids) < MaxInt
    BY ListingAssumption, AccountsAssumption, TableFinite DEF TypeOK
  <1>2. Before \in Nat /\ call.perPage \in Nat
    <2>1. call.page - 1 \in Nat /\ call.perPage \in Nat
      BY <1>1
    <2>2. QED
      BY <2>1 DEF Before
  <1>3. Offset(call.page, call.perPage) = Before
    <2>1. Before \in 0 .. MaxInt
      BY <1>1, <1>2
    <2>2. QED
      BY <2>1, WrapKeeps DEF Offset, Before
  <1>4. QED
    BY <1>2, <1>3 DEF Select, TypeOK, None

\* A row that lies ahead and has a time of its own is on the page, or behind it.
LEMMA SelectOwed ==
  ASSUME TypeOK, OwedIsAhead, Select
  PROVE  OwedIsAhead'
  <1> SUFFICES ASSUME Walking, ~ past.deleted
               PROVE  OwedIsAhead'
    BY DEF OwedIsAhead, Walking, Select
  <1> DEFINE n == Cardinality(table)
             limit == call.perPage
  <1>1. /\ past.start \subseteq table /\ Tied(table) \subseteq past.tied
        /\ Before <= Cardinality(Ids)
        /\ \A x \in Owed : Before <= Cardinality(Newer(x, table))
    BY DEF OwedIsAhead, Ahead, Select
  <1>2. PICK s \in Orders(table) :
          /\ call'.rows = Page(s, Before, limit)
          /\ call'.page = call.page /\ call'.perPage = limit
          /\ call'.total = call.total /\ call'.pc = "answered"
          /\ UNCHANGED <<table, client, writes, past>>
          /\ Before \in Nat /\ limit \in Nat
    BY <1>1, SelectReads
  <1>3. n \in Nat /\ n <= Cardinality(Ids) /\ Cardinality(Ids) \in Nat
    BY TableFinite
  <1> DEFINE rows == call'.rows
  <1>4. /\ Len(rows) = IF n <= Before THEN 0 ELSE IF n - Before < limit THEN n - Before ELSE limit
        /\ \A i \in 1 .. Len(rows) : Before + i \in 1 .. n /\ rows[i] = s[Before + i]
        /\ DOMAIN rows = 1 .. Len(rows)
    <2> HIDE DEF limit
    <2>1. rows = Page(s, Before, limit) /\ Before \in Nat /\ limit \in Nat
      BY <1>2
    <2> HIDE DEF rows
    <2>2. QED
      BY <2>1, PageCuts
  <1> HIDE DEF rows, n, limit
  <1>5. Before' = Before /\ Owed' = Owed
    BY <1>2 DEF Before, Owed, limit
  <1>6. ASSUME NEW x \in Owed, x \notin Elements(rows)
        PROVE  Len(rows) >= limit /\ Before + limit <= Cardinality(Newer(x, table))
    <2>1. x \in table /\ x \notin Tied(table)
      BY <1>1, <1>6 DEF Owed
    <2>2. PICK p \in 1 .. n : s[p] = x
      BY <2>1, OrderIsOnto DEF n
    <2>3. Cardinality(Newer(x, table)) = p - 1
      BY <2>1, <2>2, RankOfUntied DEF n
    <2>4. Before < p
      BY <1>1, <1>2, <1>3, <1>6, <2>2, <2>3
    <2>5. p > Before + limit
      <3>1. SUFFICES ASSUME p <= Before + limit PROVE FALSE
        BY <1>2, <1>3, <2>2
      <3>2. p - Before \in 1 .. Len(rows)
        BY <1>2, <1>3, <1>4, <2>2, <2>4, <3>1
      <3>3. rows[p - Before] = s[Before + (p - Before)] /\ Before + (p - Before) = p
        BY <1>2, <1>4, <3>2
      <3>4. x \in Elements(rows)
        BY <1>4, <2>2, <3>2, <3>3 DEF Elements
      <3>5. QED
        BY <1>6, <3>4
    <2>6. QED
      BY <1>2, <1>3, <1>4, <2>2, <2>3, <2>5
  <1>7. Len(rows) >= limit => limit = 0 \/ Before + limit <= n
    BY <1>2, <1>3, <1>4
  <1>8. limit \in 1 .. MaxPerPage
    BY DEF TypeOK, limit
  <1>9. Len(rows) >= limit => Before + limit <= Cardinality(Ids)
    BY <1>2, <1>3, <1>7, <1>8
  <1>10. (Owed \ Elements(call.rows))' = Owed \ Elements(rows)
    BY <1>5 DEF Elements, rows
  <1>11. Full' <=> Len(rows) >= limit
    BY <1>2 DEF Full, rows
  <1>12. (Before + call.perPage)' = Before + limit /\ Before' <= Cardinality(Ids)
    BY <1>1, <1>2, <1>5
  <1>13. /\ past'.start \subseteq table' /\ Tied(table)' \subseteq past'.tied
         /\ call'.pc = "answered"
    BY <1>1, <1>2 DEF Tied
  <1>14. Full' => \A x \in (Owed \ Elements(call.rows))' :
                     (Before + call.perPage)' <= Cardinality(Newer(x, table))'
    <2>1. ASSUME Full', NEW x \in (Owed \ Elements(call.rows))'
          PROVE  (Before + call.perPage)' <= Cardinality(Newer(x, table))'
      <3>1. x \in Owed /\ x \notin Elements(rows)
        BY <1>10, <2>1
      <3>2. Before + limit <= Cardinality(Newer(x, table))
        BY <1>6, <3>1
      <3>3. Newer(x, table)' = Newer(x, table)
        BY <1>2 DEF Newer
      <3>4. QED
        BY <1>12, <3>2, <3>3
    <2>2. QED
      BY <2>1
  <1>15. ~ Full' => Owed' \subseteq Elements(call.rows)'
    BY <1>6, <1>10, <1>11
  <1>16. Full' => (Before + call.perPage)' <= Cardinality(Ids)
    BY <1>9, <1>11, <1>12
  <1>17. QED
    BY <1>12, <1>13, <1>14, <1>15, <1>16 DEF OwedIsAhead, Ahead

\* Without ties every row of the page has the rank of its place.
LEMMA SelectRanked ==
  ASSUME TypeOK, Collected, QuietIsRanked, Select
  PROVE  QuietIsRanked'
  <1> SUFFICES ASSUME Walking, Quiet
               PROVE  QuietIsRanked'
    BY DEF QuietIsRanked, Collected, Walking, Quiet, Select
  <1> DEFINE n == Cardinality(table)
             limit == call.perPage
  <1>1. /\ table = past.start /\ Tied(table) = {}
        /\ Before <= n /\ Len(client.got) = Before
        /\ Ranked(client.got, 0) /\ call.total = n
    BY DEF QuietIsRanked, Select
  <1>2. n \in Nat /\ n <= Cardinality(Ids) /\ Cardinality(Ids) \in Nat
    BY TableFinite
  <1>3. limit \in 1 .. MaxPerPage /\ Before \in Int
    BY ListingAssumption DEF TypeOK, Before
  <1>4. PICK s \in Orders(table) :
          /\ call'.rows = Page(s, Before, limit)
          /\ call'.page = call.page /\ call'.perPage = limit
          /\ call'.total = call.total /\ call'.pc = "answered"
          /\ UNCHANGED <<table, client, writes, past>>
          /\ Before \in Nat /\ limit \in Nat
    <2>1. Before <= Cardinality(Ids)
      BY <1>1, <1>2, <1>3
    <2>2. QED
      BY <2>1, SelectReads
  <1> DEFINE rows == call'.rows
  <1>5. /\ Len(rows) = IF n <= Before THEN 0 ELSE IF n - Before < limit THEN n - Before ELSE limit
        /\ \A i \in 1 .. Len(rows) : Before + i \in 1 .. n /\ rows[i] = s[Before + i]
        /\ DOMAIN rows = 1 .. Len(rows)
    <2> HIDE DEF limit
    <2>1. rows = Page(s, Before, limit) /\ Before \in Nat /\ limit \in Nat
      BY <1>4
    <2> HIDE DEF rows
    <2>2. QED
      BY <2>1, PageCuts
  <1> HIDE DEF rows, n, limit
  <1>6. Len(rows) = IF n - Before < limit THEN n - Before ELSE limit
    BY <1>1, <1>2, <1>3, <1>4, <1>5
  <1>7. \A i \in DOMAIN rows :
          rows[i] \in past.start /\ Cardinality(Newer(rows[i], past.start)) = Before + i - 1
    <2>1. SUFFICES ASSUME NEW i \in 1 .. Len(rows)
                   PROVE  /\ rows[i] \in past.start
                          /\ Cardinality(Newer(rows[i], past.start)) = Before + i - 1
      BY <1>5
    <2>2. Before + i \in 1 .. n /\ rows[i] = s[Before + i]
      BY <1>5
    <2>3. s[Before + i] \in table /\ s[Before + i] \notin Tied(table)
      BY <1>1, <2>2, OrderIsOnto DEF n
    <2>4. \A p \in 1 .. n : s[p] \notin Tied(table) => Cardinality(Newer(s[p], table)) = p - 1
      BY RankOfUntied DEF n
    <2>5. QED
      BY <1>1, <2>2, <2>3, <2>4
  <1>8. Before' = Before /\ n' = n /\ call'.perPage = limit /\ Tied(table)' = Tied(table)
    BY <1>4 DEF Before, limit, n, Tied
  <1>9. Ranked(client.got, 0)' /\ Ranked(call.rows, Before)'
    <2>1. Ranked(client.got, 0)'
      BY <1>1, <1>4 DEF Ranked, Newer
    <2>2. \A i \in DOMAIN call'.rows :
            /\ call'.rows[i] \in past'.start
            /\ Cardinality(Newer(call'.rows[i], past'.start)) = Before' + i - 1
      BY <1>4, <1>7, <1>8 DEF rows
    <2>3. QED
      BY <2>1, <2>2 DEF Ranked, Newer
  <1>10. client'.mode # "done"
    BY <1>4 DEF Walking
  <1>11. /\ table' = past'.start /\ Tied(table)' = {}
         /\ Before' <= n' /\ Len(client'.got) = Before' /\ call'.total = n'
         /\ Len(call'.rows) = IF n' - Before' < call'.perPage THEN n' - Before' ELSE call'.perPage
    BY <1>1, <1>4, <1>6, <1>8 DEF rows
  <1>12. QED
    BY <1>9, <1>10, <1>11 DEF QuietIsRanked, n

\* A page after the pages before it.
LEMMA Joined ==
  ASSUME NEW s \in Seq(Row), NEW t \in Seq(Row)
  PROVE  /\ s \o t \in Seq(Row) /\ Len(s \o t) = Len(s) + Len(t)
         /\ Elements(s \o t) = Elements(s) \cup Elements(t)
         /\ Ranked(s, 0) /\ Ranked(t, Len(s)) => Ranked(s \o t, 0)
  <1>1. /\ s \o t \in Seq(Row) /\ Len(s \o t) = Len(s) + Len(t)
        /\ Len(s) \in Nat /\ Len(t) \in Nat
        /\ DOMAIN s = 1 .. Len(s) /\ DOMAIN t = 1 .. Len(t)
        /\ DOMAIN (s \o t) = 1 .. Len(s) + Len(t)
        /\ \A i \in 1 .. Len(s) : (s \o t)[i] = s[i]
        /\ \A i \in Len(s) + 1 .. Len(s) + Len(t) : (s \o t)[i] = t[i - Len(s)]
    OBVIOUS
  <1> DEFINE st == s \o t
  <1> HIDE DEF st
  <1>2. Elements(st) \subseteq Elements(s) \cup Elements(t)
    <2>1. SUFFICES ASSUME NEW i \in 1 .. Len(s) + Len(t)
                   PROVE  st[i] \in Elements(s) \cup Elements(t)
      BY <1>1 DEF Elements, st
    <2>2. CASE i <= Len(s)
      BY <1>1, <2>2 DEF Elements, st
    <2>3. CASE i > Len(s)
      <3>1. i - Len(s) \in 1 .. Len(t) /\ st[i] = t[i - Len(s)]
        BY <1>1, <2>3 DEF st
      <3>2. QED
        BY <1>1, <3>1 DEF Elements
    <2>4. QED
      BY <1>1, <2>2, <2>3
  <1>3. Elements(s) \cup Elements(t) \subseteq Elements(st)
    <2>1. \A i \in 1 .. Len(s) : st[i] = s[i] /\ i \in DOMAIN st
      BY <1>1 DEF st
    <2>2. \A i \in 1 .. Len(t) : st[Len(s) + i] = t[i] /\ Len(s) + i \in DOMAIN st
      BY <1>1 DEF st
    <2>3. QED
      BY <1>1, <2>1, <2>2 DEF Elements
  <1>4. ASSUME Ranked(s, 0), Ranked(t, Len(s)) PROVE Ranked(st, 0)
    <2>1. SUFFICES ASSUME NEW i \in 1 .. Len(s) + Len(t)
                   PROVE  /\ st[i] \in past.start
                          /\ Cardinality(Newer(st[i], past.start)) = 0 + i - 1
      BY <1>1 DEF Ranked, st
    <2>2. CASE i <= Len(s)
      BY <1>1, <1>4, <2>2 DEF Ranked, st
    <2>3. CASE i > Len(s)
      <3>1. i - Len(s) \in 1 .. Len(t) /\ st[i] = t[i - Len(s)]
        BY <1>1, <2>3 DEF st
      <3>2. Len(s) + (i - Len(s)) - 1 = 0 + i - 1
        BY <1>1
      <3>3. QED
        BY <1>1, <1>4, <3>1, <3>2 DEF Ranked
    <2>4. QED
      BY <1>1, <2>2, <2>3
  <1>5. QED
    BY <1>1, <1>2, <1>3, <1>4 DEF st

\* On to the next page, or the end.
LEMMA WalkOnKeeps ==
  ASSUME TypeOK, Collected, OwedIsAhead, QuietIsRanked, WalkOn
  PROVE  OwedIsAhead' /\ QuietIsRanked' /\ WalkMissesNothing'
  <1> DEFINE n == Cardinality(table)
             limit == call.perPage
             rows == call.rows
  <1>1. /\ Walking /\ call.pc = "answered" /\ UNCHANGED <<table, writes, past>>
        /\ client.got \in Seq(Row) /\ rows \in Seq(Row)
        /\ client'.got = client.got \o rows
        /\ limit \in 1 .. MaxPerPage /\ n \in Nat /\ MaxPerPage \in Nat
        /\ call.page \in 1 .. MaxInt /\ IsFiniteSet(table)
    BY TableFinite, ListingAssumption DEF WalkOn, Walking, Collected, TypeOK
  <1>2. /\ Len(client'.got) = Len(client.got) + Len(rows)
        /\ Elements(client'.got) = Elements(client.got) \cup Elements(rows)
        /\ Ranked(client.got, 0) /\ Ranked(rows, Len(client.got)) => Ranked(client'.got, 0)
        /\ Len(rows) \in Nat
    BY <1>1, Joined
  <1>3. Owed' = Owed \ Elements(rows)
    BY <1>1, <1>2 DEF Owed, Elements
  <1>4. Ranked(client'.got, 0) => Ranked(client.got, 0)'
    BY <1>1 DEF Ranked, Newer
  <1>5. CASE Full
    <2>1. call' = Ask(call.page + 1, limit) /\ client'.mode = "walk"
      <3>1. ~ (Len(rows) < limit)
        BY <1>1, <1>2, <1>5 DEF Full
      <3>2. QED
        BY <3>1 DEF WalkOn
    <2>2. call'.pc = "count"
      BY <2>1 DEF Ask
    <2>3. ASSUME Before + limit <= Cardinality(Ids)
          PROVE  Before' = Before + limit
      <3>1. /\ call'.page = call.page + 1 /\ call'.perPage = limit
            /\ call.page * limit = Before + limit
        BY <2>1, <2>3, NextPage
      <3>2. call'.page - 1 = call.page
        BY <1>1, <3>1
      <3>3. QED
        BY <3>1, <3>2 DEF Before
    <2>4. ASSUME ~ past.deleted PROVE OwedIsAhead'
      <3>1. /\ past.start \subseteq table /\ Tied(table) \subseteq past.tied
            /\ Before + limit <= Cardinality(Ids)
            /\ \A x \in Owed \ Elements(rows) : Before + limit <= Cardinality(Newer(x, table))
        BY <1>1, <1>5, <2>4 DEF OwedIsAhead, Ahead
      <3>2. \A x \in Owed' : Ahead(x, Before)'
        BY <1>1, <1>3, <2>3, <3>1 DEF Ahead, Newer
      <3>3. past'.start \subseteq table' /\ Tied(table)' \subseteq past'.tied
        BY <1>1, <3>1 DEF Tied
      <3>4. QED
        BY <2>2, <2>3, <3>1, <3>2, <3>3 DEF OwedIsAhead
    <2>5. past.deleted => OwedIsAhead'
      BY <1>1 DEF OwedIsAhead
    <2>6. ASSUME Quiet PROVE QuietIsRanked'
      <3>1. /\ table = past.start /\ Tied(table) = {}
            /\ Before <= n /\ Len(client.got) = Before
            /\ Ranked(client.got, 0) /\ Ranked(rows, Before)
            /\ Len(rows) = IF n - Before < limit THEN n - Before ELSE limit
        BY <1>1, <2>6 DEF QuietIsRanked
      <3>2. Before \in Int /\ Len(rows) >= limit
        BY <1>1, <1>5, <3>1 DEF Before, Full
      <3>3. Len(rows) = limit /\ Before + limit <= n
        BY <1>1, <1>2, <3>1, <3>2
      <3>4. Before + limit <= Cardinality(Ids)
        BY <1>1, <3>2, <3>3, TableFinite
      <3>5. Before' = Before + limit
        BY <2>3, <3>4
      <3>6. Ranked(client.got, 0)' /\ Len(client'.got) = Before'
        BY <1>2, <1>4, <3>1, <3>3, <3>5
      <3>7. table' = past'.start /\ Tied(table)' = {} /\ Before' <= Cardinality(table')
        BY <1>1, <3>1, <3>3, <3>5 DEF Tied
      <3>8. QED
        BY <2>1, <2>2, <3>6, <3>7 DEF QuietIsRanked
    <2>7. ~ Quiet => QuietIsRanked'
      BY <1>1 DEF QuietIsRanked, Quiet
    <2>8. WalkMissesNothing'
      BY <2>1 DEF WalkMissesNothing
    <2>9. QED
      BY <2>4, <2>5, <2>6, <2>7, <2>8
  <1>6. CASE ~ Full
    <2>1. call' = call /\ client'.mode = "done"
      BY <1>1, <1>2, <1>6 DEF WalkOn, Full
    <2>2. OwedIsAhead'
      BY <2>1 DEF OwedIsAhead, Walking
    <2>3. ASSUME ~ past.deleted PROVE past.start \ past.tied \subseteq Elements(client'.got)
      BY <1>1, <1>2, <1>6, <2>3 DEF OwedIsAhead, Owed
    <2>4. WalkMissesNothing'
      BY <1>1, <2>3 DEF WalkMissesNothing, Elements
    <2>5. ASSUME Quiet PROVE QuietIsRanked'
      <3>1. /\ table = past.start
            /\ Before <= n /\ Len(client.got) = Before
            /\ Ranked(client.got, 0) /\ Ranked(rows, Before)
            /\ Len(rows) = IF n - Before < limit THEN n - Before ELSE limit
            /\ call.total = n
        BY <1>1, <2>5 DEF QuietIsRanked
      <3>2. Before \in Int /\ Len(rows) < limit
        BY <1>1, <1>2, <1>6 DEF Before, Full
      <3>3. Len(client'.got) = n
        BY <1>1, <1>2, <3>1, <3>2
      <3>4. Ranked(client.got, 0)'
        BY <1>2, <1>4, <3>1
      <3>5. call'.total = Cardinality(past'.start) /\ IsFiniteSet(past'.start)
            /\ Len(client'.got) = Cardinality(past'.start)
        BY <1>1, <2>1, <3>1, <3>3
      <3>6. QED
        BY <2>1, <3>4, <3>5 DEF QuietIsRanked, Walking
    <2>6. ~ Quiet => QuietIsRanked'
      BY <1>1 DEF QuietIsRanked, Quiet
    <2>7. QED
      BY <2>2, <2>4, <2>5, <2>6
  <1>7. QED
    BY <1>5, <1>6

\* The first page of a walk has everything ahead of it.
LEMMA StartKeeps ==
  ASSUME TypeOK, Collected, NEW perPage, StartWalk(perPage)
  PROVE  OwedIsAhead' /\ QuietIsRanked' /\ WalkMissesNothing'
  <1>1. /\ call'.pc = "count" /\ call'.page = 1 /\ call'.perPage \in 1 .. MaxPerPage
        /\ client'.mode = "walk" /\ client'.got = << >>
        /\ table' = table /\ past'.start = table /\ past'.tied = Tied(table)
    <2>1. 1 \in 1 .. MaxInt /\ ParsePositiveInt(1, 1) = 1
      BY ListingAssumption DEF ParsePositiveInt
    <2>2. call' = Ask(1, perPage) /\ Ask(1, perPage).page = 1
      BY <2>1 DEF StartWalk, Ask
    <2>3. QED
      BY <2>2, AskIsUsable DEF StartWalk, Collected
  <1>2. Before' = 0 /\ MaxPerPage \in Nat
    BY <1>1, ListingAssumption DEF Before
  <1>3. \A x : 0 <= Cardinality(Newer(x, table))
    BY TableFinite, NewerGrows
  <1>4. OwedIsAhead'
    <2>1. \A x \in Owed' : Ahead(x, Before)'
      BY <1>1, <1>2, <1>3 DEF Ahead, Newer
    <2>2. Before' <= Cardinality(Ids)
      BY <1>2, TableFinite
    <2>3. past'.start \subseteq table' /\ Tied(table)' \subseteq past'.tied
      BY <1>1 DEF Tied
    <2>4. QED
      BY <1>1, <2>1, <2>2, <2>3 DEF OwedIsAhead
  <1>5. QuietIsRanked'
    <2>1. Ranked(client.got, 0)' /\ Len(client'.got) = 0
      BY <1>1 DEF Ranked
    <2>2. Quiet' => Tied(table)' = {}
      BY <1>1 DEF Quiet, Tied
    <2>3. Before' <= Cardinality(table')
      BY <1>1, <1>2, TableFinite
    <2>4. QED
      BY <1>1, <1>2, <2>1, <2>2, <2>3 DEF QuietIsRanked
  <1>6. WalkMissesNothing'
    BY <1>1 DEF WalkMissesNothing
  <1>7. QED
    BY <1>4, <1>5, <1>6

\* An empty table ends a walk at once.
LEMMA CountKeeps ==
  ASSUME TypeOK, Blank, Collected, OwedIsAhead, QuietIsRanked, Count
  PROVE  OwedIsAhead' /\ QuietIsRanked'
  <1> DEFINE n == Cardinality(table)
  <1>1. /\ UNCHANGED <<table, client, writes, past>>
        /\ call'.total = n /\ call'.page = call.page /\ call'.perPage = call.perPage
        /\ call'.rows = << >> /\ call.pc = "count" /\ client.mode # "done"
        /\ call'.pc = IF table = {} THEN "answered" ELSE "select"
        /\ call.perPage \in 1 .. MaxPerPage /\ MaxPerPage \in Nat /\ n \in Nat
        /\ call.page \in 1 .. MaxInt
    BY ListingAssumption, TableFinite DEF Count, Blank, TypeOK, None, Collected
  <1>2. /\ Before' = Before /\ Owed' = Owed /\ Tied(table)' = Tied(table)
        /\ (Walking' <=> Walking) /\ (Quiet' <=> Quiet) /\ n' = n
    BY <1>1 DEF Before, Owed, Tied, Walking, Quiet
  <1>3. ~ Full' /\ Elements(call.rows)' = {} /\ Len(call'.rows) = 0
    BY <1>1 DEF Full, Elements
  <1>4. ASSUME Walking, ~ past.deleted PROVE OwedIsAhead'
    <2>1. /\ past.start \subseteq table /\ Tied(table) \subseteq past.tied
          /\ Before <= Cardinality(Ids) /\ \A x \in Owed : Ahead(x, Before)
      BY <1>1, <1>4 DEF OwedIsAhead
    <2>2. \A x \in Owed' : Ahead(x, Before)'
      BY <1>1, <1>2, <2>1 DEF Ahead, Newer
    <2>3. call'.pc = "answered" => Owed' \subseteq Elements(call.rows)'
      BY <1>1, <1>2, <2>1 DEF Owed
    <2>4. past'.start \subseteq table' /\ Tied(table)' \subseteq past'.tied
          /\ Before' <= Cardinality(Ids)
      BY <1>1, <1>2, <2>1
    <2>5. QED
      BY <1>3, <2>2, <2>3, <2>4 DEF OwedIsAhead
  <1>5. ~ Walking \/ past.deleted => OwedIsAhead'
    BY <1>1, <1>2 DEF OwedIsAhead
  <1>6. ASSUME Walking, Quiet PROVE QuietIsRanked'
    <2>1. /\ table = past.start /\ Tied(table) = {}
          /\ Before <= n /\ Len(client.got) = Before /\ Ranked(client.got, 0)
      BY <1>6 DEF QuietIsRanked
    <2>2. Ranked(client.got, 0)' /\ Ranked(call.rows, Before)'
      <3>1. Ranked(client.got, 0)'
        BY <1>1, <2>1 DEF Ranked, Newer
      <3>2. DOMAIN call'.rows = {}
        BY <1>1
      <3>3. QED
        BY <3>1, <3>2 DEF Ranked
    <2>3. table = {} => n = 0
      BY FS_EmptySet
    <2>4. Before \in Nat
      <3>1. call.page - 1 \in Nat /\ call.perPage \in Nat
        BY <1>1, ListingAssumption
      <3>2. QED
        BY <3>1 DEF Before
    <2>5. table = {} => Len(call'.rows) = IF n - Before < call.perPage
                                            THEN n - Before ELSE call.perPage
      BY <1>1, <1>3, <2>1, <2>3, <2>4
    <2>6. QED
      BY <1>1, <1>2, <2>1, <2>2, <2>5 DEF QuietIsRanked
  <1>7. ~ Walking \/ ~ Quiet => QuietIsRanked'
    BY <1>1, <1>2 DEF QuietIsRanked
  <1>8. QED
    BY <1>4, <1>5, <1>6, <1>7

\* An insert leaves what is ahead of a walk ahead of it; of a walk that a delete
\* disturbed nothing is said.
LEMMA WriteKeeps ==
  ASSUME TypeOK, Collected, OwedIsAhead, Write
  PROVE  OwedIsAhead' /\ QuietIsRanked'
  <1>1. client.mode # "done" /\ UNCHANGED <<call, client>>
    BY DEF Write
  <1>2. ASSUME NEW i, NEW t, Insert(i, t) PROVE OwedIsAhead' /\ QuietIsRanked'
    <2>1. /\ table \subseteq table' /\ past'.start = past.start
          /\ past'.tied = past.tied \cup Tied(table') /\ past'.written
          /\ past'.deleted = past.deleted
      BY <1>2 DEF Insert, Collected
    <2>2. IsFiniteSet(table')
      BY <1>2, TableFinite, FS_AddElement DEF Insert
    <2>3. ~ Quiet'
      BY <2>1 DEF Quiet
    <2>4. ASSUME Walking, ~ past.deleted PROVE OwedIsAhead'
      <3>1. Owed' \subseteq Owed /\ Before' = Before /\ (Full' <=> Full)
            /\ Elements(call.rows)' = Elements(call.rows)
        BY <1>1, <2>1 DEF Owed, Before, Full, Elements
      <3>2. Before \in Int /\ call.perPage \in Int
        BY ListingAssumption DEF Before, TypeOK
      <3>3. \A x : \A k \in Int : Ahead(x, k) => k <= Cardinality(Newer(x, table'))
        <4>1. SUFFICES ASSUME NEW x, NEW k \in Int, k <= Cardinality(Newer(x, table))
                       PROVE  k <= Cardinality(Newer(x, table'))
          BY DEF Ahead
        <4>2. /\ Cardinality(Newer(x, table)) \in Nat /\ Cardinality(Newer(x, table')) \in Nat
              /\ Cardinality(Newer(x, table)) <= Cardinality(Newer(x, table'))
          BY <2>1, <2>2, NewerGrows
        <4>3. QED
          BY <4>1, <4>2
      <3>4. past'.start \subseteq table' /\ Tied(table') \subseteq past'.tied
        BY <2>1, <2>4 DEF OwedIsAhead
      <3>5. call.pc # "answered" => \A x \in Owed : Ahead(x, Before)
        BY <2>4 DEF OwedIsAhead
      <3>6. call.pc = "answered" /\ Full =>
              \A x \in Owed \ Elements(call.rows) : Ahead(x, Before + call.perPage)
        BY <2>4 DEF OwedIsAhead
      <3>7. call'.pc # "answered" => \A x \in Owed' : Ahead(x, Before)'
        BY <1>1, <3>1, <3>2, <3>3, <3>5 DEF Ahead, Newer
      <3>8. call'.pc = "answered" /\ Full' =>
              \A x \in (Owed \ Elements(call.rows))' : Ahead(x, Before + call.perPage)'
        <4>1. SUFFICES ASSUME call.pc = "answered", Full,
                              NEW x \in (Owed \ Elements(call.rows))'
                       PROVE  Ahead(x, Before + call.perPage)'
          BY <1>1, <3>1
        <4>2. x \in Owed \ Elements(call.rows)
          BY <3>1
        <4>3. Ahead(x, Before + call.perPage) /\ Before + call.perPage \in Int
          BY <3>2, <3>6, <4>1, <4>2
        <4>4. Before + call.perPage <= Cardinality(Newer(x, table'))
          BY <3>3, <4>3
        <4>5. (Before + call.perPage)' = Before + call.perPage
              /\ Newer(x, table)' = Newer(x, table')
          BY <1>1, <3>1 DEF Newer
        <4>6. QED
          BY <4>4, <4>5 DEF Ahead
      <3>9. /\ Before' <= Cardinality(Ids)
            /\ call'.pc = "answered" /\ ~ Full' => Owed' \subseteq Elements(call.rows)'
            /\ call'.pc = "answered" /\ Full' => (Before + call.perPage)' <= Cardinality(Ids)
        BY <1>1, <2>4, <3>1 DEF OwedIsAhead
      <3>10. Tied(table)' \subseteq past'.tied
        BY <3>4 DEF Tied
      <3>11. QED
        BY <3>4, <3>7, <3>8, <3>9, <3>10 DEF OwedIsAhead
    <2>5. ~ Walking \/ past.deleted => OwedIsAhead'
      BY <1>1, <2>1 DEF OwedIsAhead, Walking
    <2>6. ~ (Quiet' /\ client'.mode = "done") /\ ~ (Quiet' /\ Walking')
      BY <2>3
    <2>7. QED
      BY <2>4, <2>5, <2>6 DEF QuietIsRanked
  <1>3. ASSUME NEW x, Delete(x) PROVE OwedIsAhead' /\ QuietIsRanked'
    <2>1. past'.deleted /\ past'.written
      BY <1>3 DEF Delete, Collected
    <2>2. QED
      BY <2>1 DEF OwedIsAhead, QuietIsRanked, Quiet
  <1>4. QED
    BY <1>2, <1>3 DEF Write

\* Whatever the offset wraps around to, Select hands out rows of the table.
LEMMA SelectCollects == TypeOK /\ Select => call'.rows \in Seq(Row)
  <1> SUFFICES ASSUME TypeOK, Select PROVE call'.rows \in Seq(Row)
    OBVIOUS
  <1> DEFINE offset == Offset(call.page, call.perPage)
             from == IF offset > 0 THEN offset ELSE 0
  <1>1. PICK s \in Orders(table) :
          call' = [call EXCEPT !.rows = Page(s, offset, call.perPage),
                               !.seen = table, !.pc = "answered"]
    BY DEF Select
  <1>2. /\ call.page \in Int /\ call.perPage \in Nat /\ MaxInt \in Nat
        /\ table \subseteq Row
    BY ListingAssumption DEF TypeOK
  <1>3. offset \in Int
    <2>1. (call.page - 1) * call.perPage \in Int
      BY <1>2
    <2>2. \A k \in Int : k % (2 * (MaxInt + 1)) \in Int
      BY <1>2
    <2>3. QED
      BY <1>2, <2>1, <2>2 DEF Offset, Wrap
  <1>4. from \in Nat
    BY <1>3
  <1>5. Page(s, offset, call.perPage) = Page(s, from, call.perPage)
    BY <1>3 DEF Page
  <1> HIDE DEF from, offset
  <1>6. Page(s, from, call.perPage) \in Seq(table)
    BY <1>2, <1>4, PageCuts
  <1>7. call'.rows \in Seq(table)
    BY <1>1, <1>5, <1>6 DEF TypeOK, None
  <1>8. Seq(table) \subseteq Seq(Row)
    BY <1>2
  <1>9. QED
    BY <1>7, <1>8

\* What the client has got are rows.
LEMMA CollectedKeeps == TypeOK /\ Collected /\ [Next]_vars => Collected'
  <1> SUFFICES ASSUME TypeOK, Collected, [Next]_vars PROVE Collected'
    OBVIOUS
  <1>1. << >> \in Seq(Row)
    OBVIOUS
  <1>2. ASSUME NEW page, NEW perPage, Jump(page, perPage) PROVE Collected'
    BY <1>1, <1>2 DEF Jump, Ask, Collected
  <1>3. ASSUME NEW perPage, StartWalk(perPage) PROVE Collected'
    BY <1>1, <1>3 DEF StartWalk, Ask, Collected
  <1>4. CASE WalkOn
    <2>1. client'.got \in Seq(Row) /\ DOMAIN client' = {"mode", "got"}
          /\ client'.mode # "none"
      BY <1>4, Joined DEF WalkOn, Collected
    <2>2. call'.rows \in Seq(Row) /\ (client'.mode = "done" => call'.pc = "answered")
      BY <1>1, <1>4 DEF WalkOn, Collected, Ask
    <2>3. QED
      BY <1>4, <2>1, <2>2 DEF WalkOn, Collected
  <1>5. CASE Count
    BY <1>5 DEF Count, Collected, TypeOK, None
  <1>6. CASE Select
    BY <1>6, SelectCollects DEF Select, Collected
  <1>7. CASE Fail
    BY <1>7 DEF Fail, Collected, TypeOK, None
  <1>8. CASE Write
    BY <1>8 DEF Write, Insert, Delete, Collected
  <1>9. CASE Ended \/ UNCHANGED vars
    BY <1>9 DEF Ended, vars, Collected
  <1>10. QED
    BY <1>2, <1>3, <1>4, <1>5, <1>6, <1>7, <1>8, <1>9 DEF Next

\* A request that failed, or asks for one page, is no walk; what nobody touches
\* stays as it is.
LEMMA RestKeeps ==
  ASSUME Collected, OwedIsAhead, QuietIsRanked, WalkMissesNothing,
         \/ \E page, perPage : Jump(page, perPage)
         \/ Fail \/ Ended \/ UNCHANGED vars,
         TypeOK
  PROVE  OwedIsAhead' /\ QuietIsRanked' /\ WalkMissesNothing'
  <1>1. ASSUME ~ Walking', client'.mode # "done"
        PROVE  OwedIsAhead' /\ QuietIsRanked' /\ WalkMissesNothing'
    BY <1>1 DEF OwedIsAhead, QuietIsRanked, WalkMissesNothing
  <1>2. CASE \E page, perPage : Jump(page, perPage)
    <2>1. client'.mode = "jump"
      BY <1>2 DEF Jump, Collected
    <2>2. QED
      BY <1>1, <2>1 DEF Walking
  <1>3. CASE Fail
    <2>1. call'.pc = "failed" /\ client'.mode # "done"
      BY <1>3 DEF Fail, Collected, TypeOK, None
    <2>2. QED
      BY <1>1, <2>1 DEF Walking
  <1>4. CASE Ended \/ UNCHANGED vars
    <2>1. UNCHANGED <<table, call, client, writes, past>>
      BY <1>4 DEF Ended, vars
    <2>2. OwedIsAhead'
      BY <2>1 DEF OwedIsAhead, Walking, Full, Owed, Ahead, Newer, Before, Tied, Elements
    <2>3. QuietIsRanked'
      BY <2>1 DEF QuietIsRanked, Walking, Quiet, Ranked, Newer, Before, Tied
    <2>4. WalkMissesNothing'
      BY <2>1 DEF WalkMissesNothing, Elements
    <2>5. QED
      BY <2>2, <2>3, <2>4
  <1>5. QED
    BY <1>2, <1>3, <1>4

\* Only the last page of a walk ends it, and then nothing is written any more.
LEMMA StepsBeforeTheEnd ==
  Collected /\ (Count \/ Select \/ Write) => WalkMissesNothing'
  <1> SUFFICES ASSUME Collected, Count \/ Select \/ Write PROVE client'.mode # "done"
    BY DEF WalkMissesNothing
  <1>1. QED
    BY DEF Count, Select, Write, Collected

\* One case per action.
LEMMA StepList == ListInvariant /\ [Next]_vars => ListInvariant'
  <1> SUFFICES ASSUME ListInvariant, [Next]_vars PROVE ListInvariant'
    OBVIOUS
  <1>1. TypeOK /\ Blank /\ PageIsWhereAsked /\ Collected
        /\ OwedIsAhead /\ QuietIsRanked /\ WalkMissesNothing
    BY DEF ListInvariant
  <1>2. TypeOK' /\ Blank' /\ PageIsWhereAsked' /\ Collected'
    BY <1>1, StepTypes, StepPages, CollectedKeeps
  <1> SUFFICES OwedIsAhead' /\ QuietIsRanked' /\ WalkMissesNothing'
    BY <1>2 DEF ListInvariant
  <1>3. CASE \E perPage : StartWalk(perPage)
    BY <1>1, <1>3, StartKeeps
  <1>4. CASE WalkOn
    BY <1>1, <1>4, WalkOnKeeps
  <1>5. CASE Count
    BY <1>1, <1>5, CountKeeps, StepsBeforeTheEnd
  <1>6. CASE Select
    BY <1>1, <1>6, SelectOwed, SelectRanked, StepsBeforeTheEnd
  <1>7. CASE Write
    BY <1>1, <1>7, WriteKeeps, StepsBeforeTheEnd
  <1>8. CASE (\E page, perPage : Jump(page, perPage)) \/ Fail \/ Ended \/ UNCHANGED vars
    BY <1>1, <1>8, RestKeeps
  <1>9. QED
    BY <1>3, <1>4, <1>5, <1>6, <1>7, <1>8 DEF Next

LEMMA InitList == Init => ListInvariant
  <1> SUFFICES ASSUME Init PROVE ListInvariant
    OBVIOUS
  <1>1. /\ call = None /\ client = [mode |-> "none", got |-> << >>]
        /\ past = [start |-> {}, tied |-> {}, written |-> FALSE, deleted |-> FALSE]
    BY DEF Init
  <1>2. Blank /\ PageIsWhereAsked
    BY <1>1 DEF None, Blank, PageIsWhereAsked
  <1>3. Collected
    BY <1>1 DEF None, Collected
  <1>4. OwedIsAhead /\ QuietIsRanked /\ WalkMissesNothing
    BY <1>1 DEF OwedIsAhead, QuietIsRanked, WalkMissesNothing, Walking
  <1>5. QED
    BY <1>2, <1>3, <1>4, InitTypes DEF ListInvariant

\* However the table changes, what List answers is what its Select read, and a walk
\* has still before it what it has not seen (repository.go:69-84).
THEOREM ListInvariantHolds == Spec => []ListInvariant
  <1>1. QED
    BY InitList, StepList, PTL DEF Spec

\* Every page that is not too far to count is the one that was asked for, for every
\* width of int and every limit (pagination.go:20-55, repository.go:69-84).
THEOREM PagesAreWhereAsked == Spec => []PageIsWhereAsked
  <1>1. ListInvariant => PageIsWhereAsked
    BY DEF ListInvariant
  <1>2. QED
    BY <1>1, ListInvariantHolds, PTL

\* However many accounts are inserted during it, and however many of them there are,
\* a walk to the first short page misses none that was there when it began, was not
\* tied with another in time and that no delete moved forward (repository.go:69-84).
THEOREM WalksMissNothing == Spec => []WalkMissesNothing
  <1>1. ListInvariant => WalkMissesNothing
    BY DEF ListInvariant
  <1>2. QED
    BY <1>1, ListInvariantHolds, PTL

\* Rows whose ranks are their places are all the rows there are, newest first.
LEMMA RanksAreExact ==
  ASSUME NEW got \in Seq(Row), IsFiniteSet(past.start), Ranked(got, 0),
         Len(got) = Cardinality(past.start)
  PROVE  /\ Elements(got) = past.start
         /\ \A i \in 2 .. Len(got) : got[i - 1].created > got[i].created
  <1> DEFINE start == past.start
             n == Cardinality(start)
             Rank(x) == Cardinality(Newer(x, start))
  <1>1. /\ n \in Nat /\ DOMAIN got = 1 .. n /\ Len(got) = n
        /\ \A i \in 1 .. n : got[i] \in start /\ Rank(got[i]) = i - 1
        /\ \A i \in 1 .. n : got[i].created \in Int
    <2>1. n \in Nat
      BY FS_CardinalityType
    <2>2. DOMAIN got = 1 .. n /\ \A i \in 1 .. n : got[i] \in Row
      OBVIOUS
    <2>3. \A i \in 1 .. n : got[i] \in start /\ Rank(got[i]) = 0 + i - 1
      BY <2>2 DEF Ranked
    <2>4. \A i \in 1 .. n : 0 + i - 1 = i - 1
      BY <2>1
    <2>5. \A x \in Row : x.created \in Int
      BY ListingAssumption DEF Row
    <2>6. QED
      BY <2>1, <2>2, <2>3, <2>4, <2>5
  <1> HIDE DEF Rank
  <1>2. Elements(got) = start
    <2>1. \A i, j \in 1 .. n : got[i] = got[j] => i = j
      <3>1. SUFFICES ASSUME NEW i \in 1 .. n, NEW j \in 1 .. n, got[i] = got[j]
                     PROVE  i = j
        OBVIOUS
      <3>2. i - 1 = j - 1
        BY <1>1, <3>1
      <3>3. QED
        BY <1>1, <3>2
    <2>2. got \in Injection(1 .. n, start)
      BY <1>1, <2>1 DEF Injection, IsInjective
    <2>3. Cardinality(1 .. n) = n
      BY <1>1, FS_Interval
    <2>4. got \in Surjection(1 .. n, start)
      BY <2>2, <2>3, FS_Injection
    <2>5. QED
      BY <1>1, <2>4 DEF Elements, Surjection
  <1>3. ASSUME NEW i \in 2 .. n PROVE got[i - 1].created > got[i].created
    <2>1. i \in 1 .. n /\ i - 1 \in 1 .. n
      BY <1>1
    <2>2. SUFFICES ASSUME got[i - 1].created <= got[i].created PROVE FALSE
      BY <1>1, <2>1
    <2>3. Rank(got[i]) = i - 1 /\ Rank(got[i - 1]) = i - 2
      BY <1>1, <2>1
    <2>4. \A y \in start : \E j \in 1 .. n : y = got[j]
      BY <1>1, <1>2 DEF Elements
    <2>5. Newer(got[i], start) \subseteq Newer(got[i - 1], start)
      <3>1. SUFFICES ASSUME NEW y \in start, y.created > got[i].created
                     PROVE  y.created > got[i - 1].created
        BY DEF Newer
      <3>2. y.created \in Int
        BY <1>1, <2>4
      <3>3. QED
        BY <1>1, <2>1, <2>2, <3>1, <3>2
    <2>6. IsFiniteSet(Newer(got[i - 1], start))
      BY FS_Subset DEF Newer
    <2>7. Rank(got[i]) <= Rank(got[i - 1])
      BY <2>5, <2>6, FS_Subset DEF Rank
    <2>8. QED
      BY <1>1, <2>3, <2>7
  <1>4. QED
    BY <1>1, <1>2, <1>3

\* For every table, a walk that nobody disturbs hands out each account once, newest
\* first, with the right total (repository.go:69-84, pagination.go:20-55).
THEOREM QuietWalksAreExact == Spec => []QuietWalkExact
  <1>1. ListInvariant => QuietWalkExact
    <2>1. SUFFICES ASSUME ListInvariant, client.mode = "done", ~ past.written, past.tied = {}
                   PROVE  /\ Elements(client.got) = past.start
                          /\ Len(client.got) = Cardinality(past.start)
                          /\ \A i \in 2 .. Len(client.got) :
                               client.got[i - 1].created > client.got[i].created
                          /\ call.total = Cardinality(past.start)
      BY DEF QuietWalkExact
    <2>2. /\ IsFiniteSet(past.start) /\ Len(client.got) = Cardinality(past.start)
          /\ Ranked(client.got, 0) /\ call.total = Cardinality(past.start)
      BY <2>1 DEF ListInvariant, QuietIsRanked, Quiet
    <2>3. client.got \in Seq(Row)
      BY <2>1 DEF ListInvariant, Collected
    <2>4. QED
      BY <2>2, <2>3, RanksAreExact
  <1>2. QED
    BY <1>1, ListInvariantHolds, PTL
=============================================================================
