---------------------------- MODULE ListingProofs ----------------------------
(***************************************************************************)
(* Theorems about Listing for any number of writers and walkers, any       *)
(* scopes, page sizes and windows.  The argument: the cursor cuts the list *)
(* in two.  What lies above it was shown, or was not there to be shown;    *)
(* what lies below is what the next page chooses from.                     *)
(***************************************************************************)
EXTENDS ListingProperties, FiniteSetTheorems, SequenceTheorems, TLAPS

Walks == [pc : {"idle", "walking", "done"}, table : Tables, limit : Nat \ {0},
          asked : {<<>>} \cup (Nat \X Nat), cursor : [at : Nat, id : Nat],
          pages : Seq(SUBSET Row), there : SUBSET Row, kept : SUBSET Entities,
          from : Nat, until : Nat]

------------------------------------------------------------------------------
(* The order of a list.                                                     *)

\* Ids and times are numbers.
LEMMA IdType == ASSUME NEW x \in Row, NEW t \in Tables PROVE Id(t, x) \in Nat /\ x.at \in Nat
BY DEF Row, Id, Tables

\* A row at or above a cursor comes before every row below it.
LEMMA AboveThenBelow ==
  ASSUME NEW cursor \in [at : Nat, id : Nat], NEW t \in Tables, NEW x \in Row, NEW y \in Row,
         ~Beyond(cursor, t, x), Beyond(cursor, t, y)
  PROVE  After(t, x, y)
BY IdType DEF Beyond, After

\* The cursor made of a row, whose id is not zero, has below it just the rows
\* that come after the row.
LEMMA CursorOfRow ==
  ASSUME NEW t \in Tables, NEW x \in Row, Id(t, x) > 0, NEW y \in Row
  PROVE  /\ encodeCursor(t, x) \in [at : Nat, id : Nat]
         /\ Beyond(encodeCursor(t, x), t, y) <=> After(t, x, y)
BY IdType DEF Beyond, After, encodeCursor, FirstPage

\* Of two rows one at most comes after the other, and none after itself.
LEMMA AfterIsOrder ==
  ASSUME NEW t \in Tables, NEW x \in Row, NEW y \in Row, After(t, x, y)
  PROVE  ~After(t, y, x) /\ x # y
BY IdType DEF After

WindowAt(now, asked) ==
  IF asked = <<>> THEN [from |-> IF now > Days THEN now - Days ELSE 0, to |-> now]
  ELSE [from |-> asked[1], to |-> asked[2]]

\* The default window moves on with the clock, the one asked for stays.
LEMMA WindowMoves ==
  ASSUME NEW now \in Nat, NEW later \in Nat, now <= later, NEW asked \in {<<>>} \cup (Nat \X Nat)
  PROVE  /\ WindowAt(now, asked).from \in Nat /\ WindowAt(now, asked).to \in Nat
         /\ WindowAt(now, asked).from <= WindowAt(later, asked).from
         /\ WindowAt(now, asked).to <= WindowAt(later, asked).to
<1>1. CASE asked = <<>>
  <2>1. /\ WindowAt(now, asked).from = IF now > Days THEN now - Days ELSE 0
        /\ WindowAt(later, asked).from = IF later > Days THEN later - Days ELSE 0
        /\ WindowAt(now, asked).to = now /\ WindowAt(later, asked).to = later
    BY <1>1 DEF WindowAt
  <2>2. QED BY <2>1, ListingAssumption
<1>2. CASE asked \in Nat \X Nat
  <2>1. PICK a \in Nat, b \in Nat : asked = <<a, b>>
    BY <1>2
  <2>2. asked # <<>>
    BY <2>1
  <2>3. QED BY <2>1, <2>2 DEF WindowAt
<1>3. QED BY <1>1, <1>2

\* A window begins at a time.
LEMMA WindowType ==
  ASSUME clock \in Nat, NEW asked \in {<<>>} \cup (Nat \X Nat)
  PROVE  ListWindow(asked).from \in Nat /\ ListWindow(asked).to \in Nat
<1>1. ListWindow(asked) = WindowAt(clock, asked)
  BY DEF ListWindow, WindowAt
<1>2. QED BY <1>1, WindowMoves

------------------------------------------------------------------------------
(* The steps that page through nothing.                                     *)

\* No walk at all is a walk.
LEMMA NoWalkType == NoWalk \in Walks
<1>1. <<>> \in Seq(SUBSET Row)
  OBVIOUS
<1>2. QED BY <1>1 DEF NoWalk, Walks, FirstPage, Tables

\* No row at all is a row.
LEMMA NoRowType == NoRow \in Row
BY ListingAssumption DEF NoRow, Row

\* Empty tables, and nobody who reads them.
LEMMA InitInv == Init => IInv
<1> SUFFICES ASSUME Init PROVE IInv
  OBVIOUS
<1>1. TypeOK
  BY NoWalkType, NoRowType DEF Init, TypeOK, Walks, Resting
<1>2. RowsOK
  BY FS_EmptySet DEF Init, RowsOK, Resting
<1>3. ASSUME NEW c \in Walker PROVE walk[c] = NoWalk /\ Pages(c) = {} /\ walk[c].pc = "idle"
  BY DEF Init, NoWalk, Pages
<1>4. \A c \in Walker : WalkOK(walk[c])
  <2>1. NoWalk.there = {} /\ NoWalk.pc = "idle"
    BY DEF NoWalk
  <2>2. QED BY <1>3, <2>1 DEF WalkOK
<1>5. PagesDescend /\ WalkIsComplete /\ PagesAreFull
  BY <1>3 DEF PagesDescend, WalkIsComplete, PagesAreFull
<1>6. QED BY <1>1, <1>2, <1>4, <1>5 DEF IInv

\* A step that commits rows or lets time pass leaves what was shown as it is,
\* and what was there when a walk began.
LEMMA WriterStep ==
  ASSUME IInv, TypeOK', RowsOK', walk' = walk, rows \subseteq rows', clock' \in {clock, clock + 1}
  PROVE  IInv'
<1>1. (PagesDescend /\ WalkIsComplete /\ PagesAreFull)'
  BY DEF IInv, PagesDescend, WalkIsComplete, PagesAreFull, Pages, Shown
<1>2. ASSUME NEW c \in Walker PROVE WalkOK(walk[c])'
  <2> DEFINE q == walk[c]
  <2>1. WalkOK(q) /\ walk'[c] = q
    BY DEF IInv
  <2>2. /\ q.asked \in {<<>>} \cup (Nat \X Nat) /\ clock \in Nat /\ clock' \in Nat
        /\ q.from \in Nat /\ q.until \in Nat
    BY DEF IInv, TypeOK
  <2>3. WindowOK(q) => WindowOK(q)'
    <3>1. /\ ListWindow(q.asked) = WindowAt(clock, q.asked)
          /\ ListWindow(q.asked)' = WindowAt(clock', q.asked)
      BY <2>1 DEF ListWindow, WindowAt
    <3>2. clock <= clock'
      BY <2>2
    <3>3. /\ WindowAt(clock, q.asked).from <= WindowAt(clock', q.asked).from
          /\ WindowAt(clock, q.asked).to <= WindowAt(clock', q.asked).to
          /\ WindowAt(clock, q.asked).from \in Nat /\ WindowAt(clock, q.asked).to \in Nat
          /\ WindowAt(clock', q.asked).from \in Nat /\ WindowAt(clock', q.asked).to \in Nat
      BY <2>2, <3>2, WindowMoves
    <3>4. WindowOK(q)' <=> (q.from <= WindowAt(clock', q.asked).from /\ q.until <= WindowAt(clock', q.asked).to)
      BY <2>1, <3>1 DEF WindowOK
    <3>5. QED BY <2>2, <3>1, <3>3, <3>4 DEF WindowOK
  <2>4. CursorOK(q) => CursorOK(q)'
    BY <2>1 DEF CursorOK
  <2>5. QED BY <2>1, <2>3, <2>4 DEF WalkOK
<1>3. QED BY <1>1, <1>2 DEF IInv

\* What a transaction begins with is a row.
LEMMA NewRow ==
  ASSUME NEW t \in Nat, NEW e \in Entities, NEW owed \in BOOLEAN
  PROVE  [at |-> t, entity |-> e, owed |-> owed, id |-> 0, arId |-> 0] \in Row
BY DEF Row

\* The next id makes a row of it, and changes nothing else.
LEMMA NumberedHeader ==
  ASSUME NEW x \in Row, NEW n \in Nat
  PROVE  /\ [x EXCEPT !.id = n + 1] \in Row /\ [x EXCEPT !.id = n + 1].id = n + 1
         /\ [x EXCEPT !.id = n + 1].owed = x.owed
BY DEF Row

\* Each step of a writer, and the clock.
LEMMA WritersKeep ==
  ASSUME IInv, Tick \/ \E w \in Writer :
           Begin(w) \/ InsertHeader(w) \/ insertARLedgerEntryTx(w) \/ Commit(w) \/ RollBack(w)
  PROVE  IInv'
<1> USE DEF IInv, TypeOK, RowsOK, Numbered
<1>1. CASE Tick
  <2>1. TypeOK' /\ RowsOK' /\ walk' = walk /\ rows' = rows /\ clock' \in {clock, clock + 1}
    BY <1>1 DEF Tick
  <2>2. QED BY <2>1, WriterStep
<1>2. ASSUME NEW w \in Writer, Begin(w) PROVE IInv'
  <2>1. PICK e \in Entities, owed \in BOOLEAN :
          tx' = [tx EXCEPT ![w] = [pc |-> "begun",
                  row |-> [at |-> clock, entity |-> e, owed |-> owed, id |-> 0, arId |-> 0]]]
    BY <1>2 DEF Begin
  <2>2. clock \in Nat
    OBVIOUS
  <2>3. [at |-> clock, entity |-> e, owed |-> owed, id |-> 0, arId |-> 0] \in Row
    BY <2>2, NewRow
  <2>4. TypeOK' /\ UNCHANGED <<clock, rows, entryId, arId, walk>>
    BY <1>2, <2>1, <2>3 DEF Begin
  <2>5. RowsOK'
    BY <2>1, <2>4
  <2>6. QED BY <2>4, <2>5, WriterStep
<1>3. ASSUME NEW w \in Writer, InsertHeader(w) PROVE IInv'
  <2> DEFINE x == [tx[w].row EXCEPT !.id = entryId + 1]
             p == IF tx[w].row.owed THEN "crediting" ELSE "ready"
  <2>1. tx' = [tx EXCEPT ![w] = [pc |-> p, row |-> x]]
    BY <1>3 DEF InsertHeader
  <2>2. x \in Row /\ x.id > 0 /\ x.owed = tx[w].row.owed
    <3>1. tx[w].row \in Row /\ entryId \in Nat
      OBVIOUS
    <3>2. QED BY <3>1, NumberedHeader
  <2>3. TypeOK' /\ UNCHANGED <<clock, rows, arId, walk>>
    BY <1>3, <2>1, <2>2 DEF InsertHeader
  <2>4. RowsOK'
    BY <2>1, <2>2, <2>3
  <2>5. QED BY <2>3, <2>4, WriterStep
<1>4. ASSUME NEW w \in Writer, insertARLedgerEntryTx(w) PROVE IInv'
  <2> DEFINE x == [tx[w].row EXCEPT !.arId = arId + 1]
  <2>1. tx' = [tx EXCEPT ![w] = [pc |-> "ready", row |-> x]]
    BY <1>4 DEF insertARLedgerEntryTx
  <2>2. x \in Row /\ x.id > 0 /\ x.arId > 0
    BY <1>4 DEF Row, insertARLedgerEntryTx
  <2>3. TypeOK' /\ UNCHANGED <<clock, rows, entryId, walk>>
    BY <1>4, <2>1, <2>2 DEF insertARLedgerEntryTx
  <2>4. RowsOK'
    BY <2>1, <2>2, <2>3
  <2>5. QED BY <2>3, <2>4, WriterStep
<1>5. ASSUME NEW w \in Writer, Commit(w) PROVE IInv'
  <2>1. IsFiniteSet(rows') /\ rows' = rows \cup {tx[w].row} /\ Numbered(tx[w].row)
    BY <1>5, FS_AddElement DEF Commit
  <2>2. tx' = [tx EXCEPT ![w] = Resting] /\ UNCHANGED <<clock, entryId, arId, walk>>
    BY <1>5 DEF Commit
  <2>3. TypeOK'
    BY <2>1, <2>2, NoRowType DEF Resting
  <2>4. RowsOK'
    BY <2>1, <2>2 DEF Resting
  <2>5. QED BY <2>1, <2>2, <2>3, <2>4, WriterStep
<1>6. ASSUME NEW w \in Writer, RollBack(w) PROVE IInv'
  <2>1. tx' = [tx EXCEPT ![w] = Resting] /\ UNCHANGED <<clock, rows, entryId, arId, walk>>
    BY <1>6 DEF RollBack
  <2>2. TypeOK' /\ RowsOK'
    BY <2>1, NoRowType DEF Resting
  <2>3. QED BY <2>1, <2>2, WriterStep
<1>7. QED BY <1>1, <1>2, <1>3, <1>4, <1>5, <1>6

------------------------------------------------------------------------------
(* The steps of a client.                                                   *)

\* A client that changes only its own walk, to one that is in order, keeps the
\* invariant.
LEMMA WalkerStep ==
  ASSUME IInv, NEW c \in Walker, NEW q \in Walks,
         walk' = [walk EXCEPT ![c] = q], UNCHANGED <<clock, rows, entryId, arId, tx>>,
         WalkOK(q),
         \A i, j \in DOMAIN q.pages : i < j =>
           \A x \in q.pages[i], y \in q.pages[j] : After(q.table, x, y),
         q.pc = "done" => \A x \in q.there : Within(q, x) => \E i \in DOMAIN q.pages : x \in q.pages[i],
         \A i \in DOMAIN q.pages :
           /\ Cardinality(q.pages[i]) <= q.limit
           /\ (i < Len(q.pages) \/ q.pc = "walking") => Cardinality(q.pages[i]) = q.limit
  PROVE  IInv'
<1>1. walk'[c] = q /\ \A d \in Walker \ {c} : walk'[d] = walk[d]
  BY DEF IInv, TypeOK
<1>2. TypeOK' /\ RowsOK'
  BY DEF IInv, TypeOK, RowsOK, Walks
<1>3. ASSUME NEW d \in Walker PROVE WalkOK(walk[d])'
  <2>1. \A r : WalkOK(r)' <=> WalkOK(r)
    BY DEF WalkOK, WindowOK, CursorOK, ListWindow
  <2>2. WalkOK(walk'[d])
    BY <1>1 DEF IInv
  <2>3. QED BY <2>2 DEF WalkOK, WindowOK, CursorOK, ListWindow
<1>4. PagesDescend'
  BY <1>1 DEF IInv, PagesDescend, Pages
<1>5. WalkIsComplete'
  BY <1>1 DEF IInv, WalkIsComplete, Shown, Pages
<1>6. PagesAreFull'
  BY <1>1 DEF IInv, PagesAreFull, Pages
<1>7. QED BY <1>2, <1>3, <1>4, <1>5, <1>6 DEF IInv

\* A walk that starts has shown nothing and has everything before it.
LEMMA StartWalkKeeps ==
  ASSUME IInv, NEW c \in Walker, StartWalk(c)
  PROVE  IInv'
<1>1. PICK t \in Tables, n \in Limits, asked \in Windows :
        walk' = [walk EXCEPT ![c] =
         [pc |-> "walking", table |-> t, limit |-> n, asked |-> asked, cursor |-> FirstPage,
          pages |-> <<>>, there |-> rows, kept |-> Entities, from |-> 0,
          until |-> IF ListWindow(asked).to < clock THEN ListWindow(asked).to ELSE clock]]
  BY DEF StartWalk
<1> DEFINE u == IF ListWindow(asked).to < clock THEN ListWindow(asked).to ELSE clock
           q == [pc |-> "walking", table |-> t, limit |-> n, asked |-> asked, cursor |-> FirstPage,
                 pages |-> <<>>, there |-> rows, kept |-> Entities, from |-> 0, until |-> u]
<1>2. walk' = [walk EXCEPT ![c] = q]
  BY <1>1
<1>3. asked \in {<<>>} \cup (Nat \X Nat) /\ n \in Nat \ {0} /\ clock \in Nat
  BY ListingAssumption DEF IInv, TypeOK
<1>4. ListWindow(asked).from \in Nat /\ ListWindow(asked).to \in Nat
  BY <1>3, WindowType
<1>5. u \in Nat /\ u <= ListWindow(asked).to
  BY <1>3, <1>4
<1>6. q \in Walks
  <2>1. <<>> \in Seq(SUBSET Row) /\ rows \in SUBSET Row
    BY DEF IInv, TypeOK
  <2>2. QED BY <1>3, <1>5, <2>1 DEF Walks, FirstPage
<1>7. WalkOK(q)
  <2>1. WindowOK(q)
    BY <1>4, <1>5 DEF WindowOK
  <2>2. CursorOK(q)
    BY DEF CursorOK, Beyond
  <2>3. QED BY <2>1, <2>2 DEF WalkOK
<1>8. DOMAIN q.pages = {} /\ q.pc = "walking"
  OBVIOUS
<1>9. UNCHANGED <<clock, rows, entryId, arId, tx>>
  BY DEF StartWalk
<1> HIDE DEF q, u
<1>10. QED BY <1>2, <1>6, <1>7, <1>8, <1>9, WalkerStep

\* The page P, cut from the rows K that lie below the cursor: what it leaves for
\* the next page comes after all of it.
LEMMA FetchPageKeeps ==
  ASSUME IInv, NEW c \in Walker, NEW table \in Tables, FetchPage(c, table)
  PROVE  IInv'
<1> DEFINE o == walk[c]
           w == ListWindow(o.asked)
<1>1. PICK scope \in Scopes, P \in SUBSET rows, more \in BOOLEAN :
        /\ Page(c, w.from, w.to, scope, P, more)
        /\ \E cursor \in IF more THEN {encodeCursor(table, x) : x \in {y \in P : IsLast(table, P, y)}}
                         ELSE {walk[c].cursor} :
             walk' = [walk EXCEPT ![c].pc = IF more THEN "walking" ELSE "done",
                                  ![c].cursor = cursor,
                                  ![c].pages = Append(@, P),
                                  ![c].kept = @ \cap scope, ![c].from = w.from]
  BY DEF FetchPage
<1>2. PICK cursor \in IF more THEN {encodeCursor(table, x) : x \in {y \in P : IsLast(table, P, y)}}
                     ELSE {o.cursor} :
        walk' = [walk EXCEPT ![c].pc = IF more THEN "walking" ELSE "done",
                             ![c].cursor = cursor,
                             ![c].pages = Append(@, P),
                             ![c].kept = @ \cap scope, ![c].from = w.from]
  BY <1>1
<1>3. o \in Walks /\ o.pc = "walking" /\ o.table = table /\ clock \in Nat
  BY DEF IInv, TypeOK, Walks, FetchPage
<1> DEFINE q == [o EXCEPT !.pc = IF more THEN "walking" ELSE "done", !.cursor = cursor,
                          !.pages = Append(@, P), !.kept = @ \cap scope, !.from = w.from]
<1>4. walk' = [walk EXCEPT ![c] = q]
  BY <1>2, <1>3
<1>5. /\ q.pc = (IF more THEN "walking" ELSE "done") /\ q.table = table /\ q.limit = o.limit
      /\ q.asked = o.asked /\ q.cursor = cursor /\ q.pages = Append(o.pages, P)
      /\ q.there = o.there /\ q.kept = o.kept \cap scope /\ q.from = w.from /\ q.until = o.until
  BY <1>3 DEF Walks
<1> HIDE DEF q
<1>6. w.from \in Nat /\ w.to \in Nat
  BY <1>3, WindowType DEF Walks
<1> DEFINE K == {x \in In(table) : /\ w.from <= x.at /\ x.at <= w.to /\ x.entity \in scope
                                   /\ Beyond(o.cursor, table, x)}
<1>7. /\ P \subseteq K
      /\ \A x \in P, y \in K \ P : After(table, x, y)
      /\ more => Cardinality(P) = o.limit
      /\ ~more => P = K /\ ~(Cardinality(K) > o.limit)
  BY <1>1, <1>3 DEF Page
<1>8. K \subseteq rows /\ rows \subseteq Row /\ P \subseteq Row
  BY <1>7 DEF In, IInv, TypeOK
<1>9. \A x \in K : Id(table, x) > 0
  BY DEF In, Id, IInv, RowsOK, Numbered, Tables
<1>10. WalkOK(o) /\ WindowOK(o) /\ CursorOK(o) /\ o.there \subseteq rows
  BY <1>3 DEF IInv, WalkOK
\* The pages shown so far, and the new one.
<1> DEFINE n == Len(o.pages)
<1>11. /\ n \in Nat /\ DOMAIN o.pages = 1..n /\ DOMAIN q.pages = 1..n + 1 /\ Len(q.pages) = n + 1
       /\ q.pages[n + 1] = P /\ \A i \in 1..n : q.pages[i] = o.pages[i]
       /\ \A i \in 1..n : o.pages[i] \subseteq Row
  <2>1. o.pages \in Seq(SUBSET Row) /\ P \in SUBSET Row
    BY <1>3, <1>8 DEF Walks
  <2>2. QED BY <2>1, <1>5, AppendProperties
<1>12. o.cursor \in [at : Nat, id : Nat]
  BY <1>3 DEF Walks
\* What was shown before comes before all of the new page.
<1>13. \A i \in 1..n : \A x \in o.pages[i] : ~Beyond(o.cursor, table, x)
  BY <1>3, <1>10, <1>11 DEF CursorOK
<1>14. ASSUME NEW i \in 1..n, NEW x \in o.pages[i], NEW y \in P PROVE After(table, x, y)
  BY <1>7, <1>8, <1>11, <1>12, <1>13, AboveThenBelow
<1>15. ASSUME NEW i \in 1..n + 1, NEW j \in 1..n + 1, i < j,
              NEW x \in q.pages[i], NEW y \in q.pages[j]
       PROVE  After(q.table, x, y)
  <2>1. i \in 1..n /\ (j # n + 1 => j \in 1..n) /\ q.table = table
    BY <1>5, <1>11, <1>15
  <2>2. CASE j = n + 1
    <3>1. x \in o.pages[i] /\ y \in P
      BY <1>11, <1>15, <2>1, <2>2
    <3>2. QED BY <1>14, <2>1, <3>1
  <2>3. CASE j # n + 1
    <3>1. x \in o.pages[i] /\ y \in o.pages[j] /\ {i, j} \subseteq DOMAIN o.pages
      BY <1>11, <1>15, <2>1, <2>3
    <3>2. \A k, l \in DOMAIN o.pages : k < l =>
            \A u \in o.pages[k], v \in o.pages[l] : After(o.table, u, v)
      BY DEF IInv, PagesDescend, Pages
    <3>3. QED BY <1>3, <1>15, <2>1, <3>1, <3>2
  <2>4. QED BY <2>2, <2>3
\* The new cursor has below it what the new page left over.
<1>16. ASSUME more
       PROVE  \E x \in P : /\ cursor = encodeCursor(table, x)
                            /\ \A y \in P \ {x} : After(table, y, x)
  BY <1>2, <1>16 DEF IsLast
<1>17. cursor \in [at : Nat, id : Nat]
  BY <1>2, <1>7, <1>8, <1>9, <1>12, <1>16, CursorOfRow
<1>18. q \in Walks
  <2>1. q.pages \in Seq(SUBSET Row)
    BY <1>3, <1>5, <1>8, AppendProperties DEF Walks
  <2>2. DOMAIN q = DOMAIN o
    BY DEF q
  <2>3. q.pc \in {"idle", "walking", "done"}
    BY <1>5
  <2>4. QED BY <1>3, <1>5, <1>6, <1>17, <2>1, <2>3 DEF Walks, q
\* A row of the new list was one of the old.
<1>19. ASSUME NEW x \in o.there, Within(q, x)
       PROVE  /\ Within(o, x) /\ x \in In(table) /\ x.entity \in scope
              /\ w.from <= x.at /\ x.at <= w.to
  <2>1. x \in Row /\ o.from \in Nat /\ o.until \in Nat
    BY <1>3, <1>8, <1>10 DEF Walks
  <2>2. x.at \in Nat
    BY <2>1 DEF Row
  <2>3. /\ x.entity \in o.kept /\ x.entity \in scope
        /\ w.from <= x.at /\ x.at <= o.until /\ (table = "ar_ledger" => x.owed)
    BY <1>5, <1>19 DEF Within
  <2>4. o.from <= x.at /\ x.at <= w.to
    BY <1>6, <1>10, <2>1, <2>2, <2>3 DEF WindowOK
  <2>5. x \in In(table)
    BY <1>10, <2>3 DEF In, Tables
  <2>6. QED BY <1>3, <2>3, <2>4, <2>5 DEF Within
<1>20. ASSUME NEW x \in o.there, Within(q, x)
       PROVE  x \in K \/ \E i \in 1..n : x \in q.pages[i]
  BY <1>3, <1>10, <1>11, <1>19, <1>20 DEF CursorOK
<1>21. WalkOK(q)
  <2>1. WindowOK(q)
    BY <1>3, <1>5, <1>6, <1>10 DEF WindowOK, Walks
  <2>2. ASSUME more PROVE CursorOK(q)
    <3>1. PICK z \in P : /\ cursor = encodeCursor(table, z)
                         /\ \A y \in P \ {z} : After(table, y, z)
      BY <1>16, <2>2
    <3>2. z \in Row /\ Id(table, z) > 0
      BY <1>7, <1>8, <1>9
    <3>3. \A y \in Row : Beyond(cursor, table, y) <=> After(table, z, y)
      BY <3>1, <3>2, CursorOfRow
    <3>4. ASSUME NEW i \in 1..n + 1, NEW x \in q.pages[i] PROVE ~Beyond(cursor, table, x)
      <4>1. x \in Row /\ (i # n + 1 => i \in 1..n)
        BY <1>8, <1>11, <3>4
      <4>2. x = z \/ After(table, x, z)
        BY <1>11, <1>14, <3>1, <3>4, <4>1
      <4>3. ~After(table, z, x)
        BY <3>2, <4>1, <4>2, AfterIsOrder
      <4>4. QED BY <3>3, <4>1, <4>3
    <3>5. ASSUME NEW x \in o.there, Within(q, x)
          PROVE  Beyond(cursor, table, x) \/ \E i \in 1..n + 1 : x \in q.pages[i]
      <4>1. CASE x \in K \ P
        BY <1>7, <1>8, <3>1, <3>3, <4>1
      <4>2. CASE x \in P
        BY <1>11, <4>2
      <4>3. QED BY <1>11, <1>20, <3>5, <4>1, <4>2
    <3>6. QED BY <1>5, <1>11, <3>4, <3>5 DEF CursorOK
  <2>3. QED BY <1>5, <1>10, <2>1, <2>2 DEF WalkOK
<1>22. ASSUME q.pc = "done", NEW x \in q.there, Within(q, x)
       PROVE  \E i \in DOMAIN q.pages : x \in q.pages[i]
  <2>1. ~more /\ P = K
    BY <1>5, <1>7, <1>22
  <2>2. QED BY <1>5, <1>11, <1>20, <1>22, <2>1
<1>23. ASSUME NEW i \in DOMAIN q.pages
       PROVE  /\ Cardinality(q.pages[i]) <= q.limit
              /\ (i < Len(q.pages) \/ q.pc = "walking") => Cardinality(q.pages[i]) = q.limit
  <2>1. CASE i = n + 1
    <3>1. IsFiniteSet(K) /\ Cardinality(K) \in Nat /\ o.limit \in Nat
      BY <1>3, <1>8, FS_Subset, FS_CardinalityType DEF IInv, RowsOK, Walks
    <3>2. Cardinality(P) <= o.limit /\ (more => Cardinality(P) = o.limit)
      <4> HIDE DEF K
      <4>1. CASE more
        BY <1>7, <3>1, <4>1
      <4>2. CASE ~more
        <5>1. P = K /\ ~(Cardinality(K) > o.limit)
          BY <1>7, <4>2
        <5>2. QED BY <3>1, <4>2, <5>1
      <4>3. QED BY <4>1, <4>2
    <3>3. q.pages[i] = P /\ ~(i < Len(q.pages)) /\ q.limit = o.limit
      BY <1>5, <1>11, <2>1
    <3>4. q.pc = "walking" => more
      BY <1>5
    <3>5. QED BY <3>2, <3>3, <3>4
  <2>2. CASE i # n + 1
    <3>1. i \in DOMAIN o.pages /\ q.pages[i] = o.pages[i] /\ q.limit = o.limit
      BY <1>5, <1>11, <1>23, <2>2
    <3>2. Cardinality(o.pages[i]) = o.limit /\ o.limit \in Nat
      BY <1>3, <3>1 DEF IInv, PagesAreFull, Pages, Walks
    <3>3. QED BY <3>1, <3>2
  <2>3. QED BY <2>1, <2>2
<1>24. UNCHANGED <<clock, rows, entryId, arId, tx>>
  BY DEF FetchPage
<1>25. \A i, j \in DOMAIN q.pages : i < j =>
         \A x \in q.pages[i], y \in q.pages[j] : After(q.table, x, y)
  BY <1>11, <1>15
<1>26. QED BY <1>4, <1>18, <1>21, <1>22, <1>23, <1>24, <1>25, WalkerStep

------------------------------------------------------------------------------
\* Whatever is written while clients page, each cursor separates the rows that
\* were shown from the ones to come (entry_read.go:107, arledger.go:58).
THEOREM Invariant == Spec => []IInv
<1>1. Init => IInv
  BY InitInv
<1>2. IInv /\ [Next]_vars => IInv'
  <2> SUFFICES ASSUME IInv, [Next]_vars PROVE IInv'
    OBVIOUS
  <2>1. CASE UNCHANGED vars
    BY <2>1, WriterStep DEF vars, IInv, TypeOK, RowsOK
  <2>2. CASE Tick \/ \E w \in Writer :
               Begin(w) \/ InsertHeader(w) \/ insertARLedgerEntryTx(w) \/ Commit(w) \/ RollBack(w)
    BY <2>2, WritersKeep
  <2>3. CASE \E c \in Walker : StartWalk(c) \/ ListEntries(c) \/ ListARLedger(c)
    BY <2>3, StartWalkKeeps, FetchPageKeeps DEF ListEntries, ListARLedger, Tables
  <2>4. QED BY <2>1, <2>2, <2>3 DEF Next
<1>3. QED BY <1>1, <1>2, PTL DEF Spec

\* The tables and the walks keep their shape.
THEOREM Types == Spec => []TypeOK
BY Invariant, PTL DEF IInv

\* No row is shown twice and no page is out of order, although rows with earlier
\* keys are committed between the pages.
THEOREM NothingTwice == Spec => []PagesDescend
BY Invariant, PTL DEF IInv

\* Every row that was committed when the walk began, and that no page's filters
\* exclude, has been shown when the walk ends.
THEOREM NothingThereIsMissed == Spec => []WalkIsComplete
BY Invariant, PTL DEF IInv

\* A page that is followed by another has as many rows as were asked for.
THEOREM FullPages == Spec => []PagesAreFull
BY Invariant, PTL DEF IInv
==============================================================================
