-------------------------- MODULE ListingProperties --------------------------
(* What a client that pages through a list may rely on.                     *)
EXTENDS Listing

\* Rows, transactions and walks have the shape of the tables and of the inputs
\* and results of ListEntries and ListARLedger.
TypeOK ==
  /\ clock \in Nat /\ entryId \in Nat /\ arId \in Nat
  /\ rows \subseteq Row
  /\ tx \in [Writer -> [pc : {"idle", "begun", "crediting", "ready"}, row : Row]]
  /\ walk \in [Walker -> [pc : {"idle", "walking", "done"}, table : Tables, limit : Nat \ {0},
                         asked : {<<>>} \cup (Nat \X Nat), cursor : [at : Nat, id : Nat],
                         pages : Seq(SUBSET Row), there : SUBSET Row, kept : SUBSET Entities,
                         from : Nat, until : Nat]]

Pages(c) == DOMAIN walk[c].pages
Shown(c) == UNION {walk[c].pages[i] : i \in Pages(c)}

\* Every row of a page comes after every row of the pages before it, whatever
\* was committed, granted or revoked in between: no row is shown twice, and the
\* pages put together are in the order of the list.
PagesDescend ==
  \A c \in Walker : \A i, j \in Pages(c) : i < j =>
    \A x \in walk[c].pages[i], y \in walk[c].pages[j] : After(walk[c].table, x, y)

\* Rows of the walk's list that pass its filters on all its pages and lie in the
\* window that all of them have in common.
Within(q, x) == (q.table = "ar_ledger" => x.owed) /\ x.entity \in q.kept
                /\ q.from <= x.at /\ x.at <= q.until

\* A walk that ends has shown every such row that was committed when it began:
\* neither a row with the time of a cursor, nor one on the edge of two pages, nor
\* one next to rows that were committed meanwhile is left out.
WalkIsComplete ==
  \A c \in Walker : walk[c].pc = "done" =>
    \A x \in walk[c].there : Within(walk[c], x) => x \in Shown(c)

\* Only the last page may be short: a page with a next cursor has as many rows as
\* were asked for, although rows of other legal entities lie between them.
PagesAreFull ==
  \A c \in Walker : \A i \in Pages(c) :
    /\ Cardinality(walk[c].pages[i]) <= walk[c].limit
    /\ (i < Len(walk[c].pages) \/ walk[c].pc = "walking") =>
         Cardinality(walk[c].pages[i]) = walk[c].limit

------------------------------------------------------------------------------
(* The inductive invariant behind PagesDescend, WalkIsComplete and          *)
(* PagesAreFull.                                                            *)

\* Identity columns count from one: no row's key is that of the first page.
Numbered(x) == x.id > 0 /\ (x.owed => x.arId > 0)

RowsOK ==
  /\ IsFiniteSet(rows)
  /\ \A x \in rows : Numbered(x)
  /\ \A w \in Writer :
       /\ tx[w].pc \in {"crediting", "ready"} => tx[w].row.id > 0
       /\ tx[w].pc = "ready" => Numbered(tx[w].row)

WindowOK(q) ==
  /\ q.from <= ListWindow(q.asked).from
  /\ q.until <= ListWindow(q.asked).to

\* The cursor cuts the list in two: the rows above it were shown, or were not
\* there to be shown; the ones below are still to come.
CursorOK(q) ==
  /\ \A i \in DOMAIN q.pages : \A x \in q.pages[i] : ~Beyond(q.cursor, q.table, x)
  /\ \A x \in q.there : Within(q, x) =>
       Beyond(q.cursor, q.table, x) \/ \E i \in DOMAIN q.pages : x \in q.pages[i]

WalkOK(q) ==
  /\ q.there \subseteq rows
  /\ q.pc = "idle" => q = NoWalk
  /\ q.pc # "idle" => WindowOK(q)
  /\ q.pc = "walking" => CursorOK(q)

IInv ==
  /\ TypeOK /\ RowsOK /\ (\A c \in Walker : WalkOK(walk[c]))
  /\ PagesDescend /\ WalkIsComplete /\ PagesAreFull
==============================================================================
