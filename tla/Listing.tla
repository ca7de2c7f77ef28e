------------------------------- MODULE Listing -------------------------------
(***************************************************************************)
(* Clients that page through the entries and the receivables while         *)
(* transactions write them.  A list is cut into pages by a key: the next   *)
(* page holds the rows before the cursor, the (created_at, id) of the last *)
(* row that was shown.  A row's created_at is the time its transaction     *)
(* began, its id is drawn at the INSERT, and it is seen only after the     *)
(* COMMIT, so rows need not appear in the order of their keys.             *)
(***************************************************************************)
EXTENDS Naturals, FiniteSets, Sequences

CONSTANTS
  Writer,         \* transactions that are under way at the same time
  Walker,         \* clients that page through a list
  Entities,       \* legal entities, a stand-in for every filter of a list
  DefaultEntity,  \* the one that orders are booked for
  Scopes,         \* the sets of legal entities a walker may be granted
  Limits,         \* page sizes
  Days,           \* the default window: the last so many ticks of the clock
  Windows,        \* the windows that clients ask for; <<>>: none
  MaxClock,       \* bound: ticks of the clock in a behaviour
  MaxId           \* bound: entry ids handed out in a behaviour

VARIABLES
  clock,    \* now() of the database
  rows,     \* the committed rows
  entryId,  \* the identity column of finance_journal_entries
  arId,     \* the identity column of ar_ledger
  tx,       \* tx[w]: the row that writer w is about to commit
  walk      \* walk[c]: how far client c has paged

vars == <<clock, rows, entryId, arId, tx, walk>>

ASSUME ListingAssumption ==
  /\ DefaultEntity \in Entities
  /\ Scopes \subseteq SUBSET Entities
  /\ Windows \subseteq {<<>>} \cup (Nat \X Nat)
  /\ Limits \subseteq Nat \ {0}
  /\ Days \in Nat /\ MaxClock \in Nat /\ MaxId \in Nat

Tables == {"entries", "ar_ledger"}

\* A row of finance_journal_entries and, when owed, its row of ar_ledger: both
\* get the created_at of their transaction, and an id of their own table.
Row == [at : Nat, entity : Entities, owed : BOOLEAN, id : Nat, arId : Nat]

In(table) == IF table = "entries" THEN rows ELSE {x \in rows : x.owed}

------------------------------------------------------------------------------
(* Writers.                                                                 *)

NoRow == [at |-> 0, entity |-> DefaultEntity, owed |-> FALSE, id |-> 0, arId |-> 0]
Resting == [pc |-> "idle", row |-> NoRow]

Begin(w) ==
  /\ tx[w].pc = "idle"
  /\ \E e \in Entities, owed \in BOOLEAN :
       /\ owed => e = DefaultEntity
       /\ tx' = [tx EXCEPT ![w] = [pc |-> "begun",
                  row |-> [at |-> clock, entity |-> e, owed |-> owed, id |-> 0, arId |-> 0]]]
  /\ UNCHANGED <<clock, rows, entryId, arId, walk>>

\* postEntryTx inserts the header; an order's entry has its receivable inserted
\* later, after the customer's exposure is raised.
InsertHeader(w) ==
  /\ tx[w].pc = "begun" /\ entryId < MaxId
  /\ entryId' = entryId + 1
  /\ tx' = [tx EXCEPT ![w].row.id = entryId',
                      ![w].pc = IF tx[w].row.owed THEN "crediting" ELSE "ready"]
  /\ UNCHANGED <<clock, rows, arId, walk>>

insertARLedgerEntryTx(w) ==
  /\ tx[w].pc = "crediting"
  /\ arId' = arId + 1
  /\ tx' = [tx EXCEPT ![w].row.arId = arId', ![w].pc = "ready"]
  /\ UNCHANGED <<clock, rows, entryId, walk>>

Commit(w) ==
  /\ tx[w].pc = "ready"
  /\ rows' = rows \cup {tx[w].row}
  /\ tx' = [tx EXCEPT ![w] = Resting]
  /\ UNCHANGED <<clock, entryId, arId, walk>>

RollBack(w) ==
  /\ tx[w].pc # "idle"
  /\ tx' = [tx EXCEPT ![w] = Resting]
  /\ UNCHANGED <<clock, rows, entryId, arId, walk>>

Tick == clock < MaxClock /\ clock' = clock + 1 /\ UNCHANGED <<rows, entryId, arId, tx, walk>>

------------------------------------------------------------------------------
(* Pages.                                                                   *)

Id(table, x) == IF table = "entries" THEN x.id ELSE x.arId

\* ORDER BY created_at DESC, id DESC: y comes after x.
After(table, x, y) == y.at < x.at \/ (y.at = x.at /\ Id(table, y) < Id(table, x))

FirstPage == [at |-> 0, id |-> 0]

\* Mutant: the cursor is the time alone.
encodeTime(table, x) == [at |-> x.at]

\* Mutant: the id in the cursor is below that of every row of its time.
encodeWithoutTies(table, x) == [at |-> x.at, id |-> 1]

\* The whole of the key: the time with all its digits, and the id.
encodeCursor(table, x) == [at |-> x.at, id |-> Id(table, x)]

\* Mutant: <= in place of <.
BeyondOrAt(cursor, table, x) ==
  cursor = FirstPage \/ x.at < cursor.at \/ (x.at = cursor.at /\ Id(table, x) <= cursor.id)

\* (created_at, id) < cursor; a blank cursor asks for the first page.  One that
\* cannot be decoded is refused and changes nothing: it is no step here.
Beyond(cursor, table, x) ==
  cursor = FirstPage \/ x.at < cursor.at \/ (x.at = cursor.at /\ Id(table, x) < cursor.id)

\* besdk.ListWindow: what the client asks for, or the last days up to now.
ListWindow(asked) ==
  IF asked = <<>> THEN [from |-> IF clock > Days THEN clock - Days ELSE 0, to |-> clock]
  ELSE [from |-> asked[1], to |-> asked[2]]

\* Mutant: the scope is not in the WHERE clause; rows out of it are dropped from
\* the page afterwards.
PageThenFilter(c, from, to, scope, P, more) ==
  LET q == walk[c]
      K == {x \in In(q.table) : from <= x.at /\ x.at <= to /\ Beyond(q.cursor, q.table, x)}
  IN  \E Q \in SUBSET K :
        /\ \A x \in Q, y \in K \ Q : After(q.table, x, y)
        /\ IF Cardinality(K) > q.limit THEN more /\ Cardinality(Q) = q.limit ELSE ~more /\ Q = K
        /\ P = {x \in Q : x.entity \in scope}

\* The rows P are the page, more says that there is a next one: LIMIT is one
\* more than the page, and the row too many is dropped.
Page(c, from, to, scope, P, more) ==
  LET q == walk[c]
      K == {x \in In(q.table) : /\ from <= x.at /\ x.at <= to /\ x.entity \in scope
                                /\ Beyond(q.cursor, q.table, x)}
  IN  /\ P \subseteq K
      /\ \A x \in P, y \in K \ P : After(q.table, x, y)
      /\ IF Cardinality(K) > q.limit THEN more /\ Cardinality(P) = q.limit ELSE ~more /\ P = K

IsLast(table, P, x) == x \in P /\ \A y \in P \ {x} : After(table, y, x)

NoWalk == [pc |-> "idle", table |-> "entries", limit |-> 1, asked |-> <<>>, cursor |-> FirstPage,
           pages |-> <<>>, there |-> {}, kept |-> {}, from |-> 0, until |-> 0]

\* pages is what the client was shown; the last four fields are history: the
\* rows committed when the walk began, the entities granted at every page, the
\* window that all pages had in common, which ends when the walk began.
StartWalk(c) ==
  /\ walk[c].pc = "idle"
  /\ \E t \in Tables, n \in Limits, asked \in Windows :
       walk' = [walk EXCEPT ![c] =
         [pc |-> "walking", table |-> t, limit |-> n, asked |-> asked, cursor |-> FirstPage,
          pages |-> <<>>, there |-> rows, kept |-> Entities, from |-> 0,
          until |-> IF ListWindow(asked).to < clock THEN ListWindow(asked).to ELSE clock]]
  /\ UNCHANGED <<clock, rows, entryId, arId, tx>>

FetchPage(c, table) ==
  /\ walk[c].pc = "walking" /\ walk[c].table = table
  /\ LET w == ListWindow(walk[c].asked) IN
     \E scope \in Scopes, P \in SUBSET rows, more \in BOOLEAN :
       /\ Page(c, w.from, w.to, scope, P, more)
       /\ \E cursor \in IF more THEN {encodeCursor(table, x) : x \in {y \in P : IsLast(table, P, y)}}
                        ELSE {walk[c].cursor} :
            walk' = [walk EXCEPT ![c].pc = IF more THEN "walking" ELSE "done",
                                 ![c].cursor = cursor,
                                 ![c].pages = Append(@, P),
                                 ![c].kept = @ \cap scope, ![c].from = w.from]
  /\ UNCHANGED <<clock, rows, entryId, arId, tx>>

ListEntries(c) == FetchPage(c, "entries")
ListARLedger(c) == FetchPage(c, "ar_ledger")

------------------------------------------------------------------------------
Init ==
  /\ clock = 0
  /\ rows = {}
  /\ entryId = 0 /\ arId = 0
  /\ tx = [w \in Writer |-> Resting]
  /\ walk = [c \in Walker |-> NoWalk]

Next ==
  \/ Tick
  \/ \E w \in Writer :
       Begin(w) \/ InsertHeader(w) \/ insertARLedgerEntryTx(w) \/ Commit(w) \/ RollBack(w)
  \/ \E c \in Walker : StartWalk(c) \/ ListEntries(c) \/ ListARLedger(c)

Spec == Init /\ [][Next]_vars
==============================================================================
