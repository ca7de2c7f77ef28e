------------------------------ MODULE Receivables ------------------------------
(***************************************************************************)
(* The receivable ledger and the credit that customers have used, and the  *)
(* figures that are asked of them while orders are posted: the summary     *)
(* with its ageing, one customer's credit used, several customers' at once.*)
(* An order's due date and a summary's date are read from the clock before *)
(* the transaction that uses them.  Amounts are whole cents.               *)
(***************************************************************************)
EXTENDS Integers, FiniteSets, Functions

CONSTANTS
  Orders,        \* orders that are posted: id, customer, legal entity, amount
  Customers,
  Entities,
  Scopes,        \* lists of legal entities that callers are granted
  Poster,        \* sessions that post orders
  Reader,        \* sessions that ask
  NoOrder, Everyone,
  Steps,         \* the days that pass at a time
  MaxDay,        \* bound: days
  MaxEntries,    \* bound: entries
  MaxAnswers     \* bound: questions

VARIABLES
  today,
  entries,      \* entries of orders and their reversals; sign: 1 as posted, -1 swapped
  receivables,  \* ar_ledger; nothing writes reconciled_amount yet
  exposure,     \* customer_credit_exposure; version 0: there is no row
  tx,           \* tx[w]: the order that w posts and the date it has read
  query,        \* query[r]: what r has asked, and its answer
  answers,      \* how many there were, for the bound
  past          \* history: past[r]: the moments from r's question to its answer

vars == <<today, entries, receivables, exposure, tx, query, answers, past>>

ASSUME OrdersAssumption ==
  /\ Orders \subseteq [id : Nat, customer : Customers, entity : Entities, amount : Nat \ {0}]
  /\ Scopes \subseteq SUBSET Entities /\ Everyone \notin Customers /\ NoOrder \notin Orders
  /\ Steps \subseteq Nat \ {0}
  /\ MaxDay \in Nat /\ MaxEntries \in Nat /\ MaxAnswers \in Nat

Total(R) == SumFunctionOnSet([x \in R |-> x.order.amount], R)

Now == [receivables |-> receivables, exposure |-> exposure]
Waiting(r) == query[r].pc \in {"summary", "exposures"}

------------------------------------------------------------------------------
(* Posting an order, and reversing an entry.                                *)

\* Bound: whoever starts can end.
InBudget == Cardinality(entries) + Cardinality({w \in Poster : tx[w].order # NoOrder}) < MaxEntries

Posted(o) == \E x \in entries : x.order = o

Begin(w) ==
  /\ tx[w].order = NoOrder
  /\ \E o \in Orders :
       /\ Posted(o) \/ InBudget
       /\ tx' = [tx EXCEPT ![w] = [order |-> o, day |-> today]]
  /\ UNCHANGED <<today, entries, receivables, exposure, query, answers, past>>

applyCreditExposureDeltaTx(c, amount) ==
  exposure' = [exposure EXCEPT ![c] = [total |-> @.total + amount, version |-> @.version + 1]]

\* One row, due on the day that the posting read from the clock.
insertARLedgerEntryTx(w) ==
  receivables' = receivables \cup {[order |-> tx[w].order, due |-> tx[w].day]}

\* An order that is already posted is a duplicate and is skipped.
postSalesOrderEntryTx(w) ==
  LET o == tx[w].order IN
  /\ o # NoOrder
  /\ IF Posted(o)
     THEN UNCHANGED <<entries, receivables, exposure, past>>
     ELSE /\ entries' = entries \cup {[order |-> o, nth |-> 0, sign |-> 1]}
          /\ insertARLedgerEntryTx(w)
          /\ applyCreditExposureDeltaTx(o.customer, o.amount)
          /\ past' = [r \in Reader |-> IF Waiting(r) THEN past[r] \cup {Now'} ELSE past[r]]
  /\ tx' = [tx EXCEPT ![w] = [order |-> NoOrder, day |-> 0]]
  /\ UNCHANGED <<today, query, answers>>

\* Mutant: ensureNotReversedTx is not called.
Unreversed(x) == TRUE

\* x is reversed by the next entry of its chain.
ensureNotReversedTx(x) == ~\E y \in entries : y.order = x.order /\ y.nth > x.nth

\* An entry is undone in the journal alone: the receivable and the credit used
\* stay, and the reversal can itself be reversed.
ReverseEntry ==
  /\ InBudget
  /\ \E x \in entries :
       /\ ensureNotReversedTx(x)
       /\ entries' = entries \cup
            {[order |-> x.order, nth |-> Cardinality({y \in entries : y.order = x.order}),
              sign |-> -x.sign]}
  /\ UNCHANGED <<today, receivables, exposure, tx, query, answers, past>>

------------------------------------------------------------------------------
(* Questions.  One statement sees one moment.                               *)

NoAging == [upTo30 |-> 0, upTo60 |-> 0, upTo90 |-> 0, over90 |-> 0]
NoQuery == [pc |-> "idle", asked |-> {}, scope |-> {}, day |-> 0, total |-> 0,
            aging |-> NoAging, found |-> <<>>]

Ask(r, q) ==
  /\ query[r].pc = "idle" /\ answers < MaxAnswers
  /\ answers' = answers + 1
  /\ query' = [query EXCEPT ![r] = q]
  /\ past' = [past EXCEPT ![r] = {Now}]
  /\ UNCHANGED <<today, entries, receivables, exposure, tx>>

Answer(r, q) ==
  /\ query' = [query EXCEPT ![r] = q]
  /\ UNCHANGED <<today, entries, receivables, exposure, tx, answers, past>>

\* The service reads the clock, and for a customer's or for everybody's figures.
AskSummary(r) ==
  \E c \in Customers \cup {Everyone}, scope \in Scopes :
    Ask(r, [NoQuery EXCEPT !.pc = "summary", !.scope = scope, !.day = today,
                           !.asked = IF c = Everyone THEN Customers ELSE {c}])

Visible(R, q) == {x \in R : x.order.entity \in q.scope /\ x.order.customer \in q.asked}

\* Mutant: BETWEEN is taken to exclude its ends.
AgingWithGaps(R, day) ==
  LET Between(a, b) == Total({x \in R : a < day - x.due /\ day - x.due < b}) IN
  [upTo30 |-> Total({x \in R : day - x.due <= 30}), upTo60 |-> Between(31, 60),
   upTo90 |-> Between(61, 90), over90 |-> Total({x \in R : day - x.due > 90})]

\* Mutant: the first day of a bucket is counted in the one before.
AgingADayLate(R, day) ==
  LET Between(a, b) == Total({x \in R : a <= day - x.due /\ day - x.due <= b}) IN
  [upTo30 |-> Total({x \in R : day - x.due <= 31}), upTo60 |-> Between(32, 61),
   upTo90 |-> Between(62, 91), over90 |-> Total({x \in R : day - x.due > 91})]

\* What is not yet due is in the first bucket.
Aging(R, day) ==
  LET Between(a, b) == Total({x \in R : a <= day - x.due /\ day - x.due <= b}) IN
  [upTo30 |-> Total({x \in R : day - x.due <= 30}), upTo60 |-> Between(31, 60),
   upTo90 |-> Between(61, 90), over90 |-> Total({x \in R : day - x.due > 90})]

\* Mutant: the default window of the lists is applied.
SummarizeInWindow(r) ==
  LET q == query[r]
      R == {x \in Visible(receivables, q) : x.due >= q.day - 90}
  IN
  /\ q.pc = "summary"
  /\ Answer(r, [q EXCEPT !.pc = "summarised", !.total = Total(R), !.aging = Aging(R, q.day)])

SummarizeARLedger(r) ==
  LET q == query[r]
      R == Visible(receivables, q)
  IN
  /\ q.pc = "summary"
  /\ Answer(r, [q EXCEPT !.pc = "summarised", !.total = Total(R), !.aging = Aging(R, q.day)])

AskExposures(r) ==
  \E C \in (SUBSET Customers) \ {{}} : Ask(r, [NoQuery EXCEPT !.pc = "exposures", !.asked = C])

\* A customer without a row has used "0".
GetCreditExposure(r) ==
  LET q == query[r] IN
  /\ q.pc = "exposures" /\ Cardinality(q.asked) = 1
  /\ Answer(r, [q EXCEPT !.pc = "told", !.found = [c \in q.asked |-> exposure[c].total]])

Found(C) == {c \in C : exposure[c].version > 0}

\* Mutant: one lookup after the other.
BatchOneByOne(r) ==
  LET q == query[r] IN
  /\ q.pc = "exposures"
  /\ \E c \in q.asked \ DOMAIN q.found :
       LET found == [d \in DOMAIN q.found \cup {c} |->
                       IF d = c THEN exposure[c].total ELSE q.found[d]]
       IN Answer(r, [q EXCEPT !.pc = IF DOMAIN found = q.asked THEN "told" ELSE @,
                              !.found = found])

\* Customers without a row are left out; callers take them to have used nothing.
BatchGetCreditExposure(r) ==
  LET q == query[r] IN
  /\ q.pc = "exposures"
  /\ Answer(r, [q EXCEPT !.pc = "told", !.found = [c \in Found(q.asked) |-> exposure[c].total]])

Return(r) == query[r].pc \in {"summarised", "told"} /\ Answer(r, NoQuery)

DaysPass ==
  /\ \E n \in Steps : today + n <= MaxDay /\ today' = today + n
  /\ UNCHANGED <<entries, receivables, exposure, tx, query, answers, past>>

------------------------------------------------------------------------------
Init ==
  /\ today = 0
  /\ entries = {} /\ receivables = {}
  /\ exposure = [c \in Customers |-> [total |-> 0, version |-> 0]]
  /\ tx = [w \in Poster |-> [order |-> NoOrder, day |-> 0]]
  /\ query = [r \in Reader |-> NoQuery]
  /\ answers = 0
  /\ past = [r \in Reader |-> {}]

Next ==
  \/ \E w \in Poster : Begin(w) \/ postSalesOrderEntryTx(w)
  \/ ReverseEntry
  \/ \E r \in Reader :
       \/ AskSummary(r) \/ SummarizeARLedger(r)
       \/ AskExposures(r) \/ GetCreditExposure(r) \/ BatchGetCreditExposure(r)
       \/ Return(r)
  \/ DaysPass

Spec == Init /\ [][Next]_vars
==============================================================================
