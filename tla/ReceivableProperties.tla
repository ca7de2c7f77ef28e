-------------------------- MODULE ReceivableProperties --------------------------
(* What the figures of the receivable ledger owe to those who read them.    *)
EXTENDS Receivables

AddsUp(q) ==
  q.pc = "summarised" =>
    q.aging.upTo30 + q.aging.upTo60 + q.aging.upTo90 + q.aging.over90 = q.total

\* A summary's four ageing buckets add up to what is outstanding, on every day of
\* a receivable's life and when it falls due after the summary's date: the clocks
\* were read at different times (arledger.go:166-169).
AgingAddsUp == \A r \in Reader : AddsUp(query[r])

AgeBucket(days) ==
  IF days <= 30 THEN "upTo30" ELSE IF days <= 60 THEN "upTo60"
  ELSE IF days <= 90 THEN "upTo90" ELSE "over90"

SummaryTrueAt(q, m) ==
  LET R == Visible(m.receivables, q) IN
  /\ q.total = Total(R)
  /\ \A b \in DOMAIN q.aging : q.aging[b] = Total({x \in R : AgeBucket(q.day - x.due) = b})

TrueAt(q, m) ==
  /\ q.pc = "summarised" => SummaryTrueAt(q, m)
  /\ q.pc = "told" =>
       \A c \in q.asked : m.exposure[c].total = IF c \in DOMAIN q.found THEN q.found[c] ELSE 0

Answered(r) == query[r].pc \in {"summarised", "told"}

\* What is told was true at one moment between the question and the answer: the total
\* and its age buckets, in which every receivable the caller may see, however old,
\* counts where its days overdue put it (arledger.go:154-155); the exposures of all
\* the customers asked for together, those left out of a batch having used nothing.
AnswersAreOneMoment == \A r \in Reader : Answered(r) => \E m \in past[r] : TrueAt(query[r], m)

EntriesOf(o) == {x \in entries : x.order = o}
OwedFor(o) == {x \in receivables : x.order = o}

\* What the entries of an order leave on account 1122, in times of its amount.
Net(o) == SumFunctionOnSet([x \in entries |-> x.sign], EntriesOf(o))

\* Reversals, and reversals of reversals, leave an order's claim on account 1122
\* as it was posted or cancel it, never the opposite of it; the receivable stays
\* either way (manual.go ReverseEntry writes the journal only).
ClaimStandsOrIsCancelled ==
  \A o \in Orders :
    Net(o) \in {0, Cardinality(OwedFor(o))}

------------------------------------------------------------------------------
(* What the steps need of the states they start in.                         *)

Buckets == [upTo30 : Nat, upTo60 : Nat, upTo90 : Nat, over90 : Nat]

\* No rows are lost or invented, and the date of a summary is a day.
RowsTyped ==
  /\ today \in Nat
  /\ entries \subseteq [order : Orders, nth : Nat, sign : {1, -1}] /\ IsFiniteSet(entries)
  /\ receivables \subseteq [order : Orders, due : Nat] /\ IsFiniteSet(receivables)
  /\ exposure \in [Customers -> [total : Nat, version : Nat]]
  /\ tx \in [Poster -> [order : Orders \cup {NoOrder}, day : Nat]]

Queries ==
  [pc : {"idle", "summary", "summarised", "exposures", "told"}, asked : SUBSET Customers,
   scope : Scopes \cup {{}}, day : Nat, total : Nat, aging : Buckets,
   found : UNION {[C -> Nat] : C \in SUBSET Customers}]

\* Every reader has a question of its own, and the moments of that question.
QueriesTyped == query \in [Reader -> Queries] /\ past = [r \in Reader |-> past[r]]

\* The present is a moment of every question that waits; a customer without a row has
\* used nothing.
PresentIsRecorded ==
  /\ \A r \in Reader : Waiting(r) => Now \in past[r]
  /\ \A c \in Customers : exposure[c].version = 0 => exposure[c].total = 0

\* The entries of an order form a chain, and the last one says whether its claim
\* stands; the order has a receivable from its first entry on.
ChainsAlternate ==
  \A o \in Orders :
    /\ \A x \in EntriesOf(o) :
         /\ x.nth < Cardinality(EntriesOf(o))
         /\ ensureNotReversedTx(x) => Net(o) = IF x.sign = 1 THEN 1 ELSE 0
    /\ Cardinality(OwedFor(o)) = IF Posted(o) THEN 1 ELSE 0

FiguresInv ==
  /\ RowsTyped /\ QueriesTyped /\ PresentIsRecorded /\ ChainsAlternate
  /\ AgingAddsUp /\ AnswersAreOneMoment /\ ClaimStandsOrIsCancelled
==============================================================================
