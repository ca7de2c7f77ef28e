---------------------------- MODULE ReceivableProofs ----------------------------
(***************************************************************************)
(* Proofs about the figures of the receivable ledger.  The inductive       *)
(* invariant, FiguresInv, adds to the three properties that the present is *)
(* a moment of every question that waits, and that the entries of an order form a     *)
(* chain whose last entry says whether its claim stands.                   *)
(***************************************************************************)
EXTENDS ReceivableProperties, SumProofs

Rows == [order : Orders, due : Nat]

\* What the assumption says of one order.
LEMMA OrderFields ==
  /\ \A o \in Orders : o.customer \in Customers /\ o.entity \in Entities /\ o.amount \in Nat
                       /\ o # NoOrder
  /\ \A C \in Scopes : C \in SUBSET Entities
BY OrdersAssumption

------------------------------------------------------------------------------
(* Totals.                                                                  *)

\* The total of two sets of receivables that have none in common.
LEMMA TotalOfParts ==
  ASSUME NEW R \in SUBSET Rows, NEW S \in SUBSET Rows, IsFiniteSet(R), IsFiniteSet(S),
         R \cap S = {}
  PROVE  /\ Total(R) \in Nat /\ Total(S) \in Nat /\ IsFiniteSet(R \cup S)
         /\ Total(R \cup S) = Total(R) + Total(S)
<1> DEFINE f == [x \in R \cup S |-> x.order.amount]
           fR == [x \in R |-> x.order.amount]
           fS == [x \in S |-> x.order.amount]
<1>1. \A x \in R \cup S : f[x] \in Nat
  BY OrderFields DEF Rows
<1>2. (\A x \in R : f[x] = fR[x]) /\ (\A x \in S : f[x] = fS[x])
  OBVIOUS
<1>3. Total(R \cup S) = SumFunctionOnSet(f, R \cup S) /\ Total(R) = SumFunctionOnSet(fR, R)
      /\ Total(S) = SumFunctionOnSet(fS, S)
  BY DEF Total
<1> HIDE DEF f, fR, fS
<1>4. Total(R) = SumFunctionOnSet(f, R) /\ Total(S) = SumFunctionOnSet(f, S)
  BY <1>2, <1>3, SumSame
<1>5. SumFunctionOnSet(f, R) \in Nat /\ SumFunctionOnSet(f, S) \in Nat
  BY <1>1, SumType
<1>6. \A x \in R \cup S : f[x] \in Int
  BY <1>1
<1>7. SumFunctionOnSet(f, R \cup S) = SumFunctionOnSet(f, R) + SumFunctionOnSet(f, S)
  BY <1>6, SumUnion
<1>8. QED BY <1>3, <1>4, <1>5, <1>7, FS_Union

\* The ages of receivables are whole numbers, so the four buckets have every
\* receivable once, each in the bucket of its age.
LEMMA BucketsAddUp ==
  ASSUME NEW R \in SUBSET Rows, IsFiniteSet(R), NEW day \in Nat
  PROVE  /\ Aging(R, day) \in Buckets /\ Total(R) \in Nat
         /\ Aging(R, day).upTo30 + Aging(R, day).upTo60 + Aging(R, day).upTo90
              + Aging(R, day).over90 = Total(R)
         /\ \A b \in DOMAIN Aging(R, day) :
              Aging(R, day)[b] = Total({x \in R : AgeBucket(day - x.due) = b})
<1> DEFINE A == {x \in R : day - x.due <= 30}
           B == {x \in R : 31 <= day - x.due /\ day - x.due <= 60}
           C == {x \in R : 61 <= day - x.due /\ day - x.due <= 90}
           D == {x \in R : day - x.due > 90}
<1>1. /\ Aging(R, day).upTo30 = Total(A) /\ Aging(R, day).upTo60 = Total(B)
      /\ Aging(R, day).upTo90 = Total(C) /\ Aging(R, day).over90 = Total(D)
      /\ Aging(R, day) = [upTo30 |-> Total(A), upTo60 |-> Total(B), upTo90 |-> Total(C),
                          over90 |-> Total(D)]
  BY DEF Aging
<1>2. \A x \in R : day - x.due \in Int
  BY DEF Rows
<1>3. /\ A \cap B = {} /\ (A \cup B) \cap C = {} /\ (A \cup B \cup C) \cap D = {}
      /\ A \cup B \cup C \cup D = R
  BY <1>2
<1>10. /\ {x \in R : AgeBucket(day - x.due) = "upTo30"} = A
       /\ {x \in R : AgeBucket(day - x.due) = "upTo60"} = B
       /\ {x \in R : AgeBucket(day - x.due) = "upTo90"} = C
       /\ {x \in R : AgeBucket(day - x.due) = "over90"} = D
  BY <1>2 DEF AgeBucket
<1>4. /\ A \in SUBSET Rows /\ B \in SUBSET Rows /\ C \in SUBSET Rows /\ D \in SUBSET Rows
      /\ A \subseteq R /\ B \subseteq R /\ C \subseteq R /\ D \subseteq R
  OBVIOUS
<1> HIDE DEF A, B, C, D
<1>5. IsFiniteSet(A) /\ IsFiniteSet(B) /\ IsFiniteSet(C) /\ IsFiniteSet(D)
  BY <1>4, FS_Subset
<1>6. /\ Total(A) \in Nat /\ Total(B) \in Nat /\ IsFiniteSet(A \cup B)
      /\ Total(A \cup B) = Total(A) + Total(B)
  BY <1>3, <1>4, <1>5, TotalOfParts
<1>7. /\ Total(C) \in Nat /\ IsFiniteSet(A \cup B \cup C) /\ A \cup B \in SUBSET Rows
      /\ Total(A \cup B \cup C) = Total(A \cup B) + Total(C)
  BY <1>3, <1>4, <1>5, <1>6, TotalOfParts
<1>8. /\ Total(D) \in Nat /\ Total(R) = Total(A \cup B \cup C) + Total(D)
  <2>1. A \cup B \cup C \in SUBSET Rows
    BY <1>4
  <2>2. Total(D) \in Nat /\ Total((A \cup B \cup C) \cup D) = Total(A \cup B \cup C) + Total(D)
    BY <1>3, <1>4, <1>5, <1>7, <2>1, TotalOfParts
  <2>3. QED BY <1>3, <2>2
<1>9. \A b \in DOMAIN Aging(R, day) :
        Aging(R, day)[b] = Total({x \in R : AgeBucket(day - x.due) = b})
  <2>1. DOMAIN Aging(R, day) = {"upTo30", "upTo60", "upTo90", "over90"}
    BY <1>1
  <2>2. QED BY <1>1, <1>10, <2>1
<1>11. QED BY <1>1, <1>6, <1>7, <1>8, <1>9 DEF Buckets

------------------------------------------------------------------------------
(* What the entries of an order leave of its claim.                         *)

\* One entry more adds its sign.
LEMMA NetOfOneMore ==
  ASSUME entries \subseteq [order : Orders, nth : Nat, sign : {1, -1}], IsFiniteSet(entries),
         NEW y \in [order : Orders, nth : Nat, sign : {1, -1}], y \notin entries,
         entries' = entries \cup {y}
  PROVE  /\ Net(y.order) \in Int /\ Net(y.order)' = Net(y.order) + y.sign
         /\ \A o \in Orders : o # y.order => Net(o)' = Net(o)
         /\ IsFiniteSet(EntriesOf(y.order)) /\ EntriesOf(y.order)' = EntriesOf(y.order) \cup {y}
         /\ \A o \in Orders : o # y.order => EntriesOf(o)' = EntriesOf(o)
<1> DEFINE f == [x \in entries |-> x.sign]
           g == [x \in entries \cup {y} |-> x.sign]
<1>1. PICK T : T = entries
  OBVIOUS
<1>2. /\ EntriesOf(y.order)' = EntriesOf(y.order) \cup {y} /\ y \notin EntriesOf(y.order)
      /\ \A o \in Orders : o # y.order => EntriesOf(o)' = EntriesOf(o)
  BY DEF EntriesOf
<1>3. /\ \A o \in Orders : EntriesOf(o) \subseteq entries /\ IsFiniteSet(EntriesOf(o))
      /\ y.order \in Orders
  BY FS_Subset DEF EntriesOf
<1>4. \A o : Net(o) = SumFunctionOnSet(f, EntriesOf(o))
             /\ Net(o)' = SumFunctionOnSet(g, EntriesOf(o)')
  BY DEF Net
<1>5. (\A x \in entries : f[x] = g[x] /\ g[x] \in Int) /\ g[y] = y.sign /\ y.sign \in Int
  OBVIOUS
<1> HIDE DEF f, g
<1>6. \A o \in Orders : Net(o) = SumFunctionOnSet(g, EntriesOf(o))
  <2>1. SUFFICES ASSUME NEW o \in Orders PROVE Net(o) = SumFunctionOnSet(g, EntriesOf(o))
    OBVIOUS
  <2>2. IsFiniteSet(EntriesOf(o)) /\ \A x \in EntriesOf(o) : f[x] = g[x]
    BY <1>3, <1>5
  <2>3. QED BY <1>4, <2>2, SumSame
<1>7. Net(y.order) \in Int /\ Net(y.order)' = Net(y.order) + y.sign
  <2>1. IsFiniteSet(EntriesOf(y.order)) /\ \A x \in EntriesOf(y.order) : g[x] \in Int
    BY <1>3, <1>5
  <2>2. SumFunctionOnSet(g, EntriesOf(y.order)) \in Int
    BY <2>1, SumType
  <2>3. SumFunctionOnSet(g, EntriesOf(y.order) \cup {y})
          = SumFunctionOnSet(g, EntriesOf(y.order)) + g[y]
    BY <1>2, <1>5, <2>1, SumAdd
  <2>4. QED BY <1>2, <1>3, <1>4, <1>5, <1>6, <2>2, <2>3
<1>8. QED BY <1>2, <1>3, <1>4, <1>6, <1>7

\* A receivable more.
LEMMA OwedOneMore ==
  ASSUME IsFiniteSet(receivables), NEW v, v \notin receivables, receivables' = receivables \cup {v},
         NEW o
  PROVE  /\ IsFiniteSet(OwedFor(o)) /\ Cardinality(OwedFor(o)) \in Nat
         /\ v.order = o => Cardinality(OwedFor(o)') = Cardinality(OwedFor(o)) + 1
         /\ v.order # o => OwedFor(o)' = OwedFor(o)
<1>1. IsFiniteSet(OwedFor(o))
  BY FS_Subset DEF OwedFor
<1>2. ASSUME v.order = o PROVE OwedFor(o)' = OwedFor(o) \cup {v} /\ v \notin OwedFor(o)
  BY <1>2 DEF OwedFor
<1>3. ASSUME v.order # o PROVE OwedFor(o)' = OwedFor(o)
  BY <1>3 DEF OwedFor
<1>4. QED BY <1>1, <1>2, <1>3, FS_AddElement, FS_CardinalityType

\* An order that is posted starts its chain, and its claim stands.
LEMMA PostKeepsChains ==
  ASSUME FiguresInv, NEW o \in Orders, NEW day \in Nat, ~Posted(o),
         entries' = entries \cup {[order |-> o, nth |-> 0, sign |-> 1]},
         receivables' = receivables \cup {[order |-> o, due |-> day]}
  PROVE  ChainsAlternate' /\ ClaimStandsOrIsCancelled'
<1> DEFINE y == [order |-> o, nth |-> 0, sign |-> 1]
           v == [order |-> o, due |-> day]
<1>1. /\ entries \subseteq [order : Orders, nth : Nat, sign : {1, -1}] /\ IsFiniteSet(entries)
      /\ receivables \subseteq Rows /\ IsFiniteSet(receivables)
      /\ ChainsAlternate /\ ClaimStandsOrIsCancelled
  BY DEF FiguresInv, RowsTyped, Rows
<1>2. /\ y \in [order : Orders, nth : Nat, sign : {1, -1}] /\ y \notin entries
      /\ entries' = entries \cup {y} /\ y.order = o /\ y.sign = 1 /\ y.nth = 0
  BY DEF Posted
<1>3. v \notin receivables /\ v.order = o
  <2>1. IsFiniteSet(OwedFor(o))
    BY <1>1, FS_Subset DEF OwedFor
  <2>2. Cardinality(OwedFor(o)) = 0
    BY <1>1 DEF ChainsAlternate
  <2>3. OwedFor(o) = {}
    BY <2>1, <2>2, FS_EmptySet
  <2>4. QED BY <2>3 DEF OwedFor
<1>4. /\ Cardinality(OwedFor(o)') = Cardinality(OwedFor(o)) + 1
      /\ \A p : p # o => OwedFor(p)' = OwedFor(p)
  <2>1. \A p : /\ v.order = p => Cardinality(OwedFor(p)') = Cardinality(OwedFor(p)) + 1
               /\ v.order # p => OwedFor(p)' = OwedFor(p)
    BY <1>1, <1>3, OwedOneMore
  <2>2. QED BY <1>3, <2>1
<1>5. EntriesOf(o) = {} /\ Net(o) = 0
  BY SumEmpty DEF Posted, EntriesOf, Net
<1> HIDE DEF y, v
<1>6. /\ Net(o)' = 1 /\ EntriesOf(o)' = {y}
      /\ \A p \in Orders : p # o => Net(p)' = Net(p) /\ EntriesOf(p)' = EntriesOf(p)
  <2>1. /\ Net(y.order)' = Net(y.order) + y.sign
        /\ \A p \in Orders : p # y.order => Net(p)' = Net(p)
        /\ EntriesOf(y.order)' = EntriesOf(y.order) \cup {y}
        /\ \A p \in Orders : p # y.order => EntriesOf(p)' = EntriesOf(p)
    BY <1>1, <1>2, NetOfOneMore
  <2>2. QED BY <1>2, <1>5, <2>1
<1>7. \A p \in Orders : Posted(p)' <=> (p = o \/ Posted(p))
  BY <1>2 DEF Posted
<1>8. Cardinality({y}) = 1
  BY FS_Singleton
<1>9. ASSUME NEW p \in Orders
      PROVE  /\ \A x \in EntriesOf(p)' :
                  /\ x.nth < Cardinality(EntriesOf(p)')
                  /\ ensureNotReversedTx(x)' => Net(p)' = IF x.sign = 1 THEN 1 ELSE 0
             /\ Cardinality(OwedFor(p)') = IF Posted(p)' THEN 1 ELSE 0
             /\ Net(p)' \in {0, Cardinality(OwedFor(p)')}
  <2>1. CASE p = o
    <3>1. Cardinality(OwedFor(o)) = 0
      BY <1>1 DEF ChainsAlternate
    <3>2. Cardinality(OwedFor(o)') = 1
      BY <1>4, <3>1
    <3>3. Posted(o)' /\ Cardinality(EntriesOf(o)') = 1 /\ Net(o)' = 1
      BY <1>6, <1>7, <1>8
    <3>4. \A x \in EntriesOf(o)' : x.sign = 1 /\ x.nth = 0
      BY <1>2, <1>6
    <3>5. QED BY <2>1, <3>2, <3>3, <3>4
  <2>2. CASE p # o
    <3>1. \A x \in EntriesOf(p) : ensureNotReversedTx(x)' => ensureNotReversedTx(x)
      BY <1>2 DEF ensureNotReversedTx
    <3>2. Cardinality(OwedFor(p)) \in Nat
      BY <1>1 DEF ChainsAlternate
    <3>3. QED
      BY <1>1, <1>4, <1>6, <1>7, <2>2, <3>1, <3>2 DEF ChainsAlternate, ClaimStandsOrIsCancelled
  <2>3. QED BY <2>1, <2>2
<1>10. QED BY <1>9 DEF ChainsAlternate, ClaimStandsOrIsCancelled

\* A reversal goes on with the chain, and turns its claim round.
LEMMA ReversalKeepsChains ==
  ASSUME FiguresInv, NEW x \in entries, ensureNotReversedTx(x), UNCHANGED receivables,
         entries' = entries \cup {[order |-> x.order,
                                   nth |-> Cardinality({y \in entries : y.order = x.order}),
                                   sign |-> -x.sign]}
  PROVE  ChainsAlternate' /\ ClaimStandsOrIsCancelled'
<1>1. /\ entries \subseteq [order : Orders, nth : Nat, sign : {1, -1}] /\ IsFiniteSet(entries)
      /\ ChainsAlternate /\ ClaimStandsOrIsCancelled
  BY DEF FiguresInv, RowsTyped
<1>2. PICK o, n : o = x.order /\ n = Cardinality(EntriesOf(o))
  OBVIOUS
<1>3. o \in Orders /\ x \in EntriesOf(o) /\ x.sign \in {1, -1}
  BY <1>1, <1>2 DEF EntriesOf
<1>4. n \in Nat /\ \A z \in EntriesOf(o) : z.nth < n
  <2>1. IsFiniteSet(EntriesOf(o))
    BY <1>1, FS_Subset DEF EntriesOf
  <2>2. QED BY <1>1, <1>2, <1>3, <2>1, FS_CardinalityType DEF ChainsAlternate
<1> DEFINE y == [order |-> o, nth |-> n, sign |-> -x.sign]
<1>5. /\ y \in [order : Orders, nth : Nat, sign : {1, -1}]
      /\ entries' = entries \cup {y} /\ y.order = o /\ y.sign = -x.sign /\ y.nth = n
  BY <1>2, <1>3, <1>4 DEF EntriesOf
<1> HIDE DEF y
<1>6. y \notin entries
  <2>1. y \notin EntriesOf(o)
    BY <1>4, <1>5
  <2>2. QED BY <1>5, <2>1 DEF EntriesOf
<1>7. /\ Net(o) \in Int /\ Net(o)' = Net(o) - x.sign /\ EntriesOf(o)' = EntriesOf(o) \cup {y}
      /\ IsFiniteSet(EntriesOf(o))
      /\ \A p \in Orders : p # o => Net(p)' = Net(p) /\ EntriesOf(p)' = EntriesOf(p)
  <2>1. /\ Net(y.order) \in Int /\ Net(y.order)' = Net(y.order) + y.sign
        /\ \A p \in Orders : p # y.order => Net(p)' = Net(p)
        /\ IsFiniteSet(EntriesOf(y.order)) /\ EntriesOf(y.order)' = EntriesOf(y.order) \cup {y}
        /\ \A p \in Orders : p # y.order => EntriesOf(p)' = EntriesOf(p)
    BY <1>1, <1>5, <1>6, NetOfOneMore
  <2>2. QED BY <1>3, <1>5, <2>1
<1>8. Net(o) = (IF x.sign = 1 THEN 1 ELSE 0) /\ Net(o)' = (IF y.sign = 1 THEN 1 ELSE 0)
  <2>1. Net(o) = IF x.sign = 1 THEN 1 ELSE 0
    BY <1>1, <1>3 DEF ChainsAlternate
  <2>2. QED BY <1>3, <1>5, <1>7, <2>1
<1>9. Cardinality(EntriesOf(o)') = n + 1
  BY <1>2, <1>5, <1>6, <1>7, FS_AddElement DEF EntriesOf
<1>10. \A z \in EntriesOf(o) : ~ensureNotReversedTx(z)'
  <2>1. SUFFICES ASSUME NEW z \in EntriesOf(o) PROVE ~ensureNotReversedTx(z)'
    OBVIOUS
  <2>2. y \in entries' /\ y.order = z.order /\ z.nth \in Nat /\ y.nth > z.nth
    BY <1>1, <1>4, <1>5 DEF EntriesOf
  <2>3. QED BY <2>2 DEF ensureNotReversedTx
<1>11. \A p \in Orders : Posted(p)' <=> Posted(p)
  BY <1>2, <1>5 DEF Posted
<1>12. ASSUME NEW p \in Orders
       PROVE  /\ \A z \in EntriesOf(p)' :
                   /\ z.nth < Cardinality(EntriesOf(p)')
                   /\ ensureNotReversedTx(z)' => Net(p)' = IF z.sign = 1 THEN 1 ELSE 0
              /\ Net(p)' \in {0, Cardinality(OwedFor(p))}
  <2>1. CASE p = o
    <3>1. Cardinality(OwedFor(o)) = 1
      BY <1>1, <1>2, <1>3 DEF ChainsAlternate, Posted
    <3>2. \A z \in EntriesOf(o)' : z.nth < n + 1
      <4>1. \A z \in EntriesOf(o) : z.nth \in Nat /\ z.nth < n + 1
        BY <1>1, <1>4 DEF EntriesOf
      <4>2. QED BY <1>4, <1>5, <1>7, <4>1
    <3>3. \A z \in EntriesOf(o)' : ensureNotReversedTx(z)' => z = y
      BY <1>7, <1>10
    <3>4. QED BY <1>8, <1>9, <2>1, <3>1, <3>2, <3>3
  <2>2. CASE p # o
    <3>1. \A z \in EntriesOf(p) : ensureNotReversedTx(z)' => ensureNotReversedTx(z)
      BY <1>5 DEF ensureNotReversedTx
    <3>2. QED BY <1>1, <1>7, <2>2, <3>1 DEF ChainsAlternate, ClaimStandsOrIsCancelled
  <2>3. QED BY <2>1, <2>2
<1>13. \A p \in Orders :
         Cardinality(OwedFor(p)) = IF Posted(p)' THEN 1 ELSE 0
  BY <1>1, <1>11 DEF ChainsAlternate
<1>14. \A p : OwedFor(p)' = OwedFor(p)
  BY DEF OwedFor
<1>15. QED BY <1>12, <1>13, <1>14 DEF ChainsAlternate, ClaimStandsOrIsCancelled

------------------------------------------------------------------------------
(* Types, moments and answers.                                              *)

\* At first there are no rows, no questions, and one moment.
LEMMA FiguresInit == Init => FiguresInv
<1> SUFFICES ASSUME Init PROVE FiguresInv
  OBVIOUS
<1>1. RowsTyped
  BY FS_EmptySet DEF Init, RowsTyped
<1>2. NoQuery \in Queries
  <2>1. <<>> \in [{} -> Nat]
    OBVIOUS
  <2>2. <<>> \in UNION {[C -> Nat] : C \in SUBSET Customers}
    BY <2>1
  <2>3. NoAging \in Buckets
    BY DEF NoAging, Buckets
  <2>4. QED BY <2>2, <2>3 DEF NoQuery, Queries
<1>3. QueriesTyped
  BY <1>2 DEF Init, QueriesTyped
<1>4. PresentIsRecorded
  BY DEF Init, PresentIsRecorded, Waiting, NoQuery
<1>5. \A o \in Orders : EntriesOf(o) = {} /\ OwedFor(o) = {} /\ ~Posted(o)
  BY DEF Init, EntriesOf, OwedFor, Posted
<1>6. Cardinality({}) = 0
  BY FS_EmptySet
<1>7. ChainsAlternate
  BY <1>5, <1>6 DEF ChainsAlternate
<1>8. \A o \in Orders : Net(o) = 0
  BY <1>5, SumEmpty DEF Net
<1>9. ClaimStandsOrIsCancelled
  BY <1>8 DEF ClaimStandsOrIsCancelled
<1>10. \A r \in Reader : query[r].pc = "idle"
  BY DEF Init, NoQuery
<1>11. AgingAddsUp
  BY <1>10 DEF AgingAddsUp, AddsUp
<1>12. AnswersAreOneMoment
  BY <1>10 DEF AnswersAreOneMoment, Answered
<1>13. QED
  BY <1>1, <1>3, <1>4, <1>7, <1>9, <1>11, <1>12 DEF FiguresInv

\* A question, an answer or its return is safe when it is one, adds up, records the
\* present if it waits, and was true at one of its moments if it is an answer.
LEMMA QueryKeeps ==
  ASSUME FiguresInv, NEW r \in Reader, NEW q \in Queries, AddsUp(q), NEW M,
         q.pc \in {"summary", "exposures"} => Now \in M,
         q.pc \in {"summarised", "told"} => \E m \in M : TrueAt(q, m),
         query' = [query EXCEPT ![r] = q], past' = [past EXCEPT ![r] = M],
         UNCHANGED <<today, entries, receivables, exposure, tx>>
  PROVE  FiguresInv'
<1>0. \A p \in Reader : \/ p = r /\ query'[p] = q /\ past'[p] = M
                        \/ query'[p] = query[p] /\ past'[p] = past[p]
  BY DEF FiguresInv, QueriesTyped
<1>1. RowsTyped' /\ PresentIsRecorded'
  <2>1. RowsTyped'
    BY DEF FiguresInv, RowsTyped
  <2>2. Now' = Now
    BY DEF Now
  <2>3. ASSUME NEW p \in Reader, Waiting(p)' PROVE Now \in past'[p]
    BY <1>0, <2>3 DEF Waiting, FiguresInv, PresentIsRecorded
  <2>4. QED BY <2>1, <2>2, <2>3 DEF FiguresInv, PresentIsRecorded
<1>2. ChainsAlternate' /\ ClaimStandsOrIsCancelled'
  <2>1. \A o : EntriesOf(o)' = EntriesOf(o) /\ OwedFor(o)' = OwedFor(o) /\ Net(o)' = Net(o)
               /\ Posted(o)' = Posted(o) /\ ensureNotReversedTx(o)' = ensureNotReversedTx(o)
    BY DEF EntriesOf, OwedFor, Net, Posted, ensureNotReversedTx
  <2>2. QED BY <2>1 DEF FiguresInv, ChainsAlternate, ClaimStandsOrIsCancelled
<1>3. QueriesTyped'
  BY DEF FiguresInv, QueriesTyped
<1>5. AgingAddsUp'
  BY <1>0 DEF FiguresInv, AgingAddsUp
<1>6. AnswersAreOneMoment'
  <2>1. SUFFICES ASSUME NEW p \in Reader, Answered(p)'
                 PROVE  \E m \in past'[p] : TrueAt(query'[p], m)
    BY DEF AnswersAreOneMoment, TrueAt, SummaryTrueAt
  <2>2. CASE query'[p] = q /\ past'[p] = M
    BY <2>1, <2>2 DEF Answered
  <2>3. CASE query'[p] = query[p] /\ past'[p] = past[p]
    <3>1. Answered(p)
      BY <2>1, <2>3 DEF Answered
    <3>2. QED BY <2>3, <3>1 DEF FiguresInv, AnswersAreOneMoment
  <2>4. QED BY <1>0, <2>2, <2>3
<1>7. QED BY <1>1, <1>2, <1>3, <1>5, <1>6 DEF FiguresInv

\* An answer that is true of the present.
LEMMA AnswerKeeps ==
  ASSUME FiguresInv, NEW r \in Reader, Waiting(r), NEW q \in Queries, AddsUp(q), TrueAt(q, Now),
         q.pc \in {"summarised", "told"}, Answer(r, q)
  PROVE  FiguresInv'
<1>1. Now \in past[r]
  BY DEF FiguresInv, PresentIsRecorded
<1>2. past' = [past EXCEPT ![r] = past[r]]
  BY DEF Answer, FiguresInv, QueriesTyped
<1>3. QED BY <1>1, <1>2, QueryKeeps DEF Answer

\* The receivables that a summary is about.
LEMMA VisibleRows ==
  ASSUME FiguresInv, NEW q
  PROVE  Visible(receivables, q) \in SUBSET Rows /\ IsFiniteSet(Visible(receivables, q))
BY FS_Subset DEF FiguresInv, RowsTyped, Visible, Rows

\* A summary adds up, and it is true of the present.
LEMMA SummaryKeeps ==
  ASSUME FiguresInv, NEW r \in Reader, SummarizeARLedger(r)
  PROVE  FiguresInv'
<1> DEFINE q == query[r]
           R == Visible(receivables, q)
           a == [q EXCEPT !.pc = "summarised", !.total = Total(R), !.aging = Aging(R, q.day)]
<1>1. q \in Queries
  BY DEF FiguresInv, QueriesTyped
<1>2. R \in SUBSET Rows /\ IsFiniteSet(R)
  BY VisibleRows
<1>3. /\ Aging(R, q.day) \in Buckets /\ Total(R) \in Nat
      /\ Aging(R, q.day).upTo30 + Aging(R, q.day).upTo60 + Aging(R, q.day).upTo90
              + Aging(R, q.day).over90 = Total(R)
      /\ \A b \in DOMAIN Aging(R, q.day) :
           Aging(R, q.day)[b] = Total({x \in R : AgeBucket(q.day - x.due) = b})
  <2>1. q.day \in Nat
    BY <1>1 DEF Queries
  <2> HIDE DEF q, R
  <2>2. QED BY <1>2, <2>1, BucketsAddUp
<1>4. /\ a.pc = "summarised" /\ a.total = Total(R) /\ a.aging = Aging(R, q.day)
      /\ a.scope = q.scope /\ a.asked = q.asked /\ a.day = q.day /\ a \in Queries
  <2> HIDE DEF q, R
  <2>1. QED BY <1>1, <1>3 DEF Queries
<1>5. AddsUp(a)
  <2> HIDE DEF q, R, a
  <2>1. QED BY <1>3, <1>4 DEF AddsUp
<1>6. TrueAt(a, Now)
  <2>1. Now.receivables = receivables
    BY DEF Now
  <2>2. Visible(receivables, a) = R
    BY <1>4 DEF Visible
  <2>3. a.pc # "told"
    BY <1>4
  <2> HIDE DEF q, R, a
  <2>4. SummaryTrueAt(a, Now)
    BY <1>3, <1>4, <2>1, <2>2 DEF SummaryTrueAt
  <2>5. QED BY <2>3, <2>4 DEF TrueAt
<1>7. Answer(r, a) /\ Waiting(r)
  BY DEF SummarizeARLedger, Waiting
<1> HIDE DEF q, R, a
<1>8. QED BY <1>4, <1>5, <1>6, <1>7, AnswerKeeps

\* What is told of one customer, or of several, is what they have used at present.
LEMMA TellingKeeps ==
  ASSUME FiguresInv, NEW r \in Reader, GetCreditExposure(r) \/ BatchGetCreditExposure(r)
  PROVE  FiguresInv'
<1>1. PICK q : q = query[r]
  OBVIOUS
<1>2. q \in Queries /\ exposure \in [Customers -> [total : Nat, version : Nat]]
  BY <1>1 DEF FiguresInv, QueriesTyped, RowsTyped
<1>3. PICK C \in SUBSET q.asked :
        /\ Answer(r, [q EXCEPT !.pc = "told", !.found = [c \in C |-> exposure[c].total]])
        /\ \A c \in q.asked \ C : exposure[c].version = 0
  <2>1. CASE GetCreditExposure(r)
    BY <1>1, <2>1 DEF GetCreditExposure
  <2>2. CASE BatchGetCreditExposure(r)
    <3>1. /\ Found(q.asked) \in SUBSET q.asked
          /\ \A c \in q.asked \ Found(q.asked) : exposure[c].version = 0
      BY <1>2 DEF Found, Queries
    <3>2. Answer(r, [q EXCEPT !.pc = "told",
                              !.found = [c \in Found(q.asked) |-> exposure[c].total]])
      BY <1>1, <2>2 DEF BatchGetCreditExposure
    <3>3. QED BY <3>1, <3>2
  <2>3. QED BY <2>1, <2>2
<1> DEFINE f == [c \in C |-> exposure[c].total]
           a == [q EXCEPT !.pc = "told", !.found = f]
<1>4. C \in SUBSET Customers /\ f \in [C -> Nat]
  BY <1>2 DEF Queries
<1>5. a \in Queries /\ a.pc = "told" /\ a.found = f /\ a.asked = q.asked
  <2>1. f \in UNION {[D -> Nat] : D \in SUBSET Customers}
    BY <1>4
  <2> HIDE DEF f
  <2>2. QED BY <1>2, <2>1 DEF Queries
<1>6. AddsUp(a) /\ a.pc # "summarised"
  <2> HIDE DEF a
  <2>1. QED BY <1>5 DEF AddsUp
<1>7. TrueAt(a, Now)
  <2>1. /\ Now.exposure = exposure
        /\ \A c \in Customers : exposure[c].version = 0 => exposure[c].total = 0
    BY DEF FiguresInv, PresentIsRecorded, Now
  <2>2. \A c \in q.asked :
          exposure[c].total = IF c \in DOMAIN f THEN f[c] ELSE 0
    BY <1>2, <1>3, <2>1 DEF Queries
  <2> HIDE DEF f, a
  <2>3. QED BY <1>5, <1>6, <2>1, <2>2 DEF TrueAt
<1>8. Answer(r, a) /\ Waiting(r)
  BY <1>3 DEF GetCreditExposure, BatchGetCreditExposure, Waiting
<1> HIDE DEF f, a
<1>9. QED BY <1>5, <1>6, <1>7, <1>8, AnswerKeeps

\* Whoever asks has no answer yet.
LEMMA AskingKeeps ==
  ASSUME FiguresInv, NEW r \in Reader, AskSummary(r) \/ AskExposures(r) \/ Return(r)
  PROVE  FiguresInv'
<1>1. NoQuery \in Queries
  <2>1. <<>> \in [{} -> Nat]
    OBVIOUS
  <2>2. <<>> \in UNION {[C -> Nat] : C \in SUBSET Customers}
    BY <2>1
  <2>3. NoAging \in Buckets
    BY DEF NoAging, Buckets
  <2>4. QED BY <2>2, <2>3 DEF NoQuery, Queries
<1>2. ASSUME NEW q \in Queries, q.pc \in {"summary", "exposures"}, Ask(r, q)
      PROVE  FiguresInv'
  <2>1. AddsUp(q) /\ q.pc \notin {"summarised", "told"} /\ Now \in {Now}
    BY <1>2 DEF AddsUp
  <2>2. QED BY <1>2, <2>1, QueryKeeps DEF Ask
<1>3. CASE AskSummary(r)
  <2>1. PICK c \in Customers \cup {Everyone}, scope \in Scopes :
          Ask(r, [NoQuery EXCEPT !.pc = "summary", !.scope = scope, !.day = today,
                                 !.asked = IF c = Everyone THEN Customers ELSE {c}])
    BY <1>3 DEF AskSummary
  <2> DEFINE C == IF c = Everyone THEN Customers ELSE {c}
             q == [NoQuery EXCEPT !.pc = "summary", !.scope = scope, !.day = today, !.asked = C]
  <2>2. C \in SUBSET Customers /\ today \in Nat
    BY DEF FiguresInv, RowsTyped
  <2> HIDE DEF C
  <2>3. q \in Queries /\ q.pc = "summary"
    BY <1>1, <2>2 DEF Queries
  <2>4. Ask(r, q)
    BY <2>1 DEF C
  <2> HIDE DEF q
  <2>5. QED BY <1>2, <2>3, <2>4
<1>4. CASE AskExposures(r)
  <2>1. PICK C \in SUBSET Customers : Ask(r, [NoQuery EXCEPT !.pc = "exposures", !.asked = C])
    BY <1>4 DEF AskExposures
  <2> DEFINE q == [NoQuery EXCEPT !.pc = "exposures", !.asked = C]
  <2>2. q \in Queries /\ q.pc = "exposures"
    BY <1>1 DEF Queries
  <2> HIDE DEF q
  <2>3. Ask(r, q)
    BY <2>1 DEF q
  <2>4. QED BY <1>2, <2>2, <2>3
<1>5. CASE Return(r)
  <2>1. AddsUp(NoQuery) /\ NoQuery.pc = "idle"
    BY DEF AddsUp, NoQuery
  <2>2. Answer(r, NoQuery) /\ past' = [past EXCEPT ![r] = past[r]]
    BY <1>5 DEF Return, Answer, FiguresInv, QueriesTyped
  <2>3. QED BY <1>1, <2>1, <2>2, QueryKeeps DEF Answer
<1>6. QED BY <1>3, <1>4, <1>5

\* What was told is not undone by what happens afterwards.
LEMMA AnswersStay ==
  ASSUME FiguresInv, UNCHANGED query, past' = [r \in Reader |-> past'[r]],
         \A r \in Reader : past[r] \subseteq past'[r]
  PROVE  QueriesTyped' /\ AgingAddsUp' /\ AnswersAreOneMoment'
<1>1. AnswersAreOneMoment'
  <2>1. SUFFICES ASSUME NEW p \in Reader, Answered(p)'
                 PROVE  \E m \in past'[p] : TrueAt(query[p], m)
    BY DEF AnswersAreOneMoment, TrueAt, SummaryTrueAt
  <2>2. Answered(p)
    BY <2>1 DEF Answered
  <2>3. QED BY <2>2 DEF FiguresInv, AnswersAreOneMoment
<1>2. QED BY <1>1 DEF FiguresInv, QueriesTyped, AgingAddsUp

\* What does not touch the books keeps what is said of them.
LEMMA BooksStay ==
  ASSUME FiguresInv, UNCHANGED <<entries, receivables, exposure, past, query>>,
         today' \in Nat, tx' \in [Poster -> [order : Orders \cup {NoOrder}, day : Nat]]
  PROVE  FiguresInv'
<1>1. RowsTyped' /\ PresentIsRecorded'
  BY DEF FiguresInv, RowsTyped, PresentIsRecorded, Now, Waiting
<1>2. ChainsAlternate' /\ ClaimStandsOrIsCancelled'
  <2>1. \A o : EntriesOf(o)' = EntriesOf(o) /\ OwedFor(o)' = OwedFor(o) /\ Net(o)' = Net(o)
               /\ Posted(o)' = Posted(o) /\ ensureNotReversedTx(o)' = ensureNotReversedTx(o)
    BY DEF EntriesOf, OwedFor, Net, Posted, ensureNotReversedTx
  <2>2. QED BY <2>1 DEF FiguresInv, ChainsAlternate, ClaimStandsOrIsCancelled
<1>3. past' = [r \in Reader |-> past'[r]] /\ \A r \in Reader : past[r] \subseteq past'[r]
  BY DEF FiguresInv, QueriesTyped
<1>4. QED BY <1>1, <1>2, <1>3, AnswersStay DEF FiguresInv

\* An order is posted: entry, receivable and exposure, and the moment is recorded.
LEMMA PostingKeeps ==
  ASSUME FiguresInv, NEW w \in Poster, postSalesOrderEntryTx(w)
  PROVE  FiguresInv'
<1>1. PICK o, day : o = tx[w].order /\ day = tx[w].day
  OBVIOUS
<1>2. o \in Orders /\ day \in Nat
  BY <1>1 DEF postSalesOrderEntryTx, FiguresInv, RowsTyped
<1>3. /\ today' = today /\ query' = query
      /\ tx' = [tx EXCEPT ![w] = [order |-> NoOrder, day |-> 0]]
  BY DEF postSalesOrderEntryTx
<1>4. today' \in Nat /\ tx' \in [Poster -> [order : Orders \cup {NoOrder}, day : Nat]]
  BY <1>3 DEF FiguresInv, RowsTyped
<1>5. CASE Posted(o)
  <2>1. UNCHANGED <<entries, receivables, exposure, past>>
    BY <1>1, <1>5 DEF postSalesOrderEntryTx
  <2>2. QED BY <1>3, <1>4, <2>1, BooksStay
<1>6. CASE ~Posted(o)
  <2>1. /\ entries' = entries \cup {[order |-> o, nth |-> 0, sign |-> 1]}
        /\ receivables' = receivables \cup {[order |-> o, due |-> day]}
        /\ exposure' = [exposure EXCEPT ![o.customer] =
                         [total |-> @.total + o.amount, version |-> @.version + 1]]
        /\ past' = [r \in Reader |-> IF Waiting(r) THEN past[r] \cup {Now'} ELSE past[r]]
    BY <1>1, <1>6 DEF postSalesOrderEntryTx, insertARLedgerEntryTx, applyCreditExposureDeltaTx
  <2>2. /\ entries \subseteq [order : Orders, nth : Nat, sign : {1, -1}] /\ IsFiniteSet(entries)
        /\ receivables \subseteq [order : Orders, due : Nat] /\ IsFiniteSet(receivables)
        /\ exposure \in [Customers -> [total : Nat, version : Nat]]
    BY DEF FiguresInv, RowsTyped
  <2>3. IsFiniteSet(entries') /\ IsFiniteSet(receivables')
    BY <2>1, <2>2, FS_AddElement
  <2>4. /\ entries' \subseteq [order : Orders, nth : Nat, sign : {1, -1}]
        /\ receivables' \subseteq [order : Orders, due : Nat]
    BY <1>2, <2>1, <2>2
  <2>5. o.customer \in Customers /\ o.amount \in Nat
    BY <1>2, OrderFields
  <2>6. /\ exposure' \in [Customers -> [total : Nat, version : Nat]]
        /\ exposure'[o.customer].version > 0
        /\ \A c \in Customers : c # o.customer => exposure'[c] = exposure[c]
    BY <2>1, <2>2, <2>5
  <2>7. RowsTyped'
    BY <1>4, <2>3, <2>4, <2>6 DEF RowsTyped
  <2>8. PresentIsRecorded'
    <3>1. \A r \in Reader : Waiting(r)' => Now' \in past'[r]
      BY <1>3, <2>1 DEF Waiting
    <3>2. QED BY <2>6, <3>1 DEF PresentIsRecorded, FiguresInv
  <2>9. ChainsAlternate' /\ ClaimStandsOrIsCancelled'
    BY <1>2, <1>6, <2>1, PostKeepsChains
  <2>10. QueriesTyped' /\ AgingAddsUp' /\ AnswersAreOneMoment'
    <3>1. past' = [r \in Reader |-> past'[r]] /\ \A r \in Reader : past[r] \subseteq past'[r]
      BY <2>1
    <3>2. QED BY <1>3, <3>1, AnswersStay
  <2>11. QED BY <2>7, <2>8, <2>9, <2>10 DEF FiguresInv
<1>7. QED BY <1>5, <1>6

\* A reversal writes an entry and nothing else.
LEMMA ReversalKeeps ==
  ASSUME FiguresInv, ReverseEntry
  PROVE  FiguresInv'
<1>1. PICK x \in entries :
        /\ ensureNotReversedTx(x)
        /\ entries' = entries \cup
             {[order |-> x.order, nth |-> Cardinality({y \in entries : y.order = x.order}),
               sign |-> -x.sign]}
  BY DEF ReverseEntry
<1>2. UNCHANGED <<today, receivables, exposure, tx, query, past>>
  BY DEF ReverseEntry
<1>3. entries \subseteq [order : Orders, nth : Nat, sign : {1, -1}] /\ IsFiniteSet(entries)
  BY DEF FiguresInv, RowsTyped
<1>4. IsFiniteSet(entries')
  BY <1>1, <1>3, FS_AddElement
<1>5. entries' \subseteq [order : Orders, nth : Nat, sign : {1, -1}]
  <2>1. x.order \in Orders /\ -x.sign \in {1, -1}
    BY <1>3
  <2>2. Cardinality({y \in entries : y.order = x.order}) \in Nat
    BY <1>3, FS_Subset, FS_CardinalityType
  <2>3. QED BY <1>1, <1>3, <2>1, <2>2
<1>6. RowsTyped' /\ PresentIsRecorded'
  BY <1>2, <1>4, <1>5 DEF FiguresInv, RowsTyped, PresentIsRecorded, Now, Waiting
<1>7. ChainsAlternate' /\ ClaimStandsOrIsCancelled'
  BY <1>1, <1>2, ReversalKeepsChains
<1>8. past' = [r \in Reader |-> past'[r]] /\ \A r \in Reader : past[r] \subseteq past'[r]
  BY <1>2 DEF FiguresInv, QueriesTyped
<1>9. QED BY <1>2, <1>6, <1>7, <1>8, AnswersStay DEF FiguresInv

\* FiguresInv is an invariant of postings, questions and days.
LEMMA FiguresInvariance == Spec => []FiguresInv
<1>1. FiguresInv /\ [Next]_vars => FiguresInv'
  <2>1. SUFFICES ASSUME FiguresInv, [Next]_vars PROVE FiguresInv'
    OBVIOUS
  <2>2. today \in Nat /\ tx \in [Poster -> [order : Orders \cup {NoOrder}, day : Nat]]
    BY <2>1 DEF FiguresInv, RowsTyped
  <2>3. CASE UNCHANGED vars
    BY <2>1, <2>2, <2>3, BooksStay DEF vars
  <2>4. ASSUME NEW w \in Poster, Begin(w) PROVE FiguresInv'
    <3>1. tx' \in [Poster -> [order : Orders \cup {NoOrder}, day : Nat]]
      BY <2>2, <2>4 DEF Begin
    <3>2. QED BY <2>1, <2>2, <2>4, <3>1, BooksStay DEF Begin
  <2>5. CASE DaysPass
    <3>1. today' \in Nat
      BY <2>2, <2>5, OrdersAssumption DEF DaysPass
    <3>2. QED BY <2>1, <2>2, <2>5, <3>1, BooksStay DEF DaysPass
  <2>6. ASSUME NEW w \in Poster, postSalesOrderEntryTx(w) PROVE FiguresInv'
    BY <2>1, <2>6, PostingKeeps
  <2>7. CASE ReverseEntry
    BY <2>1, <2>7, ReversalKeeps
  <2>8. ASSUME NEW r \in Reader, SummarizeARLedger(r) PROVE FiguresInv'
    BY <2>1, <2>8, SummaryKeeps
  <2>9. ASSUME NEW r \in Reader, GetCreditExposure(r) \/ BatchGetCreditExposure(r)
        PROVE  FiguresInv'
    BY <2>1, <2>9, TellingKeeps
  <2>10. ASSUME NEW r \in Reader, AskSummary(r) \/ AskExposures(r) \/ Return(r)
         PROVE  FiguresInv'
    BY <2>1, <2>10, AskingKeeps
  <2>11. QED
    BY <2>1, <2>3, <2>4, <2>5, <2>6, <2>7, <2>8, <2>9, <2>10 DEF Next
<1>2. QED BY <1>1, FiguresInit, PTL DEF Spec

------------------------------------------------------------------------------
\* The buckets of every summary add up, whatever the orders, the days that pass and
\* the receivables that fall due after the summary's date.
THEOREM SummaryAddsUp == Spec => []AgingAddsUp
<1>1. FiguresInv => AgingAddsUp
  BY DEF FiguresInv
<1>2. QED BY <1>1, FiguresInvariance, PTL

\* Every figure that is told was true, of all that was asked for, at one moment between
\* its question and its answer, and every receivable counts in the bucket of its age.
THEOREM FiguresOfOneMoment == Spec => []AnswersAreOneMoment
<1>1. FiguresInv => AnswersAreOneMoment
  BY DEF FiguresInv
<1>2. QED BY <1>1, FiguresInvariance, PTL

\* However often an order's entries are reversed, its claim stands once or not at all.
THEOREM ClaimNeverTurnsRound == Spec => []ClaimStandsOrIsCancelled
<1>1. FiguresInv => ClaimStandsOrIsCancelled
  BY DEF FiguresInv
<1>2. QED BY <1>1, FiguresInvariance, PTL
==============================================================================
