----------------------------- MODULE JournalProofs -----------------------------
(***************************************************************************)
(* What JournalLines states of the books holds for every set of amounts    *)
(* and codes and a journal of any length: the entries balance, a reversal  *)
(* undoes what it reverses, the announced amount is what is moved, and the *)
(* stock account follows the stock.  Each is a fact about the lines of one *)
(* entry, summed over the journal; that entries have such lines is the     *)
(* invariant that the steps keep.                                          *)
(***************************************************************************)
EXTENDS JournalLines, SumProofs, SequenceTheorems

\* There are finitely many accounts.
LEMMA AccountsFinite == IsFiniteSet(Accounts)
<1>1. IsFiniteSet({"1122"} \cup {"2202"} \cup {"1405"} \cup {"6001"} \cup {"6401"})
  BY FS_Singleton, FS_Union
<1>2. {"1122"} \cup {"2202"} \cup {"1405"} \cup {"6001"} \cup {"6401"} = Accounts
  BY DEF Accounts
<1>3. QED BY <1>1, <1>2

\* The lines of an entry, or the entries of a journal, are finitely many.
LEMMA DomainFinite ==
  ASSUME NEW T, NEW s \in Seq(T)
  PROVE  IsFiniteSet(DOMAIN s) /\ DOMAIN s = 1..Len(s) /\ Len(s) \in Nat
<1>1. DOMAIN s = 1..Len(s) /\ Len(s) \in Nat
  BY LenProperties
<1>2. IsFiniteSet(1..Len(s))
  BY <1>1, FS_Interval
<1>3. QED BY <1>1, <1>2

------------------------------------------------------------------------------
(* The lines of one entry.                                                  *)

\* A posted line is on an account, with a number on each side.
LEMMA LinesTyped ==
  ASSUME NEW lines \in Seq(PostedLine)
  PROVE  \A n \in DOMAIN lines : /\ lines[n] \in PostedLine /\ lines[n].account \in Accounts
                                 /\ lines[n].debit \in Nat /\ lines[n].credit \in Nat
<1>1. \A n \in DOMAIN lines : lines[n] \in PostedLine
  BY DomainFinite, ElementOfSeq
<1>2. QED BY <1>1 DEF PostedLine

\* A side of the lines adds up to a number.
LEMMA SidesTyped ==
  ASSUME NEW lines \in Seq(PostedLine)
  PROVE  Sum(lines, "debit") \in Nat /\ Sum(lines, "credit") \in Nat
<1>1. \A n \in DOMAIN lines : lines[n].debit \in Nat /\ lines[n].credit \in Nat
  BY LinesTyped
<1>2. IsFiniteSet(DOMAIN lines)
  BY DomainFinite
<1>3. SumFunctionOnSet([n \in DOMAIN lines |-> lines[n]["debit"]], DOMAIN lines) \in Nat
  BY <1>1, <1>2, SumType
<1>4. SumFunctionOnSet([n \in DOMAIN lines |-> lines[n]["credit"]], DOMAIN lines) \in Nat
  BY <1>1, <1>2, SumType
<1>5. QED BY <1>3, <1>4 DEF Sum

\* The effect on an account is a sum of integers.
LEMMA EffectTyped ==
  ASSUME NEW lines \in Seq(PostedLine), NEW a
  PROVE  Effect(lines, a) \in Int
<1> DEFINE moved == [n \in DOMAIN lines |->
                       IF lines[n].account = a THEN lines[n].debit - lines[n].credit ELSE 0]
<1>1. \A n \in DOMAIN lines : moved[n] \in Int
  BY LinesTyped
<1>2. IsFiniteSet(DOMAIN lines)
  BY DomainFinite
<1>3. Effect(lines, a) = SumFunctionOnSet(moved, DOMAIN lines)
  BY DEF Effect
<1> HIDE DEF moved
<1>4. QED BY <1>1, <1>2, <1>3, SumType

\* What the debits exceed the credits by.
LEMMA NetOfSides ==
  ASSUME NEW lines \in Seq(PostedLine)
  PROVE  SumFunctionOnSet([n \in DOMAIN lines |-> lines[n].debit - lines[n].credit], DOMAIN lines)
           = Sum(lines, "debit") - Sum(lines, "credit")
<1> DEFINE net == [n \in DOMAIN lines |-> lines[n].debit - lines[n].credit]
           credit == [n \in DOMAIN lines |-> lines[n]["credit"]]
           debit == [n \in DOMAIN lines |-> lines[n]["debit"]]
           both == [n \in DOMAIN lines |-> net[n] + credit[n]]
<1>1. \A n \in DOMAIN lines : net[n] \in Int /\ credit[n] \in Int /\ both[n] = debit[n]
  BY LinesTyped
<1>2. IsFiniteSet(DOMAIN lines)
  BY DomainFinite
<1>3. Sum(lines, "debit") = SumFunctionOnSet(debit, DOMAIN lines)
      /\ Sum(lines, "credit") = SumFunctionOnSet(credit, DOMAIN lines)
  BY DEF Sum
<1> HIDE DEF net, credit, debit
<1>4. SumFunctionOnSet(both, DOMAIN lines)
        = SumFunctionOnSet(net, DOMAIN lines) + SumFunctionOnSet(credit, DOMAIN lines)
  BY <1>1, <1>2, SumPlus
<1>5. SumFunctionOnSet(both, DOMAIN lines) = SumFunctionOnSet(debit, DOMAIN lines)
  <2> HIDE DEF both
  <2>1. QED BY <1>1, <1>2, SumSame
<1>6. SumFunctionOnSet(net, DOMAIN lines) \in Int /\ SumFunctionOnSet(credit, DOMAIN lines) \in Int
  BY <1>1, <1>2, SumType
<1> HIDE DEF both
<1>7. SumFunctionOnSet(net, DOMAIN lines) = Sum(lines, "debit") - Sum(lines, "credit")
  BY <1>3, <1>4, <1>5, <1>6
<1>8. QED BY <1>7 DEF net

\* What an accepted entry does to all accounts together is nothing.
LEMMA EntryBalances ==
  ASSUME NEW lines \in Seq(PostedLine), Accepted(lines)
  PROVE  SumFunctionOnSet([a \in Accounts |-> Effect(lines, a)], Accounts) = 0
<1> DEFINE moved == [n \in DOMAIN lines |-> [a \in Accounts |->
                       IF lines[n].account = a THEN lines[n].debit - lines[n].credit ELSE 0]]
           net == [n \in DOMAIN lines |-> lines[n].debit - lines[n].credit]
           row == [n \in DOMAIN lines |-> SumFunctionOnSet(moved[n], Accounts)]
           column(a) == [n \in DOMAIN lines |-> moved[n][a]]
           columns == [a \in Accounts |-> SumFunctionOnSet(column(a), DOMAIN lines)]
<1>1. IsFiniteSet(DOMAIN lines) /\ IsFiniteSet(Accounts)
  BY DomainFinite, AccountsFinite
<1>2. \A n \in DOMAIN lines, a \in Accounts : moved[n][a] \in Int
  BY LinesTyped
<1>3. SumFunctionOnSet(columns, Accounts) = SumFunctionOnSet(row, DOMAIN lines)
  <2> HIDE DEF moved
  <2>1. QED BY <1>1, <1>2, SumOfSums
<1>4. ASSUME NEW n \in DOMAIN lines PROVE row[n] = net[n]
  <2>1. lines[n].account \in Accounts /\ net[n] \in Int
    BY LinesTyped
  <2>2. moved[n][lines[n].account] = net[n]
    BY <2>1
  <2>3. \A a \in Accounts \ {lines[n].account} : moved[n][a] = 0
    OBVIOUS
  <2>4. row[n] = SumFunctionOnSet(moved[n], Accounts)
    OBVIOUS
  <2> HIDE DEF moved, net, row
  <2>5. SumFunctionOnSet(moved[n], Accounts) = net[n]
    BY <1>1, <2>1, <2>2, <2>3, SumOfOne
  <2>6. QED BY <2>4, <2>5
<1>5. SumFunctionOnSet(row, DOMAIN lines) = SumFunctionOnSet(net, DOMAIN lines)
  <2> HIDE DEF row, net
  <2>1. QED BY <1>1, <1>4, SumSame
<1>6. SumFunctionOnSet(net, DOMAIN lines) = 0
  <2>1. SumFunctionOnSet(net, DOMAIN lines) = Sum(lines, "debit") - Sum(lines, "credit")
    BY NetOfSides
  <2> HIDE DEF net
  <2>2. QED BY <2>1, SidesTyped DEF Accepted
<1>7. \A a \in Accounts : Effect(lines, a) = columns[a]
  <2> TAKE a \in Accounts
  <2>1. column(a) = [n \in DOMAIN lines |->
                       IF lines[n].account = a THEN lines[n].debit - lines[n].credit ELSE 0]
    OBVIOUS
  <2>2. columns[a] = SumFunctionOnSet(column(a), DOMAIN lines)
    OBVIOUS
  <2> HIDE DEF column, columns
  <2>3. QED BY <2>1, <2>2 DEF Effect
<1> DEFINE effects == [a \in Accounts |-> Effect(lines, a)]
<1>8. \A a \in Accounts : effects[a] = columns[a]
  BY <1>7
<1>9. SumFunctionOnSet(effects, Accounts) = SumFunctionOnSet(columns, Accounts)
  <2> HIDE DEF effects, columns
  <2>1. QED BY <1>1, <1>8, SumSame
<1>10. QED
  <2> HIDE DEF columns, row, net
  <2>1. SumFunctionOnSet(effects, Accounts) = 0
    BY <1>3, <1>5, <1>6, <1>9
  <2>2. QED BY <2>1

\* Half of what the lines hold is on each side.
LEMMA AmountIsHalf ==
  ASSUME NEW lines \in Seq(PostedLine), Accepted(lines)
  PROVE  /\ TotalAmount(lines) \in Nat /\ TotalAmount(lines) > 0
         /\ 2 * TotalAmount(lines) =
              SumFunctionOnSet([k \in DOMAIN lines |-> lines[k].debit + lines[k].credit],
                               DOMAIN lines)
         /\ \A k \in DOMAIN lines : 0 \in {lines[k].debit, lines[k].credit}
<1> DEFINE D == DOMAIN lines
           credit == [n \in D |-> lines[n]["credit"]]
           debit == [n \in D |-> lines[n]["debit"]]
           both == [n \in D |-> debit[n] + credit[n]]
<1>1. \A n \in D : /\ debit[n] \in Nat /\ credit[n] \in Nat
                   /\ debit[n] = lines[n].debit /\ credit[n] = lines[n].credit
                   /\ both[n] = lines[n].debit + lines[n].credit
  BY LinesTyped
<1>2. IsFiniteSet(D) /\ D = 1..Len(lines) /\ Len(lines) \in Nat
  BY DomainFinite
<1>3. Sum(lines, "debit") = SumFunctionOnSet(debit, D)
      /\ Sum(lines, "credit") = SumFunctionOnSet(credit, D)
  BY DEF Sum
<1>4. both = [k \in DOMAIN lines |-> lines[k].debit + lines[k].credit]
  BY <1>1
<1> HIDE DEF debit, credit
<1>5. SumFunctionOnSet(both, D) = SumFunctionOnSet(debit, D) + SumFunctionOnSet(credit, D)
  <2>1. \A n \in D : debit[n] \in Int /\ credit[n] \in Int
    BY <1>1
  <2> HIDE DEF D
  <2>2. QED BY <1>2, <2>1, SumPlus
<1>6. Sum(lines, "debit") = Sum(lines, "credit") /\ Sum(lines, "debit") \in Nat
  BY SidesTyped DEF Accepted
<1>7. lines # <<>> /\ \A n \in D : (lines[n].debit = 0) # (lines[n].credit = 0)
  BY DEF Accepted, OneSided
<1>8. 1 \in D
  BY <1>2, <1>7, EmptySeq
<1>9. Sum(lines, "debit") > 0
  <2>1. CASE debit[1] > 0
    BY <1>1, <1>2, <1>3, <1>8, <2>1, SumPositive
  <2>2. CASE credit[1] > 0
    <3>1. Sum(lines, "credit") > 0
      BY <1>1, <1>2, <1>3, <1>8, <2>2, SumPositive
    <3>2. QED BY <1>6, <3>1
  <2>3. QED BY <1>1, <1>7, <1>8, <2>1, <2>2
<1>10. \A k \in D : 0 \in {lines[k].debit, lines[k].credit}
  BY <1>7
<1>11. 2 * Sum(lines, "debit") = SumFunctionOnSet(both, D)
  BY <1>3, <1>5, <1>6
<1>12. 2 * TotalAmount(lines) =
         SumFunctionOnSet([k \in DOMAIN lines |-> lines[k].debit + lines[k].credit], DOMAIN lines)
  BY <1>4, <1>11 DEF TotalAmount
<1> HIDE DEF both, D
<1>13. QED BY <1>6, <1>9, <1>10, <1>12 DEF TotalAmount, D

\* Reversed lines are lines, on the same accounts.
LEMMA ReversedTyped ==
  ASSUME NEW lines \in Seq(PostedLine)
  PROVE  /\ ReversedLines(lines) \in Seq(PostedLine)
         /\ DOMAIN ReversedLines(lines) = DOMAIN lines
         /\ \A n \in DOMAIN lines : ReversedLines(lines)[n]
              = [account |-> lines[n].account, debit |-> lines[n].credit, credit |-> lines[n].debit]
<1>1. DOMAIN lines = 1..Len(lines) /\ Len(lines) \in Nat
  BY DomainFinite
<1>2. \A n \in DOMAIN lines : Line(lines[n].account, lines[n].credit, lines[n].debit) \in PostedLine
  BY LinesTyped DEF PostedLine, Line
<1>3. ReversedLines(lines) \in [1..Len(lines) -> PostedLine]
  BY <1>1, <1>2 DEF ReversedLines
<1>4. ReversedLines(lines) \in Seq(PostedLine)
  BY <1>1, <1>3, SeqDef
<1>5. QED BY <1>4 DEF ReversedLines, Line

\* Lines and their reverse leave every account as it was.
LEMMA ReverseUndoes ==
  ASSUME NEW lines \in Seq(PostedLine), NEW a
  PROVE  Effect(ReversedLines(lines), a) + Effect(lines, a) = 0
<1> DEFINE D == DOMAIN lines
           there == [n \in D |->
                       IF lines[n].account = a THEN lines[n].debit - lines[n].credit ELSE 0]
           back == [n \in D |->
                       IF lines[n].account = a THEN lines[n].credit - lines[n].debit ELSE 0]
           both == [n \in D |-> back[n] + there[n]]
<1>1. IsFiniteSet(D)
  BY DomainFinite
<1>2. \A n \in D : there[n] \in Int /\ back[n] \in Int /\ both[n] = 0
  BY LinesTyped
<1>3. Effect(lines, a) = SumFunctionOnSet(there, D)
  BY DEF Effect
<1>4. Effect(ReversedLines(lines), a) = SumFunctionOnSet(back, D)
  <2>1. DOMAIN ReversedLines(lines) = D
        /\ \A n \in D : LET l == ReversedLines(lines)[n] IN
             /\ l.account = lines[n].account
             /\ l.debit = lines[n].credit /\ l.credit = lines[n].debit
    <3>1. /\ DOMAIN ReversedLines(lines) = DOMAIN lines
          /\ \A n \in DOMAIN lines : ReversedLines(lines)[n]
               = [account |-> lines[n].account, debit |-> lines[n].credit, credit |-> lines[n].debit]
      BY ReversedTyped
    <3>2. QED BY <3>1
  <2>2. [n \in DOMAIN ReversedLines(lines) |->
           IF ReversedLines(lines)[n].account = a
             THEN ReversedLines(lines)[n].debit - ReversedLines(lines)[n].credit ELSE 0] = back
    BY <2>1
  <2> HIDE DEF back, D
  <2>3. QED BY <2>1, <2>2 DEF Effect
<1> HIDE DEF there, back
<1>5. SumFunctionOnSet(both, D) = SumFunctionOnSet(back, D) + SumFunctionOnSet(there, D)
  BY <1>1, <1>2, SumPlus
<1>6. SumFunctionOnSet(both, D) = 0
  <2> HIDE DEF both, D
  <2>1. QED BY <1>1, <1>2, SumOfNothing
<1> HIDE DEF both, D
<1>7. QED BY <1>3, <1>4, <1>5, <1>6

\* The lines of an order's and of a movement's entry: one account gets, another gives.
LEMMA PairTyped ==
  ASSUME NEW a \in Accounts, NEW b \in Accounts, NEW amount \in Nat,
         NEW lines, lines = <<Line(a, amount, 0), Line(b, 0, amount)>>
  PROVE  lines \in Seq(PostedLine)
BY DEF Line, PostedLine

\* What such an entry does to an account.
LEMMA PairEffect ==
  ASSUME NEW a \in Accounts, NEW b \in Accounts, NEW amount \in Nat,
         NEW lines, lines = <<Line(a, amount, 0), Line(b, 0, amount)>>, NEW account
  PROVE  Effect(lines, account)
           = (IF a = account THEN amount ELSE 0) - (IF b = account THEN amount ELSE 0)
<1> DEFINE moved == [n \in DOMAIN lines |-> IF lines[n].account = account
                       THEN lines[n].debit - lines[n].credit ELSE 0]
<1>1. DOMAIN lines = {1, 2}
  BY DEF Line
<1>2. /\ moved[1] = (IF a = account THEN amount ELSE 0)
      /\ moved[2] = 0 - (IF b = account THEN amount ELSE 0)
      /\ moved[1] \in Int /\ moved[2] \in Int
  BY <1>1 DEF Line
<1>3. Effect(lines, account) = SumFunctionOnSet(moved, {1, 2})
  BY <1>1 DEF Effect
<1> HIDE DEF moved
<1>4. SumFunctionOnSet(moved, {1} \cup {2}) = SumFunctionOnSet(moved, {1}) + moved[2]
  <2>1. IsFiniteSet({1})
    BY FS_Singleton
  <2>2. \A n \in {1} : moved[n] \in Int
    BY <1>2
  <2>3. QED BY <1>2, <2>1, <2>2, SumAdd
<1>5. SumFunctionOnSet(moved, {} \cup {1}) = SumFunctionOnSet(moved, {}) + moved[1]
  BY <1>2, FS_EmptySet, SumAdd
<1>6. SumFunctionOnSet(moved, {}) = 0
  BY SumEmpty
<1>7. {1} \cup {2} = {1, 2} /\ {} \cup {1} = {1}
  OBVIOUS
<1>8. QED BY <1>2, <1>3, <1>4, <1>5, <1>6, <1>7

\* Drafts that are posted are lines with accounts and numbers.
LEMMA DraftTyped ==
  ASSUME NEW lines \in PostableDrafts
  PROVE  lines \in Seq(PostedLine) /\ Postable(lines)
<1>1. lines \in Drafts /\ Postable(lines)
  BY DEF PostableDrafts
<1>2. PICK n \in 0..MaxLines : lines \in [1..n -> AnyLine]
  BY <1>1 DEF Drafts
<1>3. n \in Nat /\ DOMAIN lines = 1..n
  BY <1>2, BoundsAssumption
<1>4. \A k \in 1..n : lines[k] \in PostedLine
  BY <1>1, <1>2, <1>3, AmountsAssumption
     DEF AnyLine, PostedLine, Postable, Accepted, OneSided
<1>5. lines \in [1..n -> PostedLine]
  BY <1>2, <1>4
<1>6. QED BY <1>1, <1>3, <1>5, SeqDef

------------------------------------------------------------------------------
(* The steps.                                                               *)

\* What an entry of the journal has, n entries after the first.
LEMMA EntryTyped ==
  ASSUME EntriesOK, NEW n \in DOMAIN journal
  PROVE  /\ journal[n].lines \in Seq(PostedLine) /\ Postable(journal[n].lines)
         /\ journal[n].reverses \in Nat /\ journal[n].stock \in Int
         /\ announced[n] = TotalAmount(journal[n].lines)
         /\ journal[n].reverses # 0 =>
              /\ journal[n].reverses \in 1..(n - 1)
              /\ journal[n].reverses \in DOMAIN journal
              /\ journal[n].lines = ReversedLines(journal[journal[n].reverses].lines)
<1>1. journal \in Seq(Posting)
  BY DEF EntriesOK
<1>2. journal[n] \in Posting
  BY <1>1, DomainFinite, ElementOfSeq
<1>3. DOMAIN journal = 1..Len(journal) /\ Len(journal) \in Nat
  BY <1>1, DomainFinite
<1>4. 1..(n - 1) \subseteq DOMAIN journal
  BY <1>3
<1>5. QED BY <1>2, <1>4 DEF Posting, EntriesOK

\* Booking lines that are typed keeps every entry right.
LEMMA BookKeepsEntries ==
  ASSUME EntriesOK, NEW lines \in Seq(PostedLine), NEW original \in Nat, NEW stock \in Int,
         original # 0 => original \in DOMAIN journal /\ lines = ReversedLines(journal[original].lines),
         Book(lines, original, stock)
  PROVE  EntriesOK'
<1> DEFINE entry == [lines |-> lines, reverses |-> original, stock |-> stock]
           last == Len(journal) + 1
<1>1. /\ journal \in Seq(Posting) /\ announced \in Seq(Nat) /\ Len(announced) = Len(journal)
      /\ Len(journal) \in Nat
      /\ DOMAIN journal = 1..Len(journal) /\ DOMAIN announced = 1..Len(journal)
  BY DomainFinite DEF EntriesOK
<1>2. /\ Postable(lines) /\ journal' = Append(journal, entry)
      /\ announced' = Append(announced, TotalAmount(lines))
  BY DEF Book
<1>3. entry \in Posting /\ TotalAmount(lines) \in Nat
  BY SidesTyped DEF Posting, TotalAmount
<1>4. /\ journal' \in Seq(Posting) /\ Len(journal') = last
      /\ announced' \in Seq(Nat) /\ Len(announced') = last
      /\ DOMAIN journal' = 1..last
      /\ \A n \in 1..Len(journal) : journal'[n] = journal[n] /\ announced'[n] = announced[n]
      /\ journal'[last] = entry /\ announced'[last] = TotalAmount(lines)
  <2> HIDE DEF entry
  <2>1. QED BY <1>1, <1>2, <1>3, AppendProperties
<1>5. ASSUME NEW n \in 1..Len(journal)
      PROVE  /\ Postable(journal'[n].lines)
             /\ announced'[n] = TotalAmount(journal'[n].lines)
             /\ journal'[n].reverses # 0 =>
                  /\ journal'[n].reverses \in 1..(n - 1)
                  /\ journal'[n].lines = ReversedLines(journal'[journal'[n].reverses].lines)
  <2>1. /\ Postable(journal[n].lines) /\ announced[n] = TotalAmount(journal[n].lines)
        /\ journal[n].reverses # 0 =>
             /\ journal[n].reverses \in 1..(n - 1)
             /\ journal[n].reverses \in DOMAIN journal
             /\ journal[n].lines = ReversedLines(journal[journal[n].reverses].lines)
    BY <1>1, EntryTyped
  <2>2. journal'[n] = journal[n] /\ announced'[n] = announced[n]
        /\ (journal[n].reverses # 0 =>
              journal'[journal[n].reverses] = journal[journal[n].reverses])
    BY <1>1, <1>4, <2>1
  <2>3. QED BY <2>1, <2>2
<1>6. /\ Postable(journal'[last].lines)
      /\ announced'[last] = TotalAmount(journal'[last].lines)
      /\ journal'[last].reverses # 0 =>
           /\ journal'[last].reverses \in 1..(last - 1)
           /\ journal'[last].lines = ReversedLines(journal'[journal'[last].reverses].lines)
  <2>1. journal'[last].lines = lines /\ journal'[last].reverses = original
    BY <1>4
  <2>2. ASSUME original # 0
        PROVE  original \in 1..(last - 1) /\ lines = ReversedLines(journal'[original].lines)
    BY <1>1, <1>4, <2>2
  <2> HIDE DEF last
  <2>3. QED BY <1>2, <1>4, <2>1, <2>2
<1>7. \A n \in 1..last : n \in 1..Len(journal) \/ n = last
  BY <1>1
<1>8. QED
  <2> HIDE DEF last
  <2>1. Len(announced') = Len(journal')
    BY <1>4
  <2>2. QED BY <1>4, <1>5, <1>6, <1>7, <2>1 DEF EntriesOK

\* An entry that changes the stock account as it should keeps them all right.
LEMMA BookKeepsStock ==
  ASSUME EntriesOK, StockOK, NEW lines, NEW original, NEW stock,
         Effect(lines, "1405") = stock, Book(lines, original, stock)
  PROVE  StockOK'
<1>1. journal \in Seq(Posting) /\ Len(journal) \in Nat /\ DOMAIN journal = 1..Len(journal)
  BY DomainFinite DEF EntriesOK
<1> DEFINE entry == [lines |-> lines, reverses |-> original, stock |-> stock]
<1>2. journal' = Append(journal, entry)
  BY DEF Book
<1>3. /\ DOMAIN journal' = 1..(Len(journal) + 1)
      /\ \A n \in 1..Len(journal) : journal'[n] = journal[n]
      /\ journal'[Len(journal) + 1] = entry
  <2> HIDE DEF entry
  <2>1. QED BY <1>1, <1>2
<1>4. \A n \in 1..Len(journal) : Effect(journal'[n].lines, "1405") = journal'[n].stock
  BY <1>1, <1>3 DEF StockOK
<1>5. Effect(journal'[Len(journal) + 1].lines, "1405") = journal'[Len(journal) + 1].stock
  BY <1>3
<1>6. \A n \in DOMAIN journal' : n \in 1..Len(journal) \/ n = Len(journal) + 1
  BY <1>1, <1>3
<1>7. QED BY <1>4, <1>5, <1>6 DEF StockOK

\* The entry of a movement is typed, and puts the movement on the stock account.
LEMMA MovementTyped ==
  ASSUME NEW reason \in Reasons, NEW size \in Cents, NEW sign \in {1, -1}
  PROVE  LET lines == MovementLines(reason, sign * size)
         IN  /\ lines \in Seq(PostedLine)
             /\ StockChange(reason, size) \in Int
             /\ Effect(lines, "1405") = StockChange(reason, size)
<1>1. PICK lines : lines = MovementLines(reason, sign * size)
  OBVIOUS
<1>2. size \in Nat /\ (IF sign * size < 0 THEN -(sign * size) ELSE sign * size) = size
  BY AmountsAssumption
<1>3. PICK a, b : a = AccountsForInventoryReason(reason)[1] /\ b = AccountsForInventoryReason(reason)[2]
  OBVIOUS
<1>4. a \in Accounts /\ b \in Accounts
  BY <1>3 DEF AccountsForInventoryReason, Accounts, Reasons
<1>5. lines = <<Line(a, size, 0), Line(b, 0, size)>>
  BY <1>1, <1>2, <1>3 DEF MovementLines
<1>6. lines \in Seq(PostedLine)
  BY <1>2, <1>4, <1>5, PairTyped
<1>7. Effect(lines, "1405") = (IF a = "1405" THEN size ELSE 0) - (IF b = "1405" THEN size ELSE 0)
  BY <1>2, <1>4, <1>5, PairEffect
<1>8. (IF a = "1405" THEN size ELSE 0) - (IF b = "1405" THEN size ELSE 0) = StockChange(reason, size)
  BY <1>2, <1>3 DEF AccountsForInventoryReason, Reasons, StockChange
<1>9. StockChange(reason, size) \in Int
  BY <1>2 DEF StockChange
<1>10. QED BY <1>1, <1>6, <1>7, <1>8, <1>9

\* The entry of an order is typed, and leaves the stock account alone.
LEMMA OrderTyped ==
  ASSUME NEW amount \in Cents
  PROVE  OrderLines(amount) \in Seq(PostedLine) /\ Effect(OrderLines(amount), "1405") = 0
<1>1. amount \in Nat /\ "1122" \in Accounts /\ "6001" \in Accounts
  BY AmountsAssumption DEF Accounts
<1>2. OrderLines(amount) = <<Line("1122", amount, 0), Line("6001", 0, amount)>>
  BY DEF OrderLines
<1>3. OrderLines(amount) \in Seq(PostedLine)
  BY <1>1, <1>2, PairTyped
<1>4. Effect(OrderLines(amount), "1405")
        = (IF "1122" = "1405" THEN amount ELSE 0) - (IF "6001" = "1405" THEN amount ELSE 0)
  BY <1>1, <1>2, PairEffect
<1>5. QED BY <1>3, <1>4

\* The journal starts empty.
LEMMA EntriesInit == Init => EntriesOK /\ StockOK
BY DEF Init, EntriesOK, StockOK

\* Every step keeps every entry right.
LEMMA EntriesNext == EntriesOK /\ [Next]_vars => EntriesOK'
<1> SUFFICES ASSUME EntriesOK, [Next]_vars PROVE EntriesOK'
  OBVIOUS
<1>1. CASE PostManualEntry
  <2>1. PICK lines \in PostableDrafts : Book(lines, 0, Effect(lines, "1405"))
    BY <1>1 DEF PostManualEntry
  <2>2. lines \in Seq(PostedLine) /\ Effect(lines, "1405") \in Int
    BY DraftTyped, EffectTyped
  <2>3. QED BY <2>1, <2>2, BookKeepsEntries
<1>2. CASE ReverseEntry
  <2>1. PICK n \in DOMAIN journal : Book(ReversedLines(journal[n].lines), n, -journal[n].stock)
    BY <1>2 DEF ReverseEntry
  <2>2. journal[n].lines \in Seq(PostedLine) /\ journal[n].stock \in Int
    BY EntryTyped
  <2>3. n \in Nat
    BY DomainFinite DEF EntriesOK
  <2>4. ReversedLines(journal[n].lines) \in Seq(PostedLine) /\ -journal[n].stock \in Int
    BY <2>2, ReversedTyped
  <2>5. QED BY <2>1, <2>3, <2>4, BookKeepsEntries
<1>3. CASE PostSalesOrderEntry
  <2>1. PICK amount \in Cents : Book(OrderLines(amount), 0, 0)
    BY <1>3 DEF PostSalesOrderEntry
  <2>2. QED BY <2>1, OrderTyped, BookKeepsEntries
<1>4. CASE PostInventoryAdjustedEntry
  <2>1. PICK reason \in Reasons, size \in Cents, sign \in {1, -1} :
          Book(MovementLines(reason, sign * size), 0, StockChange(reason, size))
    BY <1>4 DEF PostInventoryAdjustedEntry
  <2>2. MovementLines(reason, sign * size) \in Seq(PostedLine) /\ StockChange(reason, size) \in Int
    BY MovementTyped
  <2>3. QED BY <2>1, <2>2, BookKeepsEntries
<1>5. CASE UNCHANGED vars
  BY <1>5 DEF vars, EntriesOK
<1>6. QED BY <1>1, <1>2, <1>3, <1>4, <1>5 DEF Next

\* Every step keeps the entries' effect on stock right.
LEMMA StockNext == EntriesOK /\ StockOK /\ [Next]_vars => StockOK'
<1> SUFFICES ASSUME EntriesOK, StockOK, [Next]_vars PROVE StockOK'
  OBVIOUS
<1>1. CASE PostManualEntry
  <2>1. PICK lines \in PostableDrafts : Book(lines, 0, Effect(lines, "1405"))
    BY <1>1 DEF PostManualEntry
  <2>2. QED BY <2>1, BookKeepsStock
<1>2. CASE ReverseEntry
  <2>1. PICK n \in DOMAIN journal : Book(ReversedLines(journal[n].lines), n, -journal[n].stock)
    BY <1>2 DEF ReverseEntry
  <2>2. journal[n].lines \in Seq(PostedLine) /\ journal[n].stock \in Int
    BY EntryTyped
  <2>3. Effect(ReversedLines(journal[n].lines), "1405") + Effect(journal[n].lines, "1405") = 0
    BY <2>2, ReverseUndoes
  <2>4. Effect(ReversedLines(journal[n].lines), "1405") \in Int
    BY <2>2, ReversedTyped, EffectTyped
  <2>5. Effect(ReversedLines(journal[n].lines), "1405") = -journal[n].stock
    BY <2>2, <2>3, <2>4 DEF StockOK
  <2>6. QED BY <2>1, <2>5, BookKeepsStock
<1>3. CASE PostSalesOrderEntry
  <2>1. PICK amount \in Cents : Book(OrderLines(amount), 0, 0)
    BY <1>3 DEF PostSalesOrderEntry
  <2>2. QED BY <2>1, OrderTyped, BookKeepsStock
<1>4. CASE PostInventoryAdjustedEntry
  <2>1. PICK reason \in Reasons, size \in Cents, sign \in {1, -1} :
          Book(MovementLines(reason, sign * size), 0, StockChange(reason, size))
    BY <1>4 DEF PostInventoryAdjustedEntry
  <2>2. Effect(MovementLines(reason, sign * size), "1405") = StockChange(reason, size)
    BY MovementTyped
  <2>3. QED BY <2>1, <2>2, BookKeepsStock
<1>5. CASE UNCHANGED vars
  BY <1>5 DEF vars, StockOK
<1>6. QED BY <1>1, <1>2, <1>3, <1>4, <1>5 DEF Next

------------------------------------------------------------------------------
(* What the entries add up to.                                              *)

\* Entries that balance one by one balance together.
LEMMA JournalBalances ==
  ASSUME EntriesOK
  PROVE  TrialBalance
<1> DEFINE D == DOMAIN journal
           effects == [n \in D |-> [a \in Accounts |-> Effect(journal[n].lines, a)]]
           row == [n \in D |-> SumFunctionOnSet(effects[n], Accounts)]
           column(a) == [n \in D |-> effects[n][a]]
           columns == [a \in Accounts |-> SumFunctionOnSet(column(a), D)]
           balances == [a \in Accounts |-> Balance(a)]
<1>1. IsFiniteSet(D) /\ IsFiniteSet(Accounts)
  BY DomainFinite, AccountsFinite DEF EntriesOK
<1>2. \A n \in D, a \in Accounts : effects[n][a] \in Int
  BY EntryTyped, EffectTyped
<1>3. SumFunctionOnSet(columns, Accounts) = SumFunctionOnSet(row, D)
  <2> HIDE DEF effects, D
  <2>1. QED BY <1>1, <1>2, SumOfSums
<1>4. \A n \in D : row[n] = 0
  <2> TAKE n \in D
  <2>1. SumFunctionOnSet([a \in Accounts |-> Effect(journal[n].lines, a)], Accounts) = 0
    BY EntryTyped, EntryBalances DEF Postable
  <2>2. QED BY <2>1
<1>5. SumFunctionOnSet(row, D) = 0
  <2> HIDE DEF row, D
  <2>1. QED BY <1>1, <1>4, SumOfNothing
<1>6. \A a \in Accounts : balances[a] = columns[a]
  <2> TAKE a \in Accounts
  <2>1. column(a) = [n \in D |-> Effect(journal[n].lines, a)]
    OBVIOUS
  <2>2. columns[a] = SumFunctionOnSet(column(a), D) /\ balances[a] = Balance(a)
    OBVIOUS
  <2> HIDE DEF column, columns, balances
  <2>3. QED BY <2>1, <2>2 DEF Balance
<1>7. SumFunctionOnSet(balances, Accounts) = SumFunctionOnSet(columns, Accounts)
  <2> HIDE DEF balances, columns
  <2>1. QED BY <1>1, <1>6, SumSame
<1> HIDE DEF columns, row
<1>8. SumFunctionOnSet(balances, Accounts) = 0
  BY <1>3, <1>5, <1>7
<1>9. QED BY <1>8 DEF TrialBalance

\* Over all accounts, the balances of the journal add up to zero.
THEOREM BooksBalance == Spec => []TrialBalance
<1>1. Spec => []EntriesOK
  BY EntriesInit, EntriesNext, PTL DEF Spec
<1>2. QED BY <1>1, JournalBalances, PTL

\* An entry and its reversal (ReverseEntry, entry.go) together change no account.
THEOREM ReversalUndoes == Spec => []ReversalCancels
<1>1. Spec => []EntriesOK
  BY EntriesInit, EntriesNext, PTL DEF Spec
<1>2. ASSUME EntriesOK PROVE ReversalCancels
  <2>1. SUFFICES ASSUME NEW n \in DOMAIN journal, journal[n].reverses # 0, NEW a \in Accounts
                 PROVE  Effect(journal[n].lines, a)
                          + Effect(journal[journal[n].reverses].lines, a) = 0
    BY DEF ReversalCancels
  <2>2. PICK k : k = journal[n].reverses
    OBVIOUS
  <2>3. k \in DOMAIN journal /\ journal[n].lines = ReversedLines(journal[k].lines)
    BY <1>2, <2>1, <2>2, EntryTyped
  <2>4. journal[k].lines \in Seq(PostedLine)
    BY <1>2, <2>3, EntryTyped
  <2>5. QED BY <2>2, <2>3, <2>4, ReverseUndoes
<1>3. QED BY <1>1, <1>2, PTL

\* The amount that finance.voucher.posted.v1 tells is what the entry moves.
THEOREM AnnouncedIsMoved == Spec => []AnnouncedAmount
<1>1. Spec => []EntriesOK
  BY EntriesInit, EntriesNext, PTL DEF Spec
<1>2. ASSUME EntriesOK PROVE AnnouncedAmount
  <2>1. SUFFICES ASSUME NEW n \in DOMAIN journal
                 PROVE  LET lines == journal[n].lines IN
                        /\ announced[n] > 0
                        /\ 2 * announced[n] =
                             SumFunctionOnSet([k \in DOMAIN lines |->
                                                 lines[k].debit + lines[k].credit], DOMAIN lines)
                        /\ \A k \in DOMAIN lines : 0 \in {lines[k].debit, lines[k].credit}
    BY DEF AnnouncedAmount
  <2>2. PICK lines : lines = journal[n].lines
    OBVIOUS
  <2>3. lines \in Seq(PostedLine) /\ Accepted(lines) /\ announced[n] = TotalAmount(lines)
    BY <1>2, <2>2, EntryTyped DEF Postable
  <2>4. /\ TotalAmount(lines) > 0
        /\ 2 * TotalAmount(lines) =
             SumFunctionOnSet([k \in DOMAIN lines |-> lines[k].debit + lines[k].credit], DOMAIN lines)
        /\ \A k \in DOMAIN lines : 0 \in {lines[k].debit, lines[k].credit}
    BY <2>3, AmountIsHalf
  <2>5. QED BY <2>2, <2>3, <2>4
<1>3. QED BY <1>1, <1>2, PTL

\* The balance of the stock account is the sum of the movements booked, and of what
\* clients wrote on it, less what was reversed (accountsForInventoryReason).
THEOREM StockAccountFollows == Spec => []StockFollowsMovement
<1>1. EntriesOK /\ StockOK /\ [Next]_vars => EntriesOK' /\ StockOK'
  BY EntriesNext, StockNext
<1>2. Spec => [](EntriesOK /\ StockOK)
  BY <1>1, EntriesInit, PTL DEF Spec
<1>3. ASSUME EntriesOK, StockOK PROVE StockFollowsMovement
  <2> DEFINE D == DOMAIN journal
             effect == [n \in D |-> Effect(journal[n].lines, "1405")]
             stock == [n \in D |-> journal[n].stock]
  <2>1. IsFiniteSet(D)
    BY <1>3, DomainFinite DEF EntriesOK
  <2>2. \A n \in D : effect[n] = stock[n]
    BY <1>3 DEF StockOK
  <2>3. Balance("1405") = SumFunctionOnSet(effect, D)
    BY DEF Balance
  <2>4. SumFunctionOnSet(effect, D) = SumFunctionOnSet(stock, D)
    <3> HIDE DEF effect, stock, D
    <3>1. QED BY <2>1, <2>2, SumSame
  <2>5. Balance("1405") = SumFunctionOnSet(stock, D)
    BY <2>3, <2>4
  <2>6. QED BY <2>5 DEF StockFollowsMovement
<1>4. QED BY <1>2, <1>3, PTL
================================================================================
