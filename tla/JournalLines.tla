---------------------------- MODULE JournalLines ----------------------------
(***************************************************************************)
(* What is inside an entry: the lines that validateBalanced accepts, the   *)
(* lines that events and reversals are booked with, and the account        *)
(* balances they leave.  Amounts are whole cents, as parseCents makes      *)
(* them; how Posting orders the transactions does not matter here.         *)
(***************************************************************************)
EXTENDS Integers, Sequences, Functions

CONSTANTS
  Cents,      \* the amounts that a field of a line may hold
  Malformed,  \* a field that parseCents rejects: a sign, three decimals, no number
  Codes,      \* account codes that clients write
  MaxLines,   \* bound: lines of a draft
  MaxEntries  \* bound: entries in the journal

VARIABLES
  journal,  \* the posted entries: their lines, the entry that each reverses, and
            \* the change of stock that each stands for
  announced \* the amounts in finance.voucher.posted.v1, entry by entry

vars == <<journal, announced>>

\* The accounts that 003_seed_accounts_and_periods.up.sql creates.
Accounts == {"1122", "2202", "1405", "6001", "6401"}
Reasons == {"RECEIVE", "ISSUE", "ADJUST_GAIN", "ADJUST_LOSS", "other"}

ASSUME AmountsAssumption == Cents \subseteq Nat /\ 0 \in Cents /\ Malformed \notin Nat
ASSUME BoundsAssumption == MaxLines \in Nat /\ MaxEntries \in Nat

Line(a, d, c) == [account |-> a, debit |-> d, credit |-> c]
AnyLine == [account : Codes, debit : Cents \cup {Malformed}, credit : Cents \cup {Malformed}]
Drafts == UNION {[1..n -> AnyLine] : n \in 0..MaxLines}

Sum(lines, f) == SumFunctionOnSet([n \in DOMAIN lines |-> lines[n][f]], DOMAIN lines)

\* Exactly one side of a line is more than zero.
OneSided(l) ==
  /\ Malformed \notin {l.debit, l.credit}
  /\ (l.debit = 0) # (l.credit = 0)

\* Mutant: the sums are compared, the single lines are not looked at.
AcceptedBySums(lines) ==
  /\ lines # <<>>
  /\ \A n \in DOMAIN lines : Malformed \notin {lines[n].debit, lines[n].credit}
  /\ Sum(lines, "debit") = Sum(lines, "credit")

\* Mutant: the totals are not compared.
AcceptedByLines(lines) ==
  lines # <<>> /\ \A n \in DOMAIN lines : OneSided(lines[n])

\* postEntryTx posts the lines: there are some, validateBalanced accepts them,
\* and accountIDByCode finds every account.
Accepted(lines) ==
  /\ lines # <<>>
  /\ \A n \in DOMAIN lines : OneSided(lines[n])
  /\ Sum(lines, "debit") = Sum(lines, "credit")
Postable(lines) == Accepted(lines) /\ \A n \in DOMAIN lines : lines[n].account \in Accounts
PostableDrafts == {lines \in Drafts : Postable(lines)}

\* Mutant: the reversal repeats the sides.
RepeatedLines(lines) == lines

ReversedLines(lines) ==
  [n \in DOMAIN lines |-> Line(lines[n].account, lines[n].credit, lines[n].debit)]

TotalAmount(lines) == Sum(lines, "debit")

OrderLines(amount) == <<Line("1122", amount, 0), Line("6001", 0, amount)>>

\* Mutant: goods that leave are debited to stock.
AccountsAlwaysDebitStock(reason) == <<"1405", "6401">>

AccountsForInventoryReason(reason) ==
  CASE reason = "RECEIVE"                  -> <<"1405", "2202">>
    [] reason \in {"ISSUE", "ADJUST_LOSS"} -> <<"6401", "1405">>
    [] OTHER                               -> <<"1405", "6401">>

\* The event carries a signed quantity; one unit counts as 1.00.
MovementLines(reason, qty) ==
  LET amount == IF qty < 0 THEN -qty ELSE qty
      accounts == AccountsForInventoryReason(reason)
  IN  <<Line(accounts[1], amount, 0), Line(accounts[2], 0, amount)>>

------------------------------------------------------------------------------
\* What an entry does to the balance of an account.
Effect(lines, a) ==
  SumFunctionOnSet([n \in DOMAIN lines |->
                      IF lines[n].account = a THEN lines[n].debit - lines[n].credit ELSE 0],
                   DOMAIN lines)

Init == journal = <<>> /\ announced = <<>>

Book(lines, original, stock) ==
  /\ Len(journal) < MaxEntries
  /\ Postable(lines)
  /\ journal' = Append(journal, [lines |-> lines, reverses |-> original, stock |-> stock])
  /\ announced' = Append(announced, TotalAmount(lines))

\* What a client writes by hand on the stock account is a change of stock too.
PostManualEntry == \E lines \in PostableDrafts : Book(lines, 0, Effect(lines, "1405"))

IsReversed(n) == \E k \in DOMAIN journal : journal[k].reverses = n

ReverseEntry ==
  \E n \in DOMAIN journal :
    ~IsReversed(n) /\ Book(ReversedLines(journal[n].lines), n, -journal[n].stock)

PostSalesOrderEntry == \E amount \in Cents : Book(OrderLines(amount), 0, 0)

\* How an event changes the stock: goods arrive or are found, or they leave or
\* are lost; a reason that is not known counts as goods found.
StockChange(reason, size) == IF reason \in {"ISSUE", "ADJUST_LOSS"} THEN -size ELSE size

PostInventoryAdjustedEntry ==
  \E reason \in Reasons, size \in Cents, sign \in {1, -1} :
    /\ size # 0
    /\ Book(MovementLines(reason, sign * size), 0, StockChange(reason, size))

Next == PostManualEntry \/ ReverseEntry \/ PostSalesOrderEntry \/ PostInventoryAdjustedEntry

Spec == Init /\ [][Next]_vars

------------------------------------------------------------------------------
Balance(a) ==
  SumFunctionOnSet([n \in DOMAIN journal |-> Effect(journal[n].lines, a)], DOMAIN journal)

\* The books balance: over all accounts, what validateBalanced let in adds up
\* to zero.
TrialBalance == SumFunctionOnSet([a \in Accounts |-> Balance(a)], Accounts) = 0

\* An entry and its reversal together change no account.
ReversalCancels ==
  \A n \in DOMAIN journal : journal[n].reverses # 0 =>
    \A a \in Accounts :
      Effect(journal[n].lines, a) + Effect(journal[journal[n].reverses].lines, a) = 0

\* The amount that finance.voucher.posted.v1 tells is what the entry moves: more
\* than zero, and half of all that its lines hold.
AnnouncedAmount ==
  \A n \in DOMAIN journal :
    LET lines == journal[n].lines IN
    /\ announced[n] > 0
    /\ 2 * announced[n] =
         SumFunctionOnSet([k \in DOMAIN lines |-> lines[k].debit + lines[k].credit], DOMAIN lines)
    /\ \A k \in DOMAIN lines : 0 \in {lines[k].debit, lines[k].credit}

\* The stock account (1405) follows the stock: its balance is the sum of the movements
\* booked and of what clients wrote on it by hand, less what was reversed, whatever sign
\* the events carry (accountsForInventoryReason takes the direction from the reason
\* alone).
StockFollowsMovement ==
  Balance("1405") = SumFunctionOnSet([n \in DOMAIN journal |-> journal[n].stock], DOMAIN journal)

------------------------------------------------------------------------------
(* What the steps need of the journal they start from.                      *)

PostedLine == [account : Accounts, debit : Nat, credit : Nat]
Posting == [lines : Seq(PostedLine), reverses : Nat, stock : Int]

\* Every entry was posted whole, announced, and, if it is a reversal, has the sides
\* of an earlier entry swapped.
EntriesOK ==
  /\ journal \in Seq(Posting)
  /\ announced \in Seq(Nat) /\ Len(announced) = Len(journal)
  /\ \A n \in DOMAIN journal :
       /\ Postable(journal[n].lines)
       /\ announced[n] = TotalAmount(journal[n].lines)
       /\ journal[n].reverses # 0 =>
            /\ journal[n].reverses \in 1..(n - 1)
            /\ journal[n].lines = ReversedLines(journal[journal[n].reverses].lines)

\* What an entry does to the stock account is the change of stock it stands for.
StockOK == \A n \in DOMAIN journal : Effect(journal[n].lines, "1405") = journal[n].stock
==============================================================================
