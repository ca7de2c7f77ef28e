---------------------------- MODULE GeneralLedger ----------------------------
(***************************************************************************)
(* What the finance component promises to those who read its books: each   *)
(* legal entity has a journal per accounting period, a posting is appended *)
(* to one of them whole or not at all, and only while that period is open. *)
(* There are no sessions, locks or keys here.                              *)
(***************************************************************************)
EXTENDS Naturals, Sequences

CONSTANTS
  Entities, LastPeriod, Customers,
  Ids,      \* what names a posting
  Causes,   \* what may make a posting happen: a command's key or a source document
  Amounts   \* what an order may be worth

VARIABLES
  period,   \* period[e][m]: "OPEN", "CLOSED" or "LOCKED"
  journal,  \* journal[e][m]: the postings of the period, in posting-number order
  owed      \* owed[c]: what customer c has used of its credit

ledger == <<period, journal, owed>>

Periods == 1..LastPeriod

\* A posting, what caused it, and the posting it reverses (0 for none).
Posting == [id : Ids, cause : Causes, reverses : Ids \cup {0}]

Postings(e) == UNION {{journal[e][m][n] : n \in DOMAIN journal[e][m]} : m \in Periods}
AllPostings == UNION {Postings(e) : e \in Entities}

\* Each cause is good for one posting, and each posting for one reversal, in
\* the books of the same legal entity.
MayPost(e, x) ==
  /\ \A y \in AllPostings : y.id # x.id /\ y.cause # x.cause
  /\ x.reverses # 0 =>
       /\ \E y \in Postings(e) : y.id = x.reverses
       /\ \A y \in AllPostings : y.reverses # x.reverses

Post(e, m) ==
  /\ period[e][m] = "OPEN"
  /\ \E x \in Posting :
       /\ journal' = [journal EXCEPT ![e][m] = Append(@, x)]
       /\ MayPost(e, x)
  /\ \/ UNCHANGED owed
     \/ \E c \in Customers, a \in Amounts : owed' = [owed EXCEPT ![c] = @ + a]
  /\ UNCHANGED period

Move(e, m) ==
  /\ \E step \in {<<"OPEN", "CLOSED">>, <<"CLOSED", "OPEN">>, <<"CLOSED", "LOCKED">>} :
       /\ period[e][m] = step[1]
       /\ period' = [period EXCEPT ![e][m] = step[2]]
  /\ UNCHANGED <<journal, owed>>

Init ==
  /\ period = [e \in Entities |-> [m \in Periods |-> "OPEN"]]
  /\ journal = [e \in Entities |-> [m \in Periods |-> <<>>]]
  /\ owed = [c \in Customers |-> 0]

Next == \E e \in Entities, m \in Periods : Post(e, m) \/ Move(e, m)

Spec == Init /\ [][Next]_ledger
==============================================================================
