------------------------------ MODULE MCPosting ------------------------------
(* The constants of the runs of Posting.                                    *)
EXTENDS PostingRefinement, TLC

CONSTANTS p1, p2, p3, k1, k2, k3, e1, e2, c1, d1, d2, d3

TwoSessions == {p1, p2}

\* Safety does not depend on which session, or which key, is which.
SymmetricSessions == Permutations(TwoSessions) \cup Permutations({k1, k2, k3})

AllCommands == PeriodCommands \cup EntryCommands

Message(k, d, f, n) ==
  [kind |-> k, doc |-> d, draft |-> f, customer |-> c1, amount |-> n]

NoEvents == {}
TwoForOne == {Message("order", d1, "fit", 1), Message("order", d1, "fit", 2)}
\* With another order, one whose amount does not parse, and two movements, one of
\* them of quantity zero.
SomeEvents == TwoForOne \cup
  {Message("order", d2, "fit", 2), Message("order", d2, "unbalanced", 0),
   Message("movement", d3, "fit", 0), Message("zeroMovement", d3, "fit", 0)}

NoLimitYet == c1 :> [version |-> 0, limit |-> 0]
LimitOfOne == c1 :> [version |-> 1, limit |-> 1]

NoSnapshots == {}
TwoSnapshots == {[customer |-> c1, version |-> 2, limit |-> 2],
                 [customer |-> c1, version |-> 3, limit |-> 1]}
==============================================================================
