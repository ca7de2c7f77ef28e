----------------------------- MODULE MCEventIntake -----------------------------
(* EventIntake with constants for TLC.                                      *)
EXTENDS EventProperties, TLC

CONSTANTS r1, r2, ann

NaN == [ok |-> FALSE, value |-> 0]

Message(subject, aggregate, sound, amount) ==
  [subject |-> subject, aggregate |-> aggregate, version |-> 2, sound |-> sound,
   customer |-> ann, amount |-> amount, limit |-> NaN]

Order == Message("order", 1, TRUE, 5)
\* It does not parse.
BadOrder == Message("order", 2, FALSE, 0)
ZeroMovement == Message("movement", 2, TRUE, 0)
\* Its limit is no amount.
Updated == Message("customerUpdated", 1, TRUE, 0)

Events == {Order, BadOrder, ZeroMovement, Updated}

\* Release 1.x took over a limit that is no amount.
FromRelease1 == (ann :> [version |-> 1, limit |-> NaN])
==============================================================================
