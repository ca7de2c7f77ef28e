----------------------------- MODULE MCReceivables -----------------------------
(* Receivables with constants for TLC.                                      *)
EXTENDS ReceivableProperties, TLC

CONSTANTS ann, bob, home, branch, w1, r1

Order(n, c, e, amount) == [id |-> n, customer |-> c, entity |-> e, amount |-> amount]
ThreeOrders == {Order(1, ann, home, 1), Order(2, ann, branch, 2), Order(3, bob, home, 4)}
================================================================================
