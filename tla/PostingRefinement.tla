-------------------------- MODULE PostingRefinement --------------------------
(* Posting, with its sessions, locks and failures, implements GeneralLedger.*)
EXTENDS PostingProperties

\* What made entry x happen: its source document, or the key whose result it is.
CauseOf(x) == IF x.doc # NoDoc THEN <<"source", x.doc>>
              ELSE <<"key", (CHOOSE r \in idempotency : r.entry = x.id).key>>

PostingOf(x) == [id |-> x.id, cause |-> CauseOf(x), reverses |-> x.reverses]

\* The journal of a period: its entries in the order of their post numbers.
JournalOf(e, m) ==
  [n \in 1..lastPostSeq[e][m] |-> PostingOf(CHOOSE x \in Book(e, m) : x.postNo = n)]

Ledger == INSTANCE GeneralLedger WITH
  Ids     <- 1..MaxEntrySeq,
  Causes  <- ({"key"} \X Keys) \cup ({"source"} \X Docs),
  Amounts <- {m.amount : m \in Messages},
  period  <- status,
  journal <- [e \in Entities |-> [m \in Periods |-> JournalOf(e, m)]],
  owed    <- exposure

\* Every step of every session is one step of the ledger or changes nothing in
\* it: a posting appears at its commit, whole, at the end of an open period's
\* journal, for a cause that had not posted before.
ImplementsLedger == Ledger!Spec
==============================================================================
