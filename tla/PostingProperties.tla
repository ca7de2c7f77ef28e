-------------------------- MODULE PostingProperties --------------------------
(* What makes the ledger of Posting correct.                                *)
EXTENDS Posting, FiniteSetsExt

Book(e, m) == {x \in entries : x.entity = e /\ x.period = m}

------------------------------------------------------------------------------
Entry == [id : Nat \ {0}, entity : Entities, period : Periods, postNo : Nat \ {0},
          doc : Docs \cup {NoDoc}, reverses : Nat]

Transaction ==
  [pc : {"idle", "replied", "lockingHeader", "reading", "changing", "posting",
         "insertingLines", "crediting", "ready"},
   op : PeriodCommands \cup EntryCommands \cup {"consume", "none"},
   key : Keys \cup {NoKey}, msg : Messages \cup {NoMessage}, scope : SUBSET Entities,
   entity : Entities, draft : AllDrafts, date : 0..LastPeriod + 1,
   next : 0..LastPeriod + 1, target : 0..LastPeriod, seq : Nat, original : Nat,
   entry : Nat, owed : 0..MaxExposure, rejected : BOOLEAN]

Lock == ({"key"} \X Keys) \cup ({"entry"} \X Nat) \cup ({"period"} \X Entities \X Periods)
        \cup ({"source"} \X Docs) \cup ({"customer"} \X Customers)

\* Every table, transaction and lock set has the shape that the schema
\* (001_create_finance.up.sql) and the Go structs give it.
TypeOK ==
  /\ status \in [Entities -> [Periods -> Statuses]]
  /\ lastPostSeq \in [Entities -> [Periods -> Nat]]
  /\ entries \subseteq Entry
  /\ idempotency \subseteq
       [key : Keys, command : PeriodCommands \cup EntryCommands, entry : Nat,
        status : Statuses \cup {"none"}]
  /\ inbox \subseteq Messages \cup Snapshots
  /\ receivables \subseteq [entry : Nat, customer : Customers, amount : Nat]
  /\ exposure \in [Customers -> 0..MaxExposure]
  /\ snapshot \in [Customers -> [version : Nat, limit : Nat]]
  /\ entrySeq \in Nat
  /\ today \in 1..LastPeriod + 1
  /\ tx \in [Proc -> Transaction]
  /\ locks \in [Proc -> SUBSET Lock]

------------------------------------------------------------------------------
(* Safety.                                                                  *)

\* The post numbers of a legal entity's period are 1, 2, ... without a gap or a
\* repetition, whatever rolls back or turns out to be a duplicate: nextPostNo
\* counts under the period's row lock, after the source is claimed.
PostNoGapFree ==
  \A e \in Entities, m \in Periods :
    /\ {x.postNo : x \in Book(e, m)} = 1..lastPostSeq[e][m]
    /\ \A x, y \in Book(e, m) : x.postNo = y.postNo => x = y

Booking(t) == t.pc \in {"posting", "insertingLines", "crediting", "ready"}
              /\ t.op \in EntryCommands \cup {"consume"}

\* A posting goes to the earliest period that is open on or after its business
\* date, at every moment until it commits: no earlier period can be reopened,
\* and the chosen one cannot be closed, under lockOpenPeriodForDate's row locks.
EarliestOpenPeriod ==
  \A p \in Proc : LET t == tx[p] IN
    Booking(t) /\ t.target # 0 =>
      /\ status[t.entity][t.target] = "OPEN"
      /\ \A m \in t.date..(t.target - 1) : status[t.entity][m] # "OPEN"

\* A source document (component, type, id, revision) is booked at most once,
\* by whatever number of messages, deliveries and replicas it arrives.
SourcePostedOnce ==
  \A x, y \in entries : x.doc = y.doc /\ x.doc # NoDoc => x = y

\* An entry is reversed at most once, by an entry of the same legal entity, and
\* only after it was booked.
ReversedOnce ==
  \A x \in entries : x.reverses # 0 =>
    /\ ReversalsOf(x.reverses) = {x}
    /\ \E y \in entries : y.id = x.reverses /\ y.entity = x.entity

\* An idempotency key has one result, and the entries that commands book are
\* exactly the results of keys: a command that is sent twice, at once or later,
\* books once, and no entry is booked without its key being spent.
KeyHasOneEffect ==
  /\ \A r, s \in idempotency : r.key = s.key => r = s
  /\ \A x \in entries : x.doc = NoDoc =>
       Cardinality({r \in idempotency : r.entry = x.id}) = 1
  /\ \A r \in idempotency : r.command \in EntryCommands =>
       \E x \in WithId(r.entry) : (x.reverses # 0) <=> (r.command = "ReverseEntry")

Owed(c) == {r \in receivables : r.customer = c}

\* A customer's used credit is the sum of its receivables, and each booked order
\* has exactly one of them: order entry, receivable and exposure commit together.
ExposureIsReceivables ==
  /\ \A c \in Customers :
       exposure[c] = SumFunctionOnSet([r \in receivables |-> r.amount], Owed(c))
  /\ \A m \in Messages : m.kind = "order" /\ m \in inbox =>
       \A x \in PostedFrom(m.doc) :
         Cardinality({r \in receivables : r.entry = x.id}) = 1

Limits(c) == {KnownLimits[c].limit} \cup {s.limit : s \in {s \in Snapshots : s.customer = c}}

\* When a customer has had a limit all along, no order takes its exposure above
\* every limit it ever had without finance.credit.rejected.v1 saying so: the
\* judgement uses the exposure that includes the order.
NoSilentOverrun ==
  \A c \in Customers :
    0 \notin Limits(c) /\ (\A l \in Limits(c) : exposure[c] > l) =>
      \E ev \in outbox : /\ ev.subject = "finance.credit.rejected.v1"
                         /\ ev.customer = c
                         /\ ev.exposure = exposure[c]

\* An event is in the outbox if and only if what it tells is in the books: one
\* finance.voucher.posted.v1 per entry, and a rejection only of a booked order.
OutboxMatchesBooks ==
  /\ \A x \in entries :
       [subject |-> "finance.voucher.posted.v1", aggregate |-> x.id] \in outbox
  /\ \A ev \in outbox :
       IF ev.subject = "finance.voucher.posted.v1" THEN WithId(ev.aggregate) # {}
                                                   ELSE PostedFrom(ev.aggregate) # {}

\* The customer snapshot is the newest version consumed so far, although the
\* created and the updated subject deliver in any order.
SnapshotIsNewest ==
  \A c \in Customers :
    snapshot[c].version =
      Max({KnownLimits[c].version} \cup
          {s.version : s \in {s \in inbox \cap Snapshots : s.customer = c}})

------------------------------------------------------------------------------
(* Locks.                                                                   *)

\* The rows that the statement a session is at has still to lock.
Wants(p) ==
  LET t == tx[p] IN
  CASE t.pc = "lockingHeader" -> {EntryLock(t.original)}
    [] t.pc = "changing"      -> {PeriodLock(t.entity, t.target)}
    [] t.pc = "posting" /\ t.next <= LastPeriod
                              -> {PeriodLock(t.entity, m) : m \in t.date..LastPeriod} \ locks[p]
    [] Resolved(t)            -> {DocLock(d) : d \in {SourceOf(t)} \ {NoDoc}}
    [] t.pc = "crediting"     -> {CustomerLock(t.msg.customer)}
    [] OTHER                  -> {}

WaitsFor(p, q) == p # q /\ Wants(p) \cap locks[q] # {}

LocksExclusive == \A p, q \in Proc : p # q => locks[p] \cap locks[q] = {}

\* No two sessions hold a row lock at once, and no set of sessions wait for one
\* another: every transaction locks key, header, periods by start_date, source
\* and customer in that order, so the database never has to break a deadlock.
NoWaitCycle ==
  /\ LocksExclusive
  /\ \A S \in (SUBSET Proc) \ {{}} : \E p \in S : \A q \in S : ~WaitsFor(p, q)

------------------------------------------------------------------------------
(* The inductive invariant: what a session has read is still true, because   *)
(* of the locks it holds.                                                    *)

\* The fields that belong to each point of a transaction t.
StageOK(t) ==
  /\ t.pc \notin {"idle", "replied"} =>
       IF t.op = "consume" THEN t.msg \in Messages /\ t.key = NoKey
                           ELSE t.msg = NoMessage /\ t.key \in Keys /\ t.op # "none"
  /\ t.pc \in {"lockingHeader", "reading"} => t.op = "ReverseEntry" /\ t.entry = 0
  /\ t.pc \in {"lockingHeader", "reading"} => t.target = 0
  /\ t.pc = "changing" => t.op \in PeriodCommands /\ t.target # 0 /\ t.entry = 0
  /\ t.pc = "posting" => t.op \notin PeriodCommands /\ t.entry = 0
  /\ t.pc = "insertingLines" => t.op \notin PeriodCommands /\ t.entry # 0
  /\ t.pc = "crediting" => t.op = "consume" /\ t.entry # 0
  /\ t.pc = "ready" /\ t.op \in PeriodCommands => t.target # 0 /\ t.entry = 0
  /\ t.pc = "ready" /\ t.op \in EntryCommands => t.entry # 0

\* A posting t under the locks L: the rows it has scanned are locked, the first
\* open one is its target, and the number it holds is the next one.
ScanOK(t, L) ==
  Booking(t) =>
    /\ t.date \in 1..t.next
    /\ \A m \in t.date..(t.next - 1) : PeriodLock(t.entity, m) \in L
    /\ t.target = 0 =>
         t.entry = 0 /\ \A m \in t.date..(t.next - 1) : status[t.entity][m] # "OPEN"
    /\ t.target # 0 =>
         /\ t.target \in t.date..(t.next - 1)
         /\ status[t.entity][t.target] = "OPEN"
         /\ \A m \in t.date..(t.target - 1) : status[t.entity][m] # "OPEN"
         /\ t.seq = lastPostSeq[t.entity][t.target] + (IF t.entry = 0 THEN 0 ELSE 1)

\* A period command that is about to commit holds the row it has judged.
ChangeOK(t, L) ==
  t.pc = "ready" /\ t.op \in PeriodCommands =>
    /\ PeriodLock(t.entity, t.target) \in L
    /\ status[t.entity][t.target] \in {From(t.op), To(t.op)}

\* An entry that is not committed has claimed its source.
ClaimOK(t, L) ==
  Booking(t) /\ t.entry # 0 /\ SourceOf(t) # NoDoc =>
    DocLock(SourceOf(t)) \in L /\ PostedFrom(SourceOf(t)) = {}

SessionOK(t, L) == StageOK(t) /\ ScanOK(t, L) /\ ChangeOK(t, L) /\ ClaimOK(t, L)

\* What TLAPS proves of every reachable state, by induction.
IInv ==
  /\ TypeOK
  /\ LocksExclusive
  /\ \A p \in Proc : SessionOK(tx[p], locks[p])
  /\ PostNoGapFree
  /\ SourcePostedOnce

------------------------------------------------------------------------------
(* The order in which a transaction takes its locks.                        *)

\* A command locks its key, the header to reverse, the periods by start_date, the
\* source, the customer, in this order.
Rank(r) == CASE r[1] = "key"    -> 1
             [] r[1] = "entry"  -> 2
             [] r[1] = "period" -> r[3] + 2
             [] r[1] = "source" -> LastPeriod + 3
             [] OTHER           -> LastPeriod + 4

\* The rank up to which transaction t may have locked.
Ceiling(t) == CASE t.pc \in {"idle", "replied"}              -> 0
                [] t.pc \in {"lockingHeader", "changing"}    -> 1
                [] t.pc = "reading"                          -> 2
                [] t.pc = "posting"                          -> t.next + 1
                [] t.pc \in {"insertingLines", "crediting"}  -> LastPeriod + 3
                [] OTHER                                     -> LastPeriod + 4

LockOrder == \A p \in Proc : \A r \in locks[p] : Rank(r) <= Ceiling(tx[p])

------------------------------------------------------------------------------
(* What the sessions are about to commit, and what the tables owe to each   *)
(* other: an inductive invariant on top of IInv.                            *)

Running(t) == t.pc \notin {"idle", "replied"}

\* The key of a running command is locked and has no result.
KeyOK(t, L) ==
  Running(t) /\ t.key # NoKey => KeyLock(t.key) \in L /\ Result(t.key) = {}

\* The entry number that a session has drawn is new.
NumberOK(t) == t.entry # 0 => t.entry <= entrySeq /\ WithId(t.entry) = {}

\* A reversal has locked an entry of its legal entity that has no reversal.
OriginalOK(t, L) ==
  /\ Running(t) => (t.op = "ReverseEntry" <=> t.original # 0)
  /\ ~GuessedIds /\ t.original # 0 =>
       /\ WithId(t.original) # {}
       /\ t.pc # "lockingHeader" => EntryLock(t.original) \in L
       /\ t.pc \notin {"lockingHeader", "reading"} =>
            /\ ReversalsOf(t.original) = {}
            /\ \E y \in WithId(t.original) : y.entity = t.entity

\* An order that is about to be booked has its customer's exposure locked, and
\* was rejected if that exceeds all limits that the customer ever had.
CreditOK(t, L) ==
  LET c == t.msg.customer IN
  /\ t.pc = "crediting" \/ t.rejected => IsOrder(t)
  /\ t.pc = "ready" /\ t.entry # 0 /\ IsOrder(t) =>
       /\ CustomerLock(c) \in L
       /\ t.owed = exposure[c] + t.msg.amount
       /\ 0 \notin Limits(c) /\ (\A l \in Limits(c) : t.owed > l) => t.rejected

EffectOK(t, L) == KeyOK(t, L) /\ NumberOK(t) /\ OriginalOK(t, L) /\ CreditOK(t, L)

\* No two entries, committed or not, have the same number.
NumbersOK ==
  /\ \A x \in entries : x.id <= entrySeq
  /\ \A x, y \in entries : x.id = y.id => x = y
  /\ \A p, q \in Proc : p # q /\ tx[p].entry # 0 => tx[p].entry # tx[q].entry

\* Keys, their results and the entries that commands booked belong together.
ResultsOK ==
  /\ \A r, s \in idempotency : r.key = s.key => r = s
  /\ \A r \in idempotency : r.entry # 0 => WithId(r.entry) # {}
  /\ \A x \in entries : x.doc = NoDoc =>
       \E r \in idempotency : {s \in idempotency : s.entry = x.id} = {r}
  /\ \A r \in idempotency : r.command \in EntryCommands =>
       \E x \in WithId(r.entry) : (x.reverses # 0) <=> (r.command = "ReverseEntry")

\* Orders and the receivables of their entries belong together.
ReceivablesOK ==
  /\ \A r \in receivables : WithId(r.entry) # {}
  /\ \A m \in Messages : m.kind = "order" =>
       \A x \in PostedFrom(m.doc) :
         \E r \in receivables : {s \in receivables : s.entry = x.id} = {r}

\* A customer's snapshot is one of those consumed or known, and no older one.
SnapshotsOK ==
  \A c \in Customers :
    LET seen == {s \in inbox \cap Snapshots : s.customer = c} IN
    /\ snapshot[c].limit \in Limits(c)
    /\ snapshot[c].version \in {KnownLimits[c].version} \cup {s.version : s \in seen}
    /\ KnownLimits[c].version <= snapshot[c].version
    /\ \A s \in seen : s.version <= snapshot[c].version

EffectInv ==
  /\ \A p \in Proc : EffectOK(tx[p], locks[p])
  /\ NumbersOK
  /\ ResultsOK
  /\ ReceivablesOK
  /\ SnapshotsOK
  /\ OutboxMatchesBooks
  /\ NoSilentOverrun
  /\ ~GuessedIds => ReversedOnce

------------------------------------------------------------------------------
(* What the documents say and the code does otherwise.                      *)

\* "Postings of different periods do not block one another"
\* (001_create_finance.up.sql:37-38): a session that has found its period does
\* not wait for one that has found another.
OtherPeriodsDoNotBlock ==
  \A p, q \in Proc :
    /\ Booking(tx[p]) /\ tx[p].target # 0
    /\ Booking(tx[q]) /\ tx[q].target \notin {0, tx[p].target}
    => ~WaitsFor(p, q)

\* The response of a period command carries a PeriodStatus
\* (contracts/finance.openapi.yaml:289-292), also when the key answers it.
PeriodCommandAnswersStatus ==
  \A p \in Proc : tx[p].pc = "replied" /\ tx[p].op \in PeriodCommands =>
    \A r \in Result(tx[p].key) : r.status \in Statuses

------------------------------------------------------------------------------
(* Actions.                                                                 *)

BooksKept ==
  \A e \in Entities, m \in Periods :
    /\ status[e][m] # "OPEN" => Book(e, m)' = Book(e, m)
    /\ status[e][m] = "LOCKED" => status'[e][m] = "LOCKED"
    /\ status[e][m] = "OPEN" => status'[e][m] # "LOCKED"
    /\ Book(e, m) \subseteq Book(e, m)'

\* The books of a period that is not OPEN do not change, a LOCKED period stays
\* LOCKED, and what is booked stays booked: a posting in flight cannot slip into
\* a period that is closed before it commits.
BooksFrozenUnlessOpen == [][BooksKept]_vars

------------------------------------------------------------------------------
(* Liveness.  Go keeps running a handler that can go on, and PostgreSQL     *)
(* queues the sessions that wait for a row, so a lock that is freed again   *)
(* and again is granted to each of them in the end.                         *)

Fairness ==
  \A p \in Proc :
    /\ WF_vars(Continue(p))
    /\ SF_vars(LockHeader(p)) /\ SF_vars(LockForChange(p))
    /\ SF_vars(LockPeriodRow(p))

FairSpec == Spec /\ Fairness

\* Every transaction ends, by itself: no session waits forever for a row, and
\* none needs to crash or to be a deadlock victim first.
EveryTransactionEnds == \A p \in Proc : tx[p].pc # "idle" ~> tx[p].pc = "idle"
==============================================================================
