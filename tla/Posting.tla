------------------------------- MODULE Posting -------------------------------
(***************************************************************************)
(* The general ledger of the finance component as its PostgreSQL database  *)
(* sees it: every command of the API and every consumed event runs in one  *)
(* READ COMMITTED transaction, several of them at a time (replicas, HTTP   *)
(* and gRPC requests, one goroutine per event subject).                    *)
(*                                                                         *)
(* The variables up to entrySeq are the committed tables.  A transaction   *)
(* is a process: tx[p] holds what its Go code has read and what it will    *)
(* write, locks[p] the row locks it holds until it ends.  What it writes   *)
(* becomes visible in one step, at its commit; a rollback drops it.  One   *)
(* action is one statement that takes a lock or reads committed state;     *)
(* statements between two of those cannot be told apart from outside.      *)
(* The operators marked "Mutant" are not part of the specification: each   *)
(* is a plausible bug that one of the properties must catch.               *)
(***************************************************************************)
EXTENDS Naturals, FiniteSets

CONSTANTS
  Proc,            \* sessions: request handlers and event consumers
  Keys,            \* idempotency keys that clients use
  NoKey,           \* the key of a transaction that an event started
  Entities,        \* legal entities
  DefaultEntity,   \* the one that events are booked for
  LastPeriod,      \* periods are 1..LastPeriod, in order of start_date
  Scopes,          \* lists of legal entities that callers are granted
  Drafts,          \* what a manual entry's lines may look like
  Messages,        \* sales and inventory events
  NoMessage,       \* the message of a transaction that a command started
  NoDoc,           \* the source of an entry no event caused
  Customers,
  Snapshots,       \* customer master data events: customer, version, limit
  KnownLimits,     \* the customer snapshots that are there at the start
  Commands,        \* the commands that clients issue
  GuessedIds,      \* TRUE: a client may name an entry that is not committed
  MaxExposure,     \* what the exposure column can hold
  MaxEntrySeq      \* bound: entry numbers handed out in a behaviour

VARIABLES
  status,       \* status[e][m]: accounting_periods.status
  lastPostSeq,  \* lastPostSeq[e][m]: accounting_periods.last_post_seq
  entries,      \* finance_journal_entries
  idempotency,  \* command_idempotency
  inbox,        \* event_inbox: the events that a transaction has consumed
  receivables,  \* ar_ledger
  exposure,     \* customer_credit_exposure
  snapshot,     \* customer_credit_snapshots
  outbox,       \* event_outbox: the events that a transaction has published
  entrySeq,     \* entry_no_seq: never rolled back
  today,        \* the period of the current date; LastPeriod + 1 is beyond all
  tx,           \* tx[p]: the transaction that session p is in
  locks         \* locks[p]: the row locks it holds

tables == <<status, lastPostSeq, entries, idempotency, inbox, receivables,
            exposure, snapshot, outbox>>
vars == <<tables, entrySeq, today, tx, locks>>

Periods == 1..LastPeriod
Statuses == {"OPEN", "CLOSED", "LOCKED"}
PeriodCommands == {"ClosePeriod", "ReopenPeriod", "LockPeriod"}
EntryCommands == {"PostManualEntry", "ReverseEntry"}

\* A draft's lines: fit to post; refused by validateBalanced; naming an account
\* that accountIDByCode does not find.
AllDrafts == {"fit", "unbalanced", "unknownAccount"}

Docs == {m.doc : m \in Messages}

------------------------------------------------------------------------------
(* Assumptions on the constants.                                            *)

ASSUME PeriodsAssumption ==
  /\ LastPeriod \in Nat \ {0}
  /\ MaxExposure \in Nat
  /\ MaxEntrySeq \in Nat
  /\ GuessedIds \in BOOLEAN

ASSUME NamesAssumption ==
  /\ DefaultEntity \in Entities
  /\ Scopes \subseteq SUBSET Entities
  /\ Drafts \subseteq AllDrafts
  /\ Commands \subseteq PeriodCommands \cup EntryCommands
  /\ NoKey \notin Keys

ASSUME EventsAssumption ==
  /\ NoMessage \notin Messages
  /\ NoDoc \notin Docs
  /\ Messages \subseteq [kind : {"order", "movement", "zeroMovement"}, doc : Docs,
                           draft : AllDrafts, customer : Customers, amount : Nat]
  /\ \A m, n \in Messages : m.doc = n.doc => (m.kind = "order" <=> n.kind = "order")
  /\ Snapshots \cap Messages = {}
  /\ Snapshots \subseteq [customer : Customers, version : Nat \ {0}, limit : Nat]
  /\ KnownLimits \in [Customers -> [version : Nat, limit : Nat]]

------------------------------------------------------------------------------
(* Transactions and row locks.                                              *)

Idle == [pc |-> "idle", op |-> "none", key |-> NoKey, msg |-> NoMessage,
         scope |-> {}, entity |-> DefaultEntity, draft |-> "fit",
         date |-> 0, next |-> 0, target |-> 0, seq |-> 0,
         original |-> 0, entry |-> 0, owed |-> 0, rejected |-> FALSE]

KeyLock(k) == <<"key", k>>
EntryLock(i) == <<"entry", i>>
PeriodLock(e, m) == <<"period", e, m>>
DocLock(d) == <<"source", d>>
CustomerLock(c) == <<"customer", c>>

Free(r) == \A q \in Proc : r \notin locks[q]
Acquire(p, r) == locks' = [locks EXCEPT ![p] = @ \cup {r}]
End(p) == tx' = [tx EXCEPT ![p] = Idle] /\ locks' = [locks EXCEPT ![p] = {}]

\* The rows a committed lookup returns.
WithId(i) == {x \in entries : x.id = i}
ReversalsOf(i) == {x \in entries : x.reverses = i}
PostedFrom(d) == {x \in entries : x.doc = d}
Result(k) == {r \in idempotency : r.key = k}

\* Bound: a transaction starts only if the numbers it may draw are in budget.
Numberless == {q \in Proc : tx[q].pc \in {"lockingHeader", "reading", "posting"}}
InBudget == entrySeq + Cardinality(Numberless) < MaxEntrySeq

------------------------------------------------------------------------------
(* Commands: claim the idempotency key, then act.  claimIdempotency waits   *)
(* for a transaction that holds the key and has not ended; a session that   *)
(* waits there has done nothing yet, so its start and its claim are one     *)
(* step.                                                                    *)

\* Mutant: looks the key up and inserts it without waiting for its holder.
ClaimWithoutWaiting(p, k, t) ==
  /\ tx[p].pc = "idle"
  /\ Result(k) = {}
  /\ tx' = [tx EXCEPT ![p] = [t EXCEPT !.key = k]]
  /\ UNCHANGED <<tables, entrySeq, today, locks>>

Claim(p, k, t) ==
  /\ tx[p].pc = "idle"
  /\ Free(KeyLock(k))
  /\ Result(k) = {}
  /\ tx' = [tx EXCEPT ![p] = [t EXCEPT !.key = k]]
  /\ Acquire(p, KeyLock(k))
  /\ UNCHANGED <<tables, entrySeq, today>>

PostManualEntry(p) ==
  /\ "PostManualEntry" \in Commands
  /\ InBudget
  /\ \E k \in Keys, scope \in Scopes, d \in Drafts : \E e \in scope :
       Claim(p, k, [Idle EXCEPT !.pc = "posting", !.op = "PostManualEntry",
                                !.entity = e, !.draft = d,
                                !.date = today, !.next = today])

ReverseEntry(p) ==
  /\ "ReverseEntry" \in Commands
  /\ InBudget
  /\ \E k \in Keys, scope \in Scopes,
        i \in IF GuessedIds THEN 1..MaxEntrySeq ELSE {x.id : x \in entries} :
       Claim(p, k, [Idle EXCEPT !.pc = "lockingHeader", !.op = "ReverseEntry",
                                !.scope = scope, !.original = i])

From(op) == IF op = "ClosePeriod" THEN "OPEN" ELSE "CLOSED"
To(op) == IF op = "ClosePeriod" THEN "CLOSED"
          ELSE IF op = "ReopenPeriod" THEN "OPEN" ELSE "LOCKED"

TransitionPeriod(p) ==
  \E op \in Commands \cap PeriodCommands, k \in Keys, scope \in Scopes, m \in Periods :
    \E e \in scope :
      Claim(p, k, [Idle EXCEPT !.pc = "changing", !.op = op,
                               !.entity = e, !.target = m])

\* The key is taken: the command is answered with what is stored under it,
\* whichever command stored it.  An entry command reads the stored entry, and
\* fails when there is none.
Replay(p) ==
  /\ tx[p].pc = "idle"
  /\ \E op \in Commands, k \in Keys : \E r \in Result(k) :
       /\ op \in EntryCommands => WithId(r.entry) # {}
       /\ tx' = [tx EXCEPT ![p] = [Idle EXCEPT !.pc = "replied", !.op = op,
                                               !.key = k]]
  /\ UNCHANGED <<tables, entrySeq, today, locks>>

Return(p) ==
  /\ tx[p].pc = "replied"
  /\ tx' = [tx EXCEPT ![p] = Idle]
  /\ UNCHANGED <<tables, entrySeq, today, locks>>

------------------------------------------------------------------------------
(* ReverseEntry: lock the original's header, then read it, in two           *)
(* statements, each with a snapshot of its own.                             *)

\* Mutant: reads the header without FOR UPDATE.
LockHeaderPlainRead(p) ==
  /\ tx[p].pc = "lockingHeader"
  /\ tx' = [tx EXCEPT ![p].pc = "reading"]
  /\ UNCHANGED <<tables, entrySeq, today, locks>>

\* SELECT ... FOR UPDATE: a row that is not committed is not there to lock.
LockHeader(p) ==
  LET i == tx[p].original IN
  /\ tx[p].pc = "lockingHeader"
  /\ Free(EntryLock(i))
  /\ tx' = [tx EXCEPT ![p].pc = "reading"]
  /\ locks' = [locks EXCEPT ![p] = @ \cup {EntryLock(x.id) : x \in WithId(i)}]
  /\ UNCHANGED <<tables, entrySeq, today>>

\* Mutant: ensureNotReversedTx is not called.
ReversibleAgain(x, scope) == x.entity \in scope

Reversible(x, scope) == x.entity \in scope /\ ReversalsOf(x.id) = {}

ReadOriginal(p) ==
  /\ tx[p].pc = "reading"
  /\ \E x \in WithId(tx[p].original) :
       /\ Reversible(x, tx[p].scope)
       /\ tx' = [tx EXCEPT ![p].pc = "posting", ![p].entity = x.entity,
                           ![p].date = today, ![p].next = today]
  /\ UNCHANGED <<tables, entrySeq, today, locks>>

------------------------------------------------------------------------------
(* transitionPeriod: lock the period's row, then judge its status.          *)

\* Mutant: reads the period without FOR UPDATE.
LockForChangePlainRead(p) ==
  LET t == tx[p] IN
  /\ t.pc = "changing"
  /\ status[t.entity][t.target] \in {From(t.op), To(t.op)}
  /\ tx' = [tx EXCEPT ![p].pc = "ready"]
  /\ UNCHANGED <<tables, entrySeq, today, locks>>

LockForChange(p) ==
  LET t == tx[p] IN
  /\ t.pc = "changing"
  /\ Free(PeriodLock(t.entity, t.target))
  /\ status[t.entity][t.target] \in {From(t.op), To(t.op)}
  /\ tx' = [tx EXCEPT ![p].pc = "ready"]
  /\ Acquire(p, PeriodLock(t.entity, t.target))
  /\ UNCHANGED <<tables, entrySeq, today>>

------------------------------------------------------------------------------
(* Events: the consumer skips what the inbox holds; the record of the       *)
(* event commits with what its handler writes.                              *)

ConsumeMessage(p) ==
  /\ tx[p].pc = "idle"
  /\ InBudget
  /\ \E m \in Messages \ inbox :
       tx' = [tx EXCEPT ![p] =
                [Idle EXCEPT !.pc = IF m.kind = "zeroMovement" THEN "ready" ELSE "posting",
                             !.op = "consume", !.msg = m, !.draft = m.draft,
                             !.date = today, !.next = today]]
  /\ UNCHANGED <<tables, entrySeq, today, locks>>

\* Mutant: the upsert has no WHERE version < EXCLUDED.version.
ConsumeSnapshotAnyVersion ==
  /\ \E s \in Snapshots \ inbox :
       /\ inbox' = inbox \cup {s}
       /\ snapshot' = [snapshot EXCEPT ![s.customer] =
                         [version |-> s.version, limit |-> s.limit]]
  /\ UNCHANGED <<status, lastPostSeq, entries, idempotency, receivables, exposure,
                 outbox, entrySeq, today, tx, locks>>

\* The snapshot of a customer follows its aggregate version, whatever the order
\* in which the created and updated subjects deliver: one statement, one step.
ConsumeSnapshot ==
  /\ \E s \in Snapshots \ inbox :
       /\ inbox' = inbox \cup {s}
       /\ snapshot' = IF snapshot[s.customer].version < s.version
                      THEN [snapshot EXCEPT ![s.customer] =
                              [version |-> s.version, limit |-> s.limit]]
                      ELSE snapshot
  /\ UNCHANGED <<status, lastPostSeq, entries, idempotency, receivables, exposure,
                 outbox, entrySeq, today, tx, locks>>

------------------------------------------------------------------------------
(* postEntryTx.                                                             *)

\* Mutant: locks the row it chooses and reads the others without a lock.
LockPeriodRowOfTarget(p) ==
  LET t == tx[p]
      isTarget == t.target = 0 /\ status[t.entity][t.next] = "OPEN"
  IN
  /\ t.pc = "posting" /\ t.draft # "unbalanced"
  /\ t.next \in Periods
  /\ isTarget => Free(PeriodLock(t.entity, t.next))
  /\ tx' = [tx EXCEPT ![p].next = t.next + 1,
                      ![p].target = IF isTarget THEN t.next ELSE @,
                      ![p].seq = IF isTarget THEN lastPostSeq[t.entity][t.next] ELSE @]
  /\ locks' = IF isTarget THEN [locks EXCEPT ![p] = @ \cup {PeriodLock(t.entity, t.next)}]
                          ELSE locks
  /\ UNCHANGED <<tables, entrySeq, today>>

\* Mutant: no ORDER BY, so the rows are locked in any order.
LockPeriodRowAnyOrder(p) ==
  LET t == tx[p] IN
  /\ t.pc = "posting" /\ t.draft # "unbalanced"
  /\ t.next \in Periods
  /\ \E m \in t.date..LastPeriod :
       LET isTarget == t.target = 0 /\ status[t.entity][m] = "OPEN" IN
       /\ PeriodLock(t.entity, m) \notin locks[p]
       /\ Free(PeriodLock(t.entity, m))
       /\ tx' = [tx EXCEPT ![p].next = t.next + 1,
                           ![p].target = IF isTarget THEN m ELSE @,
                           ![p].seq = IF isTarget THEN lastPostSeq[t.entity][m] ELSE @]
       /\ Acquire(p, PeriodLock(t.entity, m))
  /\ UNCHANGED <<tables, entrySeq, today>>

\* lockOpenPeriodForDate: ... WHERE end_date >= date ORDER BY start_date FOR
\* UPDATE locks the rows one after the other, each as committed at that time,
\* and the first OPEN one is where the entry goes.
LockPeriodRow(p) ==
  LET t == tx[p]
      isTarget == t.target = 0 /\ status[t.entity][t.next] = "OPEN"
  IN
  /\ t.pc = "posting"
  /\ t.draft # "unbalanced"
  /\ t.next \in Periods
  /\ Free(PeriodLock(t.entity, t.next))
  /\ tx' = [tx EXCEPT ![p].next = t.next + 1,
                      ![p].target = IF isTarget THEN t.next ELSE @,
                      ![p].seq = IF isTarget THEN lastPostSeq[t.entity][t.next] ELSE @]
  /\ Acquire(p, PeriodLock(t.entity, t.next))
  /\ UNCHANGED <<tables, entrySeq, today>>

Resolved(t) == t.pc = "posting" /\ t.next > LastPeriod /\ t.target # 0

SourceOf(t) == IF t.msg = NoMessage THEN NoDoc ELSE t.msg.doc

\* Mutant: the post number comes from a sequence, which a rollback does not
\* give back.
InsertHeaderBySequence(p) ==
  LET t == tx[p] IN
  /\ Resolved(t)
  /\ entrySeq' = entrySeq + 1
  /\ tx' = [tx EXCEPT ![p].pc = "insertingLines", ![p].entry = entrySeq + 1,
                      ![p].seq = t.seq + 1]
  /\ lastPostSeq' = [lastPostSeq EXCEPT ![t.entity][t.target] = t.seq + 1]
  /\ UNCHANGED <<status, entries, idempotency, inbox, receivables, exposure, snapshot,
                 outbox, today, locks>>

\* Mutant: no unique index on the source.
InsertHeaderNoClaim(p) ==
  LET t == tx[p] IN
  /\ Resolved(t)
  /\ entrySeq' = entrySeq + 1
  /\ tx' = [tx EXCEPT ![p].pc = "insertingLines", ![p].entry = entrySeq + 1,
                      ![p].seq = t.seq + 1]
  /\ UNCHANGED <<tables, today, locks>>

\* The header claims its source, and only then takes the period's next number.
InsertHeader(p) ==
  LET t == tx[p]
      d == SourceOf(t)
  IN
  /\ Resolved(t)
  /\ d # NoDoc => Free(DocLock(d)) /\ PostedFrom(d) = {}
  /\ entrySeq' = entrySeq + 1
  /\ tx' = [tx EXCEPT ![p].pc = "insertingLines", ![p].entry = entrySeq + 1,
                      ![p].seq = t.seq + 1]
  /\ locks' = [locks EXCEPT ![p] = @ \cup {DocLock(x) : x \in {d} \ {NoDoc}}]
  /\ UNCHANGED <<tables, today>>

\* ON CONFLICT DO NOTHING: the source is posted already.  Nothing is written but
\* the inbox record, and no post number is taken; the entry number is burned.
SkipDuplicate(p) ==
  LET d == SourceOf(tx[p]) IN
  /\ Resolved(tx[p])
  /\ d # NoDoc /\ PostedFrom(d) # {}
  /\ entrySeq' = entrySeq + 1
  /\ tx' = [tx EXCEPT ![p].pc = "ready"]
  /\ UNCHANGED <<tables, today, locks>>

\* Mutant: the event is published outside the transaction.
InsertLinesPublishAtOnce(p) ==
  /\ tx[p].pc = "insertingLines"
  /\ tx[p].draft # "unknownAccount"
  /\ tx' = [tx EXCEPT ![p].pc =
              IF tx[p].op = "consume" /\ tx[p].msg.kind = "order" THEN "crediting"
                                                                  ELSE "ready"]
  /\ outbox' = outbox \cup {[subject |-> "finance.voucher.posted.v1",
                             aggregate |-> tx[p].entry]}
  /\ UNCHANGED <<status, lastPostSeq, entries, idempotency, inbox, receivables, exposure,
                 snapshot, entrySeq, today, locks>>

InsertLines(p) ==
  /\ tx[p].pc = "insertingLines"
  /\ tx[p].draft # "unknownAccount"
  /\ tx' = [tx EXCEPT ![p].pc =
              IF tx[p].op = "consume" /\ tx[p].msg.kind = "order" THEN "crediting"
                                                                  ELSE "ready"]
  /\ UNCHANGED <<tables, entrySeq, today, locks>>

\* Strictly more than the limit; a limit of zero means that none is set.
ExceedsLimit(owed, limit) == limit # 0 /\ owed > limit

\* Mutant: the exposure is written in a transaction of its own.
ApplyCreditInOwnTx(p) ==
  LET c == tx[p].msg.customer
      owed == exposure[c] + tx[p].msg.amount
  IN
  /\ tx[p].pc = "crediting"
  /\ owed <= MaxExposure
  /\ exposure' = [exposure EXCEPT ![c] = owed]
  /\ tx' = [tx EXCEPT ![p].pc = "ready", ![p].owed = owed,
                      ![p].rejected = ExceedsLimit(owed, snapshot[c].limit)]
  /\ UNCHANGED <<status, lastPostSeq, entries, idempotency, inbox, receivables, snapshot,
                 outbox, entrySeq, today, locks>>

\* Mutant: judges the exposure before the order against the limit.
ApplyCreditJudgeBefore(p) ==
  LET c == tx[p].msg.customer
      owed == exposure[c] + tx[p].msg.amount
  IN
  /\ tx[p].pc = "crediting"
  /\ Free(CustomerLock(c))
  /\ owed <= MaxExposure
  /\ tx' = [tx EXCEPT ![p].pc = "ready", ![p].owed = owed,
                      ![p].rejected = ExceedsLimit(exposure[c], snapshot[c].limit)]
  /\ Acquire(p, CustomerLock(c))
  /\ UNCHANGED <<tables, entrySeq, today>>

\* Mutant: the column does not refuse a value that it cannot hold.
ApplyCreditUnbounded(p) ==
  LET c == tx[p].msg.customer
      owed == exposure[c] + tx[p].msg.amount
  IN
  /\ tx[p].pc = "crediting"
  /\ Free(CustomerLock(c))
  /\ tx' = [tx EXCEPT ![p].pc = "ready", ![p].owed = owed]
  /\ Acquire(p, CustomerLock(c))
  /\ UNCHANGED <<tables, entrySeq, today>>

\* applyCreditExposureDeltaTx, getCreditLimitTx and exceedsLimit: the new
\* exposure is judged against the limit of the moment.
ApplyCredit(p) ==
  LET c == tx[p].msg.customer
      owed == exposure[c] + tx[p].msg.amount
  IN
  /\ tx[p].pc = "crediting"
  /\ Free(CustomerLock(c))
  /\ owed <= MaxExposure
  /\ tx' = [tx EXCEPT ![p].pc = "ready", ![p].owed = owed,
                      ![p].rejected = ExceedsLimit(owed, snapshot[c].limit)]
  /\ Acquire(p, CustomerLock(c))
  /\ UNCHANGED <<tables, entrySeq, today>>

------------------------------------------------------------------------------
(* How a transaction ends.                                                  *)

\* finalizeIdempotency: the key's result is a period status or an entry.
ResultOf(t) == [key |-> t.key, command |-> t.op, entry |-> t.entry,
                status |-> IF t.op \in PeriodCommands THEN To(t.op) ELSE "none"]

CommitTransition(p) ==
  LET t == tx[p] IN
  /\ t.pc = "ready" /\ t.op \in PeriodCommands
  /\ status' = [status EXCEPT ![t.entity][t.target] = To(t.op)]
  /\ idempotency' = idempotency \cup {ResultOf(t)}
  /\ End(p)
  /\ UNCHANGED <<lastPostSeq, entries, inbox, receivables, exposure, snapshot,
                 outbox, entrySeq, today>>

\* An event that booked nothing: a duplicate, or a movement of quantity zero.
CommitNothing(p) ==
  /\ tx[p].pc = "ready" /\ tx[p].op = "consume" /\ tx[p].entry = 0
  /\ inbox' = inbox \cup {tx[p].msg}
  /\ End(p)
  /\ UNCHANGED <<status, lastPostSeq, entries, idempotency, receivables, exposure,
                 snapshot, outbox, entrySeq, today>>

EntryOf(t) == [id |-> t.entry, entity |-> t.entity, period |-> t.target,
               postNo |-> t.seq, doc |-> SourceOf(t), reverses |-> t.original]

IsOrder(t) == t.op = "consume" /\ t.msg.kind = "order"

ReceivableOf(t) == [entry |-> t.entry, customer |-> t.msg.customer, amount |-> t.msg.amount]

VoucherPosted(t) == [subject |-> "finance.voucher.posted.v1", aggregate |-> t.entry]

CreditRejected(t) == [subject |-> "finance.credit.rejected.v1", aggregate |-> t.msg.doc,
                      customer |-> t.msg.customer, exposure |-> t.owed]

CommitEntry(p) ==
  LET t == tx[p] IN
  /\ t.pc = "ready" /\ t.entry # 0
  /\ entries' = entries \cup {EntryOf(t)}
  /\ lastPostSeq' = [lastPostSeq EXCEPT ![t.entity][t.target] = t.seq]
  /\ idempotency' = idempotency \cup (IF t.key = NoKey THEN {} ELSE {ResultOf(t)})
  /\ inbox' = inbox \cup ({t.msg} \ {NoMessage})
  /\ receivables' = IF IsOrder(t) THEN receivables \cup {ReceivableOf(t)} ELSE receivables
  /\ exposure' = IF IsOrder(t) THEN [exposure EXCEPT ![t.msg.customer] = t.owed]
                               ELSE exposure
  /\ outbox' = outbox \cup {VoucherPosted(t)}
                      \cup (IF t.rejected THEN {CreditRejected(t)} ELSE {})
  /\ End(p)
  /\ UNCHANGED <<status, snapshot, entrySeq, today>>

Rollback(p) == End(p) /\ UNCHANGED <<tables, entrySeq, today>>

\* Not found, forbidden, already reversed.
RefusesOriginal(t) ==
  t.pc = "reading" /\ \A x \in WithId(t.original) : ~Reversible(x, t.scope)

\* Neither where the command starts from nor where it leads.
RefusesTransition(t) ==
  /\ t.pc = "changing"
  /\ Free(PeriodLock(t.entity, t.target))
  /\ status[t.entity][t.target] \notin {From(t.op), To(t.op)}

RefusesDraft(t) == t.pc = "posting" /\ t.draft = "unbalanced"

FindsNoOpenPeriod(t) == t.pc = "posting" /\ t.next > LastPeriod /\ t.target = 0

RefusesAccount(t) == t.pc = "insertingLines" /\ t.draft = "unknownAccount"

\* NUMERIC(18,2) field overflow.
OverflowsExposure(t) ==
  /\ t.pc = "crediting"
  /\ Free(CustomerLock(t.msg.customer))
  /\ exposure[t.msg.customer] + t.msg.amount > MaxExposure

\* The errors the code itself returns; the transaction rolls back.  The broker
\* delivers at most once, so an event whose handler fails is lost; here it may
\* also come again, which covers a broker that redelivers.
Refuse(p) ==
  /\ \/ RefusesOriginal(tx[p])
     \/ RefusesTransition(tx[p])
     \/ RefusesDraft(tx[p])
     \/ FindsNoOpenPeriod(tx[p])
     \/ RefusesAccount(tx[p])
     \/ OverflowsExposure(tx[p])
  /\ Rollback(p)

\* A crash of the process, a lost connection, a cancelled request: any
\* transaction may fail at any statement.
Crash(p) == tx[p].pc \notin {"idle", "replied"} /\ Rollback(p)

NextPeriodBegins ==
  /\ today <= LastPeriod
  /\ today' = today + 1
  /\ UNCHANGED <<tables, entrySeq, tx, locks>>

------------------------------------------------------------------------------
Init ==
  /\ status = [e \in Entities |-> [m \in Periods |-> "OPEN"]]
  /\ lastPostSeq = [e \in Entities |-> [m \in Periods |-> 0]]
  /\ entries = {}
  /\ idempotency = {}
  /\ inbox = {}
  /\ receivables = {}
  /\ exposure = [c \in Customers |-> 0]
  /\ snapshot = KnownLimits
  /\ outbox = {}
  /\ entrySeq = 0
  /\ today = 1
  /\ tx = [p \in Proc |-> Idle]
  /\ locks = [p \in Proc |-> {}]

\* What a session does once its transaction is open.
Continue(p) ==
  \/ LockHeader(p) \/ ReadOriginal(p) \/ LockForChange(p)
  \/ LockPeriodRow(p) \/ InsertHeader(p) \/ SkipDuplicate(p)
  \/ InsertLines(p) \/ ApplyCredit(p)
  \/ CommitTransition(p) \/ CommitNothing(p) \/ CommitEntry(p)
  \/ Refuse(p) \/ Return(p)

Start(p) ==
  \/ PostManualEntry(p) \/ ReverseEntry(p) \/ TransitionPeriod(p)
  \/ ConsumeMessage(p) \/ Replay(p)

Next ==
  \/ \E p \in Proc : Start(p) \/ Continue(p) \/ Crash(p)
  \/ ConsumeSnapshot
  \/ NextPeriodBegins

Spec == Init /\ [][Next]_vars
==============================================================================
