# TLA+ specifications of erp-finance

What this directory holds: specifications of the finance component's core in
TLA+, the configurations with which TLC checks them on small instances, and
proofs that the TLA+ proof system (TLAPS) checks for instances of any size.
The specifications are written from the code, and every definition that models
code is listed with its source lines in `PROJECT.json` under `map`.

## The system

erp-finance keeps the accounting books of an ERP: journal entries, accounting
periods, receivables and the credit that each customer has used. It is one Go
module over one PostgreSQL schema. Several replicas may run; each serves HTTP
and gRPC requests and runs one goroutine per event subject. Processes share
nothing but the database: every command and every event is one READ COMMITTED
transaction, and all coordination is done by row locks, unique indexes and the
order in which statements run.

| Part | State it keeps | Operations | What makes it correct |
|---|---|---|---|
| Posting engine (`repo/entry.go`, `manual.go`, `autoentry.go`) | `finance_journal_entries`, `…_lines`, `entry_no_seq` | post a manual entry, reverse an entry, book a sales order, book a stock movement | whole or not at all; post numbers without gap; one booking per source document; one reversal per entry |
| Accounting periods (`repo/period.go`) | `accounting_periods`: status, `last_post_seq` | close, reopen, lock; find the open period for a date; ask | closed books do not change; `LOCKED` is final; the earliest open period is used |
| Command idempotency (`repo/repo.go`) | `command_idempotency` | claim, finalise, look up | a key has one effect, however often and however concurrently it is sent |
| Lines and amounts (`repo/entry.go`, `money.go`) | none | validate, total, reverse, convert | debits equal credits to the cent |
| Credit (`repo/credit.go`, `snapshot.go`) | `customer_credit_exposure`, `customer_credit_snapshots` | add to the exposure, read the limit, take a newer snapshot | exposure is the sum of receivables; an overrun is told |
| Receivable ledger (`repo/arledger.go`) | `ar_ledger` | insert with the order's entry, list, summarise by age | one row per booked order; the age buckets partition the outstanding amount; a figure was true at one moment |
| Event consumers (`consumer/consumer.go`) | `event_inbox` (written by besdk) | four subjects, a goroutine each | an event and its record commit together; an event is lost only for a cause; the subscriptions of a member end together |
| Outbox (`entry.go` publish; pump in besdk) | `event_outbox` | write in the posting's transaction; pump | an event is published if and only if its posting is in the books |
| Entry reads (`repo/entry_read.go`, `cursor.go`) | none | get, list by keyset pages | what was there when a walk began is on exactly one of its pages |
| Legal entity access (`repo/access.go`, `service/service.go`) | `legal_entity_access` | grant, revoke, read before each command | only the granted entities' books are read or changed |
| Partition maintenance (`partition/partition.go`) | weekly partitions of outbox and inbox | create the next weeks' partitions at start and every 24 h | there is a partition whenever an event is written |
| Lifecycle (`module/module.go`, `cmd/`) | background loops | start, stop | one failed loop ends the module |
| HTTP, gRPC, service | none | check the permission, validate, read the grants, map errors | a refusal changes nothing; a retry is safe; `Internal` means a fault |

How they interact: a request reads the caller's legal entities in a transaction
of its own, then runs its command in a second one. A command claims its key,
then posts or changes a period. An event handler posts inside the transaction
that besdk has opened for the inbox record. A posting writes entry, counter,
lines, receivable, exposure and outbox rows in that one transaction. Events of
other components arrive by NATS at most once; the pump sends the outbox rows.

What is hard here: two transactions that run at the same time each read
something before the other writes it (period status, last post number, an
existing reversal, an existing source, a key, an exposure, a limit); any
transaction can fail after any statement; clients retry; events are duplicated
and reordered between subjects; a session may hold several row locks while it
waits for another one; the month may end while a posting waits; grants change
between their read and their use; a commit can succeed and its caller be told
that it failed; rows appear in a list in another order than that of their keys;
several replicas create the same partitions and lock out the writers; a failed
subscription takes its member's others with it, and what they had received is
gone.
`PROJECT.json`, `hazards`, lists them one by one with the line where each bites
and the properties that watch it.

## Modules

    Posting ── PostingProperties ── PostingRefinement ─┬─ PostingProofs (TLAPS)
                                          │            └─ MCPosting       (TLC)
                                     GeneralLedger                   (abstract)
    Requests ── RequestProperties ─┬─ RequestProofs               (TLAPS)
                                   └─ MCRequests                    (TLC)
    Listing ── ListingProperties ─┬─ ListingProofs                (TLAPS)
                                  └─ MCListing                      (TLC)
    Partitions ── PartitionProperties ─┬─ PartitionProofs         (TLAPS)
                                       └─ MCPartitions              (TLC)
    EventIntake ── EventProperties ─┬─ EventProofs                (TLAPS)
                                    └─ MCEventIntake                (TLC)
    Receivables ── ReceivableProperties ─┬─ ReceivableProofs      (TLAPS)
                                         └─ MCReceivables           (TLC)
    JournalLines ── JournalProofs                          (TLC and TLAPS)
    SumProofs: lemmas about sums, for the Posting, Event, Receivable and
               JournalProofs                                      (TLAPS)

Posting is the core and has the database's statements and locks. The modules
below it look at what surrounds a posting (who asks for it, what arrives, what
is read afterwards, where rows can be written), and there a posting is one
step or a few: Posting and its refinement show that it takes effect at its
commit, whole or not at all.

**Posting** is the ledger as the database sees it. The committed tables are
variables (`status`, `lastPostSeq`: `accounting_periods`; `entries`:
`finance_journal_entries`; `idempotency`; `inbox`; `receivables`: `ar_ledger`;
`exposure`; `snapshot`; `outbox`). `entrySeq` is the sequence behind
`entry_no`, which no rollback gives back. A session is a process `p` with at
most one transaction: `tx[p]` is what its Go code has read and will write,
`locks[p]` the row locks it holds. What a transaction writes is invisible until
its commit, so it is applied there, in one step (`CommitEntry`,
`CommitTransition`, `CommitNothing`); until then it is in `tx[p]`. Every
statement that takes a lock or reads committed state is an action of its own:

| Action | Statement in the code |
|---|---|
| `PostManualEntry`, `ReverseEntry`, `TransitionPeriod` | `WithTx`, the grant check and `claimIdempotency` |
| `Replay`, `Return` | the key is taken: `lookupIdempotencyResult` and the stored answer |
| `LockHeader`, `ReadOriginal` | `getEntryForReversalTx`: the `FOR UPDATE`, then the read and `ensureNotReversedTx` |
| `LockForChange` | `transitionPeriod`'s `SELECT … FOR UPDATE` and its switch |
| `ConsumeMessage` | besdk opens the inbox transaction, the handler starts |
| `LockPeriodRow` | one row of `lockOpenPeriodForDate`'s `SELECT … ORDER BY start_date FOR UPDATE` |
| `InsertHeader`, `SkipDuplicate` | `INSERT … ON CONFLICT DO NOTHING RETURNING id`, then `nextPostNo` |
| `InsertLines` | the loop over the lines |
| `ApplyCredit` | `applyCreditExposureDeltaTx`, `getCreditLimitTx`, `exceedsLimit` |
| `ConsumeSnapshot` | `UpsertCustomerSnapshotTx`, a single statement |
| `Refuse` | every error that the code returns itself |
| `Crash` | any other failure, at any statement |
| `NextPeriodBegins` | the date reaches the next period |

How PostgreSQL behaves is part of the model, because the code relies on it: a
row lock is exclusive and kept to the end of the transaction; an insert into a
unique index waits for an uncommitted one of the same key; `FOR UPDATE` returns
each row as it is committed when the lock is granted, and does not see a row
that is not committed; each statement has a snapshot of its own. A session that
waits for its key has done nothing yet, so its start and its claim are one
step.

Abstractions: a draft's lines are one of `fit`, `unbalanced`, `unknownAccount`
(what is inside is the subject of JournalLines); a message is a record with the
document it tells of; dates are the period they fall in; entry ids and entry
numbers are the same counter. An event may be delivered at any time, to any
session, again and again until its inbox record commits, or never: this covers
a broker that duplicates, delays, reorders or loses. A period command that
finds its target status already reached writes nothing to the period; setting
the same status again is the same.

**PostingProperties** states what must hold; **GeneralLedger** is the ledger as
its readers see it (a journal per entity and period, appended to while open,
one posting per cause, one reversal per posting); **PostingRefinement** maps
Posting's state to it: a period's journal is its committed entries in the order
of their post numbers, and the cause of an entry is its source document or the
idempotency key it is the result of. **MCPosting** gives the constants for TLC.

**JournalLines** has what Posting leaves out: which drafts `validateBalanced`
and `accountIDByCode` let through, the lines that orders, movements and
reversals get, and the balances all of that leaves. Amounts are whole cents.
With an entry the model keeps the change of stock that it stands for: a
movement's, or what a client wrote on the stock account by hand.

**Requests** is the API from the socket to the commit. A request `p` goes
`idle → received → scoped → answered`: `proc[p]` is the call, the surface it
came over, the grants it has read and its answer. The tables are as small as
they can be (one period per entity; entries are records of id, entity and
reversed entry). `seen` and `log` are history: the grants its caller held at
any time and all the time since it arrived, what it did, what was done and
answered under a key. "What may be wrong with a request" is one defect, or
none, out of those the layers check.

| Action | Code |
|---|---|
| `periodOpHandler` … `revokeLegalEntityAccessHandler`, `getCreditExposureHandler` | the handlers of `http.go`, after `besdk.POST`/`GET` has checked the permission of `RegisterRoutes` |
| `RpcPeriodOps` … `RpcListARLedger` | the methods of `grpc.go`, after `requireUser` |
| `RpcCheckPeriodOpen`, `RpcGetCreditExposure`, `RpcBatchGetCreditExposure` | those that ask for no user |
| `ServeClosePeriod` … `ServeLists` | `service.go`: validation, then `allowedLegalEntityIDs`, a transaction of its own |
| `ClosePeriod` … `SummarizeARLedger`, `CheckPeriodOpen` | the repository's transaction, one step; it may break (`Broken`), commit, or commit with a lost acknowledgement (`Commit`) |
| `GetCreditExposure`, `BatchGetCreditExposure` | `credit.go`; the caller's legal entities are not read (docs/design.md:70), and the figures themselves are Receivables' |
| `ListLegalEntityAccess`, `Grant…`, `Revoke…` | `access.go` |
| `PostSalesOrderEntry` | an order that is booked meanwhile |

**Listing** is paging. A writer's row gets its `created_at` at `Begin`, its id
at `InsertHeader` (and `insertARLedgerEntryTx` for the receivable) and is seen
from `Commit` on. A client starts a walk over one of the two lists, with a page
size and a window or without one, and each `ListEntries`/`ListARLedger` fetches
a page with the grants it has at that time (any, at every page) and the window
of that time (the default one moves). A legal entity stands for all filters of
a list: they are conjuncts of the same `WHERE` clause. The N+1 reads of
`ListEntries` read rows that never change.

**Partitions** is the maintenance loop against the writers. A round looks for
each partition and creates it, in the order of the two loops of
`ensureAllWeekly` (`StartRound`, `Look`, `Create`, `CommitRound`,
`FailRound`); events insert into the inbox, lock rows of the ledger and insert
into the outbox, commands do the latter two. `CREATE TABLE … PARTITION OF`
takes the parent against every writer: `Holds`, `Blocking` and `WaitsFor` are
PostgreSQL's lock table, `Deadlocked` its detector. Weeks are numbers; a row's
week is that of its transaction's begin.

**EventIntake** is `consumer.Start` on every replica. Every replica that listens
gets every message, once, in the order of its subject; `queue[r][s]` is what a
subscription has received, `work[r][s]` what it is handling (between `Take`,
which looks into the inbox, and the handler, which commits entry and inbox
record). A failed handler loses the message for its replica. A subscription
that returns (`ConsumeReturns`) leaves its result in the channel that the four
goroutines share, if there is room (`errCh[r]` is how many results are in it; it
has room for all four, so nobody waits); the first one makes `consumer.Start`, and with it the module's, return an error
(`Return`), upon which the member's loops are stopped (`Cancel`,
partition.go:27) and the other three return too, with nothing kept of their
queues. Whether anybody starts the member again (`Start`) is decided outside of
this repository: the model allows it and never demands it. `excuse` is history:
the replicas that have lost a message for a cause that is not the message's own.

**Receivables** is what is told of the receivables while orders are posted and
entries reversed: the summary with its ageing (the service reads the date, then
the repository sums), one customer's credit used, several customers' at once.
The date an order falls due is read before the posting commits, as in the code.
`past[r]` is history: what the tables were at each moment from `r`'s question to
its answer; a new question forgets the moments of the one before.

Each `…Properties` module states what must hold and the inductive invariants the
proofs rest on, of which the types are a part (`IInv`; in Posting also
`LockOrder` and `EffectInv`; `IntakeInv` for EventIntake, `FiguresInv` for
Receivables; JournalLines has `EntriesOK` and `StockOK` itself); each `MC…`
module gives the constants for TLC.

## Runs

| Run | Question | Instance | Distinct states |
|---|---|---|---|
| `commands` | Do commands keep the books right under concurrency, crashes and retries? | 2 sessions, 3 keys, 2 entities, 2 periods, all commands and drafts, 3 entry numbers | 730 000 |
| `events` | Are events booked once, with exposure, rejection and outbox right, and do handlers and commands never wait in a circle? | 2 sessions, 2 messages for one order, another order, an unsound one, a movement and one of zero, 2 snapshots, limit 1, a column that holds 3 | 1 126 000 |
| `ledger` | Does Posting implement GeneralLedger, and does every transaction end by itself? | 2 sessions, 2 keys, 2 messages for one order, posting, reversing, closing, 2 entry numbers | 61 000 |
| `journal_lines` | Do the accepted lines keep the accounts balanced? | every draft of up to 3 lines over amounts 0, 1, 2 and a malformed one, on receivables, stock and an unknown account, 3 entries | 394 000 |
| `requests` | What do refusals, faults, retries and reused keys leave behind, and are grants respected while they change? | one request of any of the 15 operations, both surfaces, every defect, beside another that grants and revokes; 2 callers, 2 entities, 2 keys, 2 entries | 207 000 |
| `paging` | Is every row that was there shown, once, on full pages? | 2 writers, one walk over either list, pages of 2, 3 rows, 2 clock ticks, the default window and a fixed one, grants change per page | 613 000 |
| `partitions` | Are rounds all or nothing, do they suffice, do partitions come and writers go on? | 2 replicas, a consumer, a command session, 2 weeks, look-ahead 1, 2 writes, one failing round | 87 000 |
| `intake` | Is a document booked once and lost only for a cause, does it get booked, do the subscriptions of a member end together? | 2 replicas, two orders (one malformed), a movement of zero, a customer's update, a limit from release 1.x that is no amount, one fault | 256 000 |
| `figures` | Do figures add up, and was each answer, bucket by bucket, true at one moment between its question and itself? | 3 orders, 2 customers, 2 entities, 3 entries, 2 questions, dates 0, 30, 31, 60, 61, 90, 91 | 3 341 000 |

Why these bounds are enough to be interesting: two sessions are what a conflict
over one row needs, and two periods the least with an "earlier" and a "later"
one. Three keys and three entry numbers give an original, its reversal and a
competitor (or a retry). The exposure bound is smaller than the sum of the
orders, so the overflow happens. Bounds are `MaxEntrySeq` (in `InBudget`: a
transaction starts only when the number it may draw is there) and, in
JournalLines, `MaxLines` and `MaxEntries`. The proofs are for every value of
`MaxEntrySeq`. Sessions and keys are interchangeable, so `commands` and `events`
use symmetry; `ledger`, with its fairness and its refinement, does not.

For the other modules: two requests are a reader of grants and one who changes
them (`AnyBesideGrants`); one caller's grants are enough since every clause
speaks of one caller; two keys, used by any command, give the reuse of a key by
another one. With three rows and pages of two there is an edge between pages, on
rows of one time and of two; `MaxClock` = 1 lets the default window move past a
row. A look-ahead of 1 with the first week migrated has a week that a round must
still create; the proofs have no such bounds. Replicas of the consumers are
alike, so faults that are not a message's own befall one of them (`Frail`). Each
message is sent once there and reaches both replicas, which race for its inbox
record and its source; what is sent again is in `events`, and any number of times
in the proofs. Ageing needs the days on both sides of 30, 60 and 90, which steps of 30
and 31 days reach, and two questions are the least for which the moments of one
are not those of the other. Bounds of the models: `MaxEntries`, `MaxId`, `MaxClock`, `LastWeek`,
`MaxWrites`, `MaxFaults`, `MaxSends`, `MaxDay`, `MaxAnswers`; each is named where it is declared. `paging` does not look further once its walk has ended
(constraint `Paging`) and may stop when ids run out; `intake` stops when
everything is sent and handled, `journal_lines` when it has `MaxEntries`
entries; these are the runs that do not ask for deadlocks.

Fairness, `ledger`: a session whose transaction can go on does go on (the Go
scheduler and the database run it), hence weak fairness of `Continue`; a
session that queues for a row gets it although others keep coming, since
PostgreSQL grants a row's lock in the order of its queue, hence strong fairness
of the three actions that lock a row others contend for. A command that
waits for its key is not a transaction yet in the model, so the property does
not speak of it: it holds no row and goes on when the key's holder ends. Nothing
is assumed of crashes, new requests, deliveries or the calendar.

`partitions`: a round goes on (weak fairness of `Maintain`; the loop wakes up
every 24 hours), a writer gets the lock it queues for (strong fairness of
`Write`, PostgreSQL's queue again), and the deadlock detector breaks a circle.
`intake`: a subscription goes on with its messages (`Handle`) and returns when its
context is cancelled (`ConsumeReturns`; consumer.go:6), `consumer.Start` takes the
first result out of its channel (`Return`; consumer.go:45, module.go:64), and a
member whose `Start` has returned an error is stopped (`Cancel`; partition.go:27
says that the shell does so). As long as one of these steps is possible, one is
taken: weak fairness of `GoOn`. That is little to ask of the Go scheduler, and
enough, since messages and faults are bounded. Nobody has to send, to fail, to
open a period or to start a member again.

Three runs show where the code and what is said of it differ; each violates one
property, and `PROJECT.json`, `findings`, quotes both sides:

- `other_periods`: postings of different periods do block one another, since
  every later period's row is locked as well.
- `key_across_commands`: a key that a posting has spent makes a period command
  answer an entry id.
- `early_reversal`: with `GuessedIds`, a caller may name an entry id before its
  entry is committed (ids are consecutive). Then the lock statement of that
  reversal finds no row to lock; after the commit its next statement reads the
  entry. It does not queue behind an ordinary reversal of the entry, which has
  the row's lock: neither finds the other's entry, and both succeed. The
  passing runs have `GuessedIds = FALSE`: callers reverse entries they have
  seen.

Six more things that a reader of the code may expect do not hold, by design or
by the nature of the database; the properties say what does hold. A reversal in
the same month is booked in its original's period, as in any earliest open one
(`EarliestOpenPeriod`). A row whose transaction began before a walk and commits
between two of its pages can sort before the cursor, and no later page shows it;
`WalkIsComplete` speaks of the rows that were committed when the walk began. The
migration creates the partitions of four fixed weeks; deployed later, the first
writes race with the first maintenance round and may fail; `WritableAhead` speaks
of the weeks that a finished round has reached, and of no time before the first.
Delivery is at most once: a document that is handled while no period is open is
lost for that replica, which `NothingVanishes` and `DocumentsGetBooked` accept
as a cause. Reversing an order's entry leaves its receivable and the exposure
where they are, so from then on `ar_ledger` and account 1122 differ;
`ClaimStandsOrIsCancelled` says only that the account never turns round. The
answer of `CheckPeriodOpen` may be old when it is used; no property speaks of
that, since no posting relies on it.

## Properties

Safety: `PostNoGapFree`, `EarliestOpenPeriod`, `SourcePostedOnce`,
`ReversedOnce`, `KeyHasOneEffect`, `ExposureIsReceivables`, `NoSilentOverrun`,
`OutboxMatchesBooks`, `SnapshotIsNewest`, `NoWaitCycle`; over steps:
`BooksFrozenUnlessOpen`; in JournalLines `TrialBalance`, `ReversalCancels`,
`AnnouncedAmount`, `StockFollowsMovement`. Refinement: `ImplementsLedger`.
Liveness: `EveryTransactionEnds`.

| Module | Safety | Over steps, or liveness |
|---|---|---|
| Requests | `EffectsWithinGrants`, `AnswersWithinGrants`, `RefusedChangesNothing`, `InternalMeansFault`, `RetryIsSafe` | `ListsCoverGrants` |
| Listing | `PagesDescend`, `WalkIsComplete`, `PagesAreFull` | |
| Partitions | `TablesAlike`, `WritableAhead`, `ReadyRoundsDisturbNobody` | `PartitionsCatchUp`, `WritersGetThrough` |
| EventIntake | `BookedOnce`, `NothingVanishes` | `DocumentsGetBooked`, `LoopsEndTogether` |
| Receivables | `AgingAddsUp`, `AnswersAreOneMoment`, `ClaimStandsOrIsCancelled` | |

Each is explained where it is defined. For
each there is at least one mutant in `PROJECT.json`: a definition with a
plausible bug (marked "Mutant" in the module) under which TLC finds the
property violated.

`NoSilentOverrun` has a premise worth knowing: it speaks of customers whose
limit was set all along, since a limit that was zero when the order was judged
lets it pass by design. `AnswersWithinGrants` excepts the replay of a key:
`transitionPeriod` and `PostManualEntry` answer a spent key with what was stored
for it. Effects and answers are within the grants that the caller had at some
moment since the request arrived, not at the moment of the commit: the code
reads them in a transaction of its own.

## Proofs

Every safety property and action property of the passing runs is a theorem, and
so is the refinement. `PostingProofs` proves, for any number of sessions, keys,
legal entities, periods, messages, customers and any exposure bound:

| Theorem | Property |
|---|---|
| `Invariance` | `[]IInv`, the inductive invariant |
| `TypeCorrect` | `[]TypeOK` |
| `PostNumbersGapFree` | `[]PostNoGapFree` |
| `SourceBookedOnce` | `[]SourcePostedOnce` |
| `BookedInEarliestOpen` | `[]EarliestOpenPeriod` |
| `BooksFrozen` | `BooksFrozenUnlessOpen` |
| `NobodyWaitsInACircle` | `[]NoWaitCycle` |
| `EntryReversedOnce` (without `GuessedIds`) | `[]ReversedOnce` |
| `KeySpentOnce` | `[]KeyHasOneEffect` |
| `OverrunIsTold` | `[]NoSilentOverrun` |
| `OutboxTellsBooks` | `[]OutboxMatchesBooks` |
| `NewestSnapshot` | `[]SnapshotIsNewest` |
| `ExposureAddsUp` | `[]ExposureIsReceivables` |
| `LedgerImplemented` (without `GuessedIds`) | `ImplementsLedger` |

They rest on the named assumptions of `Posting` alone (`PeriodsAssumption`,
`NamesAssumption`, `EventsAssumption`: the constants have the types the schema
gives them, and the messages about one document are all orders or none, since
the document's key includes its component and type), which TLC evaluates in
every run. Two theorems have one hypothesis more, `GuessedIds = FALSE`: the run
`early_reversal` shows that they do not hold without it.

The argument: none of the properties is inductive by itself, because a session
acts on what it read some steps ago. `IInv` adds what makes it still true.
Locks are exclusive. A posting holds the lock of every period row it has
scanned (`ScanOK`), so the row's status and last number are what it read: the
periods before its target are not open, the target is, and its number is the
next one. A period command about to commit holds the row whose status it judged
(`ChangeOK`). An uncommitted entry holds its source, which no committed entry
has (`ClaimOK`). A commit changes only rows whose locks its session holds, so
what others rely on stays (`OthersInOrder`). There is a lemma per action;
steps that touch no table go through `LocalStep` and its special cases.
The last section shows what a step does to the books (`BooksKept`) from the same
invariant.
`IInv` is also checked by TLC in `commands`.

`NobodyWaitsInACircle` numbers the locks in the order of the code's statements
(`Rank`): the key, the header to reverse, the periods by start date, the
source, the customer. Another invariant, `LockOrder`, says that a session has
locked nothing above the statement it is at (`Ceiling`), and so what it wants
ranks above all that it holds (`WantsAbove`). In a circle of waiting sessions,
of the locks waited for take one of the highest rank: the session that holds it
waits for a higher one. The argument needs `IInv`, because a posting that waits
for its next period must already hold the ones before.

The next six theorems relate the tables to one another, and a commit writes
several of them. `EffectInv` says of each session that what it is about to commit
fits the tables as they are (`EffectOK`): its key has no result yet (`KeyOK`, it
holds the key), no entry has its number (`NumberOK`, the sequence gives each
number once), nothing reverses its original (`OriginalOK`, it holds the header),
what it read of the customer is still there (`CreditOK`, it holds the exposure
row). Each rests on a lock that whoever could contradict it would have to hold,
and `LocksExclusive` in `IInv` gives the rest. `OriginalOK` is where
`GuessedIds` comes in: a header that is not committed yet cannot be locked. The
exposure is shown apart (`ExposureInv`), with the lemmas about sums.

`LedgerImplemented` goes step by step. A posting's commit appends to the journal
of its period (`CommitShown`): the number that the posting holds is the journal's
length plus one, by `IInv`, and its cause is new, by `EffectInv`. The journals of
the other periods stay (`JournalStays`), also those in which an entry's cause is
read from the table of keys, which grows. A period command is a move of the
ledger or a stutter (`TransitionShown`); all other steps change nothing that the
ledger shows (`NothingShown`). Entry numbers within their bound need
`BudgetInv`, the promise made to each transaction that starts.

`SumProofs` is the reason why sums can be spoken of at all: the community
modules define `SumFunctionOnSet` by recursion over an arbitrarily chosen
element. That such a recursion defines something for a finite set, that the
choice does not matter, and what the sum does with one element more, with two
sets, two functions or a table, is shown each time of the smallest subset on
which it would fail; the library has that every non-empty collection of subsets
of a finite set has a smallest member, and states it without an operator
parameter.

`EventProofs`, for any replicas, customers and messages:

| Theorem | Property |
|---|---|
| `IntakeTypes` | `[]TypeOK` |
| `DocumentBookedOnce` | `[]BookedOnce` |
| `NoDocumentVanishes` | `[]NothingVanishes` |

The argument: what the inbox knows of a document's subject was committed with
its entry (`SeenIsHandled`), so a replica that skips a document skips one that
is handled; a subscription has messages of its subject only (`OwnSubject`), so
that a failing one takes its own documents down and excuses the replica for them;
and finitely many documents are booked so far (`BookedAreDocuments`), so that
their sum is one. `MessagesAssumption` says, beside types, that two documents of
one subject differ in their aggregate: a document's id is its aggregate
(`consumer_test.go:104`, `:153`, `seed.sh:88`). The inbox looks at subject,
aggregate and version only, and would skip a second document under the
aggregate of another.

`ReceivableProofs`, for any orders, customers, legal entities, scopes and dates:

| Theorem | Property |
|---|---|
| `SummaryAddsUp` | `[]AgingAddsUp` |
| `FiguresOfOneMoment` | `[]AnswersAreOneMoment` |
| `ClaimNeverTurnsRound` | `[]ClaimStandsOrIsCancelled` |

The argument: the four buckets are disjoint and cover the rows of the scope,
also those that fall due later, so their sums add up; the moments of a question
begin with the one at which it was asked, and as long as it waits the present is
one of them (`PresentIsRecorded`), so that a statement that reads, and answers,
takes one of these, with each row in the bucket that its days overdue say; the entries of an order form a chain, each reversing the one
before, so that only the last can be reversed and the sum of their signs is 1
or 0 by what the last one is (`ChainsAlternate`).

`JournalProofs`, for any amounts, codes, drafts and a journal of any length:

| Theorem | Property |
|---|---|
| `BooksBalance` | `[]TrialBalance` |
| `ReversalUndoes` | `[]ReversalCancels` |
| `AnnouncedIsMoved` | `[]AnnouncedAmount` |
| `StockAccountFollows` | `[]StockFollowsMovement` |

The argument: the invariant (`EntriesOK`) says that every entry's lines passed
the validation and that a reversal has the swapped lines of an entry before it;
`StockOK` that the entry does to account 1405 what it stands for. The rest are
facts about one entry: its effects on all accounts add up to debits less credits,
which is zero (`EntryBalances`); swapped lines have the opposite effect
(`ReverseUndoes`); each side is half of the whole (`AmountIsHalf`). The balances
are the same numbers added by account instead of by entry (`SumOfSums`). Beside
the types of the constants (`AmountsAssumption`, `BoundsAssumption`) nothing is
assumed.

`RequestProofs`, for any number of requests, callers, entities and keys, and
all operations:

| Theorem | Property |
|---|---|
| `Invariant`, `Types` | `[]IInv`, `[]TypeOK` |
| `EffectsAreGranted`, `AnswersAreGranted` | `[]EffectsWithinGrants`, `[]AnswersWithinGrants` |
| `RefusalIsFree`, `OnlyFaultsAreInternal` | `[]RefusedChangesNothing`, `[]InternalMeansFault` |
| `RetriesAreSafe` | `[]RetryIsSafe` |
| `ListsAreCovering` | `ListsCoverGrants` |

The argument: while a request is under way it has done nothing, its caller's
grants lie between those kept all the time and those held at some time
(`Underway`), and so does the scope once it is read (`RequestOK`); a key that is
unspent has had no effect, and what was told under a key is what is stored
(`KeyOK`). Every step changes one request and at most one key; a grant or a
revocation moves the history of all requests of its subject along with the
table.

`ListingProofs`, for any writers, clients, entities, filters, page sizes and
windows:

| Theorem | Property |
|---|---|
| `Invariant`, `Types` | `[]IInv`, `[]TypeOK` |
| `NothingTwice` | `[]PagesDescend` |
| `NothingThereIsMissed` | `[]WalkIsComplete` |
| `FullPages` | `[]PagesAreFull` |

The argument: the cursor cuts the list in two (`CursorOK`). No row shown is
beyond it; a row that was there when the walk began and passes the filters is
beyond it or was shown. A new page takes the first rows beyond the cursor, so
that every row beyond the new cursor is beyond the old one and comes after every
row of the page. Late rows can be beyond it or not, which is why `there`
appears in the invariant.

`PartitionProofs`, for any replicas, writers, look-ahead and migrated weeks:

| Theorem | Property |
|---|---|
| `Invariant`, `Types` | `[]IInv`, `[]TypeOK` |
| `BothOrNeither` | `[]TablesAlike` |
| `LookaheadSuffices` | `[]WritableAhead` |
| `ReadyRoundsAreFree` | `[]ReadyRoundsDisturbNobody` |

The argument: whatever a round has struck off its list is there or was created
by it (`RoundOK`), so at its commit both tables have all its weeks, and keep
them (`LastRoundCovers`).

`RequestProofs`, `ListingProofs`, `PartitionProofs` and `ReceivableProofs` rest
each on the one assumption that its model names (`RequestsAssumption`,
`ListingAssumption`, `PartitionsAssumption`, `OrdersAssumption`): the types of
its constants.

Only model-checked: liveness (`EveryTransactionEnds`, `PartitionsCatchUp`,
`WritersGetThrough`, `DocumentsGetBooked`, `LoopsEndTogether`), which under
fairness is out of the prover's reach.

## Not modelled

- The outbox pump and NATS: a library and a service. What the component hands
  them (`event_outbox`) and gets from them (messages, in any order that the
  subscriptions allow) is modelled.
- Generated contract code (`gen/`), scripts and demo data.
- The migrations as programs: their keys, indexes, seeds and first partitions
  are in the models' initial states and assumptions; they run once, before the
  component starts.
- Decimal strings digit by digit (`money.go`, and the rounding of a movement's
  quantity), JSON and protobuf fields one by one, tracing and logging: data
  that no property here tells apart, beyond well-formed or not.
- The order in which PostgreSQL grants a lock to those who queue: any order in
  the safety runs, fairness in the liveness runs.

## Plan

*Done:* Posting with the abstract ledger; JournalLines; requests, grants and
retries; paging; partitions; event intake; receivables and their figures; an
inductive invariant for each of them and the proof of every safety and action
property; the order of Posting's locks; the refinement.

*Left:*

1. Amounts: parsing, formatting and rounding of decimals against a reference
   definition.
2. The weak part of the intake's and the partitions' liveness that is safety:
   that some step towards the goal is always possible.
3. Shorter proofs where a lemma about locks that several actions share could
   take the place of one per action.
