------------------------------ MODULE Partitions ------------------------------
(***************************************************************************)
(* The weekly partitions of event_outbox and event_inbox: each replica's   *)
(* maintenance loop creates those of the current week and of LookAhead     *)
(* more in one transaction, while events and commands write into them.     *)
(* CREATE TABLE ... PARTITION OF locks the parent table against every      *)
(* writer, and an INSERT without a partition for its created_at fails.     *)
(* PostgreSQL breaks a circle of waiting transactions by rolling one back. *)
(***************************************************************************)
EXTENDS Naturals, FiniteSets

CONSTANTS
  Replica,     \* one maintenance loop each
  Consumer,    \* sessions that handle events
  Session,     \* sessions that run commands
  LookAhead,   \* lookAheadWeeks
  Migrated,    \* the weeks whose partitions the migration created
  FirstWeek,   \* the week of the deployment
  LastWeek,    \* bound: weeks that pass
  MaxWrites,   \* bound: transactions of consumers and sessions
  MaxFaults    \* bound: maintenance rounds that the database fails

VARIABLES
  week,       \* the current week
  parts,      \* parts[t]: the weeks that have a partition of table t
  round,      \* round[r]: the maintenance transaction of replica r
  tx,         \* tx[p]: the transaction of consumer or session p
  writes, faults,  \* how often, for the bounds
  lastRound   \* history: the latest week in which a round began that committed; 0: none

vars == <<week, parts, round, tx, writes, faults, lastRound>>

Tables == {"event_outbox", "event_inbox"}
Process == Consumer \cup Session

ASSUME PartitionsAssumption ==
  /\ LookAhead \in Nat
  /\ Migrated \subseteq Nat
  /\ FirstWeek \in Nat \ {0} /\ LastWeek \in Nat /\ FirstWeek <= LastWeek
  /\ MaxWrites \in Nat /\ MaxFaults \in Nat
  /\ Replica \cap Process = {} /\ Consumer \cap Session = {}

------------------------------------------------------------------------------
(* Locks.  A transaction keeps what it has taken until it ends.             *)

NoRound == [pc |-> "idle", from |-> 0, todo |-> {}, created |-> {}, ready |-> FALSE]
NoTx == [pc |-> "idle", week |-> 0]

\* Rows of the ledger (source, periods, customer) are one resource here: no two
\* writers hold it at once.  Rows of a weekly table are inserted side by side.
Holds(p) ==
  CASE p \in Replica -> {x[2] : x \in round[p].created}
    [] p \in Consumer /\ tx[p].pc = "books" -> {"event_inbox"}
    [] p \in Consumer /\ tx[p].pc = "outbox" -> {"event_inbox", "books"}
    [] p \in Consumer /\ tx[p].pc = "ready" -> {"event_inbox", "books", "event_outbox"}
    [] p \in Session /\ tx[p].pc = "outbox" -> {"books"}
    [] p \in Session /\ tx[p].pc = "ready" -> {"books", "event_outbox"}
    [] OTHER -> {}

\* Whoever keeps p, a writer or a round, from the lock on l.
Blocking(p, l) ==
  {q \in (Replica \cup Process) \ {p} :
     l \in Holds(q) /\ (l = "books" \/ p \in Replica \/ q \in Replica)}

\* The first of todo, in the order of the two loops of ensureAllWeekly.
First(todo) ==
  {x \in todo : \A y \in todo \ {x} :
                  x[1] < y[1] \/ (x[1] = y[1] /\ x[2] = "event_outbox")}

Wanted(p) ==
  IF p \in Replica THEN IF round[p].pc = "creating" THEN {x[2] : x \in First(round[p].todo)} ELSE {}
  ELSE CASE tx[p].pc = "inbox" -> {"event_inbox"}
         [] tx[p].pc = "books" -> {"books"}
         [] tx[p].pc = "outbox" -> {"event_outbox"}
         [] OTHER -> {}

WaitsFor(p) == UNION {Blocking(p, l) : l \in Wanted(p)}

\* A wait circle: everyone in it waits, for one of them and for nobody else
\* first.  PostgreSQL looks for it after deadlock_timeout.
Circle(C) == C # {} /\ \A p \in C : WaitsFor(p) \cap C # {}
Deadlocked(p) == \E C \in SUBSET (Replica \cup Process) : p \in C /\ Circle(C)

------------------------------------------------------------------------------
(* The maintenance loop.                                                    *)

\* Mutant: < where the loop says <=.
weeksAheadLess(from) == {w \in from..from + LookAhead : w < from + LookAhead}

weeksAhead(from) == from..from + LookAhead

\* A round at the start of the process, another every 24 hours: always possible.
StartRound(r) ==
  /\ round[r].pc = "idle"
  /\ round' = [round EXCEPT ![r] =
       [pc |-> "looking", from |-> week, todo |-> weeksAhead(week) \X Tables, created |-> {},
        ready |-> \A t \in Tables : week..week + LookAhead \subseteq parts[t]]]
  /\ UNCHANGED <<week, parts, tx, writes, faults, lastRound>>

Done(r, x) == [round EXCEPT ![r].pc = "looking", ![r].todo = @ \ {x}]

\* Mutant: CREATE TABLE IF NOT EXISTS in place of the look.
LookNowhere(r) ==
  /\ round[r].pc = "looking" /\ round[r].todo # {}
  /\ round' = [round EXCEPT ![r].pc = "creating"]
  /\ UNCHANGED <<week, parts, tx, writes, faults, lastRound>>

\* to_regclass sees the committed partitions and the transaction's own.
Look(r) ==
  /\ round[r].pc = "looking" /\ round[r].todo # {}
  /\ \E x \in First(round[r].todo) :
       round' = IF x[1] \in parts[x[2]] THEN Done(r, x) ELSE [round EXCEPT ![r].pc = "creating"]
  /\ UNCHANGED <<week, parts, tx, writes, faults, lastRound>>

\* Mutant: each partition is committed as soon as it is created.
CreateAndCommit(r) ==
  /\ round[r].pc = "creating"
  /\ \E x \in First(round[r].todo) :
     /\ Blocking(r, x[2]) = {}
     /\ parts' = [parts EXCEPT ![x[2]] = @ \cup {x[1]}]
     /\ round' = Done(r, x)
  /\ UNCHANGED <<week, tx, writes, faults, lastRound>>

\* CREATE TABLE waits for the lock on the parent; by then another replica may
\* have created the partition, and the whole round fails.
Create(r) ==
  /\ round[r].pc = "creating"
  /\ \E x \in First(round[r].todo) :
     /\ Blocking(r, x[2]) = {}
     /\ round' = IF x[1] \in parts[x[2]] THEN [round EXCEPT ![r] = NoRound]
                 ELSE [Done(r, x) EXCEPT ![r].created = @ \cup {x}]
  /\ UNCHANGED <<week, parts, tx, writes, faults, lastRound>>

CommitRound(r) ==
  /\ round[r].pc = "looking" /\ round[r].todo = {}
  /\ parts' = [t \in Tables |-> parts[t] \cup {x[1] : x \in {y \in round[r].created : y[2] = t}}]
  /\ lastRound' = IF round[r].from > lastRound THEN round[r].from ELSE lastRound
  /\ round' = [round EXCEPT ![r] = NoRound]
  /\ UNCHANGED <<week, tx, writes, faults>>

\* The error is logged, and the next round is the next chance.
LogFailure(r) == round' = [round EXCEPT ![r] = NoRound]

RoundFails(r) ==
  /\ round[r].pc \in {"looking", "creating"}
  /\ \/ faults < MaxFaults /\ faults' = faults + 1
     \/ Deadlocked(r) /\ faults' = faults
  /\ UNCHANGED <<week, parts, tx, writes, lastRound>>

Stopped(r) == round[r].pc = "stopped" /\ UNCHANGED vars

\* Mutant: an error ends the loop, as those of the other loops do.
FailAndStop(r) ==
  \/ RoundFails(r) /\ round' = [round EXCEPT ![r] = [NoRound EXCEPT !.pc = "stopped"]]
  \/ Stopped(r)

\* Mutant: it ends the loop, and the transaction is not rolled back.
FailAndLeak(r) ==
  \/ RoundFails(r) /\ round' = [round EXCEPT ![r].pc = "stopped"]
  \/ Stopped(r)

FailRound(r) == RoundFails(r) /\ LogFailure(r)

------------------------------------------------------------------------------
(* Writers.  created_at is the time at which a transaction began.           *)

Begin(p) ==
  /\ tx[p].pc = "idle" /\ writes < MaxWrites
  /\ writes' = writes + 1
  /\ tx' = [tx EXCEPT ![p] = [pc |-> IF p \in Consumer THEN "inbox" ELSE "books", week |-> week]]
  /\ UNCHANGED <<week, parts, round, faults, lastRound>>

\* Inserts into a weekly table, or fails for want of a partition; an event whose
\* transaction fails is not delivered again.
Insert(p, pc, table, next) ==
  /\ tx[p].pc = pc
  /\ Blocking(p, table) = {}
  /\ IF tx[p].week \in parts[table]
     THEN tx' = [tx EXCEPT ![p].pc = next]
     ELSE tx' = [tx EXCEPT ![p] = NoTx]
  /\ UNCHANGED <<week, parts, round, writes, faults, lastRound>>

\* besdk.Consume records the event before it calls the handler.
RecordInInbox(p) == p \in Consumer /\ Insert(p, "inbox", "event_inbox", "books")
PublishToOutbox(p) == Insert(p, "outbox", "event_outbox", "ready")

TakeBooks(p) ==
  /\ tx[p].pc = "books"
  /\ Blocking(p, "books") = {}
  /\ tx' = [tx EXCEPT ![p].pc = "outbox"]
  /\ UNCHANGED <<week, parts, round, writes, faults, lastRound>>

\* A commit; or the end of an event that books nothing, or of a transaction that
\* is refused or broken off to end a deadlock.
EndTx(p) ==
  /\ \/ tx[p].pc \in {"books", "outbox", "ready"} /\ WaitsFor(p) = {}
     \/ tx[p].pc # "idle" /\ Deadlocked(p)
  /\ tx' = [tx EXCEPT ![p] = NoTx]
  /\ UNCHANGED <<week, parts, round, writes, faults, lastRound>>

WeekPasses ==
  /\ week < LastWeek
  /\ week' = week + 1
  /\ UNCHANGED <<parts, round, tx, writes, faults, lastRound>>

------------------------------------------------------------------------------
Init ==
  /\ week = FirstWeek
  /\ parts = [t \in Tables |-> Migrated]
  /\ round = [r \in Replica |-> NoRound]
  /\ tx = [p \in Process |-> NoTx]
  /\ writes = 0 /\ faults = 0
  /\ lastRound = 0

Maintain(r) == StartRound(r) \/ Look(r) \/ Create(r) \/ CommitRound(r)
Write(p) == RecordInInbox(p) \/ TakeBooks(p) \/ PublishToOutbox(p) \/ EndTx(p)

Next ==
  \/ WeekPasses
  \/ \E r \in Replica : Maintain(r) \/ FailRound(r)
  \/ \E p \in Process : Begin(p) \/ Write(p)

Spec == Init /\ [][Next]_vars

\* Loops and transactions go on as long as they can, a writer gets its lock in
\* the order of asking (strong fairness: PostgreSQL queues those who wait), and
\* the deadlock detector runs; nothing is assumed of when weeks pass, writers
\* begin or the database fails a round.
FairSpec ==
  /\ Spec
  /\ \A r \in Replica : WF_vars(Maintain(r))
  /\ \A p \in Process : SF_vars(Write(p))
  /\ WF_vars(\E r \in Replica : Deadlocked(r) /\ FailRound(r))
==============================================================================
