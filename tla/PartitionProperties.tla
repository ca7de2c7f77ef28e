------------------------- MODULE PartitionProperties -------------------------
(* What the weekly partition maintenance owes to the writers.               *)
EXTENDS Partitions

Rounds ==
  [pc: {"idle", "looking", "creating"}, from: 0..LastWeek,
   todo: SUBSET ((1..LastWeek + LookAhead) \X Tables),
   created: SUBSET ((1..LastWeek + LookAhead) \X Tables), ready: BOOLEAN]

\* Types: partition.go deals in weeks and tables, a transaction in one week.
TypeOK ==
  /\ week \in FirstWeek..LastWeek
  /\ parts \in [Tables -> SUBSET (Migrated \cup 1..LastWeek + LookAhead)]
  /\ round \in [Replica -> Rounds]
  /\ tx \in [Process -> [pc: {"idle", "inbox", "books", "outbox", "ready"}, week: 0..LastWeek]]
  /\ writes \in 0..MaxWrites /\ faults \in 0..MaxFaults
  /\ lastRound \in 0..LastWeek

\* A round is all or nothing (ensureAllWeekly runs in one WithTx), so whatever
\* fails, the two tables have partitions for the same weeks: an event that finds
\* room in the inbox finds it in the outbox.
TablesAlike == parts["event_outbox"] = parts["event_inbox"]

\* One round in LookAhead weeks is enough: as long as some round that began at
\* most that long ago has committed, this week's rows have a partition in both
\* tables, whichever rounds failed before, after or beside it.
WritableAhead ==
  lastRound > 0 /\ week <= lastRound + LookAhead =>
    \A t \in Tables : week \in parts[t]

\* The daily look costs the writers nothing: a round that began when every
\* partition was there (ensurePartition returns early) takes no lock and waits
\* for none, so it is in no deadlock with an event or a command.
ReadyRoundsDisturbNobody ==
  \A r \in Replica : round[r].ready => Holds(r) = {} /\ Wanted(r) = {}

\* Once the database stops failing rounds and writers stop coming, this week and
\* the next LookAhead weeks have partitions for good: a failed round leaves the
\* loop running (partition.go Start), and the next one makes up for it.
PartitionsCatchUp ==
  <>[](\A t \in Tables : week..week + LookAhead \subseteq parts[t])

\* Creating partitions delays writers but never strands one: a round that waits
\* for the inbox, which an event holds that waits for the outbox, which the round
\* holds, is broken up, and whatever ends a round gives its locks back.
WritersGetThrough == \A p \in Process : (tx[p].pc # "idle") ~> (tx[p].pc = "idle")

------------------------------------------------------------------------------
(* The inductive invariant behind TablesAlike, WritableAhead and            *)
(* ReadyRoundsDisturbNobody.                                                *)

Ahead(r) == weeksAhead(round[r].from) \X Tables

\* A round has dealt with everything that is no longer on its list, and one that
\* began with nothing missing has created nothing.
RoundOK(r) ==
  LET d == round[r] IN
  IF d.pc = "idle" THEN d = NoRound
  ELSE /\ d.from \in 1..week
       /\ d.todo \subseteq Ahead(r) /\ d.created \subseteq Ahead(r)
       /\ \A x \in Ahead(r) \ d.todo : x[1] \in parts[x[2]] \/ x \in d.created
       /\ d.ready => /\ d.pc = "looking" /\ d.created = {}
                     /\ \A x \in Ahead(r) : x[1] \in parts[x[2]]

\* The latest committed round left its weeks behind in both tables.
LastRoundCovers ==
  /\ lastRound <= week
  /\ lastRound > 0 => \A t \in Tables : weeksAhead(lastRound) \subseteq parts[t]

IInv == TypeOK /\ TablesAlike /\ LastRoundCovers /\ \A r \in Replica : RoundOK(r)
==============================================================================
