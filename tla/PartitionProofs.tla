--------------------------- MODULE PartitionProofs ---------------------------
(***************************************************************************)
(* Theorems about Partitions for any number of replicas and writers and    *)
(* any lookahead.  The argument: partitions are never dropped, so what a   *)
(* round has found or created for a week of its own is there when it       *)
(* commits, in both tables or in none.                                     *)
(***************************************************************************)
EXTENDS PartitionProperties, TLAPS

USE DEF Tables, weeksAhead

\* A step that leaves the rounds and the partitions alone keeps the invariant.
LEMMA WriterStep ==
  ASSUME IInv, UNCHANGED <<week, parts, round, faults, lastRound>>,
         tx' \in [Process -> [pc: {"idle", "inbox", "books", "outbox", "ready"}, week: 0..LastWeek]],
         writes' \in 0..MaxWrites
  PROVE  IInv'
<1>1. TypeOK'
  BY DEF IInv, TypeOK, Rounds
<1>2. TablesAlike' /\ LastRoundCovers'
  BY DEF IInv, TablesAlike, LastRoundCovers
<1>3. ASSUME NEW r \in Replica PROVE RoundOK(r)'
  BY DEF IInv, RoundOK, Ahead
<1>4. QED BY <1>1, <1>2, <1>3 DEF IInv

\* A round that changes only its own record, to one that is in order, keeps it.
LEMMA RoundStep ==
  ASSUME IInv, NEW r \in Replica, NEW d \in Rounds,
         round' = [round EXCEPT ![r] = d],
         UNCHANGED <<week, parts, tx, writes, lastRound>>,
         faults' \in 0..MaxFaults,
         RoundOK(r)'
  PROVE  IInv'
<1>1. TypeOK'
  BY DEF IInv, TypeOK
<1>2. TablesAlike' /\ LastRoundCovers'
  BY DEF IInv, TablesAlike, LastRoundCovers
<1>3. ASSUME NEW q \in Replica PROVE RoundOK(q)'
  <2>1. CASE q = r
    BY <2>1
  <2>2. CASE q # r
    <3>1. round'[q] = round[q] /\ RoundOK(q)
      BY <2>2 DEF IInv, TypeOK
    <3>2. QED BY <3>1 DEF RoundOK, Ahead
  <2>3. QED BY <2>1, <2>2
<1>4. QED BY <1>1, <1>2, <1>3 DEF IInv

\* No round at all is a round.
LEMMA NoRoundType == NoRound \in Rounds
BY PartitionsAssumption DEF NoRound, Rounds

\* The database as the migration leaves it.
LEMMA InitInv == Init => IInv
<1> SUFFICES ASSUME Init PROVE IInv
  OBVIOUS
<1>1. TypeOK
  <2>1. /\ week \in FirstWeek..LastWeek
        /\ writes \in 0..MaxWrites /\ faults \in 0..MaxFaults
        /\ lastRound \in 0..LastWeek
    <3>1. week = FirstWeek /\ writes = 0 /\ faults = 0 /\ lastRound = 0
      BY DEF Init
    <3>2. /\ FirstWeek \in Nat /\ LastWeek \in Nat /\ FirstWeek <= LastWeek
          /\ MaxWrites \in Nat /\ MaxFaults \in Nat
      BY PartitionsAssumption
    <3>3. QED BY <3>1, <3>2
  <2>2. parts \in [Tables -> SUBSET (Migrated \cup 1..LastWeek + LookAhead)]
    BY DEF Init
  <2>3. round \in [Replica -> Rounds]
    BY NoRoundType DEF Init
  <2>4. NoTx \in [pc: {"idle", "inbox", "books", "outbox", "ready"}, week: 0..LastWeek]
    BY PartitionsAssumption DEF NoTx
  <2>5. QED BY <2>1, <2>2, <2>3, <2>4 DEF Init, TypeOK
<1>2. TablesAlike /\ LastRoundCovers
  BY PartitionsAssumption DEF Init, TablesAlike, LastRoundCovers
<1>3. ASSUME NEW r \in Replica PROVE RoundOK(r)
  BY DEF Init, RoundOK, NoRound
<1>4. QED BY <1>1, <1>2, <1>3 DEF IInv

\* A new round has everything on its list.
LEMMA StartRoundInv == ASSUME IInv, NEW r \in Replica, StartRound(r) PROVE IInv'
<1> DEFINE all == weeksAhead(week) \X Tables
           d == [pc |-> "looking", from |-> week, todo |-> all, created |-> {},
                 ready |-> \A t \in Tables : week..week + LookAhead \subseteq parts[t]]
<1>1. week \in 1..LastWeek /\ week \in Nat /\ LookAhead \in Nat
  BY PartitionsAssumption DEF IInv, TypeOK
<1>2. all \subseteq (1..LastWeek + LookAhead) \X Tables
  BY <1>1, PartitionsAssumption
<1>3. d \in Rounds
  BY <1>1, <1>2, PartitionsAssumption DEF Rounds
<1>4. round' = [round EXCEPT ![r] = d]
  BY DEF StartRound
<1>5. round'[r] = d /\ week' = week /\ parts' = parts
  BY <1>4 DEF StartRound, IInv, TypeOK
<1>6. RoundOK(r)'
  BY <1>1, <1>5 DEF RoundOK, Ahead
<1>7. QED
  <2> HIDE DEF d
  <2> QED BY <1>3, <1>4, <1>6, RoundStep DEF StartRound, IInv, TypeOK

\* What a round that is under way has to do with.
LEMMA RoundFacts ==
  ASSUME IInv, NEW r \in Replica, round[r].pc # "idle"
  PROVE  /\ round[r] \in Rounds /\ round \in [Replica -> Rounds]
         /\ round[r].from \in 1..week /\ round[r].from \in Nat
         /\ round[r].todo \subseteq Ahead(r) /\ round[r].created \subseteq Ahead(r)
         /\ Ahead(r) \subseteq (1..LastWeek + LookAhead) \X Tables
         /\ \A x \in Ahead(r) \ round[r].todo : x[1] \in parts[x[2]] \/ x \in round[r].created
         /\ round[r].ready => /\ round[r].pc = "looking" /\ round[r].created = {}
                              /\ \A x \in Ahead(r) : x[1] \in parts[x[2]]
<1>1. RoundOK(r) /\ round[r] \in Rounds /\ round \in [Replica -> Rounds]
  BY DEF IInv, TypeOK
<1>2. week \in 1..LastWeek /\ LastWeek \in Nat /\ LookAhead \in Nat
  BY PartitionsAssumption DEF IInv, TypeOK
<1>3. round[r].from \in 1..week
  BY <1>1 DEF RoundOK
<1>4. Ahead(r) \subseteq (1..LastWeek + LookAhead) \X Tables
  BY <1>2, <1>3 DEF Ahead
<1>5. QED BY <1>1, <1>2, <1>3, <1>4 DEF RoundOK

\* The look takes a week off the list only if its partition is there.
LEMMA LookInv == ASSUME IInv, NEW r \in Replica, Look(r) PROVE IInv'
<1>1. PICK x \in First(round[r].todo) :
        round' = IF x[1] \in parts[x[2]] THEN Done(r, x) ELSE [round EXCEPT ![r].pc = "creating"]
  BY DEF Look
<1>2. round[r].pc = "looking" /\ x \in round[r].todo
  BY <1>1 DEF Look, First
<1>3. week' = week /\ parts' = parts /\ faults' \in 0..MaxFaults
  BY DEF Look, IInv, TypeOK
<1>4. CASE x[1] \in parts[x[2]]
  <2> DEFINE d == [round[r] EXCEPT !.pc = "looking", !.todo = @ \ {x}]
  <2>1. d \in Rounds
    BY <1>2, RoundFacts DEF Rounds
  <2>2. round' = [round EXCEPT ![r] = d]
    BY <1>1, <1>2, <1>4, RoundFacts DEF Done, Rounds
  <2>3. round'[r] = d
    BY <2>2, <1>2, RoundFacts
  <2>4. RoundOK(r)'
    BY <1>2, <1>3, <1>4, <2>3, RoundFacts DEF RoundOK, Ahead, Rounds
  <2>5. QED
    <3> HIDE DEF d
    <3> QED BY <1>3, <2>1, <2>2, <2>4, RoundStep DEF Look
<1>5. CASE x[1] \notin parts[x[2]]
  <2> DEFINE d == [round[r] EXCEPT !.pc = "creating"]
  <2>1. d \in Rounds
    BY <1>2, RoundFacts DEF Rounds
  <2>2. round' = [round EXCEPT ![r] = d]
    BY <1>1, <1>2, <1>5, RoundFacts DEF Rounds
  <2>3. round'[r] = d
    BY <2>2, <1>2, RoundFacts
  <2>4. ~round[r].ready
    BY <1>2, <1>5, RoundFacts
  <2>5. RoundOK(r)'
    BY <1>2, <1>3, <2>3, <2>4, RoundFacts DEF RoundOK, Ahead, Rounds
  <2>6. QED
    <3> HIDE DEF d
    <3> QED BY <1>3, <2>1, <2>2, <2>5, RoundStep DEF Look
<1>6. QED BY <1>4, <1>5

\* A round that goes back to rest is in order.
LEMMA RestInv ==
  ASSUME IInv, NEW r \in Replica, round' = [round EXCEPT ![r] = NoRound],
         UNCHANGED <<week, parts, tx, writes, lastRound>>, faults' \in 0..MaxFaults
  PROVE  IInv'
<1>1. round'[r] = NoRound
  BY DEF IInv, TypeOK
<1>2. RoundOK(r)'
  BY <1>1 DEF RoundOK, NoRound
<1>3. QED BY <1>2, NoRoundType, RoundStep

\* A partition is created for a week on the list, and in this transaction.
LEMMA CreateInv == ASSUME IInv, NEW r \in Replica, Create(r) PROVE IInv'
<1>1. PICK x \in First(round[r].todo) :
        round' = IF x[1] \in parts[x[2]] THEN [round EXCEPT ![r] = NoRound]
                 ELSE [Done(r, x) EXCEPT ![r].created = @ \cup {x}]
  BY DEF Create
<1>2. round[r].pc = "creating" /\ x \in round[r].todo
  BY <1>1 DEF Create, First
<1>3. week' = week /\ parts' = parts /\ faults' \in 0..MaxFaults
  BY DEF Create, IInv, TypeOK
<1>4. CASE x[1] \in parts[x[2]]
  BY <1>1, <1>3, <1>4, RestInv DEF Create
<1>5. CASE x[1] \notin parts[x[2]]
  <2> DEFINE d == [round[r] EXCEPT !.pc = "looking", !.todo = @ \ {x}, !.created = @ \cup {x}]
  <2>1. d \in Rounds
    <3>1. round[r] \in Rounds /\ x \in (1..LastWeek + LookAhead) \X Tables
      BY <1>2, RoundFacts
    <3>2. QED BY <3>1 DEF Rounds
  <2>2. round' = [round EXCEPT ![r] = d]
    BY <1>1, <1>2, <1>5, RoundFacts DEF Done, Rounds
  <2>3. round'[r] = d
    BY <2>2, <1>2, RoundFacts
  <2>4. ~round[r].ready
    BY <1>2, RoundFacts
  <2>5. RoundOK(r)'
    BY <1>2, <1>3, <2>3, <2>4, RoundFacts DEF RoundOK, Ahead, Rounds
  <2>6. QED
    <3> HIDE DEF d
    <3> QED BY <1>3, <2>1, <2>2, <2>5, RoundStep DEF Create
<1>6. QED BY <1>4, <1>5

\* A commit leaves the round's weeks behind in both tables.
LEMMA CommitInv == ASSUME IInv, NEW r \in Replica, CommitRound(r) PROVE IInv'
<1> DEFINE d == round[r]
           new(t) == {x[1] : x \in {y \in d.created : y[2] = t}}
<1>1. d.pc = "looking" /\ d.todo = {}
  BY DEF CommitRound
<1>2. /\ parts' = [t \in Tables |-> parts[t] \cup new(t)]
      /\ lastRound' = IF d.from > lastRound THEN d.from ELSE lastRound
      /\ round' = [round EXCEPT ![r] = NoRound]
      /\ UNCHANGED <<week, tx, writes, faults>>
  BY DEF CommitRound
<1>3. \A t \in Tables : parts'[t] = parts[t] \cup new(t)
  BY <1>2
<1>4. \A t \in Tables : new(t) \subseteq weeksAhead(d.from)
  BY <1>1, RoundFacts DEF Ahead
<1>5. \A t \in Tables : weeksAhead(d.from) \subseteq parts'[t]
  <2>1. ASSUME NEW t \in Tables, NEW w \in weeksAhead(d.from) PROVE w \in parts'[t]
    <3>1. <<w, t>> \in Ahead(r) \ d.todo
      BY <1>1 DEF Ahead
    <3>2. w \in parts[t] \/ <<w, t>> \in d.created
      BY <1>1, <3>1, RoundFacts
    <3>3. QED BY <1>3, <3>2
  <2>2. QED BY <2>1
<1>6. d.from \in 1..week /\ week \in 1..LastWeek /\ LastWeek \in Nat /\ LookAhead \in Nat
  BY <1>1, RoundFacts, PartitionsAssumption DEF IInv, TypeOK
<1> HIDE DEF d, new
<1>7. TypeOK'
  <2>1. parts' \in [Tables -> SUBSET (Migrated \cup 1..LastWeek + LookAhead)]
    <3>1. \A t \in Tables : new(t) \subseteq 1..LastWeek + LookAhead
      BY <1>4, <1>6
    <3>2. QED BY <1>2, <3>1 DEF IInv, TypeOK
  <2>2. lastRound' \in 0..LastWeek
    BY <1>2, <1>6 DEF IInv, TypeOK
  <2>3. round' \in [Replica -> Rounds]
    BY <1>2, NoRoundType DEF IInv, TypeOK
  <2>4. QED BY <1>2, <2>1, <2>2, <2>3 DEF IInv, TypeOK
<1>8. TablesAlike'
  BY <1>3, <1>4, <1>5 DEF IInv, TablesAlike
<1>9. LastRoundCovers'
  BY <1>2, <1>3, <1>5, <1>6 DEF IInv, LastRoundCovers, TypeOK
<1>10. ASSUME NEW q \in Replica PROVE RoundOK(q)'
  <2>1. CASE q = r
    BY <1>2, <2>1 DEF RoundOK, NoRound, IInv, TypeOK
  <2>2. CASE q # r
    <3>1. round'[q] = round[q] /\ RoundOK(q) /\ week' = week
      BY <1>2, <2>2 DEF IInv, TypeOK
    <3>2. \A t \in Tables : parts[t] \subseteq parts'[t]
      BY <1>3
    <3>3. CASE round[q].pc = "idle"
      BY <3>1, <3>3 DEF RoundOK
    <3>4. CASE round[q].pc # "idle"
      <4>1. \A x \in Ahead(q) : x[2] \in Tables
        BY DEF Ahead
      <4>2. QED BY <3>1, <3>2, <3>4, <4>1 DEF RoundOK, Ahead
    <3>5. QED BY <3>3, <3>4
  <2>3. QED BY <2>1, <2>2
<1>11. QED BY <1>7, <1>8, <1>9, <1>10 DEF IInv

\* A round that fails leaves the tables as they were.
LEMMA FailRoundInv == ASSUME IInv, NEW r \in Replica, FailRound(r) PROVE IInv'
<1>1. faults' \in 0..MaxFaults
  BY PartitionsAssumption DEF FailRound, RoundFails, IInv, TypeOK
<1>2. QED BY <1>1, RestInv DEF FailRound, RoundFails, LogFailure

\* Weeks only pass: what began before still did.
LEMMA WeekPassesInv == ASSUME IInv, WeekPasses PROVE IInv'
<1>1. /\ week' = week + 1 /\ week < LastWeek
      /\ UNCHANGED <<parts, round, tx, writes, faults, lastRound>>
  BY DEF WeekPasses
<1>2. week \in FirstWeek..LastWeek /\ FirstWeek \in Nat \ {0} /\ LastWeek \in Nat
  BY PartitionsAssumption DEF IInv, TypeOK
<1>3. TypeOK'
  BY <1>1, <1>2 DEF IInv, TypeOK, Rounds
<1>4. TablesAlike' /\ LastRoundCovers'
  BY <1>1, <1>2 DEF IInv, TablesAlike, LastRoundCovers, TypeOK
<1>5. ASSUME NEW r \in Replica PROVE RoundOK(r)'
  BY <1>1, <1>2 DEF IInv, RoundOK, Ahead
<1>6. QED BY <1>3, <1>4, <1>5 DEF IInv

\* Begin, an insert, a lock on the books and an end touch the writer only.
LEMMA WritersInv == ASSUME IInv, NEW p \in Process, Begin(p) \/ Write(p) PROVE IInv'
<1> DEFINE W == [pc: {"idle", "inbox", "books", "outbox", "ready"}, week: 0..LastWeek]
<1>1. tx \in [Process -> W] /\ writes \in 0..MaxWrites /\ MaxWrites \in Nat
      /\ week \in 0..LastWeek /\ LastWeek \in Nat
  BY PartitionsAssumption DEF IInv, TypeOK
<1>2. NoTx \in W
  BY <1>1 DEF NoTx
<1>3. CASE Begin(p)
  BY <1>1, <1>3, WriterStep DEF Begin
<1>4. ASSUME NEW pc, NEW table \in Tables, NEW next \in {"books", "ready"}, Insert(p, pc, table, next)
      PROVE  IInv'
  <2>1. tx' \in [Process -> W]
    BY <1>1, <1>2, <1>4 DEF Insert
  <2>2. UNCHANGED <<week, parts, round, writes, faults, lastRound>>
    BY <1>4 DEF Insert
  <2>3. QED BY <1>1, <2>1, <2>2, WriterStep
<1>5. CASE RecordInInbox(p)
  BY <1>4, <1>5 DEF RecordInInbox
<1>6. CASE PublishToOutbox(p)
  BY <1>4, <1>6 DEF PublishToOutbox
<1>7. CASE TakeBooks(p)
  BY <1>1, <1>7, WriterStep DEF TakeBooks
<1>8. CASE EndTx(p)
  BY <1>1, <1>2, <1>8, WriterStep DEF EndTx
<1>9. QED BY <1>3, <1>5, <1>6, <1>7, <1>8 DEF Write

\* Every step keeps the invariant.
THEOREM Invariant == Spec => []IInv
<1>1. IInv /\ [Next]_vars => IInv'
  <2> SUFFICES ASSUME IInv, [Next]_vars PROVE IInv'
    OBVIOUS
  <2>1. CASE WeekPasses
    BY <2>1, WeekPassesInv
  <2>2. ASSUME NEW r \in Replica, Maintain(r) \/ FailRound(r) PROVE IInv'
    BY <2>2, StartRoundInv, LookInv, CreateInv, CommitInv, FailRoundInv DEF Maintain
  <2>3. ASSUME NEW p \in Process, Begin(p) \/ Write(p) PROVE IInv'
    BY <2>3, WritersInv
  <2>4. CASE UNCHANGED vars
    BY <2>4, WriterStep DEF vars, IInv, TypeOK
  <2>5. QED BY <2>1, <2>2, <2>3, <2>4 DEF Next
<1>2. QED BY <1>1, InitInv, PTL DEF Spec

\* The types, for every replica, writer and week.
THEOREM Types == Spec => []TypeOK
<1>1. IInv => TypeOK
  BY DEF IInv
<1>2. QED BY <1>1, Invariant, PTL

\* Whatever fails, both tables have partitions for the same weeks: rounds are
\* all or nothing (partition.go ensureAllWeekly).
THEOREM BothOrNeither == Spec => []TablesAlike
<1>1. IInv => TablesAlike
  BY DEF IInv
<1>2. QED BY <1>1, Invariant, PTL

\* One committed round in LookAhead weeks is enough for every writer, for any
\* lookahead.
THEOREM LookaheadSuffices == Spec => []WritableAhead
<1>1. IInv => WritableAhead
  <2> SUFFICES ASSUME IInv, lastRound > 0, week <= lastRound + LookAhead, NEW t \in Tables
               PROVE  week \in parts[t]
    BY DEF WritableAhead
  <2>1. week \in Nat /\ lastRound \in Nat /\ lastRound <= week /\ LookAhead \in Nat
    BY PartitionsAssumption DEF IInv, TypeOK, LastRoundCovers
  <2>2. week \in weeksAhead(lastRound)
    BY <2>1
  <2>3. QED BY <2>2 DEF IInv, LastRoundCovers
<1>2. QED BY <1>1, Invariant, PTL

\* A round that finds everything there takes no lock and waits for none.
THEOREM ReadyRoundsAreFree == Spec => []ReadyRoundsDisturbNobody
<1>1. IInv => ReadyRoundsDisturbNobody
  <2> SUFFICES ASSUME IInv, NEW r \in Replica, round[r].ready
               PROVE  Holds(r) = {} /\ Wanted(r) = {}
    BY DEF ReadyRoundsDisturbNobody
  <2>1. round[r].pc # "idle"
    BY DEF IInv, RoundOK, NoRound
  <2>2. round[r].pc = "looking" /\ round[r].created = {}
    BY <2>1, RoundFacts
  <2>3. Holds(r) = {}
    <3>1. r \notin Consumer /\ r \notin Session
      BY PartitionsAssumption DEF Process
    <3>2. QED BY <2>2, <3>1 DEF Holds
  <2>4. Wanted(r) = {}
    BY <2>2 DEF Wanted
  <2>5. QED BY <2>3, <2>4
<1>2. QED BY <1>1, Invariant, PTL
==============================================================================
