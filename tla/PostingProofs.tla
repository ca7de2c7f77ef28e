---------------------------- MODULE PostingProofs ----------------------------
(***************************************************************************)
(* Theorems about Posting for any number of sessions, legal entities,      *)
(* periods, keys and events.  The argument: a session that has read a      *)
(* period's row keeps it locked until it ends, so what it read (the        *)
(* period's status, its last post number) is still true when it commits.   *)
(* The order of the locks, what the commits leave in the other tables and  *)
(* the refinement of GeneralLedger follow, each in a part of its own.      *)
(***************************************************************************)
EXTENDS PostingRefinement, SumProofs, SequenceTheorems

USE DEF Periods, Statuses

------------------------------------------------------------------------------
\* A session without a transaction is in order.
LEMMA IdleType == Idle \in Transaction /\ \A L : SessionOK(Idle, L)
<1>1. Idle \in Transaction
  BY PeriodsAssumption, NamesAssumption
  DEF Idle, Transaction, AllDrafts, PeriodCommands, EntryCommands
<1>2. ASSUME NEW L PROVE SessionOK(Idle, L)
  BY DEF Idle, SessionOK, StageOK, ScanOK, ChangeOK, ClaimOK, Booking
<1>3. QED BY <1>1, <1>2

\* The state in which the component starts satisfies the invariant.
LEMMA InitInv == Init => IInv
<1> SUFFICES ASSUME Init PROVE IInv
  OBVIOUS
<1>1. TypeOK
  BY IdleType, PeriodsAssumption, EventsAssumption DEF Init, TypeOK
<1>2. LocksExclusive
  BY DEF Init, LocksExclusive
<1>3. \A p \in Proc : SessionOK(tx[p], locks[p])
  BY IdleType DEF Init
<1>4. PostNoGapFree
  BY DEF Init, PostNoGapFree, Book
<1>5. SourcePostedOnce
  BY DEF Init, SourcePostedOnce
<1>6. QED BY <1>1, <1>2, <1>3, <1>4, <1>5 DEF IInv

------------------------------------------------------------------------------
\* A step of one session that changes no table keeps the invariant, when the
\* session is in order afterwards and took no lock that another one holds.
LEMMA LocalStep ==
  ASSUME IInv, NEW p \in Proc, UNCHANGED tables,
         tx' \in [Proc -> Transaction], locks' \in [Proc -> SUBSET Lock],
         entrySeq' \in Nat, today' \in 1..LastPeriod + 1,
         \A q \in Proc \ {p} : tx'[q] = tx[q] /\ locks'[q] = locks[q],
         \A q \in Proc \ {p} : locks'[p] \cap locks[q] = {},
         SessionOK(tx'[p], locks'[p])
  PROVE  IInv'
<1> USE DEF IInv
<1>1. TypeOK'
  BY DEF TypeOK, tables
<1>2. LocksExclusive'
  BY DEF LocksExclusive
<1>3. ASSUME NEW q \in Proc PROVE SessionOK(tx[q], locks[q])'
  <2>1. SessionOK(tx'[q], locks'[q])
    BY <1>3
  <2>2. QED
    BY <2>1 DEF SessionOK, StageOK, ScanOK, ChangeOK, ClaimOK, Booking, SourceOf,
                PostedFrom, PeriodLock, DocLock, From, To, tables
<1>4. PostNoGapFree'
  BY DEF PostNoGapFree, Book, tables
<1>5. SourcePostedOnce'
  BY DEF SourcePostedOnce, tables
<1>6. QED BY <1>1, <1>2, <1>3, <1>4, <1>5

\* The same for a step that takes no lock.
LEMMA LocklessStep ==
  ASSUME IInv, NEW p \in Proc, NEW t \in Transaction,
         tx' = [tx EXCEPT ![p] = t], UNCHANGED <<tables, locks>>,
         entrySeq' \in Nat, today' \in 1..LastPeriod + 1, SessionOK(t, locks[p])
  PROVE  IInv'
<1>1. tx \in [Proc -> Transaction] /\ locks \in [Proc -> SUBSET Lock] /\ LocksExclusive
  BY DEF IInv, TypeOK
<1>2. tx' \in [Proc -> Transaction] /\ tx'[p] = t /\ locks'[p] = locks[p]
      /\ \A q \in Proc \ {p} : tx'[q] = tx[q] /\ locks'[q] = locks[q]
  BY <1>1
<1>3. \A q \in Proc \ {p} : locks'[p] \cap locks[q] = {}
  BY <1>1 DEF LocksExclusive
<1>4. QED
  BY <1>1, <1>2, <1>3, LocalStep

\* The same for a step that takes a free lock.
LEMMA LockingStep ==
  ASSUME IInv, NEW p \in Proc, NEW t \in Transaction, NEW r \in Lock,
         tx' = [tx EXCEPT ![p] = t], Free(r), Acquire(p, r), UNCHANGED tables,
         entrySeq' \in Nat, today' \in 1..LastPeriod + 1, SessionOK(t, locks[p] \cup {r})
  PROVE  IInv'
<1>1. tx \in [Proc -> Transaction] /\ locks \in [Proc -> SUBSET Lock] /\ LocksExclusive
  BY DEF IInv, TypeOK
<1>2. tx' \in [Proc -> Transaction] /\ tx'[p] = t
      /\ locks' \in [Proc -> SUBSET Lock] /\ locks'[p] = locks[p] \cup {r}
      /\ \A q \in Proc \ {p} : tx'[q] = tx[q] /\ locks'[q] = locks[q]
  BY <1>1 DEF Acquire
<1>3. \A q \in Proc \ {p} : locks'[p] \cap locks[q] = {}
  BY <1>1, <1>2 DEF LocksExclusive, Free
<1>4. QED
  BY <1>1, <1>2, <1>3, LocalStep

\* The same for a rollback.
LEMMA RollbackInv ==
  ASSUME IInv, NEW p \in Proc, Rollback(p)
  PROVE  IInv'
<1>1. tx \in [Proc -> Transaction] /\ locks \in [Proc -> SUBSET Lock]
      /\ entrySeq' \in Nat /\ today' \in 1..LastPeriod + 1
  BY DEF IInv, TypeOK, Rollback
<1>2. tx' \in [Proc -> Transaction] /\ tx'[p] = Idle
      /\ locks' \in [Proc -> SUBSET Lock] /\ locks'[p] = {}
      /\ \A q \in Proc \ {p} : tx'[q] = tx[q] /\ locks'[q] = locks[q]
  BY <1>1, IdleType DEF Rollback, End
<1>3. UNCHANGED tables
  BY DEF Rollback
<1>4. QED
  BY <1>1, <1>2, <1>3, IdleType, LocalStep

------------------------------------------------------------------------------
\* Starting a command claims its key.
LEMMA ClaimInv ==
  ASSUME IInv, NEW p \in Proc, NEW k \in Keys, NEW t, Claim(p, k, t),
         [t EXCEPT !.key = k] \in Transaction,
         \A L : SessionOK([t EXCEPT !.key = k], L)
  PROVE  IInv'
<1>1. KeyLock(k) \in Lock
  BY DEF KeyLock, Lock
<1>2. entrySeq' \in Nat /\ today' \in 1..LastPeriod + 1
  BY DEF Claim, IInv, TypeOK
<1>3. QED
  BY <1>1, <1>2, LockingStep DEF Claim

\* A manual posting that starts has its key and nothing else.
LEMMA PostManualEntryInv ==
  ASSUME IInv, NEW p \in Proc, PostManualEntry(p)
  PROVE  IInv'
<1>1. PICK k \in Keys, scope \in Scopes, d \in Drafts : \E e \in scope :
        Claim(p, k, [Idle EXCEPT !.pc = "posting", !.op = "PostManualEntry",
                                 !.entity = e, !.draft = d,
                                 !.date = today, !.next = today])
  BY DEF PostManualEntry
<1>2. PICK e \in scope :
        Claim(p, k, [Idle EXCEPT !.pc = "posting", !.op = "PostManualEntry",
                                 !.entity = e, !.draft = d,
                                 !.date = today, !.next = today])
  BY <1>1
<1> DEFINE t == [Idle EXCEPT !.pc = "posting", !.op = "PostManualEntry",
                             !.entity = e, !.draft = d,
                             !.date = today, !.next = today]
           u == [t EXCEPT !.key = k]
<1>3. e \in Entities /\ d \in AllDrafts /\ today \in 1..LastPeriod + 1
  BY NamesAssumption DEF IInv, TypeOK
<1>4. u \in Transaction
  <2>1. today \in 0..LastPeriod + 1
    BY <1>3, PeriodsAssumption
  <2>2. QED BY <1>3, <2>1, IdleType DEF Transaction, EntryCommands
<1>5. ASSUME NEW L PROVE SessionOK(u, L)
  BY <1>3, PeriodsAssumption
  DEF SessionOK, StageOK, ScanOK, ChangeOK, ClaimOK, Booking, Idle, PeriodCommands, EntryCommands
<1>6. QED
  BY <1>2, <1>4, <1>5, ClaimInv

\* So has a reversal,
LEMMA ReverseEntryInv ==
  ASSUME IInv, NEW p \in Proc, ReverseEntry(p)
  PROVE  IInv'
<1>1. PICK k \in Keys, scope \in Scopes, i \in Nat :
        Claim(p, k, [Idle EXCEPT !.pc = "lockingHeader", !.op = "ReverseEntry",
                                 !.scope = scope, !.original = i])
  <2>1. entries \subseteq Entry
    BY DEF IInv, TypeOK
  <2>2. {x.id : x \in entries} \subseteq Nat /\ 1..MaxEntrySeq \subseteq Nat
    BY <2>1 DEF Entry
  <2>3. QED BY <2>2 DEF ReverseEntry
<1> DEFINE t == [Idle EXCEPT !.pc = "lockingHeader", !.op = "ReverseEntry",
                             !.scope = scope, !.original = i]
           u == [t EXCEPT !.key = k]
<1>2. scope \in SUBSET Entities
  BY NamesAssumption
<1>3. u \in Transaction
  BY <1>2, IdleType DEF Transaction, Idle, PeriodCommands, EntryCommands
<1>4. ASSUME NEW L PROVE SessionOK(u, L)
  BY DEF SessionOK, StageOK, ScanOK, ChangeOK, ClaimOK, Booking, Idle, PeriodCommands,
         EntryCommands
<1>5. QED
  BY <1>1, <1>3, <1>4, ClaimInv

\* and a period command.
LEMMA TransitionPeriodInv ==
  ASSUME IInv, NEW p \in Proc, TransitionPeriod(p)
  PROVE  IInv'
<1>1. PICK op \in Commands \cap PeriodCommands, k \in Keys, scope \in Scopes, m \in Periods :
        \E e \in scope : Claim(p, k, [Idle EXCEPT !.pc = "changing", !.op = op,
                                                  !.entity = e, !.target = m])
  BY DEF TransitionPeriod
<1>2. PICK e \in scope : Claim(p, k, [Idle EXCEPT !.pc = "changing", !.op = op,
                                                  !.entity = e, !.target = m])
  BY <1>1
<1> DEFINE t == [Idle EXCEPT !.pc = "changing", !.op = op, !.entity = e, !.target = m]
           u == [t EXCEPT !.key = k]
<1>3. e \in Entities
  BY NamesAssumption
<1>4. u \in Transaction
  <2>1. m \in 0..LastPeriod
    BY PeriodsAssumption
  <2>2. QED BY <1>3, <2>1, IdleType DEF Transaction
<1>5. ASSUME NEW L PROVE SessionOK(u, L)
  BY PeriodsAssumption DEF SessionOK, StageOK, ScanOK, ChangeOK, ClaimOK, Booking, Idle,
     PeriodCommands, EntryCommands
<1>6. QED
  BY <1>2, <1>4, <1>5, ClaimInv

\* A replay and its answer change no table and no lock.
LEMMA ReplayInv ==
  ASSUME IInv, NEW p \in Proc, Replay(p) \/ Return(p)
  PROVE  IInv'
<1>1. entrySeq' \in Nat /\ today' \in 1..LastPeriod + 1 /\ UNCHANGED <<tables, locks>>
  BY DEF IInv, TypeOK, Replay, Return
<1>2. CASE Replay(p)
  <2>1. PICK op \in Commands, k \in Keys :
          tx' = [tx EXCEPT ![p] = [Idle EXCEPT !.pc = "replied", !.op = op, !.key = k]]
    BY <1>2 DEF Replay
  <2>2. [Idle EXCEPT !.pc = "replied", !.op = op, !.key = k] \in Transaction
    BY IdleType, NamesAssumption DEF Transaction, Idle
  <2>3. SessionOK([Idle EXCEPT !.pc = "replied", !.op = op, !.key = k], locks[p])
    BY DEF SessionOK, StageOK, ScanOK, ChangeOK, ClaimOK, Booking, Idle
  <2>4. QED BY <1>1, <2>1, <2>2, <2>3, LocklessStep
<1>3. CASE Return(p)
  BY <1>1, <1>3, IdleType, LocklessStep DEF Return
<1>4. QED BY <1>2, <1>3

------------------------------------------------------------------------------
\* ReverseEntry reads the original.
LEMMA LockHeaderInv ==
  ASSUME IInv, NEW p \in Proc, LockHeader(p)
  PROVE  IInv'
<1> DEFINE t == [tx[p] EXCEPT !.pc = "reading"]
           L == {EntryLock(x.id) : x \in WithId(tx[p].original)}
<1>1. /\ tx \in [Proc -> Transaction] /\ locks \in [Proc -> SUBSET Lock]
      /\ entries \subseteq Entry /\ LocksExclusive /\ SessionOK(tx[p], locks[p])
      /\ entrySeq' \in Nat /\ today' \in 1..LastPeriod + 1 /\ UNCHANGED tables
  BY DEF IInv, TypeOK, LockHeader
<1>2. L \subseteq {EntryLock(tx[p].original)}
  BY DEF WithId
<1>3. L \subseteq Lock
  BY <1>1 DEF WithId, Entry, EntryLock, Lock
<1>4. tx' \in [Proc -> Transaction] /\ tx'[p] = t
      /\ locks' \in [Proc -> SUBSET Lock] /\ locks'[p] = locks[p] \cup L
      /\ \A q \in Proc \ {p} : tx'[q] = tx[q] /\ locks'[q] = locks[q]
  <2>1. t \in Transaction
    BY <1>1 DEF Transaction
  <2>2. QED BY <2>1, <1>1, <1>3 DEF LockHeader
<1>5. \A q \in Proc \ {p} : locks'[p] \cap locks[q] = {}
  BY <1>1, <1>2, <1>4 DEF LocksExclusive, LockHeader, Free
<1>6. SessionOK(t, locks'[p])
  BY <1>1 DEF SessionOK, StageOK, ScanOK, ChangeOK, ClaimOK, Booking, LockHeader, Transaction
<1>7. SessionOK(tx'[p], locks'[p])
  BY <1>4, <1>6
<1> HIDE DEF t, L
<1>8. QED
  BY <1>1, <1>4, <1>5, <1>7, LocalStep

\* Reading the original changes the session only.
LEMMA ReadOriginalInv ==
  ASSUME IInv, NEW p \in Proc, ReadOriginal(p)
  PROVE  IInv'
<1>1. /\ tx \in [Proc -> Transaction] /\ SessionOK(tx[p], locks[p]) /\ entries \subseteq Entry
      /\ entrySeq' \in Nat /\ today \in 1..LastPeriod + 1 /\ today' = today
      /\ UNCHANGED <<tables, locks>> /\ tx[p].pc = "reading"
  BY DEF IInv, TypeOK, ReadOriginal
<1>2. PICK x \in entries :
        tx' = [tx EXCEPT ![p].pc = "posting", ![p].entity = x.entity,
                         ![p].date = today, ![p].next = today]
  BY DEF ReadOriginal, WithId
<1> DEFINE t == [tx[p] EXCEPT !.pc = "posting", !.entity = x.entity,
                              !.date = today, !.next = today]
<1>3. tx' = [tx EXCEPT ![p] = t]
  BY <1>1, <1>2
<1>4. t \in Transaction
  <2>1. today \in 0..LastPeriod + 1 /\ x.entity \in Entities
    BY <1>1, PeriodsAssumption DEF Entry
  <2>2. tx[p] \in Transaction
    BY <1>1
  <2>3. QED BY <2>1, <2>2 DEF Transaction
<1>5. SessionOK(t, locks[p])
  <2>1. tx[p] \in Transaction
    BY <1>1
  <2>2. QED
    BY <1>1, <2>1, PeriodsAssumption
    DEF SessionOK, StageOK, ScanOK, ChangeOK, ClaimOK, Booking, Transaction, PeriodCommands,
        EntryCommands
<1>6. QED
  BY <1>1, <1>3, <1>4, <1>5, LocklessStep

------------------------------------------------------------------------------
\* A period command judges the row it has locked.
LEMMA LockForChangeInv ==
  ASSUME IInv, NEW p \in Proc, LockForChange(p)
  PROVE  IInv'
<1> DEFINE t == [tx[p] EXCEPT !.pc = "ready"]
           r == PeriodLock(tx[p].entity, tx[p].target)
<1>1. /\ tx \in [Proc -> Transaction] /\ SessionOK(tx[p], locks[p]) /\ tx[p].pc = "changing"
      /\ entrySeq' \in Nat /\ today' \in 1..LastPeriod + 1 /\ UNCHANGED tables
  BY DEF IInv, TypeOK, LockForChange
<1>2. tx[p] \in Transaction
  BY <1>1
<1>3. t \in Transaction
  BY <1>2 DEF Transaction
<1>4. tx[p].op \in PeriodCommands /\ tx[p].target # 0 /\ tx[p].entry = 0
  BY <1>1 DEF SessionOK, StageOK
<1>5. r \in Lock
  <2>1. tx[p].entity \in Entities /\ tx[p].target \in Periods
    BY <1>2, <1>4, PeriodsAssumption DEF Transaction
  <2>2. QED BY <2>1 DEF PeriodLock, Lock
<1>6. SessionOK(t, locks[p] \cup {r})
  <2>1. StageOK(t)
    BY <1>1, <1>2, <1>4 DEF SessionOK, StageOK, Transaction, EntryCommands, PeriodCommands
  <2>2. ~Booking(t)
    BY <1>2, <1>4 DEF Booking, Transaction, EntryCommands, PeriodCommands
  <2>3. ChangeOK(t, locks[p] \cup {r})
    BY <1>2 DEF ChangeOK, LockForChange, Transaction
  <2>4. QED BY <2>1, <2>2, <2>3 DEF SessionOK, ScanOK, ClaimOK
<1>7. QED
  BY <1>1, <1>3, <1>5, <1>6, LockingStep DEF LockForChange

------------------------------------------------------------------------------
\* Events.
LEMMA ConsumeMessageInv ==
  ASSUME IInv, NEW p \in Proc, ConsumeMessage(p)
  PROVE  IInv'
<1>1. /\ tx \in [Proc -> Transaction] /\ today \in 1..LastPeriod + 1
      /\ entrySeq' \in Nat /\ today' \in 1..LastPeriod + 1 /\ UNCHANGED <<tables, locks>>
  BY DEF IInv, TypeOK, ConsumeMessage
<1>2. PICK m \in Messages :
       tx' = [tx EXCEPT ![p] =
                [Idle EXCEPT !.pc = IF m.kind = "zeroMovement" THEN "ready" ELSE "posting",
                             !.op = "consume", !.msg = m, !.draft = m.draft,
                             !.date = today, !.next = today]]
  BY DEF ConsumeMessage
<1> DEFINE t == [Idle EXCEPT !.pc = IF m.kind = "zeroMovement" THEN "ready" ELSE "posting",
                             !.op = "consume", !.msg = m, !.draft = m.draft,
                             !.date = today, !.next = today]
<1>3. t \in Transaction
  <2>1. m.draft \in AllDrafts /\ today \in 0..LastPeriod + 1
    BY <1>1, EventsAssumption, PeriodsAssumption
  <2>2. QED BY <2>1, IdleType DEF Transaction
<1>4. SessionOK(t, locks[p])
  BY <1>1, PeriodsAssumption DEF SessionOK, StageOK, ScanOK, ChangeOK, ClaimOK, Booking,
     Idle, PeriodCommands, EntryCommands
<1>5. QED
  BY <1>1, <1>2, <1>3, <1>4, LocklessStep

\* What is not a transaction of a session leaves the sessions in order.
LEMMA ConsumeSnapshotInv ==
  ASSUME IInv, ConsumeSnapshot
  PROVE  IInv'
<1>1. UNCHANGED <<status, lastPostSeq, entries, tx, locks>>
  BY DEF ConsumeSnapshot
<1>2. TypeOK'
  <2>1. PICK s \in Snapshots :
          /\ inbox' = inbox \cup {s}
          /\ snapshot' = IF snapshot[s.customer].version < s.version
                         THEN [snapshot EXCEPT ![s.customer] =
                                 [version |-> s.version, limit |-> s.limit]]
                         ELSE snapshot
    BY DEF ConsumeSnapshot
  <2>2. [version |-> s.version, limit |-> s.limit] \in [version : Nat, limit : Nat]
    BY EventsAssumption
  <2>3. snapshot \in [Customers -> [version : Nat, limit : Nat]]
    BY DEF IInv, TypeOK
  <2>4. snapshot' \in [Customers -> [version : Nat, limit : Nat]]
    BY <2>1, <2>2, <2>3
  <2>5. inbox' \subseteq Messages \cup Snapshots
    BY <2>1 DEF IInv, TypeOK
  <2>6. QED BY <2>4, <2>5 DEF ConsumeSnapshot, IInv, TypeOK
<1>3. ASSUME NEW q \in Proc PROVE SessionOK(tx[q], locks[q])'
  BY <1>1 DEF IInv, SessionOK, StageOK, ScanOK, ChangeOK, ClaimOK, Booking, SourceOf,
              PostedFrom, PeriodLock, DocLock, From, To
<1>4. LocksExclusive' /\ PostNoGapFree' /\ SourcePostedOnce'
  BY <1>1 DEF IInv, LocksExclusive, PostNoGapFree, Book, SourcePostedOnce
<1>5. QED BY <1>2, <1>3, <1>4 DEF IInv

\* The date changes no table and no session.
LEMMA NextPeriodBeginsInv ==
  ASSUME IInv, NextPeriodBegins
  PROVE  IInv'
<1>1. UNCHANGED <<tables, entrySeq, tx, locks>> /\ today' \in 1..LastPeriod + 1
  BY PeriodsAssumption DEF IInv, TypeOK, NextPeriodBegins
<1>2. TypeOK'
  BY <1>1 DEF IInv, TypeOK, tables
<1>3. ASSUME NEW q \in Proc PROVE SessionOK(tx[q], locks[q])'
  BY <1>1 DEF IInv, SessionOK, StageOK, ScanOK, ChangeOK, ClaimOK, Booking, SourceOf,
              PostedFrom, PeriodLock, DocLock, From, To, tables
<1>4. LocksExclusive' /\ PostNoGapFree' /\ SourcePostedOnce'
  BY <1>1 DEF IInv, LocksExclusive, PostNoGapFree, Book, SourcePostedOnce, tables
<1>5. QED BY <1>2, <1>3, <1>4 DEF IInv

------------------------------------------------------------------------------
\* postEntryTx.
LEMMA LockPeriodRowInv ==
  ASSUME IInv, NEW p \in Proc, LockPeriodRow(p)
  PROVE  IInv'
<1> DEFINE s == tx[p]
           r == PeriodLock(s.entity, s.next)
           hit == s.target = 0 /\ status[s.entity][s.next] = "OPEN"
           t == [s EXCEPT !.next = s.next + 1,
                          !.target = IF hit THEN s.next ELSE @,
                          !.seq = IF hit THEN lastPostSeq[s.entity][s.next] ELSE @]
<1>1. /\ tx \in [Proc -> Transaction] /\ SessionOK(s, locks[p])
      /\ entrySeq' \in Nat /\ today' \in 1..LastPeriod + 1 /\ UNCHANGED tables
      /\ s.pc = "posting" /\ s.next \in Periods
      /\ lastPostSeq \in [Entities -> [Periods -> Nat]]
      /\ Free(r) /\ Acquire(p, r)
  BY DEF IInv, TypeOK, LockPeriodRow
<1>2. s \in Transaction
  BY <1>1
<1>3. s.entity \in Entities /\ s.next \in 1..LastPeriod /\ s.op \notin PeriodCommands /\ s.entry = 0
  BY <1>1, <1>2 DEF SessionOK, StageOK, Transaction
<1>4. lastPostSeq[s.entity][s.next] \in Nat
  BY <1>1, <1>3
<1>5. tx' = [tx EXCEPT ![p] = t]
  BY <1>1 DEF LockPeriodRow
<1>6. t \in Transaction
  <2>1. s.next + 1 \in 0..LastPeriod + 1 /\ s.next \in 0..LastPeriod
    BY <1>3, PeriodsAssumption
  <2> HIDE DEF s, hit
  <2>2. QED BY <1>2, <1>4, <2>1 DEF Transaction
<1>7. r \in Lock
  BY <1>3 DEF PeriodLock, Lock
<1>8. SessionOK(t, locks[p] \cup {r})
  <2>0. /\ t.pc = s.pc /\ t.op = s.op /\ t.msg = s.msg /\ t.key = s.key
        /\ t.entity = s.entity /\ t.date = s.date /\ t.entry = s.entry
        /\ t.next = s.next + 1
        /\ t.target = IF hit THEN s.next ELSE s.target
        /\ t.seq = IF hit THEN lastPostSeq[s.entity][s.next] ELSE s.seq
    BY <1>2 DEF Transaction
  <2> HIDE DEF t
  <2>1. StageOK(t)
    BY <1>1, <1>3, <2>0 DEF SessionOK, StageOK
  <2>2. ScanOK(t, locks[p] \cup {r})
    <3>1. Booking(s) /\ ScanOK(s, locks[p])
      BY <1>1, <1>2, <1>3 DEF SessionOK, StageOK, Booking, Transaction
    <3>2. s.date \in 1..s.next /\ s.date \in Nat /\ s.target \in Nat
      <4>1. s.date \in 1..s.next
        BY <3>1 DEF ScanOK
      <4>2. s.date \in 0..LastPeriod + 1 /\ s.target \in 0..LastPeriod
        BY <1>2 DEF Transaction
      <4>3. QED BY <4>1, <4>2, PeriodsAssumption
    <3>3. \A m \in s.date..(t.next - 1) : m \in s.date..(s.next - 1) \/ m = s.next
      BY <1>3, <2>0, <3>2
    <3>4. \A m \in t.date..(t.next - 1) : PeriodLock(t.entity, m) \in locks[p] \cup {r}
      <4>1. SUFFICES ASSUME NEW m \in s.date..(t.next - 1)
                     PROVE  PeriodLock(s.entity, m) \in locks[p] \cup {r}
        BY <2>0
      <4>2. CASE m = s.next
        BY <4>2
      <4>3. CASE m \in s.date..(s.next - 1)
        BY <3>1, <4>3 DEF ScanOK
      <4>4. QED BY <3>3, <4>2, <4>3
    <3>5. t.target = 0 =>
            t.entry = 0 /\ \A m \in t.date..(t.next - 1) : status[t.entity][m] # "OPEN"
      BY <1>3, <2>0, <3>1, <3>2, <3>3 DEF ScanOK
    <3>6. CASE hit
      <4>1. t.target = s.next /\ t.seq = lastPostSeq[s.entity][s.next]
        BY <2>0, <3>6
      <4>2. \A m \in s.date..(s.next - 1) : status[s.entity][m] # "OPEN"
        BY <3>1, <3>6 DEF ScanOK
      <4>3. t.target \in t.date..(t.next - 1) /\ t.date \in 1..t.next
        BY <1>3, <2>0, <3>2, <4>1
      <4>4. QED BY <1>3, <1>4, <2>0, <3>4, <3>5, <3>6, <4>1, <4>2, <4>3 DEF ScanOK
    <3>7. CASE ~hit
      <4>1. t.target = s.target /\ t.seq = s.seq
        BY <2>0, <3>7
      <4>2. t.target # 0 => t.target \in t.date..(t.next - 1)
        BY <1>3, <2>0, <3>1, <3>2, <4>1 DEF ScanOK
      <4>3. t.date \in 1..t.next
        BY <1>3, <2>0, <3>2
      <4>4. QED BY <1>3, <2>0, <3>1, <3>4, <3>5, <4>1, <4>2, <4>3 DEF ScanOK
    <3>8. QED BY <3>6, <3>7
  <2>3. ChangeOK(t, locks[p] \cup {r})
    BY <1>1, <2>0 DEF ChangeOK
  <2>4. ClaimOK(t, locks[p] \cup {r})
    BY <1>3, <2>0 DEF ClaimOK
  <2>5. QED BY <2>1, <2>2, <2>3, <2>4 DEF SessionOK
<1> HIDE DEF s, t, r
<1>9. QED
  BY <1>1, <1>5, <1>6, <1>7, <1>8, LockingStep

\* The header claims the source, and the next number of a period that is locked.
LEMMA InsertHeaderInv ==
  ASSUME IInv, NEW p \in Proc, InsertHeader(p)
  PROVE  IInv'
<1> DEFINE s == tx[p]
           d == SourceOf(s)
           R == {DocLock(x) : x \in {d} \ {NoDoc}}
           t == [s EXCEPT !.pc = "insertingLines", !.entry = entrySeq + 1, !.seq = s.seq + 1]
<1>1. /\ tx \in [Proc -> Transaction] /\ locks \in [Proc -> SUBSET Lock]
      /\ SessionOK(s, locks[p]) /\ LocksExclusive
      /\ entrySeq \in Nat /\ today' \in 1..LastPeriod + 1 /\ UNCHANGED tables
      /\ entrySeq' = entrySeq + 1 /\ s.pc = "posting" /\ s.target # 0 /\ s.next > LastPeriod
      /\ (d # NoDoc => Free(DocLock(d)) /\ PostedFrom(d) = {})
      /\ lastPostSeq \in [Entities -> [Periods -> Nat]]
  BY DEF IInv, TypeOK, InsertHeader, Resolved
<1>2. s \in Transaction
  BY <1>1
<1>3. t \in Transaction
  <2>1. s.seq + 1 \in Nat /\ entrySeq + 1 \in Nat
    BY <1>1, <1>2 DEF Transaction
  <2> HIDE DEF s
  <2>2. QED BY <1>2, <2>1 DEF Transaction
<1>4. R \subseteq Lock
  <2>1. d # NoDoc => d \in Docs
    BY <1>2 DEF SourceOf, Docs, Transaction
  <2>2. QED BY <2>1 DEF DocLock, Lock
<1>5. /\ tx' \in [Proc -> Transaction] /\ tx'[p] = t
      /\ locks' \in [Proc -> SUBSET Lock] /\ locks'[p] = locks[p] \cup R
      /\ \A q \in Proc \ {p} : tx'[q] = tx[q] /\ locks'[q] = locks[q]
  <2>1. tx' = [tx EXCEPT ![p] = t] /\ locks' = [locks EXCEPT ![p] = @ \cup R]
    BY <1>1 DEF InsertHeader
  <2> HIDE DEF t, R
  <2>2. QED BY <1>1, <1>3, <1>4, <2>1
<1>6. \A q \in Proc \ {p} : locks'[p] \cap locks[q] = {}
  BY <1>1, <1>5 DEF LocksExclusive, Free
<1>7. SessionOK(t, locks[p] \cup R)
  <2>0. /\ t.pc = "insertingLines" /\ t.op = s.op /\ t.msg = s.msg /\ t.key = s.key
        /\ t.entity = s.entity /\ t.date = s.date /\ t.entry = entrySeq + 1
        /\ t.next = s.next /\ t.target = s.target /\ t.seq = s.seq + 1
    BY <1>2 DEF Transaction
  <2>1. s.op \notin PeriodCommands /\ s.entry = 0 /\ Booking(s) /\ ScanOK(s, locks[p])
    BY <1>1, <1>2 DEF SessionOK, StageOK, Booking, Transaction
  <2>2. entrySeq + 1 # 0 /\ s.seq \in Nat
    BY <1>1, <1>2 DEF Transaction
  <2>3. SourceOf(t) = d
    BY <2>0 DEF SourceOf
  <2> HIDE DEF t, d
  <2>4. StageOK(t)
    BY <1>1, <2>0, <2>1, <2>2 DEF SessionOK, StageOK
  <2>5. ScanOK(t, locks[p] \cup R)
    <3>1. lastPostSeq[s.entity][s.target] \in Nat
      <4>1. s.entity \in Entities /\ s.target \in Periods
        BY <1>1, <1>2, PeriodsAssumption DEF Transaction
      <4>2. QED BY <1>1, <4>1
    <3>2. QED BY <1>1, <2>0, <2>1, <2>2, <3>1 DEF ScanOK
  <2>6. ClaimOK(t, locks[p] \cup R)
    BY <1>1, <2>3 DEF ClaimOK
  <2>7. ChangeOK(t, locks[p] \cup R)
    BY <2>0 DEF ChangeOK
  <2>8. QED BY <2>4, <2>5, <2>6, <2>7 DEF SessionOK
<1>8. SessionOK(tx'[p], locks'[p]) /\ entrySeq' \in Nat
  BY <1>1, <1>5, <1>7
<1> HIDE DEF s, t, R, d
<1>9. QED
  BY <1>1, <1>5, <1>6, <1>8, LocalStep

\* A step that only moves the program counter of a booking keeps it in order.
LEMMA BookingMoves ==
  ASSUME NEW s \in Transaction, NEW t \in Transaction, NEW L, SessionOK(s, L),
         Booking(s), Booking(t), StageOK(t),
         t.op = s.op, t.msg = s.msg, t.entity = s.entity, t.date = s.date, t.entry = s.entry,
         t.next = s.next, t.target = s.target, t.seq = s.seq
  PROVE  SessionOK(t, L)
<1>1. SourceOf(t) = SourceOf(s)
  BY DEF SourceOf
<1>2. ScanOK(t, L)
  BY DEF SessionOK, ScanOK
<1>3. ClaimOK(t, L)
  BY <1>1 DEF SessionOK, ClaimOK
<1>4. ChangeOK(t, L)
  BY DEF ChangeOK, Booking, PeriodCommands, EntryCommands
<1>5. QED BY <1>2, <1>3, <1>4 DEF SessionOK

\* A duplicate claims nothing.
LEMMA SkipDuplicateInv ==
  ASSUME IInv, NEW p \in Proc, SkipDuplicate(p)
  PROVE  IInv'
<1> DEFINE s == tx[p]
           t == [s EXCEPT !.pc = "ready"]
<1>1. /\ tx \in [Proc -> Transaction] /\ SessionOK(s, locks[p])
      /\ entrySeq' \in Nat /\ today' \in 1..LastPeriod + 1 /\ UNCHANGED <<tables, locks>>
      /\ s.pc = "posting" /\ SourceOf(s) # NoDoc /\ tx' = [tx EXCEPT ![p] = t]
  BY DEF IInv, TypeOK, SkipDuplicate, Resolved
<1>2. s \in Transaction
  BY <1>1
<1>3. t \in Transaction
  BY <1>2 DEF Transaction
<1>4. SessionOK(t, locks[p])
  <2>0. /\ t.pc = "ready" /\ t.op = s.op /\ t.msg = s.msg /\ t.key = s.key
        /\ t.entity = s.entity /\ t.date = s.date /\ t.entry = s.entry
        /\ t.next = s.next /\ t.target = s.target /\ t.seq = s.seq
    BY <1>2 DEF Transaction
  <2>1. s.op = "consume" /\ s.entry = 0
    BY <1>1 DEF SessionOK, StageOK, SourceOf
  <2> HIDE DEF t
  <2>2. Booking(s) /\ Booking(t) /\ StageOK(t)
    BY <1>1, <2>0, <2>1 DEF SessionOK, StageOK, Booking, EntryCommands, PeriodCommands
  <2>3. QED BY <1>1, <1>2, <1>3, <2>0, <2>2, BookingMoves
<1> HIDE DEF s, t
<1>5. QED
  BY <1>1, <1>3, <1>4, LocklessStep

\* The lines change the session only.
LEMMA InsertLinesInv ==
  ASSUME IInv, NEW p \in Proc, InsertLines(p)
  PROVE  IInv'
<1> DEFINE s == tx[p]
           to == IF s.op = "consume" /\ s.msg.kind = "order" THEN "crediting" ELSE "ready"
           t == [s EXCEPT !.pc = to]
<1>1. /\ tx \in [Proc -> Transaction] /\ SessionOK(s, locks[p])
      /\ entrySeq' \in Nat /\ today' \in 1..LastPeriod + 1 /\ UNCHANGED <<tables, locks>>
      /\ s.pc = "insertingLines" /\ tx' = [tx EXCEPT ![p] = t]
  BY DEF IInv, TypeOK, InsertLines
<1>2. s \in Transaction
  BY <1>1
<1>3. t \in Transaction
  BY <1>2 DEF Transaction
<1>4. SessionOK(t, locks[p])
  <2>0. /\ t.pc = to /\ t.op = s.op /\ t.msg = s.msg /\ t.key = s.key
        /\ t.entity = s.entity /\ t.date = s.date /\ t.entry = s.entry
        /\ t.next = s.next /\ t.target = s.target /\ t.seq = s.seq
    BY <1>2 DEF Transaction
  <2>1. s.op \in EntryCommands \cup {"consume"} /\ s.entry # 0
    BY <1>1, <1>2 DEF SessionOK, StageOK, Transaction
  <2> HIDE DEF t
  <2>2. Booking(s) /\ Booking(t) /\ StageOK(t)
    BY <1>1, <2>0, <2>1 DEF SessionOK, StageOK, Booking, EntryCommands, PeriodCommands
  <2>3. QED BY <1>1, <1>2, <1>3, <2>0, <2>2, BookingMoves
<1> HIDE DEF s, t
<1>5. QED
  BY <1>1, <1>3, <1>4, LocklessStep

\* The credit is applied with the customer locked.
LEMMA ApplyCreditInv ==
  ASSUME IInv, NEW p \in Proc, ApplyCredit(p)
  PROVE  IInv'
<1> DEFINE s == tx[p]
           c == s.msg.customer
           owed == exposure[c] + s.msg.amount
           limit == snapshot[c].limit
           r == CustomerLock(c)
           t == [s EXCEPT !.pc = "ready", !.owed = owed,
                          !.rejected = ExceedsLimit(owed, limit)]
<1>1. /\ tx \in [Proc -> Transaction] /\ SessionOK(s, locks[p])
      /\ exposure \in [Customers -> 0..MaxExposure]
      /\ entrySeq' \in Nat /\ today' \in 1..LastPeriod + 1 /\ UNCHANGED tables
      /\ s.pc = "crediting" /\ tx' = [tx EXCEPT ![p] = t]
      /\ owed <= MaxExposure /\ Free(r) /\ Acquire(p, r)
  BY DEF IInv, TypeOK, ApplyCredit
<1>2. s \in Transaction
  BY <1>1
<1>3. s.op = "consume" /\ s.entry # 0 /\ s.msg \in Messages
  BY <1>1 DEF SessionOK, StageOK
<1>4. c \in Customers /\ s.msg.amount \in Nat
  BY <1>3, EventsAssumption
<1>5. owed \in 0..MaxExposure
  BY <1>1, <1>4, PeriodsAssumption
<1>6. t \in Transaction
  <2>1. ExceedsLimit(owed, limit) \in BOOLEAN
    BY DEF ExceedsLimit
  <2> HIDE DEF s, owed, limit
  <2>2. QED BY <1>2, <1>5, <2>1 DEF Transaction
<1>7. r \in Lock
  BY <1>4 DEF CustomerLock, Lock
<1>8. SessionOK(t, locks[p] \cup {r})
  <2>0. /\ t.pc = "ready" /\ t.op = s.op /\ t.msg = s.msg /\ t.key = s.key
        /\ t.entity = s.entity /\ t.date = s.date /\ t.entry = s.entry
        /\ t.next = s.next /\ t.target = s.target /\ t.seq = s.seq
    BY <1>2 DEF Transaction
  <2> HIDE DEF t
  <2>1. Booking(s) /\ Booking(t) /\ StageOK(t)
    BY <1>1, <1>3, <2>0 DEF SessionOK, StageOK, Booking, EntryCommands, PeriodCommands
  <2>2. SessionOK(s, locks[p] \cup {r})
    BY <1>1 DEF SessionOK, ScanOK, ChangeOK, ClaimOK
  <2>3. QED BY <1>2, <1>6, <2>0, <2>1, <2>2, BookingMoves
<1> HIDE DEF s, t, r, c
<1>9. QED
  BY <1>1, <1>6, <1>7, <1>8, LockingStep

------------------------------------------------------------------------------
\* What a session commits to rows that it has locked does not concern what the
\* others have read.
LEMMA OthersInOrder ==
  ASSUME IInv, NEW p \in Proc, NEW q \in Proc \ {p},
         tx'[q] = tx[q], locks'[q] = locks[q],
         \A e \in Entities, m \in Periods : PeriodLock(e, m) \notin locks[p] =>
           status'[e][m] = status[e][m] /\ lastPostSeq'[e][m] = lastPostSeq[e][m],
         \A x \in entries' : x \in entries \/ x.doc = NoDoc \/ DocLock(x.doc) \in locks[p]
  PROVE  SessionOK(tx[q], locks[q])'
<1> DEFINE t == tx[q]
           L == locks[q]
<1>1. /\ t \in Transaction /\ SessionOK(t, L) /\ L \cap locks[p] = {}
  BY DEF IInv, TypeOK, LocksExclusive
<1>2. t.entity \in Entities /\ t.target \in 0..LastPeriod /\ t.next \in 0..LastPeriod + 1
      /\ t.date \in 0..LastPeriod + 1
  BY <1>1 DEF Transaction
<1> HIDE DEF t, L
<1>3. ASSUME NEW m \in Periods, PeriodLock(t.entity, m) \in L
      PROVE  status'[t.entity][m] = status[t.entity][m]
             /\ lastPostSeq'[t.entity][m] = lastPostSeq[t.entity][m]
  BY <1>1, <1>2, <1>3
<1>4. SessionOK(t, L)'  = SessionOK(tx[q], locks[q])' /\ t' = t /\ L' = L
  BY DEF t, L
<1>5. StageOK(t)
  BY <1>1 DEF SessionOK
<1>6. ASSUME Booking(t) PROVE ScanOK(t, L)'
  <2>1. ScanOK(t, L)
    BY <1>1 DEF SessionOK
  <2>2. t.date \in 1..t.next /\ (\A m \in t.date..(t.next - 1) : PeriodLock(t.entity, m) \in L)
    BY <1>6, <2>1 DEF ScanOK
  <2>3. \A m \in t.date..(t.next - 1) : m \in Periods
    BY <1>2, <2>2, PeriodsAssumption
  <2>4. \A m \in t.date..(t.next - 1) :
          status'[t.entity][m] = status[t.entity][m]
          /\ lastPostSeq'[t.entity][m] = lastPostSeq[t.entity][m]
    BY <1>3, <2>2, <2>3
  <2>5. t.target # 0 =>
          /\ t.target \in t.date..(t.next - 1)
          /\ status[t.entity][t.target] = "OPEN"
          /\ \A m \in t.date..(t.target - 1) : status[t.entity][m] # "OPEN"
          /\ t.seq = lastPostSeq[t.entity][t.target] + (IF t.entry = 0 THEN 0 ELSE 1)
    BY <1>6, <2>1 DEF ScanOK
  <2>6. t.target # 0 => \A m \in t.date..(t.target - 1) : m \in t.date..(t.next - 1)
    BY <1>2, <2>5, PeriodsAssumption
  <2>7. t.target # 0 =>
          /\ status'[t.entity][t.target] = "OPEN"
          /\ \A m \in t.date..(t.target - 1) : status'[t.entity][m] # "OPEN"
          /\ t.seq = lastPostSeq'[t.entity][t.target] + (IF t.entry = 0 THEN 0 ELSE 1)
    BY <2>4, <2>5, <2>6
  <2>8. t.target = 0 =>
          t.entry = 0 /\ \A m \in t.date..(t.next - 1) : status'[t.entity][m] # "OPEN"
    BY <1>6, <2>1, <2>4 DEF ScanOK
  <2>9. QED BY <1>4, <2>2, <2>5, <2>7, <2>8 DEF ScanOK, PeriodLock
<1>7. ChangeOK(t, L)'
  <2>1. SUFFICES ASSUME t.pc = "ready", t.op \in PeriodCommands
                 PROVE  /\ PeriodLock(t.entity, t.target) \in L
                        /\ status'[t.entity][t.target] \in {From(t.op), To(t.op)}
    BY <1>4 DEF ChangeOK, PeriodLock, From, To
  <2>2. t.target \in Periods
    BY <1>2, <1>5, <2>1, PeriodsAssumption DEF StageOK
  <2>3. PeriodLock(t.entity, t.target) \in L
        /\ status[t.entity][t.target] \in {From(t.op), To(t.op)}
    BY <1>1, <2>1 DEF SessionOK, ChangeOK
  <2>4. QED BY <1>3, <2>2, <2>3
<1>8. ClaimOK(t, L)'
  <2>1. SUFFICES ASSUME Booking(t), t.entry # 0, SourceOf(t) # NoDoc
                 PROVE  DocLock(SourceOf(t)) \in L /\ PostedFrom(SourceOf(t))' = {}
    BY <1>4 DEF ClaimOK, Booking, SourceOf, DocLock, PostedFrom
  <2>2. DocLock(SourceOf(t)) \in L /\ PostedFrom(SourceOf(t)) = {}
    BY <1>1, <2>1 DEF SessionOK, ClaimOK
  <2>3. \A x \in entries' : x.doc # SourceOf(t)
    BY <1>1, <2>1, <2>2 DEF PostedFrom
  <2>4. QED BY <1>4, <2>2, <2>3 DEF PostedFrom, SourceOf
<1>9. ScanOK(t, L)' /\ StageOK(t)'
  BY <1>4, <1>5, <1>6 DEF ScanOK, Booking, StageOK
<1>10. QED
  BY <1>4, <1>7, <1>8, <1>9 DEF SessionOK

\* The session that ends is idle and holds nothing; the locks stay exclusive.
LEMMA EndInv ==
  ASSUME IInv, NEW p \in Proc, End(p)
  PROVE  /\ tx' \in [Proc -> Transaction] /\ tx'[p] = Idle
         /\ locks' \in [Proc -> SUBSET Lock] /\ locks'[p] = {}
         /\ \A q \in Proc \ {p} : tx'[q] = tx[q] /\ locks'[q] = locks[q]
         /\ LocksExclusive'
<1>1. tx \in [Proc -> Transaction] /\ locks \in [Proc -> SUBSET Lock] /\ LocksExclusive
  BY DEF IInv, TypeOK
<1>2. /\ tx' \in [Proc -> Transaction] /\ tx'[p] = Idle
      /\ locks' \in [Proc -> SUBSET Lock] /\ locks'[p] = {}
      /\ \A q \in Proc \ {p} : tx'[q] = tx[q] /\ locks'[q] = locks[q]
  BY <1>1, IdleType DEF End
<1>3. LocksExclusive'
  BY <1>1, <1>2 DEF LocksExclusive
<1>4. QED BY <1>2, <1>3

\* What is stored under a command's key has the type of the table.
LEMMA ResultType ==
  ASSUME NEW t \in Transaction, t.key \in Keys, t.op \in PeriodCommands \cup EntryCommands
  PROVE  ResultOf(t) \in
           [key : Keys, command : PeriodCommands \cup EntryCommands, entry : Nat,
            status : Statuses \cup {"none"}]
<1>1. t.entry \in Nat
  BY DEF Transaction
<1>2. (IF t.op \in PeriodCommands THEN To(t.op) ELSE "none") \in Statuses \cup {"none"}
  BY DEF To
<1>3. QED BY <1>1, <1>2 DEF ResultOf

\* A period command changes the row that it holds.
LEMMA CommitTransitionInv ==
  ASSUME IInv, NEW p \in Proc, CommitTransition(p)
  PROVE  IInv'
<1> DEFINE s == tx[p]
<1>1. /\ s \in Transaction /\ SessionOK(s, locks[p])
      /\ status \in [Entities -> [Periods -> Statuses]]
      /\ s.pc = "ready" /\ s.op \in PeriodCommands
      /\ status' = [status EXCEPT ![s.entity][s.target] = To(s.op)]
      /\ End(p)
      /\ UNCHANGED <<lastPostSeq, entries, inbox, receivables, exposure, snapshot,
                     outbox, entrySeq, today>>
  BY DEF IInv, TypeOK, CommitTransition
<1>2. /\ PeriodLock(s.entity, s.target) \in locks[p] /\ s.target # 0
      /\ s.key \in Keys
  BY <1>1 DEF SessionOK, StageOK, ChangeOK, PeriodCommands
<1>3. s.entity \in Entities /\ s.target \in Periods
  BY <1>1, <1>2, PeriodsAssumption DEF Transaction
<1>4. To(s.op) \in Statuses
  BY DEF To
<1>5. TypeOK'
  <2>1. status' \in [Entities -> [Periods -> Statuses]]
    BY <1>1, <1>3, <1>4
  <2>2. idempotency' \subseteq
          [key : Keys, command : PeriodCommands \cup EntryCommands, entry : Nat,
           status : Statuses \cup {"none"}]
    BY <1>1, <1>2, ResultType DEF CommitTransition, IInv, TypeOK
  <2>3. QED BY <2>1, <2>2, <1>1, EndInv DEF IInv, TypeOK
<1>6. ASSUME NEW q \in Proc PROVE SessionOK(tx[q], locks[q])'
  <2>1. CASE q = p
    <3>1. \A L : SessionOK(Idle, L)'
      BY DEF Idle, SessionOK, StageOK, ScanOK, ChangeOK, ClaimOK, Booking
    <3>2. QED BY <1>1, <2>1, <3>1, EndInv
  <2>2. CASE q # p
    <3>1. \A e \in Entities, m \in Periods : PeriodLock(e, m) \notin locks[p] =>
            status'[e][m] = status[e][m] /\ lastPostSeq'[e][m] = lastPostSeq[e][m]
      BY <1>1, <1>2, <1>3
    <3>2. tx'[q] = tx[q] /\ locks'[q] = locks[q]
      BY <1>1, <2>2, EndInv
    <3>3. QED BY <1>1, <2>2, <3>1, <3>2, OthersInOrder
  <2>3. QED BY <2>1, <2>2
<1>7. LocksExclusive' /\ PostNoGapFree' /\ SourcePostedOnce'
  BY <1>1, EndInv DEF IInv, PostNoGapFree, Book, SourcePostedOnce
<1>8. QED BY <1>5, <1>6, <1>7 DEF IInv

\* A commit without effect frees the locks.
LEMMA CommitNothingInv ==
  ASSUME IInv, NEW p \in Proc, CommitNothing(p)
  PROVE  IInv'
<1>1. /\ tx[p] \in Transaction /\ SessionOK(tx[p], locks[p])
      /\ tx[p].pc = "ready" /\ tx[p].op = "consume"
      /\ inbox' = inbox \cup {tx[p].msg} /\ End(p)
      /\ UNCHANGED <<status, lastPostSeq, entries, idempotency, receivables, exposure,
                     snapshot, outbox, entrySeq, today>>
  BY DEF IInv, TypeOK, CommitNothing
<1>2. TypeOK'
  <2>1. tx[p].msg \in Messages
    BY <1>1 DEF SessionOK, StageOK
  <2>2. QED BY <2>1, <1>1, EndInv DEF IInv, TypeOK
<1>3. ASSUME NEW q \in Proc PROVE SessionOK(tx[q], locks[q])'
  <2>1. CASE q = p
    <3>1. \A L : SessionOK(Idle, L)'
      BY DEF Idle, SessionOK, StageOK, ScanOK, ChangeOK, ClaimOK, Booking
    <3>2. QED BY <1>1, <2>1, <3>1, EndInv
  <2>2. CASE q # p
    <3>1. tx'[q] = tx[q] /\ locks'[q] = locks[q]
      BY <1>1, <2>2, EndInv
    <3>2. QED BY <1>1, <2>2, <3>1, OthersInOrder
  <2>3. QED BY <2>1, <2>2
<1>4. LocksExclusive' /\ PostNoGapFree' /\ SourcePostedOnce'
  BY <1>1, EndInv DEF IInv, PostNoGapFree, Book, SourcePostedOnce
<1>5. QED BY <1>2, <1>3, <1>4 DEF IInv

\* What a session that is about to commit an entry holds and knows.
LEMMA ReadyEntry ==
  ASSUME IInv, NEW p \in Proc, tx[p].pc = "ready", tx[p].entry # 0
  PROVE  LET s == tx[p] IN
         /\ s \in Transaction /\ Booking(s) /\ SessionOK(s, locks[p])
         /\ s.entity \in Entities /\ s.target \in Periods
         /\ lastPostSeq[s.entity][s.target] \in Nat
         /\ s.seq = lastPostSeq[s.entity][s.target] + 1
         /\ status[s.entity][s.target] = "OPEN"
         /\ PeriodLock(s.entity, s.target) \in locks[p]
         /\ SourceOf(s) # NoDoc => DocLock(SourceOf(s)) \in locks[p]
                                  /\ PostedFrom(SourceOf(s)) = {}
         /\ SourceOf(s) \in Docs \cup {NoDoc}
<1> DEFINE s == tx[p]
<1>1. s \in Transaction /\ SessionOK(s, locks[p])
      /\ lastPostSeq \in [Entities -> [Periods -> Nat]]
  BY DEF IInv, TypeOK
<1>2. Booking(s)
  BY <1>1 DEF SessionOK, StageOK, Booking, Transaction
<1>3. ScanOK(s, locks[p]) /\ ClaimOK(s, locks[p])
  BY <1>1 DEF SessionOK
<1>4. s.target # 0
  BY <1>2, <1>3 DEF ScanOK
<1>5. s.entity \in Entities /\ s.target \in Periods
  BY <1>1, <1>4, PeriodsAssumption DEF Transaction
<1>6. /\ s.seq = lastPostSeq[s.entity][s.target] + 1
      /\ status[s.entity][s.target] = "OPEN"
      /\ PeriodLock(s.entity, s.target) \in locks[p]
  BY <1>2, <1>3, <1>4 DEF ScanOK
<1>7. SourceOf(s) # NoDoc => DocLock(SourceOf(s)) \in locks[p] /\ PostedFrom(SourceOf(s)) = {}
  BY <1>2, <1>3 DEF ClaimOK
<1>8. SourceOf(s) \in Docs \cup {NoDoc}
  BY <1>1 DEF SourceOf, Docs, Transaction
<1>9. QED BY <1>1, <1>2, <1>5, <1>6, <1>7, <1>8

\* A posting adds its entry to a period whose row it holds.
LEMMA CommitEntryInv ==
  ASSUME IInv, NEW p \in Proc, CommitEntry(p)
  PROVE  IInv'
<1> DEFINE s == tx[p]
           x == EntryOf(s)
           isOrder == IsOrder(s)
<1>1. /\ s.pc = "ready" /\ s.entry # 0
      /\ entries' = entries \cup {x}
      /\ lastPostSeq' = [lastPostSeq EXCEPT ![s.entity][s.target] = s.seq]
      /\ inbox' = inbox \cup ({s.msg} \ {NoMessage})
      /\ idempotency' = idempotency \cup (IF s.key = NoKey THEN {} ELSE {ResultOf(s)})
      /\ receivables' = IF isOrder
                        THEN receivables \cup {[entry |-> s.entry, customer |-> s.msg.customer,
                                                amount |-> s.msg.amount]}
                        ELSE receivables
      /\ exposure' = IF isOrder THEN [exposure EXCEPT ![s.msg.customer] = s.owed]
                                ELSE exposure
      /\ End(p)
      /\ UNCHANGED <<status, snapshot, entrySeq, today>>
  BY DEF CommitEntry, ReceivableOf
<1>2. /\ s \in Transaction /\ Booking(s) /\ SessionOK(s, locks[p])
      /\ s.entity \in Entities /\ s.target \in Periods
      /\ lastPostSeq[s.entity][s.target] \in Nat
      /\ s.seq = lastPostSeq[s.entity][s.target] + 1
      /\ status[s.entity][s.target] = "OPEN"
      /\ PeriodLock(s.entity, s.target) \in locks[p]
      /\ (SourceOf(s) # NoDoc => DocLock(SourceOf(s)) \in locks[p]
                                 /\ PostedFrom(SourceOf(s)) = {})
      /\ SourceOf(s) \in Docs \cup {NoDoc}
  BY <1>1, ReadyEntry
<1>3. /\ x \in Entry /\ x.entity = s.entity /\ x.period = s.target
      /\ x.postNo = s.seq /\ x.doc = SourceOf(s)
  <2>1. s.entry \in Nat /\ s.original \in Nat /\ s.seq \in Nat \ {0}
    BY <1>2 DEF Transaction
  <2>2. QED BY <1>1, <1>2, <2>1 DEF EntryOf, Entry
<1>4. lastPostSeq \in [Entities -> [Periods -> Nat]]
  BY DEF IInv, TypeOK
<1> HIDE DEF x
<1>5. TypeOK'
  <2>1. lastPostSeq' \in [Entities -> [Periods -> Nat]]
    BY <1>1, <1>2, <1>4
  <2>2. entries' \subseteq Entry
    BY <1>1, <1>3 DEF IInv, TypeOK
  <2>3. idempotency' \subseteq
          [key : Keys, command : PeriodCommands \cup EntryCommands, entry : Nat,
           status : Statuses \cup {"none"}]
    <3>1. s.key # NoKey => s.key \in Keys /\ s.op \in PeriodCommands \cup EntryCommands
      BY <1>1, <1>2 DEF Transaction, SessionOK, StageOK
    <3>2. idempotency \subseteq
            [key : Keys, command : PeriodCommands \cup EntryCommands, entry : Nat,
             status : Statuses \cup {"none"}]
      BY DEF IInv, TypeOK
    <3>3. QED BY <1>1, <1>2, <3>1, <3>2, ResultType
  <2>4. inbox' \subseteq Messages \cup Snapshots
    BY <1>1, <1>2 DEF IInv, TypeOK, Transaction
  <2>5. /\ receivables' \subseteq [entry : Nat, customer : Customers, amount : Nat]
        /\ exposure' \in [Customers -> 0..MaxExposure]
    <3>1. /\ receivables \subseteq [entry : Nat, customer : Customers, amount : Nat]
          /\ exposure \in [Customers -> 0..MaxExposure]
      BY DEF IInv, TypeOK
    <3>2. s.entry \in Nat /\ s.owed \in 0..MaxExposure
      BY <1>2 DEF Transaction
    <3>3. isOrder => s.msg.customer \in Customers /\ s.msg.amount \in Nat
      <4>1. isOrder => s.msg \in Messages
        BY <1>1, <1>2 DEF SessionOK, StageOK, IsOrder
      <4>2. QED BY <4>1, EventsAssumption
    <3> HIDE DEF s
    <3>4. QED BY <1>1, <3>1, <3>2, <3>3
  <2>6. QED BY <1>1, <2>1, <2>2, <2>3, <2>4, <2>5, EndInv DEF IInv, TypeOK
<1>6. ASSUME NEW q \in Proc PROVE SessionOK(tx[q], locks[q])'
  <2>1. CASE q = p
    <3>1. \A L : SessionOK(Idle, L)'
      BY DEF Idle, SessionOK, StageOK, ScanOK, ChangeOK, ClaimOK, Booking
    <3>2. QED BY <1>1, <2>1, <3>1, EndInv
  <2>2. CASE q # p
    <3>1. \A e \in Entities, m \in Periods : PeriodLock(e, m) \notin locks[p] =>
            status'[e][m] = status[e][m] /\ lastPostSeq'[e][m] = lastPostSeq[e][m]
      BY <1>1, <1>2, <1>4
    <3>2. \A y \in entries' : y \in entries \/ y.doc = NoDoc \/ DocLock(y.doc) \in locks[p]
      BY <1>1, <1>2, <1>3
    <3>3. tx'[q] = tx[q] /\ locks'[q] = locks[q]
      BY <1>1, <2>2, EndInv
    <3>4. QED BY <2>2, <3>1, <3>2, <3>3, OthersInOrder
  <2>3. QED BY <2>1, <2>2
<1>7. PostNoGapFree'
  <2>1. ASSUME NEW e \in Entities, NEW m \in Periods
        PROVE  /\ {y.postNo : y \in Book(e, m)'} = 1..lastPostSeq'[e][m]
               /\ \A y, z \in Book(e, m)' : y.postNo = z.postNo => y = z
    <3>1. /\ {y.postNo : y \in Book(e, m)} = 1..lastPostSeq[e][m]
          /\ \A y, z \in Book(e, m) : y.postNo = z.postNo => y = z
      BY DEF IInv, PostNoGapFree
    <3>2. CASE e = s.entity /\ m = s.target
      <4>1. Book(e, m)' = Book(e, m) \cup {x}
        BY <1>1, <1>3, <3>2 DEF Book
      <4>2. lastPostSeq'[e][m] = lastPostSeq[e][m] + 1 /\ lastPostSeq[e][m] \in Nat
        BY <1>1, <1>2, <1>4, <3>2
      <4>3. x.postNo = lastPostSeq[e][m] + 1
        BY <1>2, <1>3, <3>2
      <4>4. \A y \in Book(e, m) : y.postNo \in 1..lastPostSeq[e][m]
        BY <3>1
      <4>5. {y.postNo : y \in Book(e, m)'} = (1..lastPostSeq[e][m]) \cup {x.postNo}
        BY <3>1, <4>1
      <4>6. \A y \in Book(e, m) : y.postNo # x.postNo
        BY <4>2, <4>3, <4>4
      <4>7. (1..lastPostSeq[e][m]) \cup {x.postNo} = 1..lastPostSeq'[e][m]
        BY <4>2, <4>3
      <4>8. QED BY <3>1, <4>1, <4>5, <4>6, <4>7
    <3>3. CASE ~(e = s.entity /\ m = s.target)
      <4>1. Book(e, m)' = Book(e, m)
        BY <1>1, <1>3, <3>3 DEF Book
      <4>2. lastPostSeq'[e][m] = lastPostSeq[e][m]
        BY <1>1, <1>2, <1>4, <3>3
      <4>3. QED BY <3>1, <4>1, <4>2
    <3>4. QED BY <3>2, <3>3
  <2>2. QED BY <2>1 DEF PostNoGapFree
<1>8. SourcePostedOnce'
  BY <1>1, <1>2, <1>3 DEF IInv, SourcePostedOnce, PostedFrom
<1>9. QED BY <1>1, <1>5, <1>6, <1>7, <1>8, EndInv DEF IInv

------------------------------------------------------------------------------
\* Every step keeps the invariant.
LEMMA NextInv == IInv /\ [Next]_vars => IInv'
<1> SUFFICES ASSUME IInv, [Next]_vars PROVE IInv'
  OBVIOUS
<1>1. ASSUME NEW p \in Proc, Start(p) PROVE IInv'
  BY <1>1, PostManualEntryInv, ReverseEntryInv, TransitionPeriodInv, ConsumeMessageInv,
     ReplayInv DEF Start
<1>2. ASSUME NEW p \in Proc, Continue(p) PROVE IInv'
  <2>1. CASE Refuse(p)
    BY <2>1, RollbackInv DEF Refuse
  <2>2. CASE LockHeader(p) \/ ReadOriginal(p) \/ LockForChange(p) \/ LockPeriodRow(p)
             \/ InsertHeader(p) \/ SkipDuplicate(p) \/ InsertLines(p) \/ ApplyCredit(p)
    BY <2>2, LockHeaderInv, ReadOriginalInv, LockForChangeInv, LockPeriodRowInv,
       InsertHeaderInv, SkipDuplicateInv, InsertLinesInv, ApplyCreditInv
  <2>3. CASE CommitTransition(p) \/ CommitNothing(p) \/ CommitEntry(p) \/ Return(p)
    BY <2>3, CommitTransitionInv, CommitNothingInv, CommitEntryInv, ReplayInv
  <2>4. QED BY <1>2, <2>1, <2>2, <2>3 DEF Continue
<1>3. ASSUME NEW p \in Proc, Crash(p) PROVE IInv'
  BY <1>3, RollbackInv DEF Crash
<1>4. CASE ConsumeSnapshot
  BY <1>4, ConsumeSnapshotInv
<1>5. CASE NextPeriodBegins
  BY <1>5, NextPeriodBeginsInv
<1>6. CASE UNCHANGED vars
  <2>1. ASSUME NEW q \in Proc PROVE SessionOK(tx[q], locks[q])'
    BY <1>6 DEF IInv, SessionOK, StageOK, ScanOK, ChangeOK, ClaimOK, Booking, SourceOf,
                PostedFrom, PeriodLock, DocLock, From, To, tables, vars
  <2>2. TypeOK' /\ LocksExclusive'
    BY <1>6 DEF IInv, TypeOK, LocksExclusive, tables, vars
  <2>3. PostNoGapFree'
    BY <1>6 DEF IInv, PostNoGapFree, Book, tables, vars
  <2>4. SourcePostedOnce'
    BY <1>6 DEF IInv, SourcePostedOnce, tables, vars
  <2>5. QED BY <2>1, <2>2, <2>3, <2>4 DEF IInv
<1>7. QED BY <1>1, <1>2, <1>3, <1>4, <1>5, <1>6 DEF Next

\* In every reachable state, whatever the number of sessions, periods and
\* events, what the open transactions have read of the periods and the sources
\* is still so.
THEOREM Invariance == Spec => []IInv
BY InitInv, NextInv, PTL DEF Spec

\* The tables keep their types (001_create_finance.up.sql).
THEOREM TypeCorrect == Spec => []TypeOK
<1>1. IInv => TypeOK
  BY DEF IInv
<1>2. QED BY <1>1, Invariance, PTL

\* The post numbers of each legal entity and period have no gap and no
\* repetition (nextPostNo, lockOpenPeriodForDate).
THEOREM PostNumbersGapFree == Spec => []PostNoGapFree
<1>1. IInv => PostNoGapFree
  BY DEF IInv
<1>2. QED BY <1>1, Invariance, PTL

\* A source document is booked at most once (ON CONFLICT DO NOTHING).
THEOREM SourceBookedOnce == Spec => []SourcePostedOnce
<1>1. IInv => SourcePostedOnce
  BY DEF IInv
<1>2. QED BY <1>1, Invariance, PTL

\* A posting is for the earliest period that is open on or after its date, until
\* it commits (lockOpenPeriodForDate).
THEOREM BookedInEarliestOpen == Spec => []EarliestOpenPeriod
<1>1. IInv => EarliestOpenPeriod
  BY DEF IInv, SessionOK, ScanOK, EarliestOpenPeriod
<1>2. QED BY <1>1, Invariance, PTL

------------------------------------------------------------------------------
\* A step that changes neither a period's status nor the entries keeps the books.
LEMMA SameBooksKept ==
  ASSUME TypeOK, UNCHANGED <<status, entries>>
  PROVE  BooksKept
BY DEF BooksKept, Book, TypeOK

\* A period command moves a period from where it may start to where it leads.
LEMMA CommitTransitionKeeps ==
  ASSUME IInv, NEW p \in Proc, CommitTransition(p)
  PROVE  BooksKept
<1> DEFINE s == tx[p]
<1>1. /\ s.pc = "ready" /\ s.op \in PeriodCommands
      /\ status' = [status EXCEPT ![s.entity][s.target] = To(s.op)]
      /\ UNCHANGED entries
  BY DEF CommitTransition
<1>2. status[s.entity][s.target] \in {From(s.op), To(s.op)}
  BY <1>1 DEF IInv, SessionOK, ChangeOK
<1>3. status \in [Entities -> [Periods -> Statuses]]
  BY DEF IInv, TypeOK
<1>4. /\ "LOCKED" \in {From(s.op), To(s.op)} => To(s.op) = "LOCKED"
      /\ "OPEN" \in {From(s.op), To(s.op)} => To(s.op) # "LOCKED"
  BY <1>1 DEF From, To, PeriodCommands
<1> HIDE DEF s
<1>5. ASSUME NEW e \in Entities, NEW m \in Periods
      PROVE  /\ Book(e, m)' = Book(e, m)
             /\ status[e][m] = "LOCKED" => status'[e][m] = "LOCKED"
             /\ status[e][m] = "OPEN" => status'[e][m] # "LOCKED"
  <2>1. Book(e, m)' = Book(e, m)
    BY <1>1 DEF Book
  <2>2. CASE e = s.entity /\ m = s.target
    <3>1. status'[e][m] = To(s.op)
      BY <1>1, <1>3, <2>2
    <3>2. QED BY <1>2, <1>4, <2>1, <2>2, <3>1
  <2>3. CASE ~(e = s.entity /\ m = s.target)
    <3>1. status'[e][m] = status[e][m]
      BY <1>1, <1>3, <2>3
    <3>2. QED BY <2>1, <3>1
  <2>4. QED BY <2>2, <2>3
<1>6. QED BY <1>5 DEF BooksKept

\* A posting adds its entry to the period it holds open.
LEMMA CommitEntryKeeps ==
  ASSUME IInv, NEW p \in Proc, CommitEntry(p)
  PROVE  BooksKept
<1> DEFINE s == tx[p]
           x == EntryOf(s)
<1>1. /\ s.pc = "ready" /\ s.entry # 0
      /\ entries' = entries \cup {x}
      /\ UNCHANGED status
  BY DEF CommitEntry
<1>2. status[s.entity][s.target] = "OPEN"
  BY <1>1, ReadyEntry
<1>3. x.entity = s.entity /\ x.period = s.target
  BY DEF EntryOf
<1> HIDE DEF s, x
<1>4. ASSUME NEW e \in Entities, NEW m \in Periods
      PROVE  /\ status[e][m] # "OPEN" => Book(e, m)' = Book(e, m)
             /\ Book(e, m) \subseteq Book(e, m)'
  BY <1>1, <1>2, <1>3 DEF Book
<1>5. QED BY <1>1, <1>4 DEF BooksKept

\* Every other step leaves status and entries alone.
LEMMA NextKeeps == IInv /\ [Next]_vars => BooksKept
<1> SUFFICES ASSUME IInv, [Next]_vars PROVE BooksKept
  OBVIOUS
<1>1. ASSUME NEW p \in Proc, Start(p) PROVE UNCHANGED <<status, entries>>
  BY <1>1 DEF Start, PostManualEntry, ReverseEntry, TransitionPeriod, ConsumeMessage,
              Replay, Claim, tables
<1>2. ASSUME NEW p \in Proc, Continue(p) PROVE BooksKept
  <2>1. CASE LockHeader(p) \/ ReadOriginal(p) \/ LockForChange(p) \/ LockPeriodRow(p)
             \/ InsertHeader(p) \/ SkipDuplicate(p) \/ InsertLines(p) \/ ApplyCredit(p)
             \/ Return(p) \/ Refuse(p) \/ CommitNothing(p)
    <3>1. UNCHANGED <<status, entries>>
      BY <2>1 DEF LockHeader, ReadOriginal, LockForChange, LockPeriodRow, InsertHeader,
                  SkipDuplicate, InsertLines, ApplyCredit, Return, Refuse, Rollback,
                  CommitNothing, tables
    <3>2. QED BY <3>1, SameBooksKept DEF IInv
  <2>2. QED BY <1>2, <2>1, CommitTransitionKeeps, CommitEntryKeeps DEF Continue
<1>3. CASE (\E p \in Proc : Crash(p)) \/ ConsumeSnapshot \/ NextPeriodBegins \/ UNCHANGED vars
  BY <1>3 DEF Crash, Rollback, ConsumeSnapshot, NextPeriodBegins, vars, tables, IInv,
              BooksKept, Book, TypeOK
<1>4. QED BY <1>1, <1>2, <1>3, SameBooksKept DEF Next, IInv

\* No step changes the books of a period that is not open, unlocks a locked
\* period or takes a booked entry out (transitionPeriod, lockOpenPeriodForDate).
THEOREM BooksFrozen == Spec => BooksFrozenUnlessOpen
<1>1. IInv /\ [Next]_vars => [BooksKept]_vars
  BY NextKeeps
<1>2. QED BY <1>1, Invariance, PTL DEF Spec, BooksFrozenUnlessOpen

------------------------------------------------------------------------------
(* No set of sessions wait for one another, whatever their number.  The      *)
(* argument: every transaction takes its locks by ascending rank, so what a  *)
(* session waits for ranks above all that it holds.  Of the locks that the   *)
(* sessions of a waiting circle wait for, take one of the highest rank: the  *)
(* session that holds it waits for a higher one.                             *)

\* The order of the statements, as numbers.
LEMMA Ranks ==
  /\ \A k : Rank(KeyLock(k)) = 1
  /\ \A i : Rank(EntryLock(i)) = 2
  /\ \A e, m : Rank(PeriodLock(e, m)) = m + 2
  /\ \A d : Rank(DocLock(d)) = LastPeriod + 3
  /\ \A c : Rank(CustomerLock(c)) = LastPeriod + 4
BY DEF Rank, KeyLock, EntryLock, PeriodLock, DocLock, CustomerLock

\* Ranks are numbers.
LEMMA RankType == \A r \in Lock : Rank(r) \in 1..LastPeriod + 4
<1> SUFFICES ASSUME NEW r \in Lock PROVE Rank(r) \in 1..LastPeriod + 4
  OBVIOUS
<1>1. CASE r \in {"key"} \X Keys \/ r \in {"entry"} \X Nat
           \/ r \in {"source"} \X Docs \/ r \in {"customer"} \X Customers
  <2>1. r[1] \in {"key", "entry", "source", "customer"}
    BY <1>1
  <2>2. QED BY <2>1, PeriodsAssumption DEF Rank
<1>2. CASE r \in {"period"} \X Entities \X Periods
  <2>1. r[1] = "period" /\ r[3] \in 1..LastPeriod
    BY <1>2
  <2>2. QED BY <2>1, PeriodsAssumption DEF Rank
<1>3. QED BY <1>1, <1>2 DEF Lock

------------------------------------------------------------------------------
\* The locks of session p stay below its ceiling when it takes none and its
\* ceiling does not sink.
LEMMA CeilingRises ==
  ASSUME IInv, NEW p \in Proc, LockOrder,
         Ceiling(tx[p]) \in Nat, Ceiling(tx'[p]) \in Nat,
         Ceiling(tx[p]) <= Ceiling(tx'[p]),
         \A r \in locks'[p] : r \in locks[p] \/ Rank(r) <= Ceiling(tx'[p])
  PROVE  \A r \in locks'[p] : Rank(r) <= Ceiling(tx'[p])
<1>1. \A r \in locks[p] : Rank(r) \in Nat
  BY RankType, PeriodsAssumption DEF IInv, TypeOK
<1>2. \A r \in locks[p] : Rank(r) <= Ceiling(tx[p])
  BY DEF LockOrder
<1>3. \A r \in locks[p] : Rank(r) <= Ceiling(tx'[p])
  BY <1>1, <1>2
<1>4. QED BY <1>3

\* So are the ranks that a session may have reached.
LEMMA CeilingType ==
  ASSUME NEW t \in Transaction PROVE Ceiling(t) \in Nat
<1>1. t.next \in Nat
  BY PeriodsAssumption DEF Transaction
<1>2. QED BY <1>1, PeriodsAssumption DEF Ceiling

\* A step of session p leaves the other sessions' transactions and locks alone.
LEMMA OthersStay ==
  ASSUME TypeOK, NEW p \in Proc, Start(p) \/ Continue(p) \/ Crash(p), NEW q \in Proc \ {p}
  PROVE  tx'[q] = tx[q] /\ locks'[q] = locks[q]
<1>1. tx \in [Proc -> Transaction] /\ locks \in [Proc -> SUBSET Lock]
  BY DEF TypeOK
<1>2. ASSUME NEW t, tx' = [tx EXCEPT ![p] = t] PROVE tx'[q] = tx[q]
  BY <1>1, <1>2
<1>3. ASSUME NEW L, locks' = [locks EXCEPT ![p] = L] PROVE locks'[q] = locks[q]
  BY <1>1, <1>3
<1>4. CASE Start(p)
  <2>1. CASE ConsumeMessage(p) \/ Replay(p)
    BY <1>1, <2>1 DEF ConsumeMessage, Replay
  <2>2. ASSUME NEW k, NEW t, Claim(p, k, t) PROVE tx'[q] = tx[q] /\ locks'[q] = locks[q]
    BY <1>1, <2>2 DEF Claim, Acquire
  <2>3. QED BY <1>4, <2>1, <2>2 DEF Start, PostManualEntry, ReverseEntry, TransitionPeriod
<1>5. CASE End(p)
  BY <1>1, <1>5 DEF End
<1>6. CASE LockHeader(p) \/ ReadOriginal(p) \/ LockForChange(p) \/ LockPeriodRow(p)
           \/ InsertHeader(p) \/ SkipDuplicate(p) \/ InsertLines(p) \/ ApplyCredit(p)
           \/ Return(p)
  BY <1>1, <1>6 DEF LockHeader, ReadOriginal, LockForChange, LockPeriodRow, InsertHeader,
                    SkipDuplicate, InsertLines, ApplyCredit, Return, Acquire
<1>7. QED BY <1>4, <1>5, <1>6 DEF Continue, CommitTransition, CommitNothing, CommitEntry,
                                  Refuse, Crash, Rollback

\* A session without a transaction holds no lock.
LEMMA IdleHoldsNothing ==
  ASSUME IInv, LockOrder, NEW p \in Proc, tx[p].pc \in {"idle", "replied"}
  PROVE  locks[p] = {}
<1>1. locks[p] \subseteq Lock
  BY DEF IInv, TypeOK
<1>2. \A r \in locks[p] : Rank(r) <= 0
  BY DEF LockOrder, Ceiling
<1>3. QED BY <1>1, <1>2, RankType, PeriodsAssumption

------------------------------------------------------------------------------
\* A command starts with its key.
LEMMA StartOrdered ==
  ASSUME IInv, LockOrder, NEW p \in Proc, Start(p)
  PROVE  \A r \in locks'[p] : Rank(r) <= Ceiling(tx'[p])
<1>1. /\ tx \in [Proc -> Transaction] /\ locks \in [Proc -> SUBSET Lock]
      /\ today \in 1..LastPeriod + 1
  BY DEF IInv, TypeOK
<1>2. locks[p] = {}
  BY IdleHoldsNothing DEF Start, PostManualEntry, ReverseEntry, TransitionPeriod,
                          ConsumeMessage, Replay, Claim
<1>3. CASE ConsumeMessage(p) \/ Replay(p)
  BY <1>1, <1>2, <1>3 DEF ConsumeMessage, Replay
<1>4. ASSUME NEW k, NEW t, Claim(p, k, t), 1 <= Ceiling([t EXCEPT !.key = k])
      PROVE  \A r \in locks'[p] : Rank(r) <= Ceiling(tx'[p])
  <2>1. locks'[p] = {KeyLock(k)} /\ tx'[p] = [t EXCEPT !.key = k]
    BY <1>1, <1>2, <1>4 DEF Claim, Acquire
  <2>2. QED BY <1>4, <2>1, Ranks
<1>5. CASE PostManualEntry(p)
  <2>1. PICK k, e, d :
          Claim(p, k, [Idle EXCEPT !.pc = "posting", !.op = "PostManualEntry",
                                   !.entity = e, !.draft = d,
                                   !.date = today, !.next = today])
    BY <1>5 DEF PostManualEntry
  <2>2. 1 <= Ceiling([[Idle EXCEPT !.pc = "posting", !.op = "PostManualEntry",
                                   !.entity = e, !.draft = d,
                                   !.date = today, !.next = today] EXCEPT !.key = k])
    BY <1>1, PeriodsAssumption DEF Ceiling, Idle
  <2>3. QED BY <1>4, <2>1, <2>2
<1>6. CASE ReverseEntry(p)
  <2>1. PICK k, scope, i :
          Claim(p, k, [Idle EXCEPT !.pc = "lockingHeader", !.op = "ReverseEntry",
                                   !.scope = scope, !.original = i])
    BY <1>6 DEF ReverseEntry
  <2>2. 1 <= Ceiling([[Idle EXCEPT !.pc = "lockingHeader", !.op = "ReverseEntry",
                                   !.scope = scope, !.original = i] EXCEPT !.key = k])
    BY DEF Ceiling, Idle
  <2>3. QED BY <1>4, <2>1, <2>2
<1>7. CASE TransitionPeriod(p)
  <2>1. PICK k, op, e, m :
          Claim(p, k, [Idle EXCEPT !.pc = "changing", !.op = op, !.entity = e, !.target = m])
    BY <1>7 DEF TransitionPeriod
  <2>2. 1 <= Ceiling([[Idle EXCEPT !.pc = "changing", !.op = op,
                                   !.entity = e, !.target = m] EXCEPT !.key = k])
    BY DEF Ceiling, Idle
  <2>3. QED BY <1>4, <2>1, <2>2
<1>8. QED BY <1>3, <1>5, <1>6, <1>7 DEF Start

\* Each statement locks what ranks next.
LEMMA ContinueOrdered ==
  ASSUME IInv, LockOrder, NEW p \in Proc, Continue(p) \/ Crash(p)
  PROVE  \A r \in locks'[p] : Rank(r) <= Ceiling(tx'[p])
<1>1. /\ tx \in [Proc -> Transaction] /\ locks \in [Proc -> SUBSET Lock]
      /\ today \in 1..LastPeriod + 1 /\ tx[p] \in Transaction
      /\ Ceiling(tx[p]) \in Nat /\ SessionOK(tx[p], locks[p])
  BY CeilingType DEF IInv, TypeOK
<1>2. tx[p].next \in 0..LastPeriod + 1
  BY <1>1 DEF Transaction
<1>3. CASE End(p)
  BY <1>1, <1>3 DEF End
<1>4. CASE LockHeader(p)
  <2> DEFINE t == [tx[p] EXCEPT !.pc = "reading"]
             R == {EntryLock(x.id) : x \in WithId(tx[p].original)}
  <2>1. tx'[p] = t /\ locks'[p] = locks[p] \cup R
        /\ tx[p].pc = "lockingHeader"
    BY <1>1, <1>4 DEF LockHeader
  <2>2. Ceiling(tx[p]) = 1 /\ Ceiling(tx'[p]) = 2
    BY <1>1, <2>1 DEF Ceiling, Transaction
  <2>3. \A r \in R : Rank(r) <= Ceiling(tx'[p])
    BY <2>2, Ranks
  <2> HIDE DEF t, R
  <2>4. QED BY <1>1, CeilingRises, <2>1, <2>2, <2>3
<1>5. CASE ReadOriginal(p)
  <2>1. PICK e : tx' = [tx EXCEPT ![p].pc = "posting", ![p].entity = e,
                                  ![p].date = today, ![p].next = today]
    BY <1>5 DEF ReadOriginal
  <2> DEFINE t == [tx[p] EXCEPT !.pc = "posting", !.entity = e, !.date = today, !.next = today]
  <2>2. tx'[p] = t /\ locks' = locks /\ tx[p].pc = "reading"
    BY <1>1, <1>5, <2>1 DEF ReadOriginal
  <2>3. Ceiling(tx[p]) = 2 /\ Ceiling(tx'[p]) = today + 1
    BY <1>1, <2>2 DEF Ceiling, Transaction
  <2> HIDE DEF t
  <2>4. QED BY <1>1, CeilingRises, <2>2, <2>3, PeriodsAssumption
<1>6. CASE LockForChange(p)
  <2> DEFINE t == [tx[p] EXCEPT !.pc = "ready"]
             R == {PeriodLock(tx[p].entity, tx[p].target)}
  <2>1. tx'[p] = t /\ locks'[p] = locks[p] \cup R
        /\ tx[p].pc = "changing"
    BY <1>1, <1>6 DEF LockForChange, Acquire
  <2>2. Ceiling(tx[p]) = 1 /\ Ceiling(tx'[p]) = LastPeriod + 4
    BY <1>1, <2>1 DEF Ceiling, Transaction
  <2>3. \A r \in R : Rank(r) <= Ceiling(tx'[p])
    <3>1. tx[p].target \in 0..LastPeriod
      BY <1>1 DEF Transaction
    <3>2. QED BY <2>2, <3>1, Ranks, PeriodsAssumption
  <2> HIDE DEF t, R
  <2>4. QED BY <1>1, CeilingRises, <2>1, <2>2, <2>3, PeriodsAssumption
<1>7. CASE LockPeriodRow(p)
  <2> DEFINE s == tx[p]
             hit == s.target = 0 /\ status[s.entity][s.next] = "OPEN"
             t == [s EXCEPT !.next = s.next + 1,
                            !.target = IF hit THEN s.next ELSE @,
                            !.seq = IF hit THEN lastPostSeq[s.entity][s.next] ELSE @]
             R == {PeriodLock(s.entity, s.next)}
  <2>1. tx'[p] = t /\ locks'[p] = locks[p] \cup R
        /\ s.pc = "posting" /\ s.next \in Periods
    BY <1>1, <1>7 DEF LockPeriodRow, Acquire
  <2>2. Ceiling(s) = s.next + 1 /\ Ceiling(tx'[p]) = s.next + 2
    <3>1. t.pc = "posting" /\ t.next = s.next + 1
      BY <1>1, <2>1 DEF Transaction
    <3> HIDE DEF t
    <3>2. QED BY <1>2, <2>1, <3>1, PeriodsAssumption DEF Ceiling
  <2>3. \A r \in R : Rank(r) <= Ceiling(tx'[p])
    BY <2>1, <2>2, Ranks, PeriodsAssumption
  <2> HIDE DEF t, R
  <2>4. QED BY <1>1, <1>2, CeilingRises, <2>1, <2>2, <2>3, PeriodsAssumption
<1>8. CASE InsertHeader(p)
  <2> DEFINE s == tx[p]
             t == [s EXCEPT !.pc = "insertingLines", !.entry = entrySeq + 1, !.seq = s.seq + 1]
             R == {DocLock(x) : x \in {SourceOf(s)} \ {NoDoc}}
  <2>1. tx'[p] = t /\ locks'[p] = locks[p] \cup R
        /\ s.pc = "posting"
    BY <1>1, <1>8 DEF InsertHeader, Resolved
  <2>2. Ceiling(s) = s.next + 1 /\ Ceiling(tx'[p]) = LastPeriod + 3
    BY <1>1, <2>1 DEF Ceiling, Transaction
  <2>3. \A r \in R : Rank(r) <= Ceiling(tx'[p])
    BY <2>2, Ranks, PeriodsAssumption
  <2> HIDE DEF t, R
  <2>4. QED BY <1>1, <1>2, CeilingRises, <2>1, <2>2, <2>3, PeriodsAssumption
<1>9. CASE SkipDuplicate(p)
  <2> DEFINE t == [tx[p] EXCEPT !.pc = "ready"]
  <2>1. tx'[p] = t /\ locks' = locks /\ tx[p].pc = "posting"
    BY <1>1, <1>9 DEF SkipDuplicate, Resolved
  <2>2. Ceiling(tx[p]) = tx[p].next + 1 /\ Ceiling(tx'[p]) = LastPeriod + 4
    BY <1>1, <2>1 DEF Ceiling, Transaction
  <2> HIDE DEF t
  <2>3. QED BY <1>1, <1>2, CeilingRises, <2>1, <2>2, PeriodsAssumption
<1>10. CASE InsertLines(p)
  <2>1. PICK pc \in {"crediting", "ready"} :
          tx' = [tx EXCEPT ![p] = [tx[p] EXCEPT !.pc = pc]]
    BY <1>10 DEF InsertLines
  <2>2. locks' = locks /\ tx[p].pc = "insertingLines"
    BY <1>10 DEF InsertLines
  <2>3. Ceiling(tx[p]) = LastPeriod + 3 /\ Ceiling(tx'[p]) \in {LastPeriod + 3, LastPeriod + 4}
    BY <1>1, <2>1, <2>2 DEF Ceiling, Transaction
  <2>4. QED BY <1>1, CeilingRises, <2>2, <2>3, PeriodsAssumption
<1>11. CASE ApplyCredit(p)
  <2>1. PICK owed, rejected :
          tx' = [tx EXCEPT ![p] = [tx[p] EXCEPT !.pc = "ready", !.owed = owed,
                                                !.rejected = rejected]]
    BY <1>11 DEF ApplyCredit
  <2> DEFINE R == {CustomerLock(tx[p].msg.customer)}
  <2>2. locks'[p] = locks[p] \cup R /\ tx[p].pc = "crediting"
    BY <1>1, <1>11 DEF ApplyCredit, Acquire
  <2>3. Ceiling(tx[p]) = LastPeriod + 3 /\ Ceiling(tx'[p]) = LastPeriod + 4
    BY <1>1, <2>1, <2>2 DEF Ceiling, Transaction
  <2>4. \A r \in R : Rank(r) <= Ceiling(tx'[p])
    BY <2>3, Ranks, PeriodsAssumption
  <2> HIDE DEF R
  <2>5. QED BY <1>1, CeilingRises, <2>1, <2>2, <2>3, <2>4, PeriodsAssumption
<1>12. CASE Return(p)
  <2>1. locks' = locks /\ locks[p] = {}
    BY <1>12, IdleHoldsNothing DEF Return
  <2>2. QED BY <2>1
<1>13. QED
  BY <1>3, <1>4, <1>5, <1>6, <1>7, <1>8, <1>9, <1>10, <1>11, <1>12
  DEF Continue, CommitTransition, CommitNothing, CommitEntry, Refuse, Crash, Rollback

\* Every step keeps the order of the locks.
LEMMA LockOrderKept == IInv /\ LockOrder /\ [Next]_vars => LockOrder'
<1> SUFFICES ASSUME IInv, LockOrder, [Next]_vars PROVE LockOrder'
  OBVIOUS
<1>1. ASSUME NEW p \in Proc, Start(p) \/ Continue(p) \/ Crash(p) PROVE LockOrder'
  <2>1. \A r \in locks'[p] : Rank(r) <= Ceiling(tx'[p])
    BY <1>1, StartOrdered, ContinueOrdered
  <2>2. ASSUME NEW q \in Proc \ {p} PROVE \A r \in locks'[q] : Rank(r) <= Ceiling(tx'[q])
    BY <1>1, <2>2, OthersStay DEF LockOrder, IInv
  <2>3. QED BY <2>1, <2>2 DEF LockOrder, Rank, Ceiling
<1>2. CASE ConsumeSnapshot \/ NextPeriodBegins \/ UNCHANGED vars
  <2>1. UNCHANGED <<tx, locks>>
    BY <1>2 DEF ConsumeSnapshot, NextPeriodBegins, vars
  <2>2. QED BY <2>1 DEF LockOrder, Rank, Ceiling
<1>3. QED BY <1>1, <1>2 DEF Next

\* In every reachable state, every session has locked no more than what ranks
\* below the statement it is at.
LEMMA Ordered == Spec => []LockOrder
<1>1. Init => LockOrder
  BY DEF Init, LockOrder
<1>2. QED BY <1>1, LockOrderKept, Invariance, PTL DEF Spec

------------------------------------------------------------------------------
\* A nonempty set of numbers up to n has a greatest one.
LEMMA HasGreatest ==
  ASSUME NEW n \in Nat, NEW W \in SUBSET (1..n), W # {}
  PROVE  \E x \in W : \A y \in W : y <= x
<1> DEFINE Above(x) == {y \in 1..n : x < y}
           T == {Above(x) : x \in W}
<1>1. IsFiniteSet(1..n)
  BY FS_Interval
<1>2. IsWellFoundedOn(StrictSubsetOrdering(1..n), SUBSET (1..n))
  BY <1>1, FS_StrictSubsetOrderingWellFounded, FS_FiniteSubsetsOfFinite
<1>3. T \subseteq SUBSET (1..n) /\ T # {}
  OBVIOUS
<1>4. PICK U \in T : \A V \in T : ~(<<V, U>> \in StrictSubsetOrdering(1..n))
  <2> HIDE DEF T
  <2>1. QED BY <1>2, <1>3, WFMin
<1>5. PICK x \in W : U = Above(x)
  OBVIOUS
<1>6. ASSUME NEW y \in W, ~(y <= x) PROVE FALSE
  <2>1. Above(y) \subseteq Above(x) /\ Above(y) # Above(x)
    <3>1. y \in Above(x) /\ y \notin Above(y)
      BY <1>6
    <3>2. \A z \in Above(y) : z \in Above(x)
      BY <1>6
    <3>3. QED BY <3>1, <3>2
  <2>2. Above(y) \in T /\ Above(x) \in SUBSET (1..n) /\ Above(y) \in SUBSET (1..n)
    OBVIOUS
  <2>3. <<Above(y), Above(x)>> \in StrictSubsetOrdering(1..n)
    <3> HIDE DEF Above
    <3>1. QED BY <2>1, <2>2 DEF StrictSubsetOrdering
  <2>4. QED BY <1>4, <1>5, <2>2, <2>3
<1>7. QED BY <1>6

------------------------------------------------------------------------------
\* What a session has still to lock ranks above all that it holds.
LEMMA WantsAbove ==
  ASSUME IInv, LockOrder, NEW p \in Proc, NEW w \in Wants(p)
  PROVE  w \in Lock /\ \A r \in locks[p] : Rank(r) < Rank(w)
<1> DEFINE s == tx[p]
<1>1. /\ s \in Transaction /\ locks[p] \subseteq Lock /\ SessionOK(s, locks[p])
      /\ Ceiling(s) \in Nat
  BY CeilingType DEF IInv, TypeOK
<1>2. /\ s.next \in 0..LastPeriod + 1 /\ s.date \in 0..LastPeriod + 1
      /\ s.target \in 0..LastPeriod /\ s.original \in Nat /\ s.entity \in Entities
      /\ s.msg \in Messages \cup {NoMessage}
  BY <1>1 DEF Transaction
<1>3. \A r \in locks[p] : Rank(r) \in Nat /\ Rank(r) <= Ceiling(s)
  BY <1>1, RankType, PeriodsAssumption DEF LockOrder
<1>4. ASSUME w \in Lock, Ceiling(s) < Rank(w)
      PROVE  w \in Lock /\ \A r \in locks[p] : Rank(r) < Rank(w)
  BY <1>1, <1>3, <1>4, RankType, PeriodsAssumption
<1>5. CASE s.pc = "lockingHeader"
  <2>1. w = EntryLock(s.original) /\ Ceiling(s) = 1
    BY <1>5 DEF Wants, Ceiling, Resolved
  <2>2. w \in Lock
    BY <1>2, <2>1 DEF EntryLock, Lock
  <2>3. QED BY <1>4, <2>1, <2>2, Ranks
<1>6. CASE s.pc = "changing"
  <2>1. w = PeriodLock(s.entity, s.target) /\ Ceiling(s) = 1 /\ s.target \in Periods
    <3>1. w = PeriodLock(s.entity, s.target) /\ Ceiling(s) = 1
      BY <1>6 DEF Wants, Ceiling, Resolved
    <3>2. s.target # 0
      BY <1>1, <1>6 DEF SessionOK, StageOK
    <3>3. QED BY <1>2, <3>1, <3>2, PeriodsAssumption
  <2>2. w \in Lock
    BY <1>2, <2>1 DEF PeriodLock, Lock
  <2>3. QED BY <1>4, <2>1, <2>2, Ranks, PeriodsAssumption
<1>7. CASE s.pc = "posting" /\ s.next <= LastPeriod
  <2>1. PICK m \in s.date..LastPeriod : w = PeriodLock(s.entity, m) /\ w \notin locks[p]
    <3>1. Wants(p) = {PeriodLock(s.entity, m) : m \in s.date..LastPeriod} \ locks[p]
      <4>1. ~(s.next > LastPeriod)
        BY <1>2, <1>7, PeriodsAssumption
      <4>2. QED BY <1>7, <4>1 DEF Wants, Resolved
    <3>2. QED BY <3>1
  <2>2. Ceiling(s) = s.next + 1
    BY <1>7 DEF Ceiling
  <2>3. s.date \in 1..s.next /\ \A i \in s.date..(s.next - 1) : PeriodLock(s.entity, i) \in locks[p]
    BY <1>1, <1>7 DEF SessionOK, StageOK, ScanOK, Booking, Transaction
  <2>4. s.next <= m /\ m \in Periods
    BY <1>2, <2>1, <2>3, PeriodsAssumption
  <2>5. w \in Lock
    BY <1>2, <2>1, <2>4 DEF PeriodLock, Lock
  <2>6. Rank(w) = m + 2
    BY <2>1, Ranks
  <2>7. QED BY <1>2, <1>4, <2>2, <2>4, <2>5, <2>6, PeriodsAssumption
<1>8. CASE Resolved(s)
  <2>1. w = DocLock(SourceOf(s)) /\ SourceOf(s) # NoDoc /\ Ceiling(s) = s.next + 1
    BY <1>2, <1>8, PeriodsAssumption DEF Wants, Ceiling, Resolved
  <2>2. w \in Lock
    BY <1>2, <2>1 DEF DocLock, Lock, SourceOf, Docs
  <2>3. QED BY <1>2, <1>4, <2>1, <2>2, Ranks, PeriodsAssumption
<1>9. CASE s.pc = "crediting"
  <2>1. w = CustomerLock(s.msg.customer) /\ Ceiling(s) = LastPeriod + 3
    BY <1>9 DEF Wants, Ceiling, Resolved
  <2>2. s.msg.customer \in Customers
    BY <1>1, <1>9, EventsAssumption DEF SessionOK, StageOK
  <2>3. w \in Lock
    BY <2>1, <2>2 DEF CustomerLock, Lock
  <2>4. QED BY <1>4, <2>1, <2>3, Ranks, PeriodsAssumption
<1>10. QED BY <1>5, <1>6, <1>7, <1>8, <1>9 DEF Wants

\* Locks taken in order let nobody wait in a circle.
LEMMA NoCircle == IInv /\ LockOrder => NoWaitCycle
<1> SUFFICES ASSUME IInv, LockOrder, NEW S \in (SUBSET Proc) \ {{}},
                    \A p \in S : \E q \in S : WaitsFor(p, q)
             PROVE  FALSE
  BY DEF NoWaitCycle, IInv
<1> DEFINE Awaited == {r \in Lock : \E p, q \in S : r \in Wants(p) /\ r \in locks[q]}
           W == {Rank(r) : r \in Awaited}
<1>1. ASSUME NEW p \in S PROVE \E r \in Awaited : r \in Wants(p)
  <2>1. PICK q \in S : Wants(p) \cap locks[q] # {}
    BY <1>1 DEF WaitsFor
  <2>2. PICK r : r \in Wants(p) /\ r \in locks[q]
    BY <2>1
  <2>3. QED BY <2>2, WantsAbove
<1>2. W \subseteq 1..(LastPeriod + 4) /\ W # {}
  <2>1. Awaited # {}
    BY <1>1
  <2>2. \A r \in Awaited : Rank(r) \in 1..(LastPeriod + 4)
    BY RankType
  <2> HIDE DEF Awaited
  <2>3. QED BY <2>1, <2>2
<1>3. PICK x \in W : \A y \in W : y <= x
  <2> HIDE DEF W
  <2>1. LastPeriod + 4 \in Nat
    BY PeriodsAssumption
  <2>2. QED BY <1>2, <2>1, HasGreatest
<1>4. PICK p \in S, q \in S, r \in Lock : r \in Wants(p) /\ r \in locks[q] /\ Rank(r) = x
  OBVIOUS
<1>5. PICK w \in Awaited : w \in Wants(q)
  BY <1>1
<1>6. Rank(r) < Rank(w)
  BY <1>4, <1>5, WantsAbove
<1>7. Rank(w) <= x
  BY <1>3
<1>8. QED BY <1>4, <1>6, <1>7, RankType, PeriodsAssumption

\* No two sessions hold a lock at once and no set of sessions wait for one
\* another (lockOpenPeriodForDate's ORDER BY start_date, and the order of the
\* statements in postEntryTx).
THEOREM NobodyWaitsInACircle == Spec => []NoWaitCycle
BY NoCircle, Invariance, Ordered, PTL

------------------------------------------------------------------------------
(* What the sessions leave in the tables: keys and their results,           *)
(* reversals, credit, outbox and snapshots.  What a session is about to     *)
(* commit fits the tables (EffectOK), because it holds the row lock of      *)
(* whatever could come to contradict it.                                    *)

\* A session without a transaction is about to commit nothing.
LEMMA IdleEffect == \A L : EffectOK(Idle, L)
BY DEF Idle, EffectOK, KeyOK, NumberOK, OriginalOK, CreditOK, Running

\* The empty tables are in order.
LEMMA InitEffect == Init => EffectInv
<1> SUFFICES ASSUME Init PROVE EffectInv
  OBVIOUS
<1>1. \A p \in Proc : EffectOK(tx[p], locks[p])
  BY IdleEffect DEF Init
<1>2. NumbersOK /\ ResultsOK /\ ReceivablesOK /\ OutboxMatchesBooks /\ ReversedOnce
  BY DEF Init, NumbersOK, ResultsOK, ReceivablesOK, OutboxMatchesBooks, ReversedOnce,
         PostedFrom, Idle
<1>3. SnapshotsOK
  BY EventsAssumption DEF Init, SnapshotsOK, Limits
<1>4. NoSilentOverrun
  <2>1. ASSUME NEW c \in Customers PROVE exposure[c] = 0 /\ KnownLimits[c].limit \in Nat
                                        /\ KnownLimits[c].limit \in Limits(c)
    BY EventsAssumption DEF Init, Limits
  <2>2. QED BY <2>1 DEF NoSilentOverrun
<1>5. QED BY <1>1, <1>2, <1>3, <1>4 DEF EffectInv

------------------------------------------------------------------------------
\* A step of one session that changes no table keeps the invariant, when what
\* the session is about to commit fits the tables, under a number of its own.
LEMMA LocalEffect ==
  ASSUME IInv, EffectInv, NEW p \in Proc, UNCHANGED tables,
         entrySeq' \in Nat, entrySeq <= entrySeq',
         \A q \in Proc \ {p} : tx'[q] = tx[q] /\ locks'[q] = locks[q],
         EffectOK(tx[p], locks[p])',
         tx'[p].entry # 0 => \A q \in Proc \ {p} : tx[q].entry # tx'[p].entry
  PROVE  EffectInv'
<1>1. /\ tx \in [Proc -> Transaction] /\ entries \subseteq Entry /\ entrySeq \in Nat
      /\ \A q \in Proc : EffectOK(tx[q], locks[q])
  BY DEF IInv, TypeOK, EffectInv
<1>2. ASSUME NEW q \in Proc \ {p} PROVE EffectOK(tx[q], locks[q])'
  <2>1. tx'[q] = tx[q] /\ locks'[q] = locks[q] /\ EffectOK(tx[q], locks[q])
    BY <1>1
  <2>2. tx[q].entry \in Nat
    BY <1>1 DEF Transaction
  <2>3. NumberOK(tx[q])'
    BY <2>1, <2>2, <1>1 DEF EffectOK, NumberOK, WithId, tables
  <2>4. KeyOK(tx[q], locks[q])' /\ OriginalOK(tx[q], locks[q])' /\ CreditOK(tx[q], locks[q])'
    BY <2>1 DEF EffectOK, KeyOK, OriginalOK, CreditOK, Running, Result, WithId, ReversalsOf,
                KeyLock, EntryLock, CustomerLock, IsOrder, Limits, tables
  <2>5. QED BY <2>3, <2>4 DEF EffectOK
<1>3. NumbersOK'
  <2>1. \A x \in entries : x.id \in Nat
    BY <1>1 DEF Entry
  <2>2. \A x \in entries : x.id <= entrySeq'
    BY <1>1, <2>1 DEF EffectInv, NumbersOK
  <2>3. QED BY <2>2 DEF EffectInv, NumbersOK, tables
<1>4. ResultsOK' /\ ReceivablesOK' /\ SnapshotsOK'
  BY DEF EffectInv, ResultsOK, ReceivablesOK, SnapshotsOK, WithId, PostedFrom, Limits, tables
<1>5. OutboxMatchesBooks' /\ NoSilentOverrun' /\ (~GuessedIds => ReversedOnce')
  BY DEF EffectInv, OutboxMatchesBooks, NoSilentOverrun, ReversedOnce, WithId, PostedFrom,
         ReversalsOf, Limits, tables
<1>6. QED BY <1>2, <1>3, <1>4, <1>5 DEF EffectInv

\* The same for a session that only goes on with what it has begun.
LEMMA CarriedEffect ==
  ASSUME IInv, EffectInv, NEW p \in Proc, UNCHANGED tables,
         Start(p) \/ Continue(p) \/ Crash(p),
         entrySeq' \in Nat, entrySeq <= entrySeq', NEW t, tx'[p] = t,
         locks[p] \subseteq locks'[p], Running(tx[p]),
         t.key = tx[p].key, t.op = tx[p].op, t.msg = tx[p].msg, t.original = tx[p].original,
         t.entry = tx[p].entry, t.rejected = tx[p].rejected,
         tx[p].pc \in {"lockingHeader", "reading"} => OriginalOK(t, locks'[p]),
         tx[p].pc \notin {"lockingHeader", "reading"} =>
           t.entity = tx[p].entity /\ t.pc \notin {"lockingHeader", "reading"},
         t.pc = "crediting" => IsOrder(t),
         t.pc = "ready" /\ t.entry # 0 => ~IsOrder(t)
  PROVE  EffectInv'
<1>1. \A q \in Proc \ {p} : tx'[q] = tx[q] /\ locks'[q] = locks[q]
  BY OthersStay DEF IInv
<1>2. /\ EffectOK(tx[p], locks[p]) /\ tx[p] \in Transaction /\ entrySeq \in Nat
      /\ entries \subseteq Entry
  BY DEF EffectInv, IInv, TypeOK
<1>3. KeyOK(tx[p], locks[p])'
  BY <1>2 DEF EffectOK, KeyOK, Running, Result, KeyLock, tables
<1>4. NumberOK(tx[p])'
  <2>1. tx[p].entry \in Nat
    BY <1>2 DEF Transaction
  <2>2. QED BY <1>2, <2>1 DEF EffectOK, NumberOK, WithId, tables
<1>5. OriginalOK(t, locks'[p])
  BY <1>2 DEF EffectOK, OriginalOK, Running
<1>6. OriginalOK(tx[p], locks[p])'
  BY <1>5 DEF OriginalOK, Running, WithId, ReversalsOf, EntryLock, tables
<1>7. CreditOK(tx[p], locks[p])'
  BY <1>2 DEF EffectOK, CreditOK, IsOrder, Limits
<1>8. tx'[p].entry # 0 => \A q \in Proc \ {p} : tx[q].entry # tx'[p].entry
  BY DEF EffectInv, NumbersOK
<1>9. QED BY <1>1, <1>3, <1>4, <1>6, <1>7, <1>8, LocalEffect DEF EffectOK

\* The same for a session that ends without a trace, or has not begun.
LEMMA IdleKeepsEffect ==
  ASSUME IInv, EffectInv, NEW p \in Proc, UNCHANGED tables,
         \A q \in Proc \ {p} : tx'[q] = tx[q] /\ locks'[q] = locks[q],
         entrySeq' = entrySeq, tx'[p].entry = 0, ~Running(tx'[p]),
         tx'[p].original = 0, tx'[p].rejected = FALSE
  PROVE  EffectInv'
<1>1. EffectOK(tx[p], locks[p])'
  BY DEF EffectOK, KeyOK, NumberOK, OriginalOK, CreditOK, Running
<1>2. entrySeq' \in Nat /\ entrySeq <= entrySeq'
  BY DEF IInv, TypeOK
<1>3. QED BY <1>1, <1>2, LocalEffect
------------------------------------------------------------------------------
\* Starting a command: its key is free and has no result.
LEMMA ClaimEffect ==
  ASSUME IInv, EffectInv, NEW p \in Proc, NEW k \in Keys, NEW t \in Transaction, Start(p),
         Claim(p, k, t), Running(t), t.pc # "crediting", t.entry = 0, t.rejected = FALSE,
         t.key = NoKey, OriginalOK(t, locks[p] \cup {KeyLock(k)})
  PROVE  EffectInv'
<1> DEFINE u == [t EXCEPT !.key = k]
<1>1. /\ \A q \in Proc \ {p} : tx'[q] = tx[q] /\ locks'[q] = locks[q]
      /\ tx \in [Proc -> Transaction] /\ locks \in [Proc -> SUBSET Lock] /\ entrySeq \in Nat
  BY OthersStay DEF IInv, TypeOK
<1>2. /\ tx'[p] = u /\ locks'[p] = locks[p] \cup {KeyLock(k)} /\ Result(k) = {}
      /\ UNCHANGED <<tables, entrySeq>>
  BY <1>1 DEF Claim, Acquire
<1>3. u.pc = t.pc /\ u.op = t.op /\ u.key = k /\ u.entry = 0 /\ u.original = t.original
      /\ u.entity = t.entity /\ u.rejected = FALSE
  BY DEF Transaction
<1> HIDE DEF u
<1>4. KeyOK(tx[p], locks[p])' /\ NumberOK(tx[p])'
  BY <1>2, <1>3 DEF KeyOK, NumberOK, Result, KeyLock, tables
<1>5. u.pc # "crediting"
  BY <1>3
<1>6. CreditOK(tx[p], locks[p])'
  BY <1>2, <1>3, <1>5 DEF CreditOK
<1>7. OriginalOK(u, locks'[p])
  BY <1>2, <1>3 DEF OriginalOK, Running
<1>8. OriginalOK(tx[p], locks[p])'
  BY <1>2, <1>7 DEF OriginalOK, Running, WithId, ReversalsOf, EntryLock, tables
<1>9. EffectOK(tx[p], locks[p])'
  BY <1>4, <1>6, <1>8 DEF EffectOK
<1>10. UNCHANGED tables /\ entrySeq' \in Nat /\ entrySeq <= entrySeq' /\ tx'[p].entry = 0
  BY <1>1, <1>2, <1>3
<1>11. QED BY <1>1, <1>9, <1>10, LocalEffect

\* A session that starts has nothing to commit yet.
LEMMA StartEffect ==
  ASSUME IInv, EffectInv, NEW p \in Proc, Start(p)
  PROVE  EffectInv'
<1>1. /\ today \in 0..LastPeriod + 1 /\ entries \subseteq Entry
      /\ tx \in [Proc -> Transaction] /\ locks \in [Proc -> SUBSET Lock]
      /\ \A q \in Proc \ {p} : tx'[q] = tx[q] /\ locks'[q] = locks[q]
  BY OthersStay, PeriodsAssumption DEF IInv, TypeOK
<1>2. CASE PostManualEntry(p)
  <2>1. PICK k \in Keys, scope \in Scopes, d \in Drafts : \E e \in scope :
          Claim(p, k, [Idle EXCEPT !.pc = "posting", !.op = "PostManualEntry",
                                   !.entity = e, !.draft = d,
                                   !.date = today, !.next = today])
    BY <1>2 DEF PostManualEntry
  <2>2. PICK e \in Entities :
          Claim(p, k, [Idle EXCEPT !.pc = "posting", !.op = "PostManualEntry",
                                   !.entity = e, !.draft = d,
                                   !.date = today, !.next = today])
    BY <2>1, NamesAssumption
  <2> DEFINE t == [Idle EXCEPT !.pc = "posting", !.op = "PostManualEntry",
                               !.entity = e, !.draft = d, !.date = today, !.next = today]
  <2>3. t \in Transaction
    BY <1>1, NamesAssumption, IdleType DEF Transaction, EntryCommands
  <2>4. Running(t) /\ t.pc # "crediting" /\ t.entry = 0 /\ t.rejected = FALSE /\ t.key = NoKey
        /\ t.op = "PostManualEntry" /\ t.original = 0
    BY DEF Running, Idle
  <2> HIDE DEF t
  <2>5. \A L : OriginalOK(t, L)
    BY <2>4 DEF OriginalOK
  <2>6. Claim(p, k, t)
    BY <2>2 DEF t
  <2>7. QED BY <2>3, <2>4, <2>5, <2>6, ClaimEffect
<1>3. CASE ReverseEntry(p)
  <2>1. PICK k \in Keys, scope \in Scopes, i \in Nat \ {0} :
          /\ ~GuessedIds => WithId(i) # {}
          /\ Claim(p, k, [Idle EXCEPT !.pc = "lockingHeader", !.op = "ReverseEntry",
                                      !.scope = scope, !.original = i])
    <3>1. \A x \in entries : x.id \in Nat \ {0} /\ WithId(x.id) # {}
      BY <1>1 DEF Entry, WithId
    <3>2. \A i \in 1..MaxEntrySeq : i \in Nat \ {0}
      OBVIOUS
    <3>3. QED BY <1>3, <3>1, <3>2 DEF ReverseEntry
  <2> DEFINE t == [Idle EXCEPT !.pc = "lockingHeader", !.op = "ReverseEntry",
                               !.scope = scope, !.original = i]
  <2>2. scope \in SUBSET Entities
    BY NamesAssumption
  <2>3. t \in Transaction
    BY <2>2, IdleType DEF Transaction, PeriodCommands, EntryCommands
  <2>4. Running(t) /\ t.pc # "crediting" /\ t.entry = 0 /\ t.rejected = FALSE /\ t.key = NoKey
        /\ t.op = "ReverseEntry" /\ t.original = i /\ t.pc = "lockingHeader"
    BY DEF Running, Idle
  <2> HIDE DEF t
  <2>5. \A L : OriginalOK(t, L)
    BY <2>1, <2>4 DEF OriginalOK
  <2>6. Claim(p, k, t)
    BY <2>1 DEF t
  <2>7. QED BY <2>3, <2>4, <2>5, <2>6, ClaimEffect
<1>4. CASE TransitionPeriod(p)
  <2>1. PICK op \in PeriodCommands, k \in Keys, scope \in Scopes, m \in Periods :
          \E e \in scope : Claim(p, k, [Idle EXCEPT !.pc = "changing", !.op = op,
                                                    !.entity = e, !.target = m])
    BY <1>4 DEF TransitionPeriod
  <2>2. PICK e \in Entities : Claim(p, k, [Idle EXCEPT !.pc = "changing", !.op = op,
                                                       !.entity = e, !.target = m])
    BY <2>1, NamesAssumption
  <2> DEFINE t == [Idle EXCEPT !.pc = "changing", !.op = op, !.entity = e, !.target = m]
  <2>3. t \in Transaction
    <3>1. m \in 0..LastPeriod
      BY PeriodsAssumption
    <3>2. QED BY <3>1, IdleType DEF Transaction
  <2>4. Running(t) /\ t.pc # "crediting" /\ t.entry = 0 /\ t.rejected = FALSE /\ t.key = NoKey
        /\ t.op \in PeriodCommands /\ t.original = 0
    BY DEF Running, Idle
  <2> HIDE DEF t
  <2>5. \A L : OriginalOK(t, L)
    BY <2>4 DEF OriginalOK, PeriodCommands
  <2>6. Claim(p, k, t)
    BY <2>2 DEF t
  <2>7. QED BY <2>3, <2>4, <2>5, <2>6, ClaimEffect
<1>5. CASE ConsumeMessage(p)
  <2>1. PICK m \in Messages :
          tx'[p] = [Idle EXCEPT !.pc = IF m.kind = "zeroMovement" THEN "ready" ELSE "posting",
                                !.op = "consume", !.msg = m, !.draft = m.draft,
                                !.date = today, !.next = today]
    BY <1>1, <1>5 DEF ConsumeMessage
  <2>2. UNCHANGED <<tables, entrySeq>>
    BY <1>5 DEF ConsumeMessage
  <2>3. tx'[p].key = NoKey /\ tx'[p].entry = 0 /\ tx'[p].original = 0
        /\ tx'[p].rejected = FALSE /\ tx'[p].op = "consume" /\ tx'[p].pc # "crediting"
    BY <2>1 DEF Idle
  <2>4. EffectOK(tx[p], locks[p])'
    BY <2>3 DEF EffectOK, KeyOK, NumberOK, OriginalOK, CreditOK, Running
  <2>5. entrySeq' \in Nat /\ entrySeq <= entrySeq'
    BY <2>2 DEF IInv, TypeOK
  <2>6. QED BY <1>1, <2>2, <2>3, <2>4, <2>5, LocalEffect
<1>6. CASE Replay(p)
  <2>1. PICK op \in Commands, k \in Keys :
          tx'[p] = [Idle EXCEPT !.pc = "replied", !.op = op, !.key = k]
    BY <1>1, <1>6 DEF Replay
  <2>2. tx'[p].entry = 0 /\ ~Running(tx'[p]) /\ tx'[p].original = 0 /\ tx'[p].rejected = FALSE
    BY <2>1 DEF Idle, Running
  <2>3. QED BY <1>1, <1>6, <2>2, IdleKeepsEffect DEF Replay
<1>7. QED BY <1>2, <1>3, <1>4, <1>5, <1>6 DEF Start

------------------------------------------------------------------------------
\* ReverseEntry has found its original when it has locked it: the original was
\* committed, so it is there to lock.
LEMMA LockHeaderEffect ==
  ASSUME IInv, EffectInv, NEW p \in Proc, LockHeader(p)
  PROVE  EffectInv'
<1> DEFINE s == tx[p]
           t == [s EXCEPT !.pc = "reading"]
           L == locks[p] \cup {EntryLock(x.id) : x \in WithId(s.original)}
<1>1. /\ s \in Transaction /\ EffectOK(s, locks[p]) /\ SessionOK(s, locks[p])
      /\ tx \in [Proc -> Transaction] /\ locks \in [Proc -> SUBSET Lock] /\ entrySeq \in Nat
  BY DEF IInv, TypeOK, EffectInv
<1>2. /\ s.pc = "lockingHeader" /\ tx'[p] = t /\ locks'[p] = L
      /\ UNCHANGED <<tables, entrySeq>>
  BY <1>1 DEF LockHeader
<1>3. /\ t.pc = "reading" /\ t.key = s.key /\ t.op = s.op /\ t.msg = s.msg
      /\ t.original = s.original /\ t.entry = s.entry /\ t.rejected = s.rejected
  BY <1>1 DEF Transaction
<1>4. WithId(s.original) # {} => EntryLock(s.original) \in L
  BY DEF WithId
<1> HIDE DEF t, L
<1>5. OriginalOK(t, L)
  BY <1>1, <1>2, <1>3, <1>4 DEF EffectOK, OriginalOK, Running
<1>6. locks[p] \subseteq L /\ Running(s)
  BY <1>2 DEF L, Running
<1>7. QED BY <1>1, <1>2, <1>3, <1>5, <1>6, CarriedEffect DEF Continue

\* ... and nobody else has reversed it when it has read it under that lock.
LEMMA ReadOriginalEffect ==
  ASSUME IInv, EffectInv, NEW p \in Proc, ReadOriginal(p)
  PROVE  EffectInv'
<1> DEFINE s == tx[p]
<1>1. /\ s \in Transaction /\ EffectOK(s, locks[p]) /\ SessionOK(s, locks[p])
      /\ tx \in [Proc -> Transaction] /\ locks \in [Proc -> SUBSET Lock] /\ entrySeq \in Nat
  BY DEF IInv, TypeOK, EffectInv
<1>2. PICK x \in WithId(s.original) :
        /\ Reversible(x, s.scope)
        /\ tx' = [tx EXCEPT ![p].pc = "posting", ![p].entity = x.entity,
                            ![p].date = today, ![p].next = today]
  BY DEF ReadOriginal
<1> DEFINE t == [s EXCEPT !.pc = "posting", !.entity = x.entity, !.date = today, !.next = today]
<1>3. s.pc = "reading" /\ tx'[p] = t /\ locks'[p] = locks[p] /\ UNCHANGED <<tables, entrySeq>>
  BY <1>1, <1>2 DEF ReadOriginal
<1>4. /\ t.pc = "posting" /\ t.key = s.key /\ t.op = s.op /\ t.msg = s.msg
      /\ t.original = s.original /\ t.entry = s.entry /\ t.rejected = s.rejected
      /\ t.entity = x.entity
  BY <1>1 DEF Transaction
<1> HIDE DEF t
<1>5. OriginalOK(t, locks[p])
  <2>1. ReversalsOf(s.original) = {} /\ x.id = s.original
    BY <1>2 DEF Reversible, WithId
  <2>2. QED BY <1>1, <1>2, <1>3, <1>4, <2>1 DEF EffectOK, OriginalOK, Running
<1>6. Running(s)
  BY <1>3 DEF Running
<1>7. QED BY <1>1, <1>3, <1>4, <1>5, <1>6, CarriedEffect DEF Continue

\* The statements that neither draw an entry number nor judge a credit.
LEMMA PlainStatementEffect ==
  ASSUME IInv, EffectInv, NEW p \in Proc,
         LockForChange(p) \/ LockPeriodRow(p) \/ SkipDuplicate(p) \/ InsertLines(p)
  PROVE  EffectInv'
<1> DEFINE s == tx[p]
<1>1. /\ s \in Transaction /\ EffectOK(s, locks[p]) /\ SessionOK(s, locks[p])
      /\ tx \in [Proc -> Transaction] /\ locks \in [Proc -> SUBSET Lock] /\ entrySeq \in Nat
  BY DEF IInv, TypeOK, EffectInv
<1>2. /\ UNCHANGED tables /\ entrySeq' \in Nat /\ entrySeq <= entrySeq'
      /\ locks[p] \subseteq locks'[p] /\ Running(s) /\ s.pc \notin {"lockingHeader", "reading"}
      /\ Continue(p)
  BY <1>1 DEF LockForChange, LockPeriodRow, SkipDuplicate, InsertLines, Acquire, Running,
              Resolved, Continue
<1>3. CASE LockForChange(p)
  <2> DEFINE t == [s EXCEPT !.pc = "ready"]
  <2>1. tx'[p] = t /\ s.pc = "changing"
    BY <1>1, <1>3 DEF LockForChange
  <2>2. /\ t.pc = "ready" /\ t.key = s.key /\ t.op = s.op /\ t.msg = s.msg
        /\ t.original = s.original /\ t.entry = s.entry /\ t.rejected = s.rejected
        /\ t.entity = s.entity
    BY <1>1 DEF Transaction
  <2> HIDE DEF t
  <2>3. t.entry = 0
    BY <1>1, <2>1, <2>2 DEF SessionOK, StageOK
  <2>4. QED BY <1>2, <2>1, <2>2, <2>3, CarriedEffect
<1>4. CASE LockPeriodRow(p)
  <2> DEFINE hit == s.target = 0 /\ status[s.entity][s.next] = "OPEN"
             t == [s EXCEPT !.next = s.next + 1,
                            !.target = IF hit THEN s.next ELSE @,
                            !.seq = IF hit THEN lastPostSeq[s.entity][s.next] ELSE @]
  <2>1. tx'[p] = t /\ s.pc = "posting"
    BY <1>1, <1>4 DEF LockPeriodRow
  <2>2. /\ t.pc = s.pc /\ t.key = s.key /\ t.op = s.op /\ t.msg = s.msg
        /\ t.original = s.original /\ t.entry = s.entry /\ t.rejected = s.rejected
        /\ t.entity = s.entity
    BY <1>1 DEF Transaction
  <2> HIDE DEF t
  <2>3. QED BY <1>2, <2>1, <2>2, CarriedEffect
<1>5. CASE SkipDuplicate(p)
  <2> DEFINE t == [s EXCEPT !.pc = "ready"]
  <2>1. tx'[p] = t /\ s.pc = "posting"
    BY <1>1, <1>5 DEF SkipDuplicate, Resolved
  <2>2. /\ t.pc = "ready" /\ t.key = s.key /\ t.op = s.op /\ t.msg = s.msg
        /\ t.original = s.original /\ t.entry = s.entry /\ t.rejected = s.rejected
        /\ t.entity = s.entity
    BY <1>1 DEF Transaction
  <2> HIDE DEF t
  <2>3. t.entry = 0
    BY <1>1, <2>1, <2>2 DEF SessionOK, StageOK
  <2>4. QED BY <1>2, <2>1, <2>2, <2>3, CarriedEffect
<1>6. CASE InsertLines(p)
  <2> DEFINE to == IF s.op = "consume" /\ s.msg.kind = "order" THEN "crediting" ELSE "ready"
             t == [s EXCEPT !.pc = to]
  <2>1. tx'[p] = t /\ s.pc = "insertingLines"
    BY <1>1, <1>6 DEF InsertLines
  <2>2. /\ t.pc = to /\ t.key = s.key /\ t.op = s.op /\ t.msg = s.msg
        /\ t.original = s.original /\ t.entry = s.entry /\ t.rejected = s.rejected
        /\ t.entity = s.entity
    BY <1>1 DEF Transaction
  <2> HIDE DEF t
  <2>3. (t.pc = "ready" => ~IsOrder(t)) /\ (t.pc = "crediting" => IsOrder(t))
    BY <2>2 DEF IsOrder
  <2>4. QED BY <1>2, <2>1, <2>2, <2>3, CarriedEffect
<1>7. QED BY <1>3, <1>4, <1>5, <1>6

\* The header takes a number that no entry has.
LEMMA InsertHeaderEffect ==
  ASSUME IInv, EffectInv, NEW p \in Proc, InsertHeader(p)
  PROVE  EffectInv'
<1> DEFINE s == tx[p]
           t == [s EXCEPT !.pc = "insertingLines", !.entry = entrySeq + 1, !.seq = s.seq + 1]
<1>1. /\ s \in Transaction /\ EffectOK(s, locks[p]) /\ entries \subseteq Entry
      /\ tx \in [Proc -> Transaction] /\ locks \in [Proc -> SUBSET Lock] /\ entrySeq \in Nat
      /\ \A q \in Proc \ {p} : tx'[q] = tx[q] /\ locks'[q] = locks[q]
  BY OthersStay DEF IInv, TypeOK, EffectInv, Continue
<1>2. /\ UNCHANGED tables /\ entrySeq' = entrySeq + 1 /\ tx'[p] = t /\ locks[p] \subseteq locks'[p]
      /\ s.pc = "posting"
  BY <1>1 DEF InsertHeader, Resolved
<1>3. /\ t.pc = "insertingLines" /\ t.key = s.key /\ t.op = s.op /\ t.msg = s.msg
      /\ t.original = s.original /\ t.entry = entrySeq + 1 /\ t.rejected = s.rejected
      /\ t.entity = s.entity
  BY <1>1 DEF Transaction
<1> HIDE DEF t
<1>4. \A q \in Proc : tx[q].entry \in Nat /\ (tx[q].entry # 0 => tx[q].entry <= entrySeq)
  BY <1>1 DEF EffectInv, EffectOK, NumberOK, Transaction
<1>5. \A x \in entries : x.id \in Nat /\ x.id <= entrySeq
  BY <1>1 DEF EffectInv, NumbersOK, Entry
<1>6. NumberOK(tx[p])'
  BY <1>1, <1>2, <1>3, <1>5 DEF NumberOK, WithId, tables
<1>7. KeyOK(tx[p], locks[p])'
  BY <1>1, <1>2, <1>3 DEF EffectOK, KeyOK, Running, Result, KeyLock, tables
<1>8. OriginalOK(t, locks'[p])
  BY <1>1, <1>2, <1>3 DEF EffectOK, OriginalOK, Running
<1>9. OriginalOK(tx[p], locks[p])'
  BY <1>2, <1>8 DEF OriginalOK, Running, WithId, ReversalsOf, EntryLock, tables
<1>10. CreditOK(tx[p], locks[p])'
  BY <1>1, <1>2, <1>3 DEF EffectOK, CreditOK, IsOrder
<1>11. \A q \in Proc \ {p} : tx[q].entry # tx'[p].entry
  BY <1>1, <1>2, <1>3, <1>4
<1>12. QED BY <1>1, <1>2, <1>6, <1>7, <1>9, <1>10, <1>11, LocalEffect DEF EffectOK

\* The exposure with the order is judged against the limit of the moment.
LEMMA ApplyCreditEffect ==
  ASSUME IInv, EffectInv, NEW p \in Proc, ApplyCredit(p)
  PROVE  EffectInv'
<1> DEFINE s == tx[p]
           c == s.msg.customer
           owed == exposure[c] + s.msg.amount
           limit == snapshot[c].limit
           t == [s EXCEPT !.pc = "ready", !.owed = owed, !.rejected = ExceedsLimit(owed, limit)]
<1>1. /\ s \in Transaction /\ EffectOK(s, locks[p]) /\ SessionOK(s, locks[p])
      /\ tx \in [Proc -> Transaction] /\ locks \in [Proc -> SUBSET Lock] /\ entrySeq \in Nat
      /\ \A q \in Proc \ {p} : tx'[q] = tx[q] /\ locks'[q] = locks[q]
  BY OthersStay DEF IInv, TypeOK, EffectInv, Continue
<1>2. /\ UNCHANGED <<tables, entrySeq>> /\ tx'[p] = t
      /\ locks'[p] = locks[p] \cup {CustomerLock(c)} /\ s.pc = "crediting"
  BY <1>1 DEF ApplyCredit, Acquire
<1>3. /\ t.pc = "ready" /\ t.key = s.key /\ t.op = s.op /\ t.msg = s.msg
      /\ t.original = s.original /\ t.entry = s.entry /\ t.entity = s.entity
      /\ t.owed = owed /\ t.rejected = ExceedsLimit(owed, limit)
  BY <1>1 DEF Transaction
<1> HIDE DEF t
<1>4. s.op = "consume" /\ s.msg \in Messages /\ s.entry # 0 /\ c \in Customers
  <2>1. s.op = "consume" /\ s.msg \in Messages /\ s.entry # 0
    BY <1>1, <1>2 DEF SessionOK, StageOK
  <2>2. QED BY <2>1, EventsAssumption
<1>5. s.msg.kind = "order"
  BY <1>1, <1>2 DEF EffectOK, CreditOK, IsOrder
<1>6. limit \in Limits(c)
  BY <1>4 DEF EffectInv, SnapshotsOK
<1>7. 0 \notin Limits(c) /\ (\A l \in Limits(c) : owed > l) => ExceedsLimit(owed, limit)
  BY <1>6 DEF ExceedsLimit
<1>8. CreditOK(tx[p], locks[p])'
  BY <1>2, <1>3, <1>4, <1>5, <1>7 DEF CreditOK, IsOrder, CustomerLock, Limits, tables
<1>9. NumberOK(tx[p])' /\ KeyOK(tx[p], locks[p])'
  BY <1>1, <1>2, <1>3 DEF EffectOK, NumberOK, KeyOK, Running, Result, KeyLock, WithId, tables
<1>10. OriginalOK(t, locks'[p])
  BY <1>1, <1>2, <1>3 DEF EffectOK, OriginalOK, Running
<1>11. OriginalOK(tx[p], locks[p])'
  BY <1>2, <1>10 DEF OriginalOK, Running, WithId, ReversalsOf, EntryLock, tables
<1>12. tx'[p].entry # 0 => \A q \in Proc \ {p} : tx[q].entry # tx'[p].entry
  BY <1>2, <1>3 DEF EffectInv, NumbersOK
<1>13. EffectOK(tx[p], locks[p])'
  BY <1>8, <1>9, <1>11 DEF EffectOK
<1>14. UNCHANGED tables /\ entrySeq' \in Nat /\ entrySeq <= entrySeq'
  BY <1>1, <1>2
<1>15. QED BY <1>1, <1>12, <1>13, <1>14, LocalEffect

------------------------------------------------------------------------------
\* What session q is about to commit still fits after p has committed: what p
\* brings concerns keys, entries and customers that p has locked.
LEMMA OthersEffect ==
  ASSUME IInv, EffectInv, NEW p \in Proc, NEW q \in Proc \ {p},
         tx'[q] = tx[q], locks'[q] = locks[q], entrySeq' = entrySeq,
         \A r \in idempotency' : r \in idempotency \/ KeyLock(r.key) \in locks[p],
         entries \subseteq entries',
         \A x \in entries' : x \in entries \/ (x.id # 0 /\ x.id = tx[p].entry),
         ~GuessedIds => \A x \in entries' : \/ x \in entries \/ x.reverses = 0
                                            \/ EntryLock(x.reverses) \in locks[p],
         \A c \in Customers : CustomerLock(c) \notin locks[p] => exposure'[c] = exposure[c]
  PROVE  EffectOK(tx[q], locks[q])'
<1>1. PICK t, L : t = tx[q] /\ L = locks[q]
  OBVIOUS
<1>2. /\ EffectOK(t, L) /\ SessionOK(t, L) /\ locks[p] \cap L = {}
      /\ tx'[q] = t /\ locks'[q] = L
  BY <1>1 DEF IInv, EffectInv, LocksExclusive
<1>3. tx[p].entry # 0 => tx[p].entry # t.entry
  BY <1>1 DEF EffectInv, NumbersOK
<1>4. KeyOK(tx[q], locks[q])'
  BY <1>2 DEF EffectOK, KeyOK, Running, Result, KeyLock
<1>5. NumberOK(tx[q])'
  BY <1>2, <1>3 DEF EffectOK, NumberOK, WithId
<1>6. OriginalOK(tx[q], locks[q])'
  <2>1. Running(t) => (t.op = "ReverseEntry" <=> t.original # 0)
    BY <1>2 DEF EffectOK, OriginalOK
  <2>2. ASSUME ~GuessedIds, t.original # 0
        PROVE  /\ WithId(t.original)' # {}
               /\ t.pc # "lockingHeader" => EntryLock(t.original) \in L
               /\ t.pc \notin {"lockingHeader", "reading"} =>
                    /\ ReversalsOf(t.original)' = {}
                    /\ \E y \in WithId(t.original)' : y.entity = t.entity
    <3>1. /\ WithId(t.original) # {}
          /\ t.pc # "lockingHeader" => EntryLock(t.original) \in L
          /\ t.pc \notin {"lockingHeader", "reading"} =>
               /\ ReversalsOf(t.original) = {}
               /\ \E y \in WithId(t.original) : y.entity = t.entity
      BY <1>2, <2>2 DEF EffectOK, OriginalOK
    <3>2. WithId(t.original) \subseteq WithId(t.original)'
      BY <1>2 DEF WithId
    <3>3. EntryLock(t.original) \in L => ReversalsOf(t.original)' \subseteq ReversalsOf(t.original)
      BY <1>2, <2>2 DEF ReversalsOf
    <3>4. QED BY <3>1, <3>2, <3>3
  <2>3. OriginalOK(t, L)'
    BY <2>1, <2>2, <1>2 DEF OriginalOK, Running, EntryLock, WithId, ReversalsOf
  <2>4. QED BY <2>3, <1>2 DEF OriginalOK, Running, EntryLock, WithId, ReversalsOf
<1>7. CreditOK(tx[q], locks[q])'
  <2>1. Running(t) /\ IsOrder(t) => t.msg.customer \in Customers
    BY <1>2, EventsAssumption DEF SessionOK, StageOK, IsOrder, Running
  <2>2. t.pc = "ready" /\ IsOrder(t) /\ CustomerLock(t.msg.customer) \in L =>
          exposure'[t.msg.customer] = exposure[t.msg.customer]
    BY <1>2, <2>1 DEF Running
  <2>3. CreditOK(t, L)
    BY <1>2 DEF EffectOK
  <2>4. QED BY <1>2, <2>2, <2>3 DEF CreditOK, IsOrder, CustomerLock, Limits
<1>8. QED BY <1>4, <1>5, <1>6, <1>7 DEF EffectOK

\* Numbers stay distinct when a session ends: an idle one has none.
LEMMA EndNumbers ==
  ASSUME IInv, EffectInv, NEW p \in Proc, End(p), entrySeq' = entrySeq,
         \A x \in entries' : x \in entries \/ x = EntryOf(tx[p]),
         tx[p].entry # 0 \/ entries' = entries
  PROVE  NumbersOK'
<1>1. NumbersOK /\ NumberOK(tx[p]) /\ tx'[p].entry = 0
      /\ \A q \in Proc \ {p} : tx'[q] = tx[q]
  BY EndInv DEF EffectInv, EffectOK, Idle
<1>2. EntryOf(tx[p]).id = tx[p].entry
  BY DEF EntryOf
<1>3. /\ \A x \in entries' : x.id <= entrySeq'
      /\ \A x, y \in entries' : x.id = y.id => x = y
  BY <1>1, <1>2 DEF NumbersOK, NumberOK, WithId
<1>4. \A a, b \in Proc : a # b /\ tx'[a].entry # 0 => tx'[a].entry # tx'[b].entry
  BY <1>1 DEF NumbersOK
<1>5. QED BY <1>3, <1>4 DEF NumbersOK

\* The message that a transaction commits is no customer snapshot.
LEMMA SameSnapshots ==
  ASSUME EffectInv, snapshot' = snapshot,
         \A m \in inbox' : m \in inbox \/ m \in Messages, inbox \subseteq inbox'
  PROVE  SnapshotsOK'
<1>1. inbox' \cap Snapshots = inbox \cap Snapshots
  BY EventsAssumption
<1>2. QED BY <1>1 DEF EffectInv, SnapshotsOK, Limits

\* A transaction that ends without a trace.
LEMMA RollbackEffect ==
  ASSUME IInv, EffectInv, NEW p \in Proc, Rollback(p) \/ Return(p)
  PROVE  EffectInv'
<1>1. CASE Rollback(p)
  <2>1. /\ tx'[p] = Idle /\ UNCHANGED <<tables, entrySeq>>
        /\ \A q \in Proc \ {p} : tx'[q] = tx[q] /\ locks'[q] = locks[q]
    BY <1>1, EndInv DEF Rollback
  <2>2. tx'[p].entry = 0 /\ ~Running(tx'[p]) /\ tx'[p].original = 0 /\ tx'[p].rejected = FALSE
    BY <2>1 DEF Idle, Running
  <2>3. QED BY <2>1, <2>2, IdleKeepsEffect
<1>2. CASE Return(p)
  <2>1. /\ tx'[p] = Idle /\ UNCHANGED <<tables, entrySeq>>
        /\ \A q \in Proc \ {p} : tx'[q] = tx[q] /\ locks'[q] = locks[q]
    BY <1>2 DEF Return, IInv, TypeOK
  <2>2. tx'[p].entry = 0 /\ ~Running(tx'[p]) /\ tx'[p].original = 0 /\ tx'[p].rejected = FALSE
    BY <2>1 DEF Idle, Running
  <2>3. QED BY <2>1, <2>2, IdleKeepsEffect
<1>3. QED BY <1>1, <1>2

\* An event that books nothing leaves its inbox record.
LEMMA CommitNothingEffect ==
  ASSUME IInv, EffectInv, NEW p \in Proc, CommitNothing(p)
  PROVE  EffectInv'
<1>1. /\ tx[p].pc = "ready" /\ tx[p].op = "consume" /\ inbox' = inbox \cup {tx[p].msg} /\ End(p)
      /\ UNCHANGED <<entries, idempotency, receivables, exposure, snapshot, outbox, entrySeq>>
  BY DEF CommitNothing
<1>2. tx[p].msg \in Messages
  BY <1>1 DEF IInv, SessionOK, StageOK
<1>3. \A q \in Proc : EffectOK(tx[q], locks[q])'
  <2>1. EffectOK(tx[p], locks[p])'
    BY <1>1, EndInv DEF Idle, EffectOK, KeyOK, NumberOK, OriginalOK, CreditOK, Running
  <2>2. \A q \in Proc \ {p} : EffectOK(tx[q], locks[q])'
    BY <1>1, EndInv, OthersEffect
  <2>3. QED BY <2>1, <2>2
<1>4. NumbersOK'
  BY <1>1, EndNumbers
<1>5. SnapshotsOK'
  BY <1>1, <1>2, SameSnapshots
<1>6. ResultsOK' /\ ReceivablesOK'
  BY <1>1 DEF EffectInv, ResultsOK, ReceivablesOK, WithId, PostedFrom
<1>7. OutboxMatchesBooks' /\ NoSilentOverrun' /\ (~GuessedIds => ReversedOnce')
  BY <1>1 DEF EffectInv, OutboxMatchesBooks, NoSilentOverrun, ReversedOnce, WithId, PostedFrom,
              ReversalsOf, Limits
<1>8. QED BY <1>3, <1>4, <1>5, <1>6, <1>7 DEF EffectInv

\* A period command stores its result under a key that had none.
LEMMA CommitTransitionEffect ==
  ASSUME IInv, EffectInv, NEW p \in Proc, CommitTransition(p)
  PROVE  EffectInv'
<1> DEFINE s == tx[p]
           r == ResultOf(s)
<1>1. /\ s.pc = "ready" /\ s.op \in PeriodCommands /\ End(p)
      /\ idempotency' = idempotency \cup {r}
      /\ UNCHANGED <<entries, inbox, receivables, exposure, snapshot, outbox, entrySeq>>
  BY DEF CommitTransition
<1>2. s.key \in Keys /\ s.entry = 0 /\ EffectOK(s, locks[p]) /\ entries \subseteq Entry
  BY <1>1 DEF IInv, TypeOK, SessionOK, StageOK, EffectInv, PeriodCommands
<1>3. KeyLock(s.key) \in locks[p] /\ Result(s.key) = {}
  BY <1>1, <1>2, NamesAssumption DEF EffectOK, KeyOK, Running
<1>4. r.key = s.key /\ r.entry = 0 /\ r.command \notin EntryCommands
  BY <1>1, <1>2 DEF ResultOf, PeriodCommands, EntryCommands
<1> HIDE DEF s, r
<1>5. \A q \in Proc : EffectOK(tx[q], locks[q])'
  <2>1. EffectOK(tx[p], locks[p])'
    BY <1>1, EndInv DEF Idle, EffectOK, KeyOK, NumberOK, OriginalOK, CreditOK, Running
  <2>2. \A k \in idempotency' : k \in idempotency \/ KeyLock(k.key) \in locks[p]
    BY <1>1, <1>3, <1>4
  <2>3. \A q \in Proc \ {p} : EffectOK(tx[q], locks[q])'
    BY <1>1, <2>2, EndInv, OthersEffect
  <2>4. QED BY <2>1, <2>3
<1>6. NumbersOK'
  BY <1>1, EndNumbers
<1>7. SnapshotsOK'
  BY <1>1, SameSnapshots
<1>8. ResultsOK'
  <2>1. \A k, l \in idempotency' : k.key = l.key => k = l
    BY <1>1, <1>3, <1>4 DEF EffectInv, ResultsOK, Result
  <2>2. ASSUME NEW x \in entries, x.doc = NoDoc
        PROVE  \E k \in idempotency' : {l \in idempotency' : l.entry = x.id} = {k}
    <3>1. x.id # 0
      BY <1>2 DEF Entry
    <3>2. {l \in idempotency' : l.entry = x.id} = {l \in idempotency : l.entry = x.id}
      BY <1>1, <1>4, <3>1
    <3>3. QED BY <2>2, <3>2, <1>1 DEF EffectInv, ResultsOK
  <2>3. QED BY <1>1, <1>4, <2>1, <2>2 DEF EffectInv, ResultsOK, WithId
<1>9. ReceivablesOK'
  BY <1>1 DEF EffectInv, ReceivablesOK, WithId, PostedFrom
<1>10. OutboxMatchesBooks' /\ NoSilentOverrun' /\ (~GuessedIds => ReversedOnce')
  BY <1>1 DEF EffectInv, OutboxMatchesBooks, NoSilentOverrun, ReversedOnce, WithId, PostedFrom,
              ReversalsOf, Limits
<1>11. QED BY <1>5, <1>6, <1>7, <1>8, <1>9, <1>10 DEF EffectInv

------------------------------------------------------------------------------
\* What a transaction knows that is about to commit an entry.
LEMMA ReadyEffect ==
  ASSUME IInv, EffectInv, NEW p \in Proc, NEW s, s = tx[p], s.pc = "ready", s.entry # 0
  PROVE  /\ s \in Transaction /\ s.op \in EntryCommands \cup {"consume"}
         /\ WithId(s.entry) = {}
         /\ s.op = "consume" => s.key = NoKey /\ s.msg \in Messages /\ s.original = 0
                               /\ SourceOf(s) = s.msg.doc /\ s.msg.doc # NoDoc
                               /\ s.msg.customer \in Customers
         /\ s.op # "consume" => /\ s.key \in Keys /\ s.key # NoKey /\ s.msg = NoMessage
                               /\ SourceOf(s) = NoDoc
                               /\ KeyLock(s.key) \in locks[p] /\ Result(s.key) = {}
         /\ s.op = "ReverseEntry" <=> s.original # 0
         /\ ~GuessedIds /\ s.original # 0 =>
              /\ EntryLock(s.original) \in locks[p] /\ ReversalsOf(s.original) = {}
              /\ \E y \in WithId(s.original) : y.entity = s.entity
         /\ IsOrder(s) => CustomerLock(s.msg.customer) \in locks[p]
                          /\ s.owed = exposure[s.msg.customer] + s.msg.amount
         /\ s.rejected => IsOrder(s)
         /\ IsOrder(s) /\ 0 \notin Limits(s.msg.customer)
              /\ (\A l \in Limits(s.msg.customer) : s.owed > l) => s.rejected
<1>1. s \in Transaction /\ SessionOK(s, locks[p]) /\ EffectOK(s, locks[p])
  BY DEF IInv, TypeOK, EffectInv
<1>2. s.op \in EntryCommands \cup {"consume"}
  BY <1>1 DEF Transaction, SessionOK, StageOK
<1>3. s.op = "consume" => s.key = NoKey /\ s.msg \in Messages
  BY <1>1 DEF SessionOK, StageOK
<1>4. s.op # "consume" => s.key \in Keys /\ s.key # NoKey /\ s.msg = NoMessage
  BY <1>1, NamesAssumption DEF SessionOK, StageOK
<1>5. \A m \in Messages : m.doc # NoDoc /\ m.customer \in Customers /\ m # NoMessage
  BY EventsAssumption
<1>6. s.op = "ReverseEntry" <=> s.original # 0
  BY <1>1 DEF EffectOK, OriginalOK, Running
<1>7. SourceOf(s) = IF s.op = "consume" THEN s.msg.doc ELSE NoDoc
  BY <1>3, <1>4, <1>5 DEF SourceOf
<1>8. WithId(s.entry) = {}
  BY <1>1 DEF EffectOK, NumberOK
<1>9. s.key # NoKey => KeyLock(s.key) \in locks[p] /\ Result(s.key) = {}
  BY <1>1 DEF EffectOK, KeyOK, Running
<1>10. ~GuessedIds /\ s.original # 0 =>
         /\ EntryLock(s.original) \in locks[p] /\ ReversalsOf(s.original) = {}
         /\ \E y \in WithId(s.original) : y.entity = s.entity
  BY <1>1 DEF EffectOK, OriginalOK
<1>11. /\ IsOrder(s) => CustomerLock(s.msg.customer) \in locks[p]
                        /\ s.owed = exposure[s.msg.customer] + s.msg.amount
       /\ s.rejected => IsOrder(s)
       /\ IsOrder(s) /\ 0 \notin Limits(s.msg.customer)
            /\ (\A l \in Limits(s.msg.customer) : s.owed > l) => s.rejected
  BY <1>1 DEF EffectOK, CreditOK
<1>12. QED BY <1>1, <1>2, <1>3, <1>4, <1>5, <1>6, <1>7, <1>8, <1>9, <1>10, <1>11

\* A posting commits: entry, result, receivable, exposure and events at once.
LEMMA CommitEntryEffect ==
  ASSUME IInv, EffectInv, NEW p \in Proc, CommitEntry(p)
  PROVE  EffectInv'
<1>1. PICK s : s = tx[p]
  OBVIOUS
<1>2. PICK x, r, e : x = EntryOf(s) /\ r = ResultOf(s) /\ e = ReceivableOf(s)
  OBVIOUS
<1>3. /\ s.pc = "ready" /\ s.entry # 0 /\ End(p)
      /\ entries' = entries \cup {x}
      /\ idempotency' = idempotency \cup (IF s.key = NoKey THEN {} ELSE {r})
      /\ inbox' = inbox \cup ({s.msg} \ {NoMessage})
      /\ receivables' = IF IsOrder(s) THEN receivables \cup {e} ELSE receivables
      /\ exposure' = IF IsOrder(s) THEN [exposure EXCEPT ![s.msg.customer] = s.owed]
                                   ELSE exposure
      /\ outbox' = outbox \cup {VoucherPosted(s)}
                          \cup (IF s.rejected THEN {CreditRejected(s)} ELSE {})
      /\ UNCHANGED <<snapshot, entrySeq>>
  BY <1>1, <1>2 DEF CommitEntry
<1>4. /\ s \in Transaction /\ s.op \in EntryCommands \cup {"consume"}
      /\ WithId(s.entry) = {}
      /\ s.op = "consume" => s.key = NoKey /\ s.msg \in Messages /\ s.original = 0
                            /\ SourceOf(s) = s.msg.doc /\ s.msg.doc # NoDoc
                            /\ s.msg.customer \in Customers
      /\ s.op # "consume" => /\ s.key \in Keys /\ s.key # NoKey /\ s.msg = NoMessage
                            /\ SourceOf(s) = NoDoc
                            /\ KeyLock(s.key) \in locks[p] /\ Result(s.key) = {}
      /\ s.op = "ReverseEntry" <=> s.original # 0
      /\ ~GuessedIds /\ s.original # 0 =>
           /\ EntryLock(s.original) \in locks[p] /\ ReversalsOf(s.original) = {}
           /\ \E y \in WithId(s.original) : y.entity = s.entity
      /\ IsOrder(s) => CustomerLock(s.msg.customer) \in locks[p]
      /\ s.rejected => IsOrder(s)
      /\ IsOrder(s) /\ 0 \notin Limits(s.msg.customer)
           /\ (\A l \in Limits(s.msg.customer) : s.owed > l) => s.rejected
  BY <1>1, <1>3, ReadyEffect
<1>5. /\ x.id = s.entry /\ x.entity = s.entity /\ x.doc = SourceOf(s) /\ x.reverses = s.original
      /\ r.key = s.key /\ r.entry = s.entry /\ r.command = s.op
      /\ e.entry = s.entry /\ e.customer = s.msg.customer /\ e.amount = s.msg.amount
  BY <1>2 DEF EntryOf, ResultOf, ReceivableOf
<1>6. \A y \in entries : y.id # s.entry /\ y.id # 0
  BY <1>4 DEF WithId, IInv, TypeOK, Entry
<1>7. \A q \in Proc : EffectOK(tx[q], locks[q])'
  <2>1. EffectOK(tx[p], locks[p])'
    BY <1>3, EndInv DEF Idle, EffectOK, KeyOK, NumberOK, OriginalOK, CreditOK, Running
  <2>2. \A k \in idempotency' : k \in idempotency \/ KeyLock(k.key) \in locks[p]
    BY <1>3, <1>4, <1>5
  <2>3. \A y \in entries' : y \in entries \/ (y.id # 0 /\ y.id = tx[p].entry)
    BY <1>1, <1>3, <1>5
  <2>4. ~GuessedIds => \A y \in entries' : \/ y \in entries \/ y.reverses = 0
                                           \/ EntryLock(y.reverses) \in locks[p]
    BY <1>3, <1>4, <1>5
  <2>5. \A c \in Customers : CustomerLock(c) \notin locks[p] => exposure'[c] = exposure[c]
    BY <1>3, <1>4 DEF IInv, TypeOK
  <2>6. \A q \in Proc \ {p} : EffectOK(tx[q], locks[q])'
    BY <1>3, <2>2, <2>3, <2>4, <2>5, EndInv, OthersEffect
  <2>7. QED BY <2>1, <2>6
<1>8. NumbersOK'
  BY <1>1, <1>2, <1>3, EndNumbers
<1>9. SnapshotsOK'
  BY <1>3, <1>4, SameSnapshots DEF EntryCommands
<1>10. ResultsOK'
  <2>1. \A k, l \in idempotency' : k.key = l.key => k = l
    BY <1>3, <1>4, <1>5 DEF EffectInv, ResultsOK, Result
  <2>2. \A k \in idempotency : k.entry # 0 => k.entry # s.entry
    BY <1>4 DEF EffectInv, ResultsOK
  <2>3. \A k \in idempotency' : k.entry # 0 => WithId(k.entry)' # {}
    BY <1>3, <1>5 DEF EffectInv, ResultsOK, WithId
  <2>4. ASSUME NEW y \in entries', y.doc = NoDoc
        PROVE  \E k \in idempotency' : {l \in idempotency' : l.entry = y.id} = {k}
    <3>1. CASE y \in entries
      <4>1. {l \in idempotency' : l.entry = y.id} = {l \in idempotency : l.entry = y.id}
        BY <1>3, <1>5, <1>6, <3>1
      <4>2. QED BY <2>4, <3>1, <4>1, <1>3 DEF EffectInv, ResultsOK
    <3>2. CASE y = x
      <4>1. s.op # "consume"
        BY <1>4, <1>5, <2>4, <3>2
      <4>2. {l \in idempotency' : l.entry = y.id} = {r} /\ r \in idempotency'
        BY <1>3, <1>4, <1>5, <2>2, <3>2, <4>1
      <4>3. QED BY <4>2
    <3>3. QED BY <1>3, <3>1, <3>2
  <2>5. ASSUME NEW k \in idempotency', k.command \in EntryCommands
        PROVE  \E y \in WithId(k.entry)' : (y.reverses # 0) <=> (k.command = "ReverseEntry")
    <3>1. CASE k \in idempotency
      BY <2>5, <3>1, <1>3 DEF EffectInv, ResultsOK, WithId
    <3>2. CASE k = r
      BY <3>2, <1>3, <1>4, <1>5 DEF WithId
    <3>3. QED BY <1>3, <3>1, <3>2
  <2>6. QED BY <2>1, <2>3, <2>4, <2>5 DEF ResultsOK
<1>11. ReceivablesOK'
  <2>1. \A d \in receivables : d.entry # s.entry
    BY <1>4 DEF EffectInv, ReceivablesOK
  <2>2. \A d \in receivables' : WithId(d.entry)' # {}
    BY <1>3, <1>5 DEF EffectInv, ReceivablesOK, WithId
  <2>3. ASSUME NEW m \in Messages, m.kind = "order", NEW y \in PostedFrom(m.doc)'
        PROVE  \E d \in receivables' : {f \in receivables' : f.entry = y.id} = {d}
    <3>1. y \in entries' /\ y.doc = m.doc
      BY <2>3 DEF PostedFrom
    <3>2. CASE y \in entries
      <4>1. {f \in receivables' : f.entry = y.id} = {f \in receivables : f.entry = y.id}
        BY <1>3, <1>5, <1>6, <3>2
      <4>2. y \in PostedFrom(m.doc)
        BY <3>1, <3>2 DEF PostedFrom
      <4>3. QED BY <2>3, <4>1, <4>2, <1>3 DEF EffectInv, ReceivablesOK
    <3>3. CASE y = x
      <4>1. s.op = "consume" /\ s.msg.doc = m.doc /\ s.msg \in Messages
        BY <1>4, <1>5, <3>1, <3>3, EventsAssumption
      <4>2. IsOrder(s)
        BY <2>3, <4>1, EventsAssumption DEF IsOrder
      <4>3. {f \in receivables' : f.entry = y.id} = {e} /\ e \in receivables'
        BY <1>3, <1>5, <2>1, <3>3, <4>2
      <4>4. QED BY <4>3
    <3>4. QED BY <1>3, <3>1, <3>2, <3>3
  <2>4. QED BY <2>2, <2>3 DEF ReceivablesOK
<1>12. OutboxMatchesBooks'
  <2>1. \A y \in entries' :
          [subject |-> "finance.voucher.posted.v1", aggregate |-> y.id] \in outbox'
    BY <1>3, <1>5 DEF EffectInv, OutboxMatchesBooks, VoucherPosted
  <2>2. ASSUME NEW ev \in outbox'
        PROVE  IF ev.subject = "finance.voucher.posted.v1" THEN WithId(ev.aggregate)' # {}
                                                           ELSE PostedFrom(ev.aggregate)' # {}
    <3>1. CASE ev \in outbox
      BY <3>1, <1>3 DEF EffectInv, OutboxMatchesBooks, WithId, PostedFrom
    <3>2. CASE ev = VoucherPosted(s)
      BY <3>2, <1>3, <1>5 DEF VoucherPosted, WithId
    <3>3. CASE s.rejected /\ ev = CreditRejected(s)
      <4>1. ev.subject # "finance.voucher.posted.v1" /\ ev.aggregate = s.msg.doc
        BY <3>3 DEF CreditRejected
      <4>2. x.doc = s.msg.doc
        BY <1>4, <1>5, <3>3 DEF IsOrder
      <4>3. QED BY <4>1, <4>2, <1>3 DEF PostedFrom
    <3>4. QED BY <1>3, <3>1, <3>2, <3>3
  <2>3. QED BY <2>1, <2>2 DEF OutboxMatchesBooks
<1>13. NoSilentOverrun'
  <2>1. ASSUME NEW c \in Customers, 0 \notin Limits(c), \A l \in Limits(c) : exposure'[c] > l
        PROVE  \E ev \in outbox' : /\ ev.subject = "finance.credit.rejected.v1"
                                  /\ ev.customer = c /\ ev.exposure = exposure'[c]
    <3>1. CASE IsOrder(s) /\ c = s.msg.customer
      <4>1. exposure'[c] = s.owed
        BY <1>3, <3>1 DEF IInv, TypeOK
      <4>2. s.rejected
        BY <1>4, <2>1, <3>1, <4>1
      <4>3. CreditRejected(s) \in outbox'
        BY <1>3, <4>2
      <4>4. QED BY <3>1, <4>1, <4>3 DEF CreditRejected
    <3>2. CASE ~(IsOrder(s) /\ c = s.msg.customer)
      <4>1. exposure'[c] = exposure[c]
        BY <1>3, <3>2 DEF IInv, TypeOK
      <4>2. QED BY <1>3, <2>1, <4>1 DEF EffectInv, NoSilentOverrun
    <3>3. QED BY <3>1, <3>2
  <2>2. QED BY <2>1 DEF NoSilentOverrun, Limits
<1>14. ~GuessedIds => ReversedOnce'
  <2>1. SUFFICES ASSUME ~GuessedIds, NEW y \in entries', y.reverses # 0
        PROVE  /\ ReversalsOf(y.reverses)' = {y}
               /\ \E z \in entries' : z.id = y.reverses /\ z.entity = y.entity
    BY DEF ReversedOnce, ReversalsOf
  <2>2. CASE y \in entries
    <3>1. /\ ReversalsOf(y.reverses) = {y}
          /\ \E z \in entries : z.id = y.reverses /\ z.entity = y.entity
      BY <2>1, <2>2 DEF EffectInv, ReversedOnce
    <3>2. x.reverses # y.reverses
      BY <1>4, <1>5, <2>1, <3>1
    <3>3. QED BY <1>3, <3>1, <3>2 DEF ReversalsOf
  <2>3. CASE y = x
    BY <1>3, <1>4, <1>5, <2>1, <2>3 DEF ReversalsOf, WithId
  <2>4. QED BY <1>3, <2>2, <2>3
<1>15. QED BY <1>7, <1>8, <1>9, <1>10, <1>11, <1>12, <1>13, <1>14 DEF EffectInv

------------------------------------------------------------------------------
\* A step that leaves sessions, numbers and tables alone, but for the snapshots.
LEMMA TablesKeepEffect ==
  ASSUME EffectInv, SnapshotsOK',
         UNCHANGED <<entries, idempotency, receivables, exposure, outbox, entrySeq, tx, locks>>
  PROVE  EffectInv'
<1>1. \A q \in Proc : EffectOK(tx[q], locks[q])'
  BY DEF EffectInv, EffectOK, KeyOK, NumberOK, OriginalOK, CreditOK, Running, Result, WithId,
         ReversalsOf, KeyLock, EntryLock, CustomerLock, IsOrder, Limits
<1>2. NumbersOK' /\ ResultsOK' /\ ReceivablesOK'
  BY DEF EffectInv, NumbersOK, ResultsOK, ReceivablesOK, WithId, PostedFrom
<1>3. OutboxMatchesBooks' /\ NoSilentOverrun' /\ (~GuessedIds => ReversedOnce')
  BY DEF EffectInv, OutboxMatchesBooks, NoSilentOverrun, ReversedOnce, WithId, PostedFrom,
         ReversalsOf, Limits
<1>4. QED BY <1>1, <1>2, <1>3 DEF EffectInv

\* A customer snapshot is taken over only if it is newer.
LEMMA ConsumeSnapshotEffect ==
  ASSUME IInv, EffectInv, ConsumeSnapshot
  PROVE  EffectInv'
<1>1. PICK s \in Snapshots :
        /\ inbox' = inbox \cup {s}
        /\ snapshot' = IF snapshot[s.customer].version < s.version
                       THEN [snapshot EXCEPT ![s.customer] =
                               [version |-> s.version, limit |-> s.limit]]
                       ELSE snapshot
  BY DEF ConsumeSnapshot
<1>2. s.customer \in Customers /\ s.version \in Nat /\ s.limit \in Nat
      /\ snapshot \in [Customers -> [version : Nat, limit : Nat]]
  BY EventsAssumption DEF IInv, TypeOK
<1>3. ASSUME NEW c \in Customers
      PROVE  LET seen == {z \in inbox' \cap Snapshots : z.customer = c} IN
             /\ snapshot'[c].limit \in Limits(c)
             /\ snapshot'[c].version \in {KnownLimits[c].version} \cup {z.version : z \in seen}
             /\ KnownLimits[c].version <= snapshot'[c].version
             /\ \A z \in seen : z.version <= snapshot'[c].version
  <2> DEFINE seen == {z \in inbox \cap Snapshots : z.customer = c}
             new == {z \in inbox' \cap Snapshots : z.customer = c}
  <2>1. /\ snapshot[c].limit \in Limits(c)
        /\ snapshot[c].version \in {KnownLimits[c].version} \cup {z.version : z \in seen}
        /\ KnownLimits[c].version <= snapshot[c].version
        /\ \A z \in seen : z.version <= snapshot[c].version
    BY DEF EffectInv, SnapshotsOK
  <2>2. /\ KnownLimits[c].version \in Nat /\ snapshot[c].version \in Nat
        /\ \A z \in seen : z.version \in Nat
    BY <1>2, EventsAssumption
  <2>3. CASE c # s.customer
    <3>1. new = seen /\ snapshot'[c] = snapshot[c]
      BY <1>1, <1>2, <2>3
    <3>2. QED BY <2>1, <3>1
  <2>4. CASE c = s.customer
    <3>1. new = seen \cup {s}
      BY <1>1, <2>4
    <3>2. CASE snapshot[c].version < s.version
      <4>1. snapshot'[c].version = s.version /\ snapshot'[c].limit = s.limit
        BY <1>1, <1>2, <2>4, <3>2
      <4>2. s.limit \in Limits(c)
        BY <2>4 DEF Limits
      <4> HIDE DEF seen, new
      <4>3. s \in new
        BY <3>1
      <4>4. \A z \in new : z.version <= s.version
        BY <1>2, <2>1, <2>2, <3>1, <3>2
      <4>5. KnownLimits[c].version <= s.version
        BY <1>2, <2>1, <2>2, <3>2
      <4>6. QED BY <4>1, <4>2, <4>3, <4>4, <4>5 DEF new
    <3>3. CASE ~(snapshot[c].version < s.version)
      <4>1. snapshot' = snapshot
        BY <1>1, <2>4, <3>3
      <4>2. s.version <= snapshot[c].version
        BY <1>2, <2>2, <3>3
      <4> HIDE DEF seen, new
      <4>3. QED BY <2>1, <3>1, <4>1, <4>2 DEF new
    <3>4. QED BY <3>2, <3>3
  <2>5. QED BY <2>3, <2>4
<1>4. SnapshotsOK'
  BY <1>3 DEF SnapshotsOK, Limits
<1>5. QED BY <1>4, TablesKeepEffect DEF ConsumeSnapshot

\* Every step keeps what the sessions are about to commit in line with the tables.
LEMMA NextEffect == IInv /\ EffectInv /\ [Next]_vars => EffectInv'
<1> SUFFICES ASSUME IInv, EffectInv, [Next]_vars PROVE EffectInv'
  OBVIOUS
<1>1. ASSUME NEW p \in Proc, Start(p) \/ Continue(p) \/ Crash(p) PROVE EffectInv'
  <2>1. CASE Start(p)
    BY <2>1, StartEffect
  <2>2. CASE Refuse(p) \/ Return(p) \/ Crash(p)
    BY <2>2, RollbackEffect DEF Refuse, Crash
  <2>3. CASE LockHeader(p) \/ ReadOriginal(p) \/ LockForChange(p) \/ LockPeriodRow(p)
             \/ InsertHeader(p) \/ SkipDuplicate(p) \/ InsertLines(p) \/ ApplyCredit(p)
    BY <2>3, LockHeaderEffect, ReadOriginalEffect, PlainStatementEffect, InsertHeaderEffect,
       ApplyCreditEffect
  <2>4. CASE CommitTransition(p) \/ CommitNothing(p) \/ CommitEntry(p)
    BY <2>4, CommitTransitionEffect, CommitNothingEffect, CommitEntryEffect
  <2>5. QED BY <1>1, <2>1, <2>2, <2>3, <2>4 DEF Continue
<1>2. CASE ConsumeSnapshot
  BY <1>2, ConsumeSnapshotEffect
<1>3. CASE NextPeriodBegins \/ UNCHANGED vars
  <2>1. UNCHANGED <<tables, entrySeq, tx, locks>>
    BY <1>3 DEF NextPeriodBegins, vars
  <2>2. SnapshotsOK'
    BY <2>1 DEF EffectInv, SnapshotsOK, Limits, tables
  <2>3. QED BY <2>1, <2>2, TablesKeepEffect DEF tables
<1>4. QED BY <1>1, <1>2, <1>3 DEF Next

\* What every session is about to commit fits the tables, at every moment.
THEOREM EffectInvariance == Spec => []EffectInv
<1>1. Init => EffectInv
  BY InitEffect
<1>2. IInv /\ EffectInv /\ [Next]_vars => EffectInv'
  BY NextEffect
<1>3. QED BY <1>1, <1>2, Invariance, PTL DEF Spec

------------------------------------------------------------------------------
\* If no client names an entry that is not committed, then an entry is reversed
\* at most once, by an entry of its legal entity that was booked later
\* (ReverseEntry's FOR UPDATE and ensureNotReversedTx).
THEOREM EntryReversedOnce ==
  ASSUME GuessedIds = FALSE
  PROVE  Spec => []ReversedOnce
<1>1. EffectInv => ReversedOnce
  BY DEF EffectInv
<1>2. QED BY <1>1, EffectInvariance, PTL

\* An idempotency key has one result, and the entries of commands are the results
\* of keys (claimIdempotency, finalizeIdempotency).
THEOREM KeySpentOnce == Spec => []KeyHasOneEffect
<1>1. EffectInv => KeyHasOneEffect
  <2> SUFFICES ASSUME EffectInv PROVE KeyHasOneEffect
    OBVIOUS
  <2>1. ASSUME NEW x \in entries, x.doc = NoDoc
        PROVE  Cardinality({r \in idempotency : r.entry = x.id}) = 1
    <3>1. PICK r \in idempotency : {s \in idempotency : s.entry = x.id} = {r}
      BY <2>1 DEF EffectInv, ResultsOK
    <3>2. QED BY <3>1, FS_Singleton
  <2>2. QED BY <2>1 DEF EffectInv, ResultsOK, KeyHasOneEffect
<1>2. QED BY <1>1, EffectInvariance, PTL

\* A customer that has had a limit all along is not taken above all its limits
\* without an event that says so (applyCreditExposureDeltaTx, exceedsLimit).
THEOREM OverrunIsTold == Spec => []NoSilentOverrun
<1>1. EffectInv => NoSilentOverrun
  BY DEF EffectInv
<1>2. QED BY <1>1, EffectInvariance, PTL

\* The outbox tells what is in the books, all of it and nothing else
\* (insertOutboxEvent in the posting's transaction).
THEOREM OutboxTellsBooks == Spec => []OutboxMatchesBooks
<1>1. EffectInv => OutboxMatchesBooks
  BY DEF EffectInv
<1>2. QED BY <1>1, EffectInvariance, PTL

\* A customer's snapshot is the newest version consumed, in whatever order the
\* versions came (WHERE version < EXCLUDED.version).
THEOREM NewestSnapshot == Spec => []SnapshotIsNewest
<1>1. IInv /\ EffectInv => SnapshotIsNewest
  <2> SUFFICES ASSUME IInv, EffectInv, NEW c \in Customers
               PROVE  snapshot[c].version =
                        Max({KnownLimits[c].version} \cup
                            {s.version : s \in {s \in inbox \cap Snapshots : s.customer = c}})
    BY DEF SnapshotIsNewest
  <2> DEFINE S == {KnownLimits[c].version} \cup
                  {s.version : s \in {s \in inbox \cap Snapshots : s.customer = c}}
             v == snapshot[c].version
  <2>1. v \in S /\ \A n \in S : n <= v
    BY DEF EffectInv, SnapshotsOK
  <2>2. S \subseteq Nat
    BY EventsAssumption
  <2> HIDE DEF S, v
  <2>3. \A n \in S : (\A k \in S : n >= k) => n = v
    BY <2>1, <2>2
  <2>4. v = Max(S)
    BY <2>1, <2>2, <2>3 DEF Max
  <2>5. QED BY <2>4 DEF S, v
<1>2. QED BY <1>1, Invariance, EffectInvariance, PTL

------------------------------------------------------------------------------
\* A customer's exposure and the receivables that it adds up.
ExposureInv ==
  /\ IsFiniteSet(receivables)
  /\ \A c \in Customers :
       exposure[c] = SumFunctionOnSet([r \in receivables |-> r.amount], Owed(c))

\* An order's posting adds its receivable to those of the customer, and its amount
\* to what the customer owes.
LEMMA CommitEntryExposure ==
  ASSUME IInv, EffectInv, ExposureInv, NEW p \in Proc, CommitEntry(p)
  PROVE  ExposureInv'
<1>1. PICK s, e : s = tx[p] /\ e = ReceivableOf(s)
  OBVIOUS
<1>2. /\ s.pc = "ready" /\ s.entry # 0
      /\ receivables' = IF IsOrder(s) THEN receivables \cup {e} ELSE receivables
      /\ exposure' = IF IsOrder(s) THEN [exposure EXCEPT ![s.msg.customer] = s.owed]
                                   ELSE exposure
  BY <1>1 DEF CommitEntry
<1>3. /\ WithId(s.entry) = {}
      /\ s.op = "consume" => s.msg \in Messages /\ s.msg.customer \in Customers
      /\ IsOrder(s) => s.owed = exposure[s.msg.customer] + s.msg.amount
  BY <1>1, <1>2, ReadyEffect
<1>4. e.entry = s.entry /\ e.customer = s.msg.customer /\ e.amount = s.msg.amount
  BY <1>1 DEF ReceivableOf
<1>5. CASE ~IsOrder(s)
  <2>1. UNCHANGED <<receivables, exposure>>
    BY <1>2, <1>5
  <2>2. QED BY <2>1 DEF ExposureInv, Owed
<1>6. CASE IsOrder(s)
  <2> DEFINE f == [r \in receivables |-> r.amount]
             h == [r \in receivables \cup {e} |-> r.amount]
  <2>1. e \notin receivables
    BY <1>2, <1>3, <1>4 DEF EffectInv, ReceivablesOK
  <2>2. /\ receivables' = receivables \cup {e} /\ s.msg.customer \in Customers
        /\ e.amount \in Nat /\ \A r \in receivables : r.amount \in Nat
        /\ exposure \in [Customers -> 0..MaxExposure]
    BY <1>2, <1>3, <1>4, <1>6, EventsAssumption DEF IsOrder, IInv, TypeOK
  <2>3. ASSUME NEW c \in Customers
        PROVE  exposure'[c] = SumFunctionOnSet(h, Owed(c)')
    <3>1. IsFiniteSet(Owed(c)) /\ Owed(c) \subseteq receivables
      BY FS_Subset DEF ExposureInv, Owed
    <3>2. SumFunctionOnSet(h, Owed(c)) = exposure[c]
      <4>1. \A r \in Owed(c) : f[r] = h[r]
        BY <3>1
      <4> HIDE DEF f, h
      <4>2. SumFunctionOnSet(f, Owed(c)) = SumFunctionOnSet(h, Owed(c))
        BY <3>1, <4>1, SumSame
      <4>3. QED BY <4>2 DEF ExposureInv, f
    <3>3. CASE c # s.msg.customer
      <4>1. Owed(c)' = Owed(c) /\ exposure'[c] = exposure[c]
        BY <1>2, <1>4, <1>6, <2>2, <3>3 DEF Owed
      <4> HIDE DEF h
      <4>2. QED BY <3>2, <4>1
    <3>4. CASE c = s.msg.customer
      <4>1. Owed(c)' = Owed(c) \cup {e} /\ e \notin Owed(c)
        BY <1>4, <2>1, <2>2, <3>4 DEF Owed
      <4>2. exposure'[c] = exposure[c] + e.amount
        BY <1>2, <1>3, <1>4, <1>6, <2>2, <3>4
      <4>3. h[e] = e.amount /\ h[e] \in Int /\ \A r \in Owed(c) : h[r] \in Int
        BY <2>2, <3>1
      <4> HIDE DEF h
      <4>4. SumFunctionOnSet(h, Owed(c) \cup {e}) = SumFunctionOnSet(h, Owed(c)) + h[e]
        BY <3>1, <4>1, <4>3, SumAdd
      <4>5. QED BY <3>2, <4>1, <4>2, <4>3, <4>4
    <3>5. QED BY <3>3, <3>4
  <2>4. IsFiniteSet(receivables')
    BY <2>2, FS_AddElement DEF ExposureInv
  <2>5. QED BY <2>2, <2>3, <2>4 DEF ExposureInv
<1>7. QED BY <1>5, <1>6

\* Nothing else writes the receivables or the exposure.
LEMMA NextExposure == IInv /\ EffectInv /\ ExposureInv /\ [Next]_vars => ExposureInv'
<1> SUFFICES ASSUME IInv, EffectInv, ExposureInv, [Next]_vars PROVE ExposureInv'
  OBVIOUS
<1>1. ASSUME UNCHANGED <<receivables, exposure>> PROVE ExposureInv'
  BY <1>1 DEF ExposureInv, Owed
<1>2. ASSUME NEW p \in Proc, Start(p)
      PROVE  UNCHANGED <<receivables, exposure>>
  BY <1>2 DEF Start, PostManualEntry, ReverseEntry, TransitionPeriod, ConsumeMessage, Replay,
              Claim, tables
<1>3. ASSUME NEW p \in Proc, Continue(p) \/ Crash(p)
      PROVE  CommitEntry(p) \/ UNCHANGED <<receivables, exposure>>
  BY <1>3 DEF Continue, Crash, LockHeader, ReadOriginal, LockForChange, LockPeriodRow,
              InsertHeader, SkipDuplicate, InsertLines, ApplyCredit, CommitTransition,
              CommitNothing, Refuse, Rollback, Return, tables
<1>4. CASE ConsumeSnapshot \/ NextPeriodBegins \/ UNCHANGED vars
  BY <1>1, <1>4 DEF ConsumeSnapshot, NextPeriodBegins, vars, tables
<1>5. QED BY <1>1, <1>2, <1>3, <1>4, CommitEntryExposure DEF Next

\* What a customer has used of its credit is what its receivables add up to, and
\* each order that is booked has one (applyCreditExposureDeltaTx and
\* insertARLedgerEntryTx in the posting's transaction).
THEOREM ExposureAddsUp == Spec => []ExposureIsReceivables
<1>1. Init => ExposureInv
  <2> SUFFICES ASSUME Init PROVE ExposureInv
    OBVIOUS
  <2>1. receivables = {} /\ IsFiniteSet(receivables) /\ \A c \in Customers : Owed(c) = {}
    BY FS_EmptySet DEF Init, Owed
  <2>2. \A c \in Customers : exposure[c] = 0
    BY DEF Init
  <2>3. QED BY <2>1, <2>2, SumEmpty DEF ExposureInv
<1>2. EffectInv /\ ExposureInv => ExposureIsReceivables
  <2> SUFFICES ASSUME EffectInv, ExposureInv PROVE ExposureIsReceivables
    OBVIOUS
  <2>1. ASSUME NEW m \in Messages, m.kind = "order", NEW x \in PostedFrom(m.doc)
        PROVE  Cardinality({r \in receivables : r.entry = x.id}) = 1
    <3>1. PICK r \in receivables : {s \in receivables : s.entry = x.id} = {r}
      BY <2>1 DEF EffectInv, ReceivablesOK
    <3>2. QED BY <3>1, FS_Singleton
  <2>2. QED BY <2>1 DEF ExposureInv, ExposureIsReceivables
<1>3. QED BY <1>1, <1>2, NextExposure, Invariance, EffectInvariance, PTL DEF Spec

------------------------------------------------------------------------------
(* Posting implements GeneralLedger.  A posting appears in the journal when  *)
(* its transaction commits; a period command that changes a status is a      *)
(* Move; all else changes nothing that the ledger shows.                     *)

\* The bound on entry numbers is kept: whoever has yet to draw one was counted
\* when it started.
BudgetInv == IsFiniteSet(Numberless) /\ entrySeq + Cardinality(Numberless) <= MaxEntrySeq

\* A step draws a number that was counted, or counts one more within the bound.
LEMMA BudgetStep ==
  ASSUME IInv, BudgetInv, NEW p \in Proc, \A q \in Proc \ {p} : tx'[q] = tx[q],
         \/ entrySeq' = entrySeq /\ (p \in Numberless' => p \in Numberless \/ InBudget)
         \/ entrySeq' = entrySeq + 1 /\ p \in Numberless /\ p \notin Numberless'
  PROVE  BudgetInv'
<1>1. PICK N, M : N = Numberless /\ M = Numberless'
  OBVIOUS
<1>2. M \subseteq N \cup {p} /\ N \ {p} \subseteq M
  BY <1>1 DEF Numberless
<1>3. /\ IsFiniteSet(N) /\ entrySeq + Cardinality(N) <= MaxEntrySeq /\ entrySeq \in Nat
      /\ Cardinality(N) \in Nat /\ MaxEntrySeq \in Nat
  BY <1>1, FS_CardinalityType, PeriodsAssumption DEF BudgetInv, IInv, TypeOK
<1>4. CASE entrySeq' = entrySeq /\ (p \in M => p \in N)
  <2>1. M \in SUBSET N
    BY <1>2, <1>4
  <2>2. IsFiniteSet(M) /\ Cardinality(M) <= Cardinality(N) /\ Cardinality(M) \in Nat
    BY <1>3, <2>1, FS_Subset, FS_CardinalityType
  <2>3. QED BY <1>1, <1>3, <1>4, <2>2 DEF BudgetInv
<1>5. CASE entrySeq' = entrySeq /\ p \in M /\ p \notin N /\ InBudget
  <2>1. M = N \cup {p}
    BY <1>2, <1>5
  <2>2. IsFiniteSet(M) /\ Cardinality(M) = Cardinality(N) + 1
    BY <1>3, <1>5, <2>1, FS_AddElement
  <2>3. QED BY <1>1, <1>3, <1>5, <2>2 DEF BudgetInv, InBudget
<1>6. CASE entrySeq' = entrySeq + 1 /\ p \in N /\ p \notin M
  <2>1. M = N \ {p}
    BY <1>2, <1>6
  <2>2. IsFiniteSet(M) /\ Cardinality(M) = Cardinality(N) - 1
    BY <1>3, <1>6, <2>1, FS_RemoveElement
  <2>3. QED BY <1>1, <1>3, <1>6, <2>2 DEF BudgetInv
<1>7. QED BY <1>1, <1>4, <1>5, <1>6

\* Every step keeps within the bound.
LEMMA NextBudget == IInv /\ BudgetInv /\ [Next]_vars => BudgetInv'
<1> SUFFICES ASSUME IInv, BudgetInv, [Next]_vars PROVE BudgetInv'
  OBVIOUS
<1>1. ASSUME UNCHANGED <<entrySeq, tx>> PROVE BudgetInv'
  BY <1>1 DEF BudgetInv, Numberless
<1>2. ASSUME NEW p \in Proc, Start(p) \/ Continue(p) \/ Crash(p) PROVE BudgetInv'
  <2>1. /\ tx \in [Proc -> Transaction]
        /\ \A q \in Proc \ {p} : tx'[q] = tx[q]
        /\ p \in Numberless <=> tx[p].pc \in {"lockingHeader", "reading", "posting"}
        /\ p \in Numberless' <=> tx'[p].pc \in {"lockingHeader", "reading", "posting"}
    BY <1>2, OthersStay DEF IInv, TypeOK, Numberless
  <2>2. ASSUME entrySeq' = entrySeq, p \in Numberless' => p \in Numberless \/ InBudget
        PROVE  BudgetInv'
    BY <2>1, <2>2, BudgetStep
  <2>3. CASE PostManualEntry(p) \/ ReverseEntry(p) \/ ConsumeMessage(p)
    <3>1. entrySeq' = entrySeq /\ InBudget
      BY <2>3 DEF PostManualEntry, ReverseEntry, ConsumeMessage, Claim
    <3>2. QED BY <2>2, <3>1
  <2>4. CASE TransitionPeriod(p)
    <3>1. PICK op, e, m, k : Claim(p, k, [Idle EXCEPT !.pc = "changing", !.op = op,
                                                   !.entity = e, !.target = m])
      BY <2>4 DEF TransitionPeriod
    <3>2. tx'[p].pc = "changing" /\ entrySeq' = entrySeq
      BY <2>1, <3>1 DEF Claim, Idle
    <3>3. QED BY <2>1, <2>2, <3>2
  <2>5. CASE Replay(p)
    <3>1. tx'[p].pc = "replied" /\ entrySeq' = entrySeq
      BY <2>1, <2>5 DEF Replay, Idle
    <3>2. QED BY <2>1, <2>2, <3>1
  <2>6. CASE LockHeader(p) \/ ReadOriginal(p) \/ LockPeriodRow(p)
    <3>1. p \in Numberless /\ entrySeq' = entrySeq
      BY <2>1, <2>6 DEF LockHeader, ReadOriginal, LockPeriodRow
    <3>2. QED BY <2>2, <3>1
  <2>7. CASE LockForChange(p) \/ InsertLines(p) \/ ApplyCredit(p)
    <3>1. tx'[p].pc \in {"ready", "crediting"} /\ entrySeq' = entrySeq
      <4>1. tx[p] \in Transaction
        BY <2>1
      <4>2. QED BY <2>1, <2>7, <4>1 DEF LockForChange, InsertLines, ApplyCredit, Transaction
    <3>2. QED BY <2>1, <2>2, <3>1
  <2>8. CASE InsertHeader(p) \/ SkipDuplicate(p)
    <3>1. /\ tx[p].pc = "posting" /\ tx'[p].pc \in {"insertingLines", "ready"}
          /\ entrySeq' = entrySeq + 1
      <4>1. tx[p] \in Transaction
        BY <2>1
      <4>2. QED BY <2>1, <2>8, <4>1 DEF InsertHeader, SkipDuplicate, Resolved, Transaction
    <3>2. QED BY <2>1, <3>1, BudgetStep
  <2>9. CASE CommitTransition(p) \/ CommitNothing(p) \/ CommitEntry(p) \/ Refuse(p)
             \/ Return(p) \/ Crash(p)
    <3>1. tx' = [tx EXCEPT ![p] = Idle] /\ entrySeq' = entrySeq
      BY <2>9 DEF CommitTransition, CommitNothing, CommitEntry, Refuse, Return, Crash, Rollback,
                  End
    <3>2. tx'[p].pc = "idle"
      BY <2>1, <3>1 DEF Idle
    <3>3. QED BY <2>1, <2>2, <3>1, <3>2
  <2>10. QED
    BY <1>2, <2>3, <2>4, <2>5, <2>6, <2>7, <2>8, <2>9 DEF Start, Continue
<1>3. CASE ConsumeSnapshot \/ NextPeriodBegins \/ UNCHANGED vars
  BY <1>1, <1>3 DEF ConsumeSnapshot, NextPeriodBegins, vars
<1>4. QED BY <1>2, <1>3 DEF Next

\* Nobody has drawn a number in the beginning.
LEMMA InitBudget == Init => BudgetInv
<1> SUFFICES ASSUME Init PROVE BudgetInv
  OBVIOUS
<1>1. Numberless = {}
  BY DEF Init, Numberless, Idle
<1>2. QED BY <1>1, FS_EmptySet, PeriodsAssumption DEF Init, BudgetInv

------------------------------------------------------------------------------
\* What the journal shows of entry n of a period is one of its entries; and the
\* other way round.
LEMMA BookShown ==
  ASSUME PostNoGapFree, NEW e \in Entities, NEW m \in Periods
  PROVE  /\ \A n \in 1..lastPostSeq[e][m] : \E x \in Book(e, m) :
              x.postNo = n /\ JournalOf(e, m)[n] = PostingOf(x)
         /\ \A x \in Book(e, m) : /\ x.postNo \in 1..lastPostSeq[e][m]
                                  /\ JournalOf(e, m)[x.postNo] = PostingOf(x)
<1>1. /\ {x.postNo : x \in Book(e, m)} = 1..lastPostSeq[e][m]
      /\ \A x, y \in Book(e, m) : x.postNo = y.postNo => x = y
  BY DEF PostNoGapFree
<1>2. ASSUME NEW x \in Book(e, m)
      PROVE  /\ x.postNo \in 1..lastPostSeq[e][m]
             /\ JournalOf(e, m)[x.postNo] = PostingOf(x)
  <2>1. x.postNo \in 1..lastPostSeq[e][m]
    BY <1>1
  <2>2. (CHOOSE y \in Book(e, m) : y.postNo = x.postNo) = x
    BY <1>1
  <2>3. QED BY <2>1, <2>2 DEF JournalOf
<1>3. QED BY <1>1, <1>2

\* All that the ledger shows of a legal entity are its entries.
LEMMA PostingsShown ==
  ASSUME IInv
  PROVE  /\ \A e \in Entities :
              Ledger!Postings(e) = {PostingOf(x) : x \in {y \in entries : y.entity = e}}
         /\ Ledger!AllPostings = {PostingOf(x) : x \in entries}
<1>1. PostNoGapFree /\ \A x \in entries : x.entity \in Entities /\ x.period \in Periods
  BY DEF IInv, TypeOK, Entry
<1>2. ASSUME NEW e \in Entities, NEW m \in Periods
      PROVE  {JournalOf(e, m)[n] : n \in DOMAIN JournalOf(e, m)}
               = {PostingOf(x) : x \in Book(e, m)}
  <2>1. DOMAIN JournalOf(e, m) = 1..lastPostSeq[e][m]
    BY DEF JournalOf
  <2>2. /\ \A n \in DOMAIN JournalOf(e, m) : \E x \in Book(e, m) :
              x.postNo = n /\ JournalOf(e, m)[n] = PostingOf(x)
        /\ \A x \in Book(e, m) : /\ x.postNo \in DOMAIN JournalOf(e, m)
                                 /\ JournalOf(e, m)[x.postNo] = PostingOf(x)
    BY <1>1, <2>1, BookShown
  <2>3. QED BY <2>2
<1>3. ASSUME NEW e \in Entities
      PROVE  Ledger!Postings(e) = {PostingOf(x) : x \in {y \in entries : y.entity = e}}
  <2>1. Ledger!Postings(e) =
          UNION {{JournalOf(e, m)[n] : n \in DOMAIN JournalOf(e, m)} : m \in Periods}
    BY DEF Ledger!Postings, Ledger!Periods
  <2>2. Ledger!Postings(e) = UNION {{PostingOf(x) : x \in Book(e, m)} : m \in Periods}
    BY <1>2, <2>1
  <2>3. \A x : (x \in entries /\ x.entity = e) <=> \E m \in Periods : x \in Book(e, m)
    BY <1>1 DEF Book
  <2>4. QED BY <2>2, <2>3
<1>4. Ledger!AllPostings = {PostingOf(x) : x \in entries}
  BY <1>1, <1>3 DEF Ledger!AllPostings
<1>5. QED BY <1>3, <1>4

\* A command's entry has the key whose result it is as its cause.
LEMMA KeyIsCause ==
  ASSUME EffectInv, NEW x \in entries, x.doc = NoDoc
  PROVE  \E r \in idempotency : /\ {s \in idempotency : s.entry = x.id} = {r}
                               /\ CauseOf(x) = <<"key", r.key>>
<1>1. PICK r \in idempotency : {s \in idempotency : s.entry = x.id} = {r}
  BY DEF EffectInv, ResultsOK
<1>2. (CHOOSE s \in idempotency : s.entry = x.id) = r
  BY <1>1
<1>3. QED BY <1>1, <1>2 DEF CauseOf

\* The cause of an entry remains what it is: results are not taken back.
LEMMA CauseStays ==
  ASSUME EffectInv, EffectInv', idempotency \subseteq idempotency',
         NEW x \in entries, x \in entries'
  PROVE  PostingOf(x)' = PostingOf(x)
<1>1. CASE x.doc # NoDoc
  BY <1>1 DEF PostingOf, CauseOf
<1>2. CASE x.doc = NoDoc
  <2>1. PICK r \in idempotency : /\ {s \in idempotency : s.entry = x.id} = {r}
                                /\ CauseOf(x) = <<"key", r.key>>
    BY <1>2, KeyIsCause
  <2>2. PICK r2 \in idempotency' : {s \in idempotency' : s.entry = x.id} = {r2}
    BY <1>2 DEF EffectInv, ResultsOK
  <2>3. r2 = r
    BY <2>1, <2>2
  <2>4. (CHOOSE s \in idempotency' : s.entry = x.id) = r2
    BY <2>2
  <2>5. CauseOf(x)' = <<"key", r.key>>
    BY <1>2, <2>3, <2>4 DEF CauseOf
  <2>6. QED BY <2>1, <2>5 DEF PostingOf
<1>3. QED BY <1>1, <1>2

\* A period's journal stays while its entries do.
LEMMA JournalStays ==
  ASSUME IInv, EffectInv, EffectInv', idempotency \subseteq idempotency',
         NEW e \in Entities, NEW m \in Periods,
         Book(e, m)' = Book(e, m), lastPostSeq'[e][m] = lastPostSeq[e][m]
  PROVE  JournalOf(e, m)' = JournalOf(e, m)
<1>1. ASSUME NEW n \in 1..lastPostSeq[e][m]
      PROVE  PostingOf(CHOOSE x \in Book(e, m) : x.postNo = n)'
               = PostingOf(CHOOSE x \in Book(e, m) : x.postNo = n)
  <2>1. PICK x : x = CHOOSE y \in Book(e, m) : y.postNo = n
    OBVIOUS
  <2>2. \E y \in Book(e, m) : y.postNo = n
    BY DEF IInv, PostNoGapFree
  <2>3. x \in Book(e, m)
    BY <2>1, <2>2
  <2>4. x \in entries /\ x \in entries'
    BY <2>3 DEF Book
  <2>5. (CHOOSE y \in Book(e, m)' : y.postNo = n) = x
    BY <2>1
  <2>6. PostingOf(x)' = PostingOf(x)
    BY <2>4, CauseStays
  <2>7. QED BY <2>1, <2>5, <2>6 DEF PostingOf, CauseOf
<1>2. QED BY <1>1 DEF JournalOf

------------------------------------------------------------------------------
\* A step that shows nothing: no status, entry, post number, result or exposure
\* changes.
LEMMA NothingShown ==
  ASSUME UNCHANGED <<status, lastPostSeq, entries, idempotency, exposure>>
  PROVE  UNCHANGED Ledger!ledger
BY DEF Ledger!ledger, JournalOf, PostingOf, CauseOf, Book

\* A period command moves the period, or finds it where it was to lead.
LEMMA TransitionShown ==
  ASSUME IInv, EffectInv, EffectInv', NEW p \in Proc, CommitTransition(p)
  PROVE  [Ledger!Next]_(Ledger!ledger)
<1>1. PICK s, e, m, r : s = tx[p] /\ e = s.entity /\ m = s.target /\ r = ResultOf(s)
  OBVIOUS
<1>2. /\ s.pc = "ready" /\ s.op \in PeriodCommands
      /\ status' = [status EXCEPT ![e][m] = To(s.op)]
      /\ idempotency' = idempotency \cup {r}
      /\ UNCHANGED <<lastPostSeq, entries, exposure>>
  BY <1>1 DEF CommitTransition
<1>3. s \in Transaction /\ SessionOK(s, locks[p]) /\ status \in [Entities -> [Periods -> Statuses]]
  BY <1>1 DEF IInv, TypeOK
<1>4. e \in Entities /\ m \in Periods /\ status[e][m] \in {From(s.op), To(s.op)}
  <2>1. s.target # 0 /\ status[s.entity][s.target] \in {From(s.op), To(s.op)}
    BY <1>2, <1>3 DEF SessionOK, StageOK, ChangeOK
  <2>2. QED BY <1>1, <1>3, <2>1, PeriodsAssumption DEF Transaction
<1>5. \A d \in Entities, n \in Periods : JournalOf(d, n)' = JournalOf(d, n)
  <2>1. SUFFICES ASSUME NEW d \in Entities, NEW n \in Periods
                 PROVE  JournalOf(d, n)' = JournalOf(d, n)
    OBVIOUS
  <2>2. Book(d, n)' = Book(d, n) /\ lastPostSeq'[d][n] = lastPostSeq[d][n]
    BY <1>2 DEF Book
  <2>3. QED BY <1>2, <2>2, JournalStays
<1>6. UNCHANGED [d \in Entities |-> [n \in Periods |-> JournalOf(d, n)]]
  BY <1>5
<1>7. CASE status[e][m] = To(s.op)
  <2>1. status' = status
    BY <1>2, <1>3, <1>4, <1>7
  <2>2. QED BY <1>2, <1>6, <2>1 DEF Ledger!ledger
<1>8. CASE status[e][m] = From(s.op)
  <2>1. <<From(s.op), To(s.op)>> \in
          {<<"OPEN", "CLOSED">>, <<"CLOSED", "OPEN">>, <<"CLOSED", "LOCKED">>}
    BY <1>2 DEF PeriodCommands, From, To
  <2>2. Ledger!Move(e, m)
    BY <1>2, <1>6, <1>8, <2>1 DEF Ledger!Move
  <2>3. QED BY <1>4, <2>2 DEF Ledger!Next, Ledger!Periods
<1>9. QED BY <1>4, <1>7, <1>8

\* A sequence that is longer by one is the shorter one with its last element.
LEMMA LongerByOne ==
  ASSUME NEW S, NEW n \in Nat, NEW J \in [1..n -> S], NEW K \in [1..n + 1 -> S],
         \A i \in 1..n : K[i] = J[i]
  PROVE  K = Append(J, K[n + 1])
<1>1. J \in Seq(S) /\ K \in Seq(S) /\ Len(J) = n /\ Len(K) = n + 1 /\ K[n + 1] \in S
  BY SeqDef
<1>2. PICK A : A = Append(J, K[n + 1])
  OBVIOUS
<1>3. /\ A \in Seq(S) /\ Len(A) = n + 1
      /\ \A i \in 1..n + 1 : A[i] = IF i = n + 1 THEN K[n + 1] ELSE J[i]
  BY <1>1, <1>2
<1>4. \A i \in 1..Len(K) : K[i] = A[i]
  BY <1>1, <1>3
<1>5. K = A
  BY <1>1, <1>3, <1>4, SeqEqual
<1>6. QED BY <1>2, <1>5

\* A posting that commits is appended to the journal of its period, and may be:
\* neither its number nor its cause nor its original is one that the books have.
LEMMA CommitShown ==
  ASSUME IInv, EffectInv, EffectInv', BudgetInv, GuessedIds = FALSE,
         NEW p \in Proc, CommitEntry(p)
  PROVE  Ledger!Next
<1>1. PICK s, e, m, x, r : /\ s = tx[p] /\ e = s.entity /\ m = s.target
                           /\ x = EntryOf(s) /\ r = ResultOf(s)
  OBVIOUS
<1>2. /\ s.pc = "ready" /\ s.entry # 0
      /\ entries' = entries \cup {x}
      /\ lastPostSeq' = [lastPostSeq EXCEPT ![e][m] = s.seq]
      /\ idempotency' = idempotency \cup (IF s.key = NoKey THEN {} ELSE {r})
      /\ exposure' = IF IsOrder(s) THEN [exposure EXCEPT ![s.msg.customer] = s.owed]
                                   ELSE exposure
      /\ status' = status
  BY <1>1 DEF CommitEntry
<1>3. /\ e \in Entities /\ m \in Periods /\ lastPostSeq[e][m] \in Nat
      /\ s.seq = lastPostSeq[e][m] + 1 /\ status[e][m] = "OPEN"
      /\ (SourceOf(s) # NoDoc => PostedFrom(SourceOf(s)) = {})
      /\ SourceOf(s) \in Docs \cup {NoDoc}
  BY <1>1, <1>2, ReadyEntry
<1>4. /\ s \in Transaction /\ WithId(s.entry) = {}
      /\ s.op = "consume" => s.msg \in Messages /\ s.msg.customer \in Customers
                            /\ SourceOf(s) = s.msg.doc /\ s.msg.doc # NoDoc
      /\ s.op # "consume" => /\ s.key \in Keys /\ s.key # NoKey /\ SourceOf(s) = NoDoc
                            /\ Result(s.key) = {}
      /\ s.original # 0 => /\ ReversalsOf(s.original) = {}
                           /\ \E y \in WithId(s.original) : y.entity = s.entity
      /\ IsOrder(s) => s.owed = exposure[s.msg.customer] + s.msg.amount
  BY <1>1, <1>2, ReadyEffect
<1>5. /\ x.id = s.entry /\ x.entity = e /\ x.period = m /\ x.postNo = s.seq
      /\ x.doc = SourceOf(s) /\ x.reverses = s.original
      /\ r.key = s.key /\ r.entry = s.entry
  BY <1>1 DEF EntryOf, ResultOf
<1>6. \A y \in entries' : y.id \in 1..MaxEntrySeq
  <2>1. Cardinality(Numberless) \in Nat /\ entrySeq \in Nat /\ MaxEntrySeq \in Nat
    BY FS_CardinalityType, PeriodsAssumption DEF BudgetInv, IInv, TypeOK
  <2>2. entrySeq <= MaxEntrySeq
    BY <2>1 DEF BudgetInv
  <2>3. \A y \in entries : y.id \in Nat \ {0} /\ y.id <= entrySeq
    BY DEF EffectInv, NumbersOK, IInv, TypeOK, Entry
  <2>4. s.entry \in Nat /\ s.entry <= entrySeq
    BY <1>1, <1>2, <1>4 DEF EffectInv, EffectOK, NumberOK, Transaction
  <2>5. QED BY <1>2, <1>5, <2>1, <2>2, <2>3, <2>4
<1>7. PICK z : z = PostingOf(x)'
  OBVIOUS
<1>8. z.id = x.id /\ z.reverses = x.reverses
      /\ z.cause = IF x.doc # NoDoc THEN <<"source", x.doc>> ELSE <<"key", s.key>>
  <2>1. z = [id |-> x.id, cause |-> CauseOf(x)', reverses |-> x.reverses]
    BY <1>7 DEF PostingOf
  <2>2. CASE x.doc # NoDoc
    BY <2>1, <2>2 DEF CauseOf
  <2>3. CASE x.doc = NoDoc
    <3>1. x \in entries' /\ r \in idempotency' /\ r.entry = x.id
      BY <1>2, <1>4, <1>5, <2>3
    <3>2. PICK k : {l \in idempotency' : l.entry = x.id} = {k}
      BY <2>3, <3>1 DEF EffectInv, ResultsOK
    <3>3. k = r
      BY <3>1, <3>2
    <3>4. (CHOOSE l \in idempotency' : l.entry = x.id) = r
      BY <3>2, <3>3
    <3>5. CauseOf(x)' = <<"key", r.key>>
      BY <2>3, <3>4 DEF CauseOf
    <3>6. QED BY <1>5, <2>1, <2>3, <3>5
  <2>4. QED BY <2>2, <2>3
<1>9. z \in Ledger!Posting
  <2>1. z = [id |-> z.id, cause |-> z.cause, reverses |-> z.reverses]
    BY <1>7 DEF PostingOf
  <2>2. z.id \in 1..MaxEntrySeq
    BY <1>2, <1>6, <1>8
  <2>3. z.reverses \in (1..MaxEntrySeq) \cup {0}
    BY <1>2, <1>4, <1>5, <1>6, <1>8 DEF WithId
  <2>4. z.cause \in ({"key"} \X Keys) \cup ({"source"} \X Docs)
    BY <1>3, <1>4, <1>5, <1>8
  <2>5. QED BY <2>1, <2>2, <2>3, <2>4 DEF Ledger!Posting
<1>10. Ledger!MayPost(e, z)
  <2>1. ASSUME NEW y \in entries
        PROVE  PostingOf(y).id # z.id /\ PostingOf(y).cause # z.cause
               /\ (z.reverses # 0 => PostingOf(y).reverses # z.reverses)
    <3>1. PostingOf(y).id = y.id /\ PostingOf(y).reverses = y.reverses
          /\ PostingOf(y).cause = CauseOf(y)
      BY DEF PostingOf
    <3>2. y.id # z.id
      BY <1>4, <1>5, <1>8 DEF WithId
    <3>3. z.reverses # 0 => y.reverses # z.reverses
      BY <1>4, <1>5, <1>8 DEF ReversalsOf
    <3>4. CauseOf(y) # z.cause
      <4>1. CASE y.doc # NoDoc
        <5>1. CauseOf(y) = <<"source", y.doc>>
          BY <4>1 DEF CauseOf
        <5>2. y.doc # x.doc
          BY <1>3, <1>5, <4>1 DEF PostedFrom
        <5>3. QED BY <1>8, <5>1, <5>2
      <4>2. CASE y.doc = NoDoc
        <5>1. PICK k \in idempotency : CauseOf(y) = <<"key", k.key>>
          BY <4>2, KeyIsCause
        <5>2. x.doc = NoDoc => k.key # s.key
          BY <1>4, <1>5 DEF Result
        <5>3. QED BY <1>8, <5>1, <5>2
      <4>3. QED BY <4>1, <4>2
    <3>5. QED BY <3>1, <3>2, <3>3, <3>4
  <2>2. ASSUME z.reverses # 0
        PROVE  \E y \in Ledger!Postings(e) : y.id = z.reverses
    <3>1. PICK y \in WithId(s.original) : y.entity = e
      BY <1>1, <1>4, <1>5, <1>8, <2>2
    <3>2. y \in entries /\ y.entity = e /\ PostingOf(y).id = z.reverses
      BY <1>5, <1>8, <3>1 DEF WithId, PostingOf
    <3>3. PostingOf(y) \in Ledger!Postings(e)
      BY <1>3, <3>2, PostingsShown
    <3>4. QED BY <3>2, <3>3
  <2>3. \A y \in Ledger!AllPostings : \E w \in entries : y = PostingOf(w)
    BY PostingsShown
  <2>4. QED BY <2>1, <2>2, <2>3 DEF Ledger!MayPost
<1>11. \A d \in Entities, n \in Periods : ~(d = e /\ n = m) => JournalOf(d, n)' = JournalOf(d, n)
  <2>1. SUFFICES ASSUME NEW d \in Entities, NEW n \in Periods, ~(d = e /\ n = m)
                 PROVE  JournalOf(d, n)' = JournalOf(d, n)
    OBVIOUS
  <2>2. Book(d, n)' = Book(d, n)
    BY <1>2, <1>5, <2>1 DEF Book
  <2>3. lastPostSeq'[d][n] = lastPostSeq[d][n]
    BY <1>2, <1>3, <2>1 DEF IInv, TypeOK
  <2>4. QED BY <1>2, <2>2, <2>3, JournalStays
<1>12. JournalOf(e, m)' = Append(JournalOf(e, m), z)
  <2>1. PICK N, J, K : N = lastPostSeq[e][m] /\ J = JournalOf(e, m) /\ K = JournalOf(e, m)'
    OBVIOUS
  <2>2. N \in Nat /\ lastPostSeq'[e][m] = N + 1 /\ x.postNo = N + 1
    BY <1>2, <1>3, <1>5, <2>1 DEF IInv, TypeOK
  <2>3. Book(e, m)' = Book(e, m) \cup {x}
    BY <1>2, <1>5 DEF Book
  <2>4. /\ {y.postNo : y \in Book(e, m)} = 1..N
        /\ \A y, w \in Book(e, m) : y.postNo = w.postNo => y = w
    BY <1>3, <2>1 DEF IInv, PostNoGapFree
  <2>5. K = [n \in 1..N + 1 |-> PostingOf(CHOOSE y \in Book(e, m) : y.postNo = n)']
    BY <2>1, <2>2 DEF JournalOf
  <2>6. K[N + 1] = z
    <3>1. (CHOOSE y \in Book(e, m)' : y.postNo = N + 1) = x
      <4>1. \A y \in Book(e, m) : y.postNo \in 1..N
        BY <2>4
      <4>2. \A y \in Book(e, m)' : y.postNo = N + 1 <=> y = x
        BY <2>2, <2>3, <4>1
      <4>3. x \in Book(e, m)'
        BY <2>3
      <4>4. QED BY <4>2, <4>3
    <3>2. K[N + 1] = PostingOf(CHOOSE y \in Book(e, m) : y.postNo = N + 1)'
      BY <2>2, <2>5
    <3>3. PostingOf(CHOOSE y \in Book(e, m) : y.postNo = N + 1)' = PostingOf(x)'
      BY <3>1
    <3>4. QED BY <1>7, <3>2, <3>3
  <2>7. ASSUME NEW i \in 1..N PROVE K[i] = J[i]
    <3>1. PICK y \in Book(e, m) : y.postNo = i
      BY <2>4
    <3>2. (CHOOSE w \in Book(e, m) : w.postNo = i) = y
      BY <2>4, <3>1
    <3>3. (CHOOSE w \in Book(e, m)' : w.postNo = i) = y
      BY <2>2, <2>3, <2>4, <3>1
    <3>4. PostingOf(y)' = PostingOf(y)
      <4>1. y \in entries /\ y \in entries' /\ idempotency \subseteq idempotency'
        BY <1>2, <3>1 DEF Book
      <4>2. QED BY <4>1, CauseStays
    <3>5. J[i] = PostingOf(y)
      BY <2>1, <3>2 DEF JournalOf
    <3>6. K[i] = PostingOf(CHOOSE w \in Book(e, m) : w.postNo = i)'
      BY <2>2, <2>5
    <3>7. PostingOf(CHOOSE w \in Book(e, m) : w.postNo = i)' = PostingOf(y)'
      BY <3>3
    <3>8. QED BY <3>4, <3>5, <3>6, <3>7
  <2>8. PICK S : S = {J[i] : i \in 1..N} \cup {K[i] : i \in 1..N + 1}
    OBVIOUS
  <2>9. J \in [1..N -> S] /\ K \in [1..N + 1 -> S]
    <3>1. J = [i \in 1..N |-> J[i]] /\ K = [i \in 1..N + 1 |-> K[i]]
      BY <2>1, <2>5 DEF JournalOf
    <3>2. QED BY <2>8, <3>1
  <2>10. K = Append(J, K[N + 1])
    BY <2>2, <2>7, <2>9, LongerByOne
  <2>11. QED BY <2>1, <2>6, <2>10
<1>13. [d \in Entities |-> [n \in Periods |-> JournalOf(d, n)]]'
         = [[d \in Entities |-> [n \in Periods |-> JournalOf(d, n)]] EXCEPT
              ![e][m] = Append(@, z)]
  BY <1>3, <1>11, <1>12
<1>14. \/ exposure' = exposure
       \/ \E c \in Customers, a \in {k.amount : k \in Messages} :
            exposure' = [exposure EXCEPT ![c] = @ + a]
  <2>1. CASE ~IsOrder(s)
    BY <1>2, <2>1
  <2>2. CASE IsOrder(s)
    <3>1. s.msg \in Messages /\ s.msg.customer \in Customers
      BY <1>4, <2>2 DEF IsOrder
    <3>2. exposure' = [exposure EXCEPT ![s.msg.customer] = @ + s.msg.amount]
      BY <1>2, <1>4, <2>2
    <3>3. QED BY <3>1, <3>2
  <2>3. QED BY <2>1, <2>2
<1>15. Ledger!Post(e, m)
  BY <1>2, <1>3, <1>9, <1>10, <1>13, <1>14 DEF Ledger!Post
<1>16. QED BY <1>3, <1>15 DEF Ledger!Next, Ledger!Periods

\* The empty tables are the empty ledger.
LEMMA InitShown == Init => Ledger!Init
<1> SUFFICES ASSUME Init PROVE Ledger!Init
  OBVIOUS
<1>1. ASSUME NEW e \in Entities, NEW m \in Periods PROVE JournalOf(e, m) = <<>>
  <2>1. lastPostSeq[e][m] = 0
    BY DEF Init
  <2>2. 1..lastPostSeq[e][m] = {}
    BY <2>1
  <2>3. QED BY <2>2 DEF JournalOf
<1>2. [e \in Entities |-> [m \in Periods |-> JournalOf(e, m)]]
        = [e \in Entities |-> [m \in Periods |-> <<>>]]
  BY <1>1
<1>3. QED BY <1>2 DEF Init, Ledger!Init, Ledger!Periods

\* Every step is a step of the ledger, or shows nothing.
LEMMA NextShown ==
  ASSUME GuessedIds = FALSE, IInv, EffectInv, BudgetInv, [Next]_vars
  PROVE  [Ledger!Next]_(Ledger!ledger)
<1>1. EffectInv'
  BY NextEffect
<1>2. ASSUME UNCHANGED <<status, lastPostSeq, entries, idempotency, exposure>>
      PROVE  [Ledger!Next]_(Ledger!ledger)
  BY <1>2, NothingShown
<1>3. ASSUME NEW p \in Proc, Start(p)
      PROVE  UNCHANGED <<status, lastPostSeq, entries, idempotency, exposure>>
  BY <1>3 DEF Start, PostManualEntry, ReverseEntry, TransitionPeriod, ConsumeMessage, Replay,
              Claim, tables
<1>4. ASSUME NEW p \in Proc, Continue(p) \/ Crash(p)
      PROVE  \/ CommitEntry(p) \/ CommitTransition(p)
             \/ UNCHANGED <<status, lastPostSeq, entries, idempotency, exposure>>
  BY <1>4 DEF Continue, Crash, LockHeader, ReadOriginal, LockForChange, LockPeriodRow,
              InsertHeader, SkipDuplicate, InsertLines, ApplyCredit,
              CommitNothing, Refuse, Rollback, Return, tables
<1>5. CASE ConsumeSnapshot \/ NextPeriodBegins \/ UNCHANGED vars
  BY <1>2, <1>5 DEF ConsumeSnapshot, NextPeriodBegins, vars, tables
<1>6. QED BY <1>1, <1>2, <1>3, <1>4, <1>5, CommitShown, TransitionShown DEF Next

\* If no client names an entry that is not committed, then whatever the sessions
\* do is one posting or one move of the ledger that readers are promised, or
\* nothing (postEntryTx and transitionPeriod commit whole).
THEOREM LedgerImplemented ==
  ASSUME GuessedIds = FALSE
  PROVE  Spec => ImplementsLedger
<1>1. Init => Ledger!Init
  BY InitShown
<1>2. IInv /\ EffectInv /\ BudgetInv /\ [Next]_vars => [Ledger!Next]_(Ledger!ledger)
  BY NextShown
<1>3. Init => BudgetInv
  BY InitBudget
<1>4. IInv /\ BudgetInv /\ [Next]_vars => BudgetInv'
  BY NextBudget
<1>5. QED
  BY <1>1, <1>2, <1>3, <1>4, Invariance, EffectInvariance, PTL
  DEF Spec, ImplementsLedger, Ledger!Spec
==============================================================================
