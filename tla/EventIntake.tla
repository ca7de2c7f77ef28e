------------------------------ MODULE EventIntake ------------------------------
(***************************************************************************)
(* The event consumers of all replicas: NATS hands every message to every  *)
(* replica that listens at that time and to nobody later; each of the four *)
(* subscriptions of a replica handles its messages one by one, each in a   *)
(* transaction of its own, and a message whose handling fails is gone.     *)
(* What posting does inside that transaction is Posting's; here it is one  *)
(* step, and the replicas, their queues and their ends are what matters.   *)
(***************************************************************************)
EXTENDS Naturals, Sequences, FiniteSets

CONSTANTS
  Replica,
  Customers,
  Messages,      \* what the other components may send
  NoMessage,
  Carried,       \* the customer copies that release 1.x left behind
  Frail,         \* the replicas that may fail in this instance
  MaxSends,      \* bound: how often upstream sends the same message
  MaxFaults      \* bound: crashes, shutdowns, failures of a database or a subscription

VARIABLES
  sent,      \* sent[m]: how often m was published
  queue,     \* queue[r][s]: what subscription s of r has received and not handled
  work,      \* work[r][s]: the message it is handling
  subs,      \* subs[r][s]: "off" when its goroutine has ended
  errCh,     \* errCh[r]: how many results consumer.Start has not received yet
  stage,     \* stage[r]: "up"; "ended": Start has returned an error; "cancelled": its
             \* context, by the shell or with the process
  inbox,     \* event_inbox: <<subject, aggregate, version>>
  booked,    \* booked[m]: entries that were made from message m
  exposure,  \* customer_credit_exposure
  copy,      \* customer_credit_snapshots
  faults,    \* how many there were, for the bound
  excuse     \* history: excuse[d]: the replicas that lost document d through no
             \* fault of theirs

vars == <<sent, queue, work, subs, errCh, stage, inbox, booked, exposure, copy, faults, excuse>>

Subjects == {"order", "movement", "customerCreated", "customerUpdated"}
Limits == [ok : BOOLEAN, value : Nat]
Documents == {m \in Messages : m.sound /\ m.subject \in {"order", "movement"}}

\* sound: the payload parses, and so do its amount and quantity; an order of zero
\* is refused like one that does not parse.  The aggregate of an order or movement
\* event is the order or the movement, which is announced once (consumer_test.go:104
\* and :153, scripts/seed.sh:88).
ASSUME MessagesAssumption ==
  /\ Messages \subseteq [subject : Subjects, aggregate : Nat, version : Nat \ {0}, sound : BOOLEAN,
                        customer : Customers, amount : Nat, limit : Limits]
  /\ \A m \in Messages : m.subject = "order" /\ m.sound => m.amount > 0
  /\ \A m, n \in Documents : m.subject = n.subject /\ m.aggregate = n.aggregate => m = n
  /\ NoMessage \notin Messages
  /\ Carried \in [Customers -> [version : Nat, limit : Limits]]
  /\ Frail \subseteq Replica /\ MaxSends \in Nat /\ MaxFaults \in Nat

database == <<inbox, booked, exposure, copy>>
member == <<subs, errCh, stage>>

------------------------------------------------------------------------------
(* Delivery.                                                                *)

Listening(r, m) == subs[r][m.subject] = "on"

Publish(m) ==
  /\ sent[m] < MaxSends
  /\ sent' = [sent EXCEPT ![m] = @ + 1]
  /\ queue' = [r \in Replica |-> IF Listening(r, m)
                                 THEN [queue[r] EXCEPT ![m.subject] = Append(@, m)]
                                 ELSE queue[r]]
  /\ excuse' = [d \in Documents |-> IF d = m THEN {r \in Replica : ~Listening(r, m)}
                                   ELSE excuse[d]]
  /\ UNCHANGED <<work, member, database, faults>>

Pending(r, s) == {queue[r][s][i] : i \in DOMAIN queue[r][s]} \cup ({work[r][s]} \ {NoMessage})

\* The inbox is monotonic: an older version of the same aggregate is skipped too.
Seen(m) == \E v \in {x[3] : x \in {y \in inbox : y[1] = m.subject /\ y[2] = m.aggregate}} :
             v >= m.version

Key(m) == <<m.subject, m.aggregate, m.version>>

\* Mutant: the inbox record is committed before the handler's transaction.
TakeAndRecord(r, s) ==
  /\ subs[r][s] = "on" /\ work[r][s] = NoMessage /\ queue[r][s] # <<>>
  /\ LET m == Head(queue[r][s]) IN
     /\ work' = IF Seen(m) THEN work ELSE [work EXCEPT ![r][s] = m]
     /\ inbox' = inbox \cup {Key(m)}
  /\ queue' = [queue EXCEPT ![r][s] = Tail(@)]
  /\ UNCHANGED <<sent, member, booked, exposure, copy, faults, excuse>>

\* besdk.Consume looks into the inbox; its unique index has created_at in it, so
\* two replicas may both find nothing there.
Take(r, s) ==
  /\ subs[r][s] = "on" /\ work[r][s] = NoMessage /\ queue[r][s] # <<>>
  /\ LET m == Head(queue[r][s]) IN
     work' = IF Seen(m) THEN work ELSE [work EXCEPT ![r][s] = m]
  /\ queue' = [queue EXCEPT ![r][s] = Tail(@)]
  /\ UNCHANGED <<sent, member, database, faults, excuse>>

Commit(r, s) ==
  /\ inbox' = inbox \cup {Key(work[r][s])}
  /\ work' = [work EXCEPT ![r][s] = NoMessage]
  /\ UNCHANGED <<sent, queue, member, faults, excuse>>

\* A rollback takes the inbox record with it; the message is not redelivered.
RollBack(r, s) ==
  /\ work' = [work EXCEPT ![r][s] = NoMessage]
  /\ UNCHANGED <<sent, queue, member, database>>

Excused(r, m) == excuse' = [d \in Documents |-> IF d = m THEN excuse[d] \cup {r} ELSE excuse[d]]

------------------------------------------------------------------------------
(* Handlers.                                                                *)

\* Mutant: relies on the inbox alone.
ClaimUnseen(m) == TRUE

\* ON CONFLICT (source) DO NOTHING: the document is not booked yet.
Unclaimed(m) == booked[m] = 0

\* Mutant: a limit that cannot be parsed is an error.
DecidableStrictly(limit) == limit.ok

\* exceedsLimit reports no error for a limit that is no amount: it counts as none.
Decidable(limit) == TRUE

salesOrderHandler(r) ==
  LET m == work[r]["order"] IN
  /\ m # NoMessage
  /\ m.sound
  /\ Unclaimed(m) => Decidable(copy[m.customer].limit)
  /\ booked' = [booked EXCEPT ![m] = IF Unclaimed(m) THEN @ + 1 ELSE @]
  /\ exposure' = [exposure EXCEPT ![m.customer] = IF Unclaimed(m) THEN @ + m.amount ELSE @]
  /\ Commit(r, "order")
  /\ UNCHANGED copy

\* A movement of quantity zero is recorded in the inbox, and nothing else.
inventoryAdjustedHandler(r) ==
  LET m == work[r]["movement"] IN
  /\ m # NoMessage
  /\ m.sound
  /\ booked' = [booked EXCEPT ![m] = IF m.amount > 0 /\ Unclaimed(m) THEN @ + 1 ELSE @]
  /\ Commit(r, "movement")
  /\ UNCHANGED <<exposure, copy>>

\* Mutant: the limit is stored as it comes.
Stored(limit) == limit

\* parseCents before the value reaches the NUMERIC column.
Checked(limit) == IF limit.ok THEN limit ELSE [ok |-> TRUE, value |-> 0]

UpsertCustomerSnapshotTx(m) ==
  copy' = IF copy[m.customer].version < m.version
          THEN [copy EXCEPT ![m.customer] = [version |-> m.version, limit |-> Checked(m.limit)]]
          ELSE copy

customerSnapshotHandler(r, s) ==
  LET m == work[r][s] IN
  /\ m # NoMessage
  /\ m.sound
  /\ UpsertCustomerSnapshotTx(m)
  /\ Commit(r, s)
  /\ UNCHANGED <<booked, exposure>>

\* The payload or a limit does not parse; no period is open for an entry of today
\* (they are closed and opened at any time), which is looked for before the document's
\* source is claimed, so that a document that is booked fails too; the database fails.
\* A movement of zero needs no period.
HandlerFails(r, s) ==
  LET m == work[r][s] IN
  /\ m # NoMessage
  /\ \/ /\ ~m.sound \/ (s = "order" /\ ~Decidable(copy[m.customer].limit))
        /\ UNCHANGED <<faults, excuse>>
     \/ /\ m \in Documents /\ m.amount > 0
        /\ Excused(r, m) /\ UNCHANGED faults
     \/ /\ r \in Frail /\ faults < MaxFaults /\ faults' = faults + 1
        /\ Excused(r, m)
  /\ RollBack(r, s)

------------------------------------------------------------------------------
(* The goroutines of a replica.                                             *)

Silent(r, S) ==
  /\ queue' = [queue EXCEPT ![r] = [s \in Subjects |-> IF s \in S THEN <<>> ELSE @[s]]]
  /\ work' = [work EXCEPT ![r] = [s \in Subjects |-> IF s \in S THEN NoMessage ELSE @[s]]]
  /\ excuse' = [d \in Documents |-> IF \E s \in S : d \in Pending(r, s) THEN excuse[d] \cup {r}
                                    ELSE excuse[d]]
  /\ UNCHANGED <<sent, database>>

\* What is no business of the messages.
Quiet == UNCHANGED <<sent, queue, work, database, faults, excuse>>

\* Mutant: make(chan error, 1).
OneResult == 1

\* make(chan error, len(subjects)): every goroutine can leave its result there, whether
\* or not Start still receives.
Capacity == Cardinality(Subjects)

\* errCh <- besdk.Consume(...): it returns an error at any time, or because the context
\* is cancelled, and a transaction that is open rolls back; the goroutine ends when its
\* result has found room in the channel.
ConsumeReturns(r, s) ==
  /\ subs[r][s] = "on" /\ errCh[r] < Capacity
  /\ \/ stage[r] = "cancelled" /\ UNCHANGED faults
     \/ stage[r] # "cancelled" /\ r \in Frail /\ faults < MaxFaults /\ faults' = faults + 1
  /\ errCh' = [errCh EXCEPT ![r] = @ + 1]
  /\ subs' = [subs EXCEPT ![r][s] = "off"]
  /\ Silent(r, {s})
  /\ UNCHANGED stage

\* Mutant: waits until all four subscriptions have ended.
ReturnAfterAll(r) ==
  /\ stage[r] = "up" /\ errCh[r] = Capacity
  /\ errCh' = [errCh EXCEPT ![r] = 0]
  /\ stage' = [stage EXCEPT ![r] = "ended"]
  /\ UNCHANGED subs /\ Quiet

\* The first error ends consumer.Start, and with it the module's Start.
Return(r) ==
  /\ stage[r] = "up" /\ errCh[r] > 0
  /\ errCh' = [errCh EXCEPT ![r] = @ - 1]
  /\ stage' = [stage EXCEPT ![r] = "ended"]
  /\ UNCHANGED subs /\ Quiet

\* A member whose Start has returned an error has its loops stopped (partition.go:27);
\* any other is shut down at some time.
Cancel(r) ==
  /\ \/ stage[r] = "ended" /\ UNCHANGED faults
     \/ stage[r] = "up" /\ r \in Frail /\ faults < MaxFaults /\ faults' = faults + 1
  /\ stage' = [stage EXCEPT ![r] = "cancelled"]
  /\ UNCHANGED <<sent, queue, work, subs, errCh, database, excuse>>

\* The process dies.
Crash(r) ==
  /\ r \in Frail /\ faults < MaxFaults /\ faults' = faults + 1
  /\ stage' = [stage EXCEPT ![r] = "cancelled"]
  /\ subs' = [subs EXCEPT ![r] = [s \in Subjects |-> "off"]]
  /\ errCh' = [errCh EXCEPT ![r] = 0]
  /\ Silent(r, Subjects)

\* The four goroutines and their channel, when somebody starts the member once more;
\* nobody has to.
Start(r) ==
  /\ stage[r] = "cancelled" /\ \A s \in Subjects : subs[r][s] = "off"
  /\ stage' = [stage EXCEPT ![r] = "up"]
  /\ subs' = [subs EXCEPT ![r] = [s \in Subjects |-> "on"]]
  /\ errCh' = [errCh EXCEPT ![r] = 0]
  /\ Quiet

------------------------------------------------------------------------------
Init ==
  /\ sent = [m \in Messages |-> 0]
  /\ queue = [r \in Replica |-> [s \in Subjects |-> <<>>]]
  /\ work = [r \in Replica |-> [s \in Subjects |-> NoMessage]]
  /\ subs = [r \in Replica |-> [s \in Subjects |-> "on"]]
  /\ errCh = [r \in Replica |-> 0]
  /\ stage = [r \in Replica |-> "up"]
  /\ inbox = {}
  /\ booked = [m \in Messages |-> 0]
  /\ exposure = [c \in Customers |-> 0]
  /\ copy = Carried
  /\ faults = 0
  /\ excuse = [d \in Documents |-> {}]

Handle(r, s) ==
  \/ Take(r, s)
  \/ s = "order" /\ salesOrderHandler(r)
  \/ s = "movement" /\ inventoryAdjustedHandler(r)
  \/ s \in {"customerCreated", "customerUpdated"} /\ customerSnapshotHandler(r, s)
  \/ HandlerFails(r, s)

Next ==
  \/ \E m \in Messages : Publish(m)
  \/ \E r \in Replica, s \in Subjects : Handle(r, s) \/ ConsumeReturns(r, s)
  \/ \E r \in Replica : Return(r) \/ Cancel(r) \/ Crash(r) \/ Start(r)

Spec == Init /\ [][Next]_vars

\* What goroutines do of themselves: every subscription goes on with its messages and,
\* when its context is cancelled, returns (consumer.go:6); Start receives what is in its
\* channel (consumer.go:45, module.go:64), and a member whose Start has returned an error
\* is stopped (partition.go:27).
GoOn ==
  \E r \in Replica :
    \/ \E s \in Subjects : Handle(r, s) \/ (stage[r] = "cancelled" /\ ConsumeReturns(r, s))
    \/ Return(r)
    \/ stage[r] = "ended" /\ Cancel(r)

\* As long as a goroutine can go on, one does.  Nobody has to send, to fail, to open a
\* period or to start a member again.
FairSpec == Spec /\ WF_vars(GoOn)
==============================================================================
