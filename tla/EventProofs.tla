------------------------------ MODULE EventProofs ------------------------------
(***************************************************************************)
(* Proofs about the event consumers.  The inductive invariant, IntakeInv,  *)
(* adds to the properties that a subscription has messages of its subject  *)
(* only, that the inbox knows a document only once it is handled, and that *)
(* nothing but documents is booked.                                        *)
(***************************************************************************)
EXTENDS EventProperties, SumProofs

\* What a queue holds: one message more at its end, one less at its head.
Elements(q) == {q[i] : i \in DOMAIN q}

\* The elements of an empty queue, of one with one message more, and of its tail.
LEMMA QueueElements ==
  ASSUME NEW S, NEW q \in Seq(S)
  PROVE  /\ Elements(<<>>) = {}
         /\ \A x \in S : Elements(Append(q, x)) = Elements(q) \cup {x}
         /\ q # <<>> => Elements(q) = Elements(Tail(q)) \cup {Head(q)}
<1>1. Elements(<<>>) = {}
  BY DEF Elements
<1>2. \A x \in S : Elements(Append(q, x)) = Elements(q) \cup {x}
  <2>1. SUFFICES ASSUME NEW x \in S PROVE Elements(Append(q, x)) = Elements(q) \cup {x}
    OBVIOUS
  <2> DEFINE a == Append(q, x)
  <2>2. DOMAIN a = 1..(Len(q) + 1) /\ DOMAIN q = 1..Len(q) /\ Len(q) \in Nat
        /\ a[Len(q) + 1] = x /\ \A i \in 1..Len(q) : a[i] = q[i]
    OBVIOUS
  <2> HIDE DEF a
  <2>3. QED BY <2>2 DEF Elements
<1>3. ASSUME q # <<>> PROVE Elements(q) = Elements(Tail(q)) \cup {Head(q)}
  <2> DEFINE t == Tail(q)
  <2>1. t = Tail(q) /\ DOMAIN t = 1..(Len(q) - 1) /\ DOMAIN q = 1..Len(q) /\ Len(q) \in Nat \ {0}
        /\ Head(q) = q[1] /\ \A i \in 1..(Len(q) - 1) : t[i] = q[i + 1]
    BY <1>3
  <2> HIDE DEF t
  <2>2. \A i \in 1..Len(q) : i = 1 \/ i - 1 \in 1..(Len(q) - 1)
    BY <2>1
  <2>3. ASSUME NEW i \in DOMAIN q PROVE q[i] \in Elements(t) \cup {Head(q)}
    <3>1. CASE i = 1
      BY <2>1, <3>1
    <3>2. CASE i # 1
      <4>1. i - 1 \in DOMAIN t /\ t[i - 1] = q[(i - 1) + 1] /\ (i - 1) + 1 = i
        BY <2>1, <2>2, <3>2
      <4>2. QED BY <4>1 DEF Elements
    <3>3. QED BY <3>1, <3>2
  <2>4. Head(q) \in Elements(q)
    BY <2>1 DEF Elements
  <2>5. ASSUME NEW i \in DOMAIN t PROVE t[i] \in Elements(q)
    <3>1. i + 1 \in DOMAIN q /\ t[i] = q[i + 1]
      BY <2>1
    <3>2. QED BY <3>1 DEF Elements
  <2>6. QED BY <2>1, <2>3, <2>4, <2>5 DEF Elements
<1>4. QED BY <1>1, <1>2, <1>3

\* The handlers are the only steps that write to the database.
LEMMA OnlyHandlersWrite ==
  ASSUME [Next]_vars
  PROVE  \/ UNCHANGED database
         \/ \E r \in Replica : salesOrderHandler(r)
         \/ \E r \in Replica : inventoryAdjustedHandler(r)
         \/ \E r \in Replica, s \in {"customerCreated", "customerUpdated"} :
              customerSnapshotHandler(r, s)
<1>1. CASE UNCHANGED vars
  BY <1>1 DEF vars, database
<1>2. CASE \E m \in Messages : Publish(m)
  BY <1>2 DEF Publish
<1>3. CASE \E r \in Replica, s \in Subjects : Handle(r, s) \/ ConsumeReturns(r, s)
  BY <1>3 DEF Handle, Take, HandlerFails, RollBack, ConsumeReturns, Silent, Quiet, Subjects
<1>4. CASE \E r \in Replica : Return(r) \/ Cancel(r) \/ Crash(r) \/ Start(r)
  BY <1>4 DEF Return, Cancel, Crash, Start, Silent, Quiet
<1>5. QED BY <1>1, <1>2, <1>3, <1>4 DEF Next

\* What the assumption says of one message.
LEMMA MessageFields ==
  /\ \A m \in Messages :
       /\ m.subject \in Subjects /\ m.aggregate \in Nat /\ m.version \in Nat \ {0}
       /\ m.sound \in BOOLEAN /\ m.customer \in Customers /\ m.amount \in Nat
       /\ m.limit.ok \in BOOLEAN /\ m.limit.value \in Nat /\ m.limit \in Limits
       /\ m # NoMessage
  /\ \A m \in Documents : m \in Messages /\ m.sound /\ m.subject \in {"order", "movement"}
  /\ \A m \in Messages : m.subject = "order" /\ m.sound => m.amount > 0
BY MessagesAssumption DEF Documents, Limits

------------------------------------------------------------------------------
\* The types hold at first.
LEMMA TypeInit == Init => TypeOK
<1> SUFFICES ASSUME Init PROVE TypeOK
  OBVIOUS
<1>1. <<>> \in Seq(Messages)
  OBVIOUS
<1>2. Carried \in [Customers -> [version : Nat, limit : Limits]] /\ MaxSends \in Nat
      /\ MaxFaults \in Nat
  BY MessagesAssumption
<1>3. queue \in [Replica -> [Subjects -> Seq(Messages)]]
  BY <1>1 DEF Init
<1>4. QED BY <1>2, <1>3 DEF Init, TypeOK, LoopsTyped, TablesTyped

\* Every step keeps the types of the tables.
LEMMA TablesStep ==
  ASSUME TypeOK, [Next]_vars
  PROVE  TablesTyped'
<1> USE MessageFields
<1>1. CASE UNCHANGED database
  BY <1>1 DEF TypeOK, TablesTyped, database
<1>2. CASE \E r \in Replica : salesOrderHandler(r)
  <2>1. PICK r \in Replica : salesOrderHandler(r)
    BY <1>2
  <2>2. PICK m : m = work[r]["order"]
    OBVIOUS
  <2>3. m \in Messages
    BY <2>1, <2>2 DEF salesOrderHandler, TypeOK, LoopsTyped, Subjects
  <2>4. Key(m) \in Subjects \X Nat \X Nat
    BY <2>3 DEF Key
  <2>5. /\ inbox' = inbox \cup {Key(m)} /\ UNCHANGED copy
        /\ booked' = [booked EXCEPT ![m] = IF Unclaimed(m) THEN @ + 1 ELSE @]
        /\ exposure' = [exposure EXCEPT ![m.customer] = IF Unclaimed(m) THEN @ + m.amount ELSE @]
    BY <2>1, <2>2 DEF salesOrderHandler, Commit
  <2>6. booked' \in [Messages -> Nat]
    BY <2>3, <2>5 DEF TypeOK, TablesTyped
  <2>7. exposure' \in [Customers -> Nat]
    BY <2>3, <2>5 DEF TypeOK, TablesTyped
  <2>8. QED BY <2>4, <2>5, <2>6, <2>7 DEF TypeOK, TablesTyped
<1>3. CASE \E r \in Replica : inventoryAdjustedHandler(r)
  <2>1. PICK r \in Replica : inventoryAdjustedHandler(r)
    BY <1>3
  <2>2. PICK m : m = work[r]["movement"]
    OBVIOUS
  <2>3. m \in Messages
    BY <2>1, <2>2 DEF inventoryAdjustedHandler, TypeOK, LoopsTyped, Subjects
  <2>4. Key(m) \in Subjects \X Nat \X Nat
    BY <2>3 DEF Key
  <2>5. QED BY <2>1, <2>2, <2>3, <2>4 DEF inventoryAdjustedHandler, Commit, TypeOK, TablesTyped
<1>4. CASE \E r \in Replica, s \in {"customerCreated", "customerUpdated"} :
             customerSnapshotHandler(r, s)
  <2>1. PICK r \in Replica, s \in {"customerCreated", "customerUpdated"} :
          customerSnapshotHandler(r, s)
    BY <1>4
  <2>2. PICK m : m = work[r][s]
    OBVIOUS
  <2>3. m \in Messages
    BY <2>1, <2>2 DEF customerSnapshotHandler, TypeOK, LoopsTyped, Subjects
  <2>4. Key(m) \in Subjects \X Nat \X Nat
    BY <2>3 DEF Key
  <2>5. UNCHANGED <<booked, exposure>> /\ inbox' = inbox \cup {Key(m)}
        /\ UpsertCustomerSnapshotTx(m)
    BY <2>1, <2>2 DEF customerSnapshotHandler, Commit
  <2>6. Checked(m.limit) \in Limits /\ Checked(m.limit).ok
    BY <2>3 DEF Checked, Limits
  <2>7. [version |-> m.version, limit |-> Checked(m.limit)] \in [version : Nat, limit : Limits]
    BY <2>3, <2>6
  <2>8. /\ copy' \in [Customers -> [version : Nat, limit : Limits]]
        /\ \A c \in Customers : copy'[c].limit.ok \/ copy'[c] = Carried[c]
    BY <2>3, <2>5, <2>6, <2>7 DEF UpsertCustomerSnapshotTx, TypeOK, TablesTyped
  <2>9. QED BY <2>4, <2>5, <2>8 DEF TypeOK, TablesTyped
<1>5. QED BY <1>1, <1>2, <1>3, <1>4, OnlyHandlersWrite

\* Every step keeps the types of the queues, transactions and loops.
LEMMA LoopsStep ==
  ASSUME TypeOK, [Next]_vars
  PROVE  LoopsTyped'
<1> USE MessageFields, MessagesAssumption
<1>0. LoopsTyped
  BY DEF TypeOK
<1>1. CASE UNCHANGED vars
  BY <1>0, <1>1 DEF LoopsTyped, vars
<1>2. ASSUME NEW m \in Messages, Publish(m) PROVE LoopsTyped'
  <2>1. ASSUME NEW r \in Replica PROVE queue'[r] \in [Subjects -> Seq(Messages)]
    <3>1. queue[r] \in [Subjects -> Seq(Messages)] /\ m.subject \in Subjects
      BY <1>0 DEF LoopsTyped
    <3>2. Append(queue[r][m.subject], m) \in Seq(Messages)
      BY <3>1
    <3>3. QED BY <1>2, <3>1, <3>2 DEF Publish
  <2>2. queue' \in [Replica -> [Subjects -> Seq(Messages)]]
    BY <1>2, <2>1 DEF Publish
  <2>3. sent' \in [Messages -> 0..MaxSends]
    <3>1. sent[m] \in Nat /\ sent[m] < MaxSends /\ sent' = [sent EXCEPT ![m] = @ + 1]
          /\ MaxSends \in Nat
      BY <1>0, <1>2 DEF Publish, LoopsTyped
    <3>2. sent[m] + 1 \in Nat /\ sent[m] + 1 <= MaxSends
      BY <3>1
    <3>3. QED BY <1>0, <3>1, <3>2 DEF LoopsTyped
  <2>4. excuse' \in [Documents -> SUBSET Replica]
    BY <1>0, <1>2 DEF Publish, LoopsTyped
  <2>5. UNCHANGED <<work, subs, errCh, stage, faults>>
    BY <1>2 DEF Publish, member
  <2>6. QED BY <1>0, <2>2, <2>3, <2>4, <2>5 DEF LoopsTyped
<1>3. ASSUME NEW r \in Replica, NEW s \in Subjects, Take(r, s) PROVE LoopsTyped'
  <2>1. queue[r][s] \in Seq(Messages) /\ queue[r][s] # <<>>
    BY <1>0, <1>3 DEF Take, LoopsTyped
  <2>2. Head(queue[r][s]) \in Messages /\ Tail(queue[r][s]) \in Seq(Messages)
    BY <2>1
  <2>3. queue' \in [Replica -> [Subjects -> Seq(Messages)]]
    BY <1>0, <1>3, <2>2 DEF Take, LoopsTyped
  <2>4. work' \in [Replica -> [Subjects -> Messages \cup {NoMessage}]]
    BY <1>0, <1>3, <2>2 DEF Take, LoopsTyped
  <2>5. QED BY <1>0, <1>3, <2>3, <2>4 DEF Take, LoopsTyped, member
<1>4. ASSUME NEW r \in Replica, NEW s \in Subjects, Commit(r, s) PROVE LoopsTyped'
  BY <1>0, <1>4 DEF Commit, LoopsTyped, member
<1>5. ASSUME NEW r \in Replica, NEW s \in Subjects, HandlerFails(r, s) PROVE LoopsTyped'
  <2>1. /\ UNCHANGED <<sent, queue, subs, errCh, stage>>
        /\ work' \in [Replica -> [Subjects -> Messages \cup {NoMessage}]]
    BY <1>0, <1>5 DEF HandlerFails, RollBack, LoopsTyped, member
  <2>2. faults' \in 0..MaxFaults
    BY <1>0, <1>5 DEF HandlerFails, LoopsTyped
  <2>3. PICK m : m = work[r][s]
    OBVIOUS
  <2>4. excuse' \in [Documents -> SUBSET Replica]
    <3>1. UNCHANGED excuse \/ Excused(r, m)
      BY <1>5, <2>3 DEF HandlerFails
    <3>2. CASE Excused(r, m)
      <4>1. \A d \in Documents : excuse[d] \in SUBSET Replica /\ excuse[d] \cup {r} \in SUBSET Replica
        BY <1>0 DEF LoopsTyped
      <4>2. excuse' = [d \in Documents |-> IF d = m THEN excuse[d] \cup {r} ELSE excuse[d]]
        BY <3>2 DEF Excused
      <4>3. QED BY <4>1, <4>2
    <3>3. QED BY <1>0, <3>1, <3>2 DEF LoopsTyped
  <2>5. QED BY <1>0, <2>1, <2>2, <2>4 DEF LoopsTyped
<1>6. ASSUME NEW r \in Replica, NEW S \in SUBSET Subjects, Silent(r, S)
      PROVE  /\ queue' \in [Replica -> [Subjects -> Seq(Messages)]]
             /\ work' \in [Replica -> [Subjects -> Messages \cup {NoMessage}]]
             /\ excuse' \in [Documents -> SUBSET Replica] /\ UNCHANGED sent
  <2>1. [s \in Subjects |-> IF s \in S THEN <<>> ELSE queue[r][s]] \in [Subjects -> Seq(Messages)]
    BY <1>0 DEF LoopsTyped
  <2>2. [s \in Subjects |-> IF s \in S THEN NoMessage ELSE work[r][s]]
          \in [Subjects -> Messages \cup {NoMessage}]
    BY <1>0 DEF LoopsTyped
  <2>3. excuse' \in [Documents -> SUBSET Replica]
    BY <1>0, <1>6 DEF Silent, LoopsTyped
  <2>4. QED BY <1>0, <1>6, <2>1, <2>2, <2>3 DEF Silent, LoopsTyped
<1>7. ASSUME NEW r \in Replica, NEW s \in Subjects, ConsumeReturns(r, s) PROVE LoopsTyped'
  <2>1. Silent(r, {s}) /\ {s} \in SUBSET Subjects
    BY <1>7 DEF ConsumeReturns
  <2>2. faults' \in 0..MaxFaults /\ errCh' \in [Replica -> Nat] /\ UNCHANGED stage
        /\ subs' \in [Replica -> [Subjects -> {"on", "off"}]]
    BY <1>0, <1>7 DEF ConsumeReturns, LoopsTyped
  <2>3. QED BY <1>0, <1>6, <2>1, <2>2 DEF LoopsTyped
<1>8. ASSUME NEW r \in Replica, Crash(r) PROVE LoopsTyped'
  <2>1. Silent(r, Subjects) /\ Subjects \in SUBSET Subjects
    BY <1>8 DEF Crash
  <2>2. faults' \in 0..MaxFaults /\ stage' \in [Replica -> {"up", "ended", "cancelled"}]
        /\ subs' \in [Replica -> [Subjects -> {"on", "off"}]]
        /\ errCh' \in [Replica -> Nat]
    BY <1>0, <1>8 DEF Crash, LoopsTyped
  <2>3. QED BY <1>0, <1>6, <2>1, <2>2 DEF LoopsTyped
<1>9. ASSUME NEW r \in Replica, Return(r) \/ Cancel(r) \/ Start(r)
      PROVE  LoopsTyped'
  <2>1. UNCHANGED <<sent, queue, work, excuse>> /\ faults' \in 0..MaxFaults
    BY <1>0, <1>9 DEF Return, Cancel, Start, Quiet, LoopsTyped
  <2>2. /\ subs' \in [Replica -> [Subjects -> {"on", "off"}]]
        /\ errCh' \in [Replica -> Nat]
        /\ stage' \in [Replica -> {"up", "ended", "cancelled"}]
    <3>1. CASE Return(r)
      <4>1. errCh[r] \in Nat /\ errCh[r] > 0 => errCh[r] - 1 \in Nat
        OBVIOUS
      <4>2. QED BY <1>0, <3>1, <4>1 DEF Return, LoopsTyped
    <3>2. CASE Cancel(r)
      BY <1>0, <3>2 DEF Cancel, LoopsTyped
    <3>3. CASE Start(r)
      <4>1. [s \in Subjects |-> "on"] \in [Subjects -> {"on", "off"}]
        OBVIOUS
      <4>2. QED BY <1>0, <3>3, <4>1 DEF Start, LoopsTyped
    <3>4. QED BY <1>9, <3>1, <3>2, <3>3
  <2>3. QED BY <1>0, <2>1, <2>2 DEF LoopsTyped
<1>10. ASSUME NEW r \in Replica, NEW s \in Subjects, Handle(r, s) PROVE LoopsTyped'
  <2>1. CASE Take(r, s)
    BY <1>3, <2>1
  <2>2. CASE HandlerFails(r, s)
    BY <1>5, <2>2
  <2>3. CASE Commit(r, s)
    BY <1>4, <2>3
  <2>4. QED
    BY <1>10, <2>1, <2>2, <2>3
       DEF Handle, salesOrderHandler, inventoryAdjustedHandler, customerSnapshotHandler
<1>11. QED BY <1>1, <1>2, <1>7, <1>8, <1>9, <1>10 DEF Next

------------------------------------------------------------------------------
\* The transaction of a handler: its message, and what it leaves of it.
LEMMA OrderBooked ==
  ASSUME IntakeInv, NEW r \in Replica, salesOrderHandler(r)
  PROVE  \E m \in Documents :
           /\ m = work[r]["order"] /\ m.subject = "order" /\ m.amount > 0
           /\ Commit(r, "order") /\ inbox' = inbox \cup {Key(m)}
           /\ booked' = [booked EXCEPT ![m] = IF Unclaimed(m) THEN @ + 1 ELSE @]
           /\ exposure' = [exposure EXCEPT ![m.customer] = IF Unclaimed(m) THEN @ + m.amount ELSE @]
<1> USE MessageFields
<1>1. PICK m : m = work[r]["order"]
  OBVIOUS
<1>2. m \in Messages /\ m \in Pending(r, "order") /\ m.sound
  BY <1>1 DEF salesOrderHandler, IntakeInv, TypeOK, LoopsTyped, Subjects, Pending
<1>3. m.subject = "order"
  BY <1>2 DEF IntakeInv, OwnSubject, Subjects
<1>4. m \in Documents
  BY <1>2, <1>3 DEF Documents
<1>5. QED BY <1>1, <1>2, <1>3, <1>4 DEF salesOrderHandler, Commit

\* The same of a movement, which is booked unless its quantity is zero.
LEMMA MovementBooked ==
  ASSUME IntakeInv, NEW r \in Replica, inventoryAdjustedHandler(r)
  PROVE  \E m \in Documents :
           /\ m = work[r]["movement"] /\ m.subject = "movement"
           /\ Commit(r, "movement") /\ inbox' = inbox \cup {Key(m)} /\ UNCHANGED exposure
           /\ booked' = [booked EXCEPT ![m] = IF m.amount > 0 /\ Unclaimed(m) THEN @ + 1 ELSE @]
<1> USE MessageFields
<1>1. PICK m : m = work[r]["movement"]
  OBVIOUS
<1>2. m \in Messages /\ m \in Pending(r, "movement") /\ m.sound
  BY <1>1 DEF inventoryAdjustedHandler, IntakeInv, TypeOK, LoopsTyped, Subjects, Pending
<1>3. m.subject = "movement"
  BY <1>2 DEF IntakeInv, OwnSubject, Subjects
<1>4. m \in Documents
  BY <1>2, <1>3 DEF Documents
<1>5. QED BY <1>1, <1>2, <1>3, <1>4 DEF inventoryAdjustedHandler, Commit

\* A customer event concerns neither the entries nor the exposure.
LEMMA CustomerStored ==
  ASSUME IntakeInv, NEW r \in Replica, NEW s \in {"customerCreated", "customerUpdated"},
         customerSnapshotHandler(r, s)
  PROVE  \E m \in Messages :
           /\ m = work[r][s] /\ m.subject = s /\ m \notin Documents
           /\ Commit(r, s) /\ inbox' = inbox \cup {Key(m)} /\ UNCHANGED <<booked, exposure>>
<1> USE MessageFields
<1>1. PICK m : m = work[r][s]
  OBVIOUS
<1>2. m \in Messages /\ m \in Pending(r, s) /\ s \in Subjects
  BY <1>1 DEF customerSnapshotHandler, IntakeInv, TypeOK, LoopsTyped, Subjects, Pending
<1>3. m.subject = s
  BY <1>2 DEF IntakeInv, OwnSubject
<1>4. QED BY <1>1, <1>2, <1>3 DEF customerSnapshotHandler, Commit, Documents

\* What the tables say of documents, before and after any step: either nothing has
\* changed, or one document more is recorded, and booked unless that was done before.
LEMMA TablesChange ==
  ASSUME IntakeInv, [Next]_vars
  PROVE  \/ UNCHANGED <<inbox, booked, exposure>>
         \/ \E m \in Messages :
              /\ inbox' = inbox \cup {Key(m)} /\ UNCHANGED <<booked, exposure>>
              /\ \/ m \in Documents /\ (Handled(m) \/ m.amount = 0)
                 \/ m.subject \in {"customerCreated", "customerUpdated"}
         \/ \E m \in Documents :
              /\ inbox' = inbox \cup {Key(m)} /\ Unclaimed(m) /\ m.amount > 0
              /\ booked' = [booked EXCEPT ![m] = @ + 1]
              /\ exposure' = IF m.subject = "order"
                             THEN [exposure EXCEPT ![m.customer] = @ + m.amount]
                             ELSE exposure
<1> USE MessageFields
<1>0. TablesTyped
  BY DEF IntakeInv, TypeOK
<1>1. CASE UNCHANGED database
  BY <1>1 DEF database
<1>2. ASSUME NEW r \in Replica, salesOrderHandler(r)
      PROVE  \E m \in Documents :
        /\ inbox' = inbox \cup {Key(m)} /\ m.amount > 0
        /\ IF Unclaimed(m)
           THEN /\ booked' = [booked EXCEPT ![m] = @ + 1]
                /\ exposure' = IF m.subject = "order"
                               THEN [exposure EXCEPT ![m.customer] = @ + m.amount]
                               ELSE exposure
           ELSE Handled(m) /\ UNCHANGED <<booked, exposure>>
  <2>1. PICK m \in Documents :
           /\ m = work[r]["order"] /\ m.subject = "order" /\ m.amount > 0
           /\ Commit(r, "order") /\ inbox' = inbox \cup {Key(m)}
           /\ booked' = [booked EXCEPT ![m] = IF Unclaimed(m) THEN @ + 1 ELSE @]
           /\ exposure' = [exposure EXCEPT ![m.customer] = IF Unclaimed(m) THEN @ + m.amount ELSE @]
    BY <1>2, OrderBooked
  <2>2. CASE Unclaimed(m)
    BY <2>1, <2>2
  <2>3. CASE ~Unclaimed(m)
    <3>1. booked[m] > 0 /\ booked' = booked /\ exposure' = exposure
      BY <1>0, <2>1, <2>3 DEF Unclaimed, TablesTyped
    <3>2. Handled(m)
      BY <2>1, <3>1 DEF Handled
    <3>3. QED BY <2>1, <2>3, <3>1, <3>2
  <2>4. QED BY <2>1, <2>2, <2>3
<1>3. ASSUME NEW r \in Replica, inventoryAdjustedHandler(r)
      PROVE  \E m \in Documents :
        /\ inbox' = inbox \cup {Key(m)} /\ UNCHANGED exposure /\ m.subject = "movement"
        /\ IF m.amount > 0 /\ Unclaimed(m)
           THEN booked' = [booked EXCEPT ![m] = @ + 1]
           ELSE (Handled(m) \/ m.amount = 0) /\ UNCHANGED booked
  <2>1. PICK m \in Documents :
           /\ m = work[r]["movement"] /\ m.subject = "movement"
           /\ Commit(r, "movement") /\ inbox' = inbox \cup {Key(m)} /\ UNCHANGED exposure
           /\ booked' = [booked EXCEPT ![m] = IF m.amount > 0 /\ Unclaimed(m) THEN @ + 1 ELSE @]
    BY <1>3, MovementBooked
  <2>2. CASE m.amount > 0 /\ Unclaimed(m)
    BY <2>1, <2>2
  <2>3. CASE ~(m.amount > 0 /\ Unclaimed(m))
    BY <1>0, <2>1, <2>3 DEF Unclaimed, Handled, TablesTyped
  <2>4. QED BY <2>1, <2>2, <2>3
<1>4. CASE \E r \in Replica, s \in {"customerCreated", "customerUpdated"} :
             customerSnapshotHandler(r, s)
  BY <1>4, CustomerStored
<1>5. CASE \E r \in Replica : salesOrderHandler(r)
  <2>1. PICK r \in Replica : salesOrderHandler(r)
    BY <1>5
  <2>2. QED BY <1>2, <2>1
<1>6. CASE \E r \in Replica : inventoryAdjustedHandler(r)
  <2>1. PICK r \in Replica : inventoryAdjustedHandler(r)
    BY <1>6
  <2>2. QED BY <1>3, <2>1
<1>7. QED BY <1>1, <1>4, <1>5, <1>6, OnlyHandlersWrite

------------------------------------------------------------------------------
\* What is handled stays handled.
LEMMA HandledStays ==
  ASSUME IntakeInv, [Next]_vars, NEW d \in Documents, Handled(d)
  PROVE  Handled(d)'
<1> USE MessageFields
<1>1. booked \in [Messages -> Nat] /\ booked' \in [Messages -> Nat]
  BY TablesStep DEF IntakeInv, TypeOK, TablesTyped
<1>2. inbox \subseteq inbox' /\ booked'[d] >= booked[d]
  <2>1. CASE UNCHANGED <<inbox, booked, exposure>>
    BY <1>1, <2>1
  <2>2. CASE \E m \in Messages : inbox' = inbox \cup {Key(m)} /\ UNCHANGED <<booked, exposure>>
    BY <1>1, <2>2
  <2>3. CASE \E m \in Documents : inbox' = inbox \cup {Key(m)} /\ booked' = [booked EXCEPT ![m] = @ + 1]
    BY <1>1, <2>3
  <2>4. QED BY <2>1, <2>2, <2>3, TablesChange
<1>3. Seen(d) => Seen(d)'
  BY <1>2 DEF Seen
<1>4. booked[d] > 0 => booked'[d] > 0
  BY <1>1, <1>2
<1>5. QED BY <1>3, <1>4 DEF Handled

\* One record more in the inbox makes it know of that document, or of none.
LEMMA SeenAfter ==
  ASSUME NEW d \in Documents, NEW m \in Messages, inbox' = inbox \cup {Key(m)}, Seen(d)',
         m \in Documents \/ m.subject \in {"customerCreated", "customerUpdated"},
         inbox \subseteq Subjects \X Nat \X Nat
  PROVE  Seen(d) \/ m = d
<1> USE MessageFields
<1>1. PICK y \in inbox' : y[1] = d.subject /\ y[2] = d.aggregate /\ y[3] >= d.version
  BY DEF Seen
<1>2. CASE y \in inbox
  BY <1>1, <1>2 DEF Seen
<1>3. CASE y = Key(m)
  <2>1. m.subject = d.subject /\ m.aggregate = d.aggregate
    BY <1>1, <1>3 DEF Key
  <2>2. m \in Documents
    BY <2>1
  <2>3. QED BY <2>1, <2>2, MessagesAssumption
<1>4. QED BY <1>1, <1>2, <1>3

\* SeenIsHandled is kept: the record and the entry are committed together.
LEMMA SeenStep ==
  ASSUME IntakeInv, [Next]_vars
  PROVE  SeenIsHandled'
<1> USE MessageFields
<1>1. SUFFICES ASSUME NEW d \in Documents, Seen(d)' PROVE Handled(d)'
  BY DEF SeenIsHandled
<1>2. inbox \subseteq Subjects \X Nat \X Nat /\ booked \in [Messages -> Nat]
  BY DEF IntakeInv, TypeOK, TablesTyped
<1>3. CASE Seen(d)
  BY <1>3, HandledStays DEF IntakeInv, SeenIsHandled
<1>4. CASE Handled(d) \/ d.amount = 0
  BY <1>1, <1>4, HandledStays DEF Handled
<1>5. CASE ~Seen(d)
  <2>1. CASE UNCHANGED <<inbox, booked, exposure>>
    BY <1>1, <1>5, <2>1 DEF Seen
  <2>2. ASSUME NEW m \in Messages, inbox' = inbox \cup {Key(m)},
               \/ m \in Documents /\ (Handled(m) \/ m.amount = 0)
               \/ m.subject \in {"customerCreated", "customerUpdated"}
        PROVE  Handled(d)'
    <3>1. m = d
      BY <1>1, <1>2, <1>5, <2>2, SeenAfter
    <3>2. QED BY <1>4, <2>2, <3>1
  <2>3. ASSUME NEW m \in Documents, inbox' = inbox \cup {Key(m)}, m.amount > 0,
               booked' = [booked EXCEPT ![m] = @ + 1]
        PROVE  Handled(d)'
    <3>1. m = d
      BY <1>1, <1>2, <1>5, <2>3, SeenAfter
    <3>2. booked'[d] > 0
      BY <1>2, <2>3, <3>1
    <3>3. QED BY <2>3, <3>1, <3>2 DEF Handled
  <2>4. QED BY <2>1, <2>2, <2>3, TablesChange
<1>6. QED BY <1>3, <1>5

\* What is booked are documents, each once, and the exposure counts the orders.
LEMMA BookedStep ==
  ASSUME IntakeInv, [Next]_vars
  PROVE  BookedAreDocuments' /\ BookedOnce'
<1> USE MessageFields
<1> DEFINE f == [m \in Messages |-> m.amount]
           B == {m \in Messages : booked[m] > 0}
<1>1. /\ booked \in [Messages -> Nat] /\ exposure \in [Customers -> Nat]
      /\ BookedAreDocuments /\ BookedOnce
  BY DEF IntakeInv, TypeOK, TablesTyped
<1>2. CASE UNCHANGED <<booked, exposure>>
  <2>1. BookedAreDocuments'
    BY <1>1, <1>2 DEF BookedAreDocuments
  <2>2. \A c \in Customers : BookedOrders(c)' = BookedOrders(c)
    BY <1>2 DEF BookedOrders
  <2>3. QED BY <1>1, <1>2, <2>1, <2>2 DEF BookedOnce
<1>3. ASSUME NEW m \in Documents, Unclaimed(m), booked' = [booked EXCEPT ![m] = @ + 1],
             exposure' = IF m.subject = "order"
                         THEN [exposure EXCEPT ![m.customer] = @ + m.amount]
                         ELSE exposure
      PROVE  BookedAreDocuments' /\ BookedOnce'
  <2>1. m \in Messages /\ booked[m] = 0 /\ booked'[m] = 1
        /\ \A n \in Messages : n # m => booked'[n] = booked[n]
    BY <1>1, <1>3 DEF Unclaimed
  <2>2. {n \in Messages : booked'[n] > 0} = B \cup {m}
    BY <1>1, <2>1
  <2>3. IsFiniteSet(B) /\ IsFiniteSet(B \cup {m})
    BY <1>1, FS_AddElement DEF BookedAreDocuments
  <2>4. BookedAreDocuments'
    BY <1>1, <2>1, <2>2, <2>3 DEF BookedAreDocuments
  <2>5. \A n \in Messages : booked'[n] <= 1
    BY <1>1, <2>1 DEF BookedOnce
  <2>6. ASSUME NEW c \in Customers
        PROVE  exposure'[c] = SumFunctionOnSet(f, BookedOrders(c)')
    <3>1. exposure[c] = SumFunctionOnSet(f, BookedOrders(c))
      BY <1>1 DEF BookedOnce
    <3>2. CASE m.subject = "order" /\ m.customer = c
      <4>1. BookedOrders(c)' = BookedOrders(c) \cup {m} /\ m \notin BookedOrders(c)
        BY <1>1, <2>1, <3>2 DEF BookedOrders
      <4>2. IsFiniteSet(BookedOrders(c))
        <5>1. BookedOrders(c) \subseteq B
          BY DEF BookedOrders
        <5>2. QED BY <2>3, <5>1, FS_Subset
      <4>3. f[m] = m.amount /\ f[m] \in Int /\ \A x \in BookedOrders(c) : f[x] \in Int
        BY <2>1 DEF BookedOrders
      <4> HIDE DEF f
      <4>4. SumFunctionOnSet(f, BookedOrders(c) \cup {m})
              = SumFunctionOnSet(f, BookedOrders(c)) + f[m]
        BY <4>1, <4>2, <4>3, SumAdd
      <4>5. exposure'[c] = exposure[c] + m.amount
        BY <1>1, <1>3, <3>2
      <4>6. QED BY <3>1, <4>1, <4>3, <4>4, <4>5
    <3>3. CASE ~(m.subject = "order" /\ m.customer = c)
      <4>1. BookedOrders(c)' = BookedOrders(c)
        BY <1>1, <2>1, <3>3 DEF BookedOrders
      <4>2. exposure'[c] = exposure[c]
        BY <1>1, <1>3, <2>1, <3>3
      <4> HIDE DEF f
      <4>3. QED BY <3>1, <4>1, <4>2
    <3>4. QED BY <3>2, <3>3
  <2>7. QED BY <2>4, <2>5, <2>6 DEF BookedOnce
<1>4. QED BY <1>2, <1>3, TablesChange

------------------------------------------------------------------------------
\* A step is harmless when what it adds to a subscription is of its subject, and every
\* document that is sent and not handled stays with a replica, or the replica is excused,
\* or nothing was added to what NothingVanishes says of it before.
LEMMA Harmless ==
  ASSUME IntakeInv, [Next]_vars,
         \A r \in Replica, s \in Subjects : \A m \in Pending(r, s)' :
           m \in Pending(r, s) \/ m.subject = s,
         \A r \in Replica, d \in Documents : sent'[d] > 0 /\ ~Handled(d)' =>
           \/ d \in Pending(r, d.subject)'
           \/ r \in excuse'[d]
           \/ /\ sent[d] > 0 /\ d \notin Pending(r, d.subject)
              /\ r \notin excuse[d]
  PROVE  OwnSubject' /\ NothingVanishes'
<1>1. OwnSubject'
  BY DEF IntakeInv, OwnSubject
<1>2. ASSUME NEW d \in Documents, sent'[d] > 0, ~Handled(d)', NEW r \in Replica
      PROVE  d \in Pending(r, d.subject)' \/ r \in excuse'[d]
  <2>1. ~Handled(d)
    BY <1>2, HandledStays
  <2>2. sent[d] > 0 => d \in Pending(r, d.subject) \/ r \in excuse[d]
    BY <2>1 DEF IntakeInv, NothingVanishes
  <2>3. QED BY <1>2, <2>2
<1>3. QED BY <1>1, <1>2 DEF NothingVanishes

\* What is pending, with the queue and the transaction apart.
LEMMA PendingIs ==
  ASSUME NEW r, NEW s
  PROVE  /\ Pending(r, s) = Elements(queue[r][s]) \cup ({work[r][s]} \ {NoMessage})
         /\ Pending(r, s)' = Elements(queue'[r][s]) \cup ({work'[r][s]} \ {NoMessage})
BY DEF Pending, Elements

\* Publish: the replicas that listen have it, the others are excused.
LEMMA PublishHarmless ==
  ASSUME IntakeInv, [Next]_vars, NEW m \in Messages, Publish(m)
  PROVE  OwnSubject' /\ NothingVanishes'
<1> USE MessageFields
<1>1. LoopsTyped
  BY DEF IntakeInv, TypeOK
<1>2. ASSUME NEW r \in Replica, NEW s \in Subjects
      PROVE  Pending(r, s)' = IF Listening(r, m) /\ s = m.subject THEN Pending(r, s) \cup {m}
                              ELSE Pending(r, s)
  <2>1. queue[r] \in [Subjects -> Seq(Messages)] /\ queue[r][s] \in Seq(Messages)
    BY <1>1 DEF LoopsTyped
  <2>2. queue'[r][s] = IF Listening(r, m) /\ s = m.subject THEN Append(queue[r][s], m)
                       ELSE queue[r][s]
    BY <1>1, <2>1 DEF Publish, LoopsTyped
  <2>3. Elements(Append(queue[r][s], m)) = Elements(queue[r][s]) \cup {m}
    BY <2>1, QueueElements
  <2>4. work' = work
    BY DEF Publish
  <2>5. /\ Pending(r, s) = Elements(queue[r][s]) \cup ({work[r][s]} \ {NoMessage})
        /\ Pending(r, s)' = Elements(queue'[r][s]) \cup ({work[r][s]} \ {NoMessage})
    BY <2>4, PendingIs
  <2>6. CASE Listening(r, m) /\ s = m.subject
    BY <2>2, <2>3, <2>5, <2>6
  <2>7. CASE ~(Listening(r, m) /\ s = m.subject)
    BY <2>2, <2>5, <2>7
  <2>8. QED BY <2>6, <2>7
<1>3. sent \in [Messages -> Nat] /\ sent' = [sent EXCEPT ![m] = @ + 1]
      /\ excuse' = [d \in Documents |-> IF d = m THEN {r \in Replica : ~Listening(r, m)}
                                        ELSE excuse[d]]
  BY <1>1 DEF Publish, LoopsTyped
<1>4. \A r \in Replica, s \in Subjects : \A x \in Pending(r, s)' :
        x \in Pending(r, s) \/ x.subject = s
  BY <1>2
<1>5. ASSUME NEW r \in Replica, NEW d \in Documents, sent'[d] > 0
      PROVE  \/ d \in Pending(r, d.subject)' \/ r \in excuse'[d]
             \/ sent[d] > 0 /\ d \notin Pending(r, d.subject) /\ r \notin excuse[d]
  <2>1. d.subject \in Subjects
    OBVIOUS
  <2>2. CASE d = m
    <3>1. CASE Listening(r, m)
      BY <1>2, <2>1, <2>2, <3>1
    <3>2. CASE ~Listening(r, m)
      BY <1>3, <2>2, <3>2
    <3>3. QED BY <3>1, <3>2
  <2>3. CASE d # m
    <3>1. sent'[d] = sent[d] /\ excuse'[d] = excuse[d]
      BY <1>3, <2>3
    <3>2. Pending(r, d.subject) \subseteq Pending(r, d.subject)'
      BY <1>2, <2>1
    <3>3. QED BY <1>5, <3>1, <3>2
  <2>4. QED BY <2>2, <2>3
<1>6. QED BY <1>4, <1>5, Harmless

\* Take: what the inbox knows is handled, and anything else is in the transaction.
LEMMA TakeHarmless ==
  ASSUME IntakeInv, [Next]_vars, NEW r \in Replica, NEW s \in Subjects, Take(r, s)
  PROVE  OwnSubject' /\ NothingVanishes'
<1> USE MessageFields
<1>1. LoopsTyped
  BY DEF IntakeInv, TypeOK
<1>2. PICK m : m = Head(queue[r][s])
  OBVIOUS
<1>3. /\ queue[r][s] \in Seq(Messages) /\ queue[r][s] # <<>> /\ m \in Messages
      /\ work[r][s] = NoMessage
      /\ queue' = [queue EXCEPT ![r][s] = Tail(@)]
      /\ work' = IF Seen(m) THEN work ELSE [work EXCEPT ![r][s] = m]
      /\ UNCHANGED <<sent, excuse, database>>
  BY <1>1, <1>2 DEF Take, LoopsTyped
<1>4. /\ queue'[r][s] = Tail(queue[r][s]) /\ work'[r][s] = IF Seen(m) THEN NoMessage ELSE m
      /\ \A p \in Replica, z \in Subjects : p # r \/ z # s =>
           queue'[p][z] = queue[p][z] /\ work'[p][z] = work[p][z]
  BY <1>1, <1>3 DEF LoopsTyped
<1>5. Elements(queue[r][s]) = Elements(queue'[r][s]) \cup {m}
  BY <1>2, <1>3, <1>4, QueueElements
<1>6. /\ Pending(r, s)' \subseteq Pending(r, s)
      /\ Pending(r, s) \subseteq Pending(r, s)' \cup (IF Seen(m) THEN {m} ELSE {})
  <2>1. m # NoMessage
    BY <1>3
  <2>2. QED BY <1>3, <1>4, <1>5, <2>1, PendingIs
<1>7. \A p \in Replica, z \in Subjects : p # r \/ z # s => Pending(p, z)' = Pending(p, z)
  <2>1. SUFFICES ASSUME NEW p \in Replica, NEW z \in Subjects, p # r \/ z # s
                 PROVE  Pending(p, z)' = Pending(p, z)
    OBVIOUS
  <2>2. queue'[p][z] = queue[p][z] /\ work'[p][z] = work[p][z]
    BY <1>4, <2>1
  <2>3. /\ Pending(p, z) = Elements(queue[p][z]) \cup ({work[p][z]} \ {NoMessage})
        /\ Pending(p, z)' = Elements(queue'[p][z]) \cup ({work'[p][z]} \ {NoMessage})
    BY PendingIs
  <2>4. QED BY <2>2, <2>3
<1>8. \A d \in Documents : Seen(d) => Handled(d)'
  BY HandledStays DEF IntakeInv, SeenIsHandled
<1>9. \A p \in Replica, z \in Subjects : \A x \in Pending(p, z)' :
        x \in Pending(p, z) \/ x.subject = z
  BY <1>6, <1>7
<1>10. ASSUME NEW p \in Replica, NEW d \in Documents, sent'[d] > 0, ~Handled(d)'
       PROVE  \/ d \in Pending(p, d.subject)' \/ p \in excuse'[d]
              \/ sent[d] > 0 /\ d \notin Pending(p, d.subject) /\ p \notin excuse[d]
  <2>1. d \in Pending(p, d.subject) => d \in Pending(p, d.subject)'
    BY <1>6, <1>7, <1>8, <1>10
  <2>2. QED BY <1>3, <1>10, <2>1
<1>11. QED BY <1>9, <1>10, Harmless

\* The end of a transaction: its message is handled, or the replica is excused.
LEMMA EndHarmless ==
  ASSUME IntakeInv, [Next]_vars, NEW r \in Replica, NEW s \in Subjects,
         NEW m, m = work[r][s],
         work' = [work EXCEPT ![r][s] = NoMessage], UNCHANGED <<sent, queue>>,
         \A d \in Documents : excuse[d] \subseteq excuse'[d],
         m \in Documents => Handled(m)' \/ r \in excuse'[m]
  PROVE  OwnSubject' /\ NothingVanishes'
<1> USE MessageFields
<1>1. LoopsTyped
  BY DEF IntakeInv, TypeOK
<1>4. \A p \in Replica, z \in Subjects :
        /\ Pending(p, z)' \subseteq Pending(p, z)
        /\ Pending(p, z) \subseteq Pending(p, z)' \cup (IF p = r /\ z = s THEN {m} ELSE {})
  <2>1. \A p \in Replica, z \in Subjects :
          work'[p][z] = IF p = r /\ z = s THEN NoMessage ELSE work[p][z]
    BY <1>1 DEF LoopsTyped
  <2>2. queue' = queue
    OBVIOUS
  <2>3. SUFFICES ASSUME NEW p \in Replica, NEW z \in Subjects
                 PROVE  /\ Pending(p, z)' \subseteq Pending(p, z)
                        /\ Pending(p, z) \subseteq
                             Pending(p, z)' \cup (IF p = r /\ z = s THEN {m} ELSE {})
    OBVIOUS
  <2>4. QED BY <2>1, <2>2, PendingIs
<1>5. \A p \in Replica, z \in Subjects : \A x \in Pending(p, z)' :
        x \in Pending(p, z) \/ x.subject = z
  BY <1>4
<1>6. ASSUME NEW p \in Replica, NEW d \in Documents, sent'[d] > 0, ~Handled(d)'
      PROVE  \/ d \in Pending(p, d.subject)' \/ p \in excuse'[d]
             \/ sent[d] > 0 /\ d \notin Pending(p, d.subject) /\ p \notin excuse[d]
  <2>1. d \in Pending(p, d.subject) => d \in Pending(p, d.subject)' \/ p \in excuse'[d]
    BY <1>4, <1>6
  <2>2. p \in excuse[d] => p \in excuse'[d]
    OBVIOUS
  <2>3. QED BY <1>6, <2>1, <2>2
<1>7. QED BY <1>5, <1>6, Harmless

\* The end of subscriptions: the replica is excused for what they had.
LEMMA SilentHarmless ==
  ASSUME IntakeInv, [Next]_vars, NEW r \in Replica, NEW S \in SUBSET Subjects, Silent(r, S)
  PROVE  OwnSubject' /\ NothingVanishes'
<1> USE MessageFields
<1>1. LoopsTyped
  BY DEF IntakeInv, TypeOK
<1>2. /\ UNCHANGED sent
      /\ excuse' = [d \in Documents |-> IF \E s \in S : d \in Pending(r, s) THEN excuse[d] \cup {r}
                                        ELSE excuse[d]]
  BY DEF Silent
<1>3. \A p \in Replica, z \in Subjects :
        Pending(p, z)' = IF p = r /\ z \in S THEN {} ELSE Pending(p, z)
  <2>1. \A p \in Replica, z \in Subjects :
          /\ queue'[p][z] = IF p = r /\ z \in S THEN <<>> ELSE queue[p][z]
          /\ work'[p][z] = IF p = r /\ z \in S THEN NoMessage ELSE work[p][z]
    BY <1>1 DEF Silent, LoopsTyped
  <2>2. Elements(<<>>) = {}
    BY DEF Elements
  <2>3. SUFFICES ASSUME NEW p \in Replica, NEW z \in Subjects
                 PROVE  Pending(p, z)' = IF p = r /\ z \in S THEN {} ELSE Pending(p, z)
    OBVIOUS
  <2>4. /\ Pending(p, z) = Elements(queue[p][z]) \cup ({work[p][z]} \ {NoMessage})
        /\ Pending(p, z)' = Elements(queue'[p][z]) \cup ({work'[p][z]} \ {NoMessage})
    BY PendingIs
  <2>5. CASE p = r /\ z \in S
    BY <2>1, <2>2, <2>4, <2>5
  <2>6. CASE ~(p = r /\ z \in S)
    BY <2>1, <2>4, <2>6
  <2>7. QED BY <2>5, <2>6
<1>4. \A p \in Replica, z \in Subjects : \A x \in Pending(p, z)' :
        x \in Pending(p, z) \/ x.subject = z
  BY <1>3
<1>5. ASSUME NEW p \in Replica, NEW d \in Documents, sent'[d] > 0
      PROVE  \/ d \in Pending(p, d.subject)' \/ p \in excuse'[d]
             \/ sent[d] > 0 /\ d \notin Pending(p, d.subject) /\ p \notin excuse[d]
  <2>1. d.subject \in Subjects
    OBVIOUS
  <2>2. d \in Pending(p, d.subject) => d \in Pending(p, d.subject)' \/ p \in excuse'[d]
    BY <1>2, <1>3, <2>1
  <2>3. p \in excuse[d] => p \in excuse'[d]
    BY <1>2
  <2>4. QED BY <1>2, <1>5, <2>2, <2>3
<1>6. QED BY <1>4, <1>5, Harmless

\* Every step keeps OwnSubject and NothingVanishes.
LEMMA KeptStep ==
  ASSUME IntakeInv, [Next]_vars
  PROVE  OwnSubject' /\ NothingVanishes'
<1> USE MessageFields
<1>1. CASE UNCHANGED vars
  BY <1>1 DEF vars, IntakeInv, OwnSubject, NothingVanishes, Pending, Handled, Seen
<1>2. ASSUME NEW m \in Messages, Publish(m) PROVE OwnSubject' /\ NothingVanishes'
  BY <1>2, PublishHarmless
<1>3. ASSUME NEW r \in Replica, NEW s \in Subjects, Take(r, s)
      PROVE  OwnSubject' /\ NothingVanishes'
  BY <1>3, TakeHarmless
<1>4. ASSUME NEW r \in Replica, NEW s \in Subjects, NEW m \in Messages, m = work[r][s],
             Commit(r, s), m \in Documents => m.amount = 0 \/ booked'[m] > 0
      PROVE  OwnSubject' /\ NothingVanishes'
  <2>1. inbox' = inbox \cup {Key(m)} /\ work' = [work EXCEPT ![r][s] = NoMessage]
        /\ UNCHANGED <<sent, queue, excuse>>
    BY <1>4 DEF Commit
  <2>2. Seen(m)'
    <3>1. Key(m) \in inbox' /\ Key(m)[1] = m.subject /\ Key(m)[2] = m.aggregate
          /\ Key(m)[3] = m.version /\ m.version >= m.version
      BY <2>1 DEF Key
    <3>2. QED BY <3>1 DEF Seen
  <2>3. m \in Documents => Handled(m)'
    BY <1>4, <2>2 DEF Handled
  <2>4. QED BY <1>4, <2>1, <2>3, EndHarmless
<1>5. ASSUME NEW r \in Replica, salesOrderHandler(r) PROVE OwnSubject' /\ NothingVanishes'
  <2>1. PICK m \in Documents :
           /\ m = work[r]["order"] /\ m.subject = "order" /\ m.amount > 0
           /\ Commit(r, "order") /\ inbox' = inbox \cup {Key(m)}
           /\ booked' = [booked EXCEPT ![m] = IF Unclaimed(m) THEN @ + 1 ELSE @]
           /\ exposure' = [exposure EXCEPT ![m.customer] = IF Unclaimed(m) THEN @ + m.amount ELSE @]
    BY <1>5, OrderBooked
  <2>2. booked \in [Messages -> Nat] /\ "order" \in Subjects
    BY DEF IntakeInv, TypeOK, TablesTyped, Subjects
  <2>3. booked'[m] > 0
    BY <2>1, <2>2 DEF Unclaimed
  <2>4. QED BY <1>4, <2>1, <2>2, <2>3
<1>6. ASSUME NEW r \in Replica, inventoryAdjustedHandler(r)
      PROVE  OwnSubject' /\ NothingVanishes'
  <2>1. PICK m \in Documents :
           /\ m = work[r]["movement"] /\ m.subject = "movement"
           /\ Commit(r, "movement") /\ inbox' = inbox \cup {Key(m)} /\ UNCHANGED exposure
           /\ booked' = [booked EXCEPT ![m] = IF m.amount > 0 /\ Unclaimed(m) THEN @ + 1 ELSE @]
    BY <1>6, MovementBooked
  <2>2. booked \in [Messages -> Nat] /\ "movement" \in Subjects
    BY DEF IntakeInv, TypeOK, TablesTyped, Subjects
  <2>3. m.amount = 0 \/ booked'[m] > 0
    BY <2>1, <2>2 DEF Unclaimed
  <2>4. QED BY <1>4, <2>1, <2>2, <2>3
<1>7. ASSUME NEW r \in Replica, NEW s \in {"customerCreated", "customerUpdated"},
             customerSnapshotHandler(r, s)
      PROVE  OwnSubject' /\ NothingVanishes'
  <2>1. PICK m \in Messages :
           /\ m = work[r][s] /\ m.subject = s /\ m \notin Documents
           /\ Commit(r, s) /\ inbox' = inbox \cup {Key(m)} /\ UNCHANGED <<booked, exposure>>
    BY <1>7, CustomerStored
  <2>2. s \in Subjects
    BY DEF Subjects
  <2>3. QED BY <1>4, <2>1, <2>2
<1>8. ASSUME NEW r \in Replica, NEW s \in Subjects, HandlerFails(r, s)
      PROVE  OwnSubject' /\ NothingVanishes'
  <2>1. PICK m : m = work[r][s]
    OBVIOUS
  <2>2. /\ RollBack(r, s)
        /\ \/ /\ m \notin Documents \/ (s = "order" /\ ~Decidable(copy[m.customer].limit))
              /\ UNCHANGED excuse
           \/ Excused(r, m)
    BY <1>8, <2>1 DEF HandlerFails
  <2>3. /\ \A d \in Documents : excuse[d] \subseteq excuse'[d]
        /\ m \in Documents => r \in excuse'[m]
    BY <2>2 DEF Excused, Decidable
  <2>4. work' = [work EXCEPT ![r][s] = NoMessage] /\ UNCHANGED <<sent, queue>>
    BY <2>2 DEF RollBack
  <2>5. QED BY <2>1, <2>3, <2>4, EndHarmless
<1>9. ASSUME NEW r \in Replica, NEW s \in Subjects, ConsumeReturns(r, s)
      PROVE  OwnSubject' /\ NothingVanishes'
  <2>1. Silent(r, {s}) /\ {s} \in SUBSET Subjects
    BY <1>9 DEF ConsumeReturns
  <2>2. QED BY <2>1, SilentHarmless
<1>10. ASSUME NEW r \in Replica, Crash(r) PROVE OwnSubject' /\ NothingVanishes'
  <2>1. Silent(r, Subjects) /\ Subjects \in SUBSET Subjects
    BY <1>10 DEF Crash
  <2>2. QED BY <2>1, SilentHarmless
<1>11. ASSUME NEW r \in Replica, Return(r) \/ Cancel(r) \/ Start(r)
       PROVE  OwnSubject' /\ NothingVanishes'
  <2>1. UNCHANGED <<sent, queue, work, inbox, booked, excuse>>
    BY <1>11 DEF Return, Cancel, Start, Quiet, database
  <2>2. QED
    BY <2>1 DEF IntakeInv, OwnSubject, NothingVanishes, Pending, Handled, Seen
<1>12. ASSUME NEW r \in Replica, NEW s \in Subjects, Handle(r, s)
       PROVE  OwnSubject' /\ NothingVanishes'
  BY <1>3, <1>5, <1>6, <1>7, <1>8, <1>12 DEF Handle
<1>13. QED BY <1>1, <1>2, <1>9, <1>10, <1>11, <1>12 DEF Next

------------------------------------------------------------------------------
\* At first nothing is sent, pending, recorded or booked.
LEMMA IntakeInit == Init => IntakeInv
<1> SUFFICES ASSUME Init PROVE IntakeInv
  OBVIOUS
<1> USE MessageFields
<1>1. TypeOK
  BY TypeInit
<1>2. \A r \in Replica, s \in Subjects : Pending(r, s) = {}
  BY DEF Init, Pending
<1>3. OwnSubject
  BY <1>2 DEF OwnSubject
<1>4. \A m \in Messages : ~Seen(m)
  BY DEF Init, Seen
<1>5. SeenIsHandled
  BY <1>4 DEF SeenIsHandled
<1>6. NothingVanishes
  BY DEF Init, NothingVanishes
<1>7. {m \in Messages : booked[m] > 0} = {} /\ \A m \in Messages : booked[m] <= 1
  BY DEF Init
<1>8. BookedAreDocuments
  BY <1>7, FS_EmptySet DEF BookedAreDocuments
<1>9. \A c \in Customers : BookedOrders(c) = {} /\ exposure[c] = 0
  BY <1>7 DEF Init, BookedOrders
<1>10. BookedOnce
  BY <1>7, <1>9, SumEmpty DEF BookedOnce
<1>11. QED BY <1>1, <1>3, <1>5, <1>6, <1>8, <1>10 DEF IntakeInv

\* IntakeInv is an invariant of the consumers.
LEMMA IntakeInvariance == Spec => []IntakeInv
<1>1. IntakeInv /\ [Next]_vars => IntakeInv'
  <2>1. SUFFICES ASSUME IntakeInv, [Next]_vars PROVE IntakeInv'
    OBVIOUS
  <2>2. TypeOK
    BY <2>1 DEF IntakeInv
  <2>3. LoopsTyped' /\ TablesTyped'
    BY <2>1, <2>2, LoopsStep, TablesStep
  <2>4. TypeOK'
    BY <2>3 DEF TypeOK
  <2>5. SeenIsHandled' /\ BookedAreDocuments' /\ BookedOnce' /\ OwnSubject' /\ NothingVanishes'
    BY <2>1, SeenStep, BookedStep, KeptStep
  <2>6. QED BY <2>4, <2>5 DEF IntakeInv
<1>2. QED BY <1>1, IntakeInit, PTL DEF Spec

\* The types of the queues, transactions, loops and tables hold for any number of
\* replicas, customers and messages: what is stored as a limit is an amount.
THEOREM IntakeTypes == Spec => []TypeOK
<1>1. IntakeInv => TypeOK
  BY DEF IntakeInv
<1>2. QED BY <1>1, IntakeInvariance, PTL

\* However often a document is sent and however many replicas handle it, it is
\* booked once, and the exposure of a customer is the sum of the booked orders.
THEOREM DocumentBookedOnce == Spec => []BookedOnce
<1>1. IntakeInv => BookedOnce
  BY DEF IntakeInv
<1>2. QED BY <1>1, IntakeInvariance, PTL

\* No document is lost by a replica that listened to it, unless the replica ended, its
\* transaction failed or the books were closed: no other replica makes it skip one.
THEOREM NoDocumentVanishes == Spec => []NothingVanishes
<1>1. IntakeInv => NothingVanishes
  BY DEF IntakeInv
<1>2. QED BY <1>1, IntakeInvariance, PTL
==============================================================================
