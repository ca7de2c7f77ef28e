---------------------------- MODULE EventProperties ----------------------------
(* What the consumers owe to the components whose events they handle.       *)
EXTENDS EventIntake, Functions

LoopsTyped ==
  /\ sent \in [Messages -> 0..MaxSends]
  /\ queue \in [Replica -> [Subjects -> Seq(Messages)]]
  /\ work \in [Replica -> [Subjects -> Messages \cup {NoMessage}]]
  /\ subs \in [Replica -> [Subjects -> {"on", "off"}]]
  /\ errCh \in [Replica -> Nat]
  /\ stage \in [Replica -> {"up", "ended", "cancelled"}]
  /\ faults \in 0..MaxFaults
  /\ excuse \in [Documents -> SUBSET Replica]

TablesTyped ==
  /\ inbox \subseteq Subjects \X Nat \X Nat
  /\ booked \in [Messages -> Nat] /\ exposure \in [Customers -> Nat]
  /\ copy \in [Customers -> [version : Nat, limit : Limits]]
  /\ \A c \in Customers : copy[c].limit.ok \/ copy[c] = Carried[c]

\* Types: the queues, transactions and loops of consumer.Start; what is stored
\* as a limit is an amount (snapshot.go), but for what release 1.x stored.
TypeOK == LoopsTyped /\ TablesTyped

Handled(m) == IF m.amount = 0 THEN Seen(m) ELSE booked[m] > 0

BookedOrders(c) == {m \in Messages : m.subject = "order" /\ m.customer = c /\ booked[m] > 0}

\* However often upstream sends a document and however many replicas handle it
\* at once, it is booked once (autoentry.go's claim of the source), and the
\* customer's exposure counts every booked order once.
BookedOnce ==
  /\ \A m \in Messages : booked[m] <= 1
  /\ \A c \in Customers :
       exposure[c] = SumFunctionOnSet([m \in Messages |-> m.amount], BookedOrders(c))

\* Delivery is at most once, but a replica loses a document only through its own
\* end, a failure of its transaction or closed books: as long as a document is
\* not handled, every replica still has it or has such an excuse.  What one
\* replica left undone never makes another skip it (consumer.go:66: the inbox
\* record and the entry commit together).
NothingVanishes ==
  \A m \in Documents : sent[m] > 0 /\ ~Handled(m) =>
    \A r \in Replica : m \in Pending(r, m.subject) \/ r \in excuse[m]

Outstanding(m) == sent[m] > 0 /\ ~Handled(m) /\ excuse[m] # Replica

\* What upstream has sent is booked at last, unless faults or closed periods took
\* it from every replica: unsound messages in a queue do not keep it back, nor
\* does the limit that upstream or release 1.x left for its customer (design.md:104).
DocumentsGetBooked ==
  (\E m \in Documents : Outstanding(m)) ~> (\A m \in Documents : ~Outstanding(m))

\* A goroutine of the member runs, although it is to stop or another has ended.
Ending(r) ==
  /\ stage[r] # "up" \/ \E s \in Subjects : subs[r][s] = "off"
  /\ \E s \in Subjects : subs[r][s] = "on"

\* The subscriptions of a member end together: once one has returned, or the member
\* is to stop, Start returns and all four goroutines end, none waiting for somebody to
\* receive its result, so that no member stays up deaf to one of its subjects and none
\* leaves goroutines behind (consumer.go:34-46, partition.go:27).
LoopsEndTogether == (\E r \in Replica : Ending(r)) ~> (\A r \in Replica : ~Ending(r))
------------------------------------------------------------------------------
(* What the steps need of the states they start in.                         *)

\* A subscription has messages of its subject only.
OwnSubject == \A r \in Replica, s \in Subjects : \A m \in Pending(r, s) : m.subject = s

\* A document the inbox knows is handled: its record was committed with its entry.
SeenIsHandled == \A m \in Documents : Seen(m) => Handled(m)

\* Only documents are booked, and so far finitely many.
BookedAreDocuments ==
  /\ \A m \in Messages : booked[m] > 0 => m \in Documents
  /\ IsFiniteSet({m \in Messages : booked[m] > 0})

IntakeInv ==
  TypeOK /\ OwnSubject /\ SeenIsHandled /\ NothingVanishes /\ BookedAreDocuments /\ BookedOnce
==============================================================================
