---------------------------- MODULE RequestProofs ----------------------------
(***************************************************************************)
(* Theorems about Requests for any number of requests, callers, legal      *)
(* entities and keys.  The argument: what a request knows of its caller's  *)
(* grants lies between the grants kept and the grants held since it came;  *)
(* and a key is spent by the one transaction that found it unspent.        *)
(***************************************************************************)
EXTENDS RequestProperties, FiniteSetTheorems, TLAPS

\* Calls have an operation of theirs.
LEMMA CallType ==
  ASSUME NEW op \in AllOps, NEW r \in Calls(op)
  PROVE  /\ r \in CallRecords /\ r.op = op
         /\ r.caller \in Callers /\ r.entity \in Entities
         /\ op \in Commands => r.key \in Keys
         /\ op \in AccessOps => r.sub \in Callers
<1>1. PICK c \in Callers,
           w \in (IF op \in AccessOps THEN Managed ELSE {NoCaller} \X
                  (IF op \in PeriodCommands \cup {"PostManualEntry", "CheckPeriodOpen"}
                   THEN Entities ELSE {DefaultEntity})),
           i \in (IF op \in {"ReverseEntry", "GetEntry"} THEN 1..MaxEntries ELSE {0}),
           k \in (IF op \in Commands THEN Keys ELSE {NoKey}),
           d \in Defects(op) :
        r = [op |-> op, caller |-> c, sub |-> w[1], entity |-> w[2], entry |-> i, key |-> k,
             lacks |-> d]
  BY DEF Calls
<1>2. w[1] \in Callers \cup {NoCaller} /\ w[2] \in Entities /\ (op \in AccessOps => w[1] \in Callers)
  <2>1. CASE op \in AccessOps
    <3>1. w \in Callers \X Entities
      BY <2>1, RequestsAssumption
    <3>2. QED BY <3>1
  <2>2. CASE op \notin AccessOps
    <3>1. w \in {NoCaller} \X Entities
      BY <2>2, RequestsAssumption
    <3>2. QED BY <2>2, <3>1
  <2>3. QED BY <2>1, <2>2
<1>3. i \in 0..MaxEntries /\ k \in Keys \cup {NoKey} /\ (op \in Commands => k \in Keys)
  BY RequestsAssumption
<1>4. QED BY <1>1, <1>2, <1>3 DEF CallRecords

------------------------------------------------------------------------------
(* Steps of one request.                                                    *)

AnswerOf(code, result, shows) == [code |-> code, result |-> result, shows |-> shows]
AnyResults == Results \cup {StatusResult("UNSPECIFIED")}

\* Every error has a code.
LEMMA CodeType == \A err : ToStatus(err) \in Codes
BY DEF ToStatus, Codes

\* A request that is not there is one.
LEMMA IdleType ==
  Idle \in Servings
<1>1. NoCall \in CallRecords
  <2>1. "nothing" \in Defects("GetEntry") /\ "GetEntry" \in AllOps
    BY DEF Defects, AllOps
  <2>2. QED BY <2>1, RequestsAssumption DEF NoCall, CallRecords
<1>2. NoAnswer \in Answers
  BY DEF NoAnswer, Answers, Codes, Results
<1>3. QED BY <1>1, <1>2 DEF Idle, Servings

\* A request that is answered has the answer, and nothing else changes but its
\* history.
LEMMA Answering ==
  ASSUME Shapes, NEW p \in Proc, NEW code \in Codes, NEW result \in AnyResults,
         NEW shows \in SUBSET Entities, Reply(p, code, result, shows)
  PROVE  /\ proc'[p].pc = "answered" /\ proc'[p].in = NoCall
         /\ proc'[p].answer.code = code /\ proc'[p].answer.shows = shows
         /\ proc'[p].scope = {}
         /\ \A q \in Proc \ {p} : proc'[q] = proc[q]
         /\ proc' \in [Proc -> Servings]
<1> DEFINE a == [Idle EXCEPT !.pc = "answered", !.answer = AnswerOf(code, result, shows)]
<1>1. AnswerOf(code, result, shows) \in Answers
  BY DEF AnswerOf, Answers, AnyResults
<1>2. Idle \in Servings /\ Idle.in = NoCall /\ Idle.scope = {}
  BY IdleType DEF Idle
<1>3. /\ a \in Servings /\ a.pc = "answered" /\ a.in = NoCall /\ a.scope = {}
      /\ a.answer = AnswerOf(code, result, shows)
  BY <1>1, <1>2 DEF Servings
<1>4. proc' = [proc EXCEPT ![p] = a]
  BY DEF Reply, AnswerOf
<1> HIDE DEF a
<1>5. a.answer.code = code /\ a.answer.shows = shows
  BY <1>3 DEF AnswerOf
<1>6. QED BY <1>3, <1>4, <1>5 DEF Shapes

\* The tables keep their shape when the parts that a step writes do.
LEMMA KeepsShapes ==
  ASSUME Shapes,
         grants' \in [Callers -> SUBSET Entities], status' \in [Entities -> Statuses],
         entries' \subseteq [id : 1..MaxEntries, entity : Entities, reverses : 0..MaxEntries,
                            owed : BOOLEAN],
         IsFiniteSet(entries'), keys' \in [Keys -> Results],
         log' \in [Keys -> [told : SUBSET Results, effects : 0..1]],
         proc' \in [Proc -> Servings], seen' \in [Proc -> Histories],
         \A p \in Proc : proc'[p] = proc[p] \/ proc'[p].in = NoCall
                        \/ proc'[p].in \in Calls(proc'[p].in.op)
  PROVE  Shapes'
<1>1. ASSUME NEW p \in Proc
      PROVE  /\ proc'[p].pc \in {"idle", "received", "scoped", "answered"}
             /\ proc'[p].in = NoCall \/ proc'[p].in \in Calls(proc'[p].in.op)
             /\ proc'[p].scope \subseteq Entities
             /\ proc'[p].answer.code \in Codes
  <2>1. proc'[p] \in Servings /\ proc'[p].answer \in Answers
    BY DEF Servings
  <2>2. proc'[p].answer.code \in Codes
    BY <2>1 DEF Answers
  <2>3. proc'[p].in = NoCall \/ proc'[p].in \in Calls(proc'[p].in.op)
    BY DEF Shapes, TypeOK
  <2>4. QED BY <2>1, <2>2, <2>3 DEF Servings
<1>2. QED BY <1>1 DEF Shapes, TypeOK

\* One request is answered, the others go on.
LEMMA AnswerStep ==
  ASSUME IInv, NEW p \in Proc, NEW code \in Codes, NEW result \in AnyResults,
         NEW shows \in SUBSET Entities, Reply(p, code, result, shows),
         NEW h \in Histories, seen' = [seen EXCEPT ![p] = h],
         h.did \subseteq h.held, h.replayed \/ shows \subseteq h.held,
         (h.did # {} \/ h.spent) => code \in {"OK", "Internal"},
         code = "Internal" => h.faulted,
         UNCHANGED grants
  PROVE  \A q \in Proc : RequestOK(q)'
<1> SUFFICES ASSUME NEW q \in Proc PROVE RequestOK(q)'
  OBVIOUS
<1>1. CASE q = p
  <2>1. /\ proc'[p].pc = "answered" /\ proc'[p].answer.code = code /\ proc'[p].answer.shows = shows
        /\ seen'[p] = h
    BY Answering DEF IInv, Shapes
  <2>2. h.replayed \in BOOLEAN
    BY DEF Histories
  <2>3. QED BY <1>1, <2>1, <2>2 DEF RequestOK, Answered
<1>2. CASE q # p
  <2>1. proc'[q] = proc[q] /\ seen'[q] = seen[q] /\ grants' = grants
    BY <1>2, Answering DEF IInv, Shapes
  <2>2. RequestOK(q)
    BY DEF IInv
  <2>3. QED BY <2>1, <2>2 DEF RequestOK, Underway, Answered
<1>3. QED BY <1>1, <1>2

\* What is known of a request that is under way.
LEMMA InHand ==
  ASSUME IInv, NEW p \in Proc, proc[p].pc \in {"received", "scoped"}
  PROVE  /\ seen[p] \in Histories /\ seen[p].did = {} /\ ~seen[p].spent
         /\ proc[p].in.op \in AllOps /\ proc[p].in.caller \in Callers /\ proc[p].in.entity \in Entities
         /\ proc[p].in.op \in Commands => proc[p].in.key \in Keys
         /\ proc[p].in.op \in AccessOps => proc[p].in.sub \in Callers
         /\ seen[p].kept \subseteq grants[proc[p].in.caller]
         /\ grants[proc[p].in.caller] \subseteq seen[p].held
         /\ proc[p].pc = "scoped" => seen[p].kept \subseteq proc[p].scope /\ proc[p].scope \subseteq seen[p].held
         /\ proc[p].scope \in SUBSET Entities
<1>1. RequestOK(p) /\ Underway(p)
  BY DEF IInv, RequestOK
<1>2. proc[p] \in Servings /\ seen[p] \in Histories
  BY DEF IInv, Shapes
<1>3. QED BY <1>1, <1>2, CallType DEF Underway, RequestOK, Servings

KnownErrors == {"ErrPeriodNotOpen", "ErrUnbalancedEntry", "ErrEntryAlreadyReversed", "ErrNotFound",
                "ErrInvalidArgument", "ErrForbidden"}

\* No result at all is a result.
LEMMA NoResultType == NoResult \in AnyResults /\ {} \in SUBSET Entities
BY DEF AnyResults, Results

\* An error that the code knows has a code other than Internal.
LEMMA KnownCodes ==
  ASSUME NEW err \in KnownErrors
  PROVE  ToStatus(err) \in Codes \ {"Internal"}
BY DEF KnownErrors, ToStatus, Codes

\* A fault of the database is Internal.
LEMMA InternalCode == ToStatus("database") = "Internal" /\ "Internal" \in Codes /\ "OK" \in Codes
BY DEF ToStatus, Codes

\* An answer that touches no table.
LEMMA ReadStep ==
  ASSUME IInv, NEW p \in Proc, proc[p].pc \in {"received", "scoped"},
         NEW code \in Codes, NEW result \in AnyResults, NEW shows \in SUBSET Entities,
         Reply(p, code, result, shows), shows \subseteq seen[p].held, code # "Internal",
         UNCHANGED <<tables, seen>>
  PROVE  IInv'
<1>1. seen[p] \in Histories /\ seen[p].did = {} /\ ~seen[p].spent
  BY InHand
<1>2. seen' = [seen EXCEPT ![p] = seen[p]] /\ UNCHANGED <<grants, status, entries, keys, log>>
  BY DEF IInv, Shapes, tables
<1>3. \A q \in Proc : RequestOK(q)'
  BY <1>1, <1>2, AnswerStep
<1>4. Shapes'
  <2>1. /\ proc' \in [Proc -> Servings]
        /\ \A q \in Proc : proc'[q] = proc[q] \/ proc'[q].in = NoCall
    BY Answering DEF IInv
  <2>2. QED BY <1>2, <2>1, KeepsShapes DEF IInv, Shapes, TypeOK, tables
<1>5. \A k \in Keys : KeyOK(k)'
  BY <1>2 DEF IInv, KeyOK
<1>6. QED BY <1>3, <1>4, <1>5 DEF IInv

\* A refusal answers and changes nothing else.
LEMMA RefuseStep ==
  ASSUME IInv, NEW p \in Proc, proc[p].pc \in {"received", "scoped"},
         NEW err \in KnownErrors, Refuse(p, err) \/ RollBack(p, err)
  PROVE  IInv'
BY ReadStep, KnownCodes, NoResultType DEF Refuse, RollBack

\* A transaction that breaks leaves nothing but the note of the fault.
LEMMA BrokenStep ==
  ASSUME IInv, NEW p \in Proc, proc[p].pc \in {"received", "scoped"}, Broken(p)
  PROVE  IInv'
<1> DEFINE h == [seen[p] EXCEPT !.faulted = TRUE]
<1>1. seen[p] \in Histories /\ seen[p].did = {} /\ ~seen[p].spent
  BY InHand
<1>2. h \in Histories /\ h.did = {} /\ h.spent = seen[p].spent /\ h.faulted
  BY <1>1 DEF Histories
<1>3. seen' = [seen EXCEPT ![p] = h] /\ UNCHANGED <<grants, status, entries, keys, log>>
  BY DEF Broken, tables
<1>4. Reply(p, "Internal", NoResult, {})
  BY InternalCode DEF Broken
<1> HIDE DEF h
<1>5. \A q \in Proc : RequestOK(q)'
  BY <1>1, <1>2, <1>3, <1>4, AnswerStep, InternalCode, NoResultType
<1>6. Shapes'
  <2>1. /\ proc' \in [Proc -> Servings]
        /\ \A q \in Proc : proc'[q] = proc[q] \/ proc'[q].in = NoCall
    BY <1>4, Answering, InternalCode, NoResultType DEF IInv
  <2>2. seen' \in [Proc -> Histories]
    BY <1>2, <1>3 DEF IInv, Shapes
  <2>3. QED BY <1>3, <2>1, <2>2, KeepsShapes DEF IInv, Shapes, TypeOK
<1>7. \A k \in Keys : KeyOK(k)'
  BY <1>3 DEF IInv, KeyOK
<1>8. QED BY <1>5, <1>6, <1>7 DEF IInv

\* What is told of a result is one.
LEMMA ToldType ==
  ASSUME NEW p \in Proc, NEW result \in Results
  PROVE  Told(p, result) \in AnyResults
<1>1. result.status \in Statuses => StatusResult(result.status) \in Results
  BY DEF Results
<1>2. StatusResult(toProtoPeriodStatus(result.status)) \in AnyResults
  BY <1>1 DEF toProtoPeriodStatus, AnyResults
<1>3. result \in AnyResults
  BY DEF AnyResults
<1>4. QED BY <1>2, <1>3 DEF Told

\* The stored result of a spent key answers.
LEMMA ReplayStep ==
  ASSUME IInv, NEW p \in Proc, proc[p].pc = "scoped", proc[p].in.op \in Commands,
         ~Unspent(proc[p].in.key), NEW shows \in SUBSET Entities, Replay(p, shows)
  PROVE  IInv'
<1> DEFINE k == proc[p].in.key
           h == [seen[p] EXCEPT !.replayed = TRUE]
<1>1. seen[p] \in Histories /\ seen[p].did = {} /\ ~seen[p].spent /\ k \in Keys
  BY InHand
<1>2. h \in Histories /\ h.did = {} /\ h.spent = seen[p].spent /\ h.replayed
  BY <1>1 DEF Histories
<1>3. /\ seen' = [seen EXCEPT ![p] = h] /\ UNCHANGED <<grants, status, entries, keys>>
      /\ log' = [log EXCEPT ![k].told = @ \cup {keys[k]}]
      /\ Reply(p, "OK", Told(p, keys[k]), shows)
  BY DEF Replay
<1>4. keys[k] \in Results /\ keys[k] # NoResult /\ Told(p, keys[k]) \in AnyResults
  BY <1>1, ToldType DEF IInv, Shapes, TypeOK, Unspent
<1> HIDE DEF h, k
<1>5. \A q \in Proc : RequestOK(q)'
  BY <1>1, <1>2, <1>3, <1>4, AnswerStep, InternalCode
<1>6. Shapes'
  <2>1. /\ proc' \in [Proc -> Servings]
        /\ \A q \in Proc : proc'[q] = proc[q] \/ proc'[q].in = NoCall
    BY <1>3, <1>4, Answering, InternalCode DEF IInv
  <2>2. seen' \in [Proc -> Histories]
    BY <1>2, <1>3 DEF IInv, Shapes
  <2>3. log' \in [Keys -> [told : SUBSET Results, effects : 0..1]]
    BY <1>1, <1>3, <1>4 DEF IInv, Shapes
  <2>4. QED BY <1>3, <2>1, <2>2, <2>3, KeepsShapes DEF IInv, Shapes, TypeOK
<1>7. ASSUME NEW j \in Keys PROVE KeyOK(j)'
  <2>1. KeyOK(j) /\ log \in [Keys -> [told : SUBSET Results, effects : 0..1]]
    BY DEF IInv, Shapes
  <2>2. CASE j = k
    BY <1>1, <1>3, <1>4, <2>1, <2>2 DEF KeyOK
  <2>3. CASE j # k
    BY <1>3, <2>1, <2>3 DEF KeyOK
  <2>4. QED BY <2>2, <2>3
<1>8. QED BY <1>5, <1>6, <1>7 DEF IInv

\* The transaction that found the key unspent commits.
LEMMA CommitStep ==
  ASSUME IInv, NEW p \in Proc, proc[p].pc = "scoped", proc[p].in.op \in Commands,
         Unspent(proc[p].in.key), NEW result \in Results \ {NoResult},
         NEW e \in proc[p].scope, NEW changed \in {{}, {e}}, Commit(p, result, changed),
         grants' = grants, status' \in [Entities -> Statuses],
         entries' \subseteq [id : 1..MaxEntries, entity : Entities, reverses : 0..MaxEntries,
                            owed : BOOLEAN],
         IsFiniteSet(entries')
  PROVE  IInv'
<1> DEFINE k == proc[p].in.key
<1>1. /\ seen[p] \in Histories /\ seen[p].did = {} /\ ~seen[p].spent /\ k \in Keys
      /\ proc[p].scope \in SUBSET Entities /\ proc[p].scope \subseteq seen[p].held
  BY InHand
<1>2. PICK lost \in BOOLEAN :
        /\ IF lost THEN Reply(p, ToStatus("database"), NoResult, {})
           ELSE Reply(p, "OK", Told(p, result), changed)
        /\ log' = [log EXCEPT ![k].effects = @ + Cardinality(changed),
                              ![k].told = IF lost THEN @ ELSE @ \cup {result}]
        /\ seen' = [seen EXCEPT ![p].did = changed, ![p].spent = TRUE, ![p].faulted = lost]
  BY DEF Commit
<1>3. keys' = [keys EXCEPT ![k] = result]
  BY DEF Commit, finalizeIdempotency
<1>4. PICK code \in {"OK", "Internal"}, answer \in AnyResults, shows \in {{}, changed} :
        Reply(p, code, answer, shows) /\ (code = "Internal" => lost)
  BY <1>2, ToldType, NoResultType, InternalCode
<1>5. /\ changed \in SUBSET Entities /\ changed \subseteq seen[p].held
      /\ shows \in SUBSET Entities /\ shows \subseteq seen[p].held
  BY <1>1
<1> DEFINE h == [seen[p] EXCEPT !.did = changed, !.spent = TRUE, !.faulted = lost]
<1>6. /\ h \in Histories /\ h.did = changed /\ h.faulted = lost /\ h.held = seen[p].held
      /\ seen' = [seen EXCEPT ![p] = h]
  BY <1>1, <1>2, <1>5 DEF Histories
<1> HIDE DEF h, k
<1>7. \A q \in Proc : RequestOK(q)'
  BY <1>4, <1>5, <1>6, AnswerStep, InternalCode
<1>8. Cardinality(changed) \in 0..1
  <2>1. CASE changed = {}
    BY <2>1, FS_EmptySet
  <2>2. CASE changed = {e}
    <3>1. Cardinality({e}) = 1
      BY FS_Singleton, Zenon
    <3>2. Cardinality(changed) = 1
      BY <2>2, <3>1, Zenon
    <3>3. QED BY <3>2
  <2>3. QED BY <2>1, <2>2
<1>9. keys[k] = NoResult /\ log[k].effects = 0 /\ log[k].told = {}
  <2>1. keys[k] = NoResult
    BY DEF Unspent, k
  <2>2. KeyOK(k)
    BY <1>1 DEF IInv
  <2>3. QED BY <2>1, <2>2 DEF KeyOK
<1>10. /\ log \in [Keys -> [told : SUBSET Results, effects : 0..1]]
       /\ keys \in [Keys -> Results]
  BY DEF IInv, Shapes, TypeOK
<1> DEFINE t == IF lost THEN log[k].told ELSE log[k].told \cup {result}
<1>11. t \in SUBSET Results /\ t \subseteq {result}
  BY <1>9
<1> HIDE DEF t
<1> DEFINE l == [log[k] EXCEPT !.effects = @ + Cardinality(changed), !.told = t]
<1>12. /\ log' = [log EXCEPT ![k] = l] /\ l.told = t
       /\ l \in [told : SUBSET Results, effects : 0..1]
  <2>1. log[k] \in [told : SUBSET Results, effects : 0..1]
    BY <1>1, <1>10
  <2>2. log[k].effects + Cardinality(changed) \in 0..1
    BY <1>8, <1>9
  <2>3. t \in SUBSET Results
    BY <1>11
  <2>4. l.told = t /\ l \in [told : SUBSET Results, effects : 0..1]
    BY <2>1, <2>2, <2>3
  <2>5. log' = [log EXCEPT ![k] = l]
    BY <1>1, <1>2, <1>10 DEF t
  <2>6. QED BY <2>4, <2>5
<1> HIDE DEF l
<1>13. /\ log' \in [Keys -> [told : SUBSET Results, effects : 0..1]]
       /\ keys' \in [Keys -> Results]
  BY <1>1, <1>3, <1>8, <1>10, <1>11, <1>12
<1>14. Shapes'
  <2>1. /\ proc' \in [Proc -> Servings]
        /\ \A q \in Proc : proc'[q] = proc[q] \/ proc'[q].in = NoCall
    BY <1>4, <1>5, Answering, InternalCode DEF IInv
  <2>2. seen' \in [Proc -> Histories]
    BY <1>6 DEF IInv, Shapes
  <2>3. grants' \in [Callers -> SUBSET Entities]
    BY DEF IInv, Shapes, TypeOK
  <2>4. QED BY <1>13, <2>1, <2>2, <2>3, KeepsShapes DEF IInv
<1>15. ASSUME NEW j \in Keys PROVE KeyOK(j)'
  <2>1. KeyOK(j)
    BY DEF IInv
  <2>2. CASE j = k
    BY <1>1, <1>3, <1>10, <1>11, <1>12, <2>2 DEF KeyOK
  <2>3. CASE j # k
    BY <1>1, <1>3, <1>10, <1>12, <2>1, <2>3 DEF KeyOK
  <2>4. QED BY <2>2, <2>3
<1>16. QED BY <1>7, <1>14, <1>15 DEF IInv

------------------------------------------------------------------------------
(* Transport and service.                                                   *)

\* A request that arrives has done nothing.
LEMMA ReceiveKeeps ==
  ASSUME IInv, NEW p \in Proc, NEW surface \in {"rest", "grpc"}, NEW op \in AllOps, NEW r \in Calls(op),
         NEW refusal \in {"none", "PermissionDenied", "BadRequest", "Unauthenticated"},
         Receive(p, surface, r, refusal)
  PROVE  IInv'
<1>1. r \in CallRecords /\ r.op = op /\ r.caller \in Callers
  BY CallType
<1> DEFINE g == grants[r.caller]
           h == [NoHistory EXCEPT !.held = g, !.kept = g]
<1>2. g \in SUBSET Entities
  BY <1>1 DEF IInv, Shapes, TypeOK
<1>3. NoHistory \in Histories /\ NoHistory.did = {} /\ ~NoHistory.spent
  BY DEF NoHistory, Histories
<1>4. h \in Histories /\ h.held = g /\ h.kept = g /\ h.did = {} /\ ~h.spent
  BY <1>2, <1>3 DEF Histories
<1>5. /\ seen' = [seen EXCEPT ![p] = h] /\ UNCHANGED <<grants, status, entries, keys, log>>
  BY DEF Receive, tables
<1> HIDE DEF h
<1>6. seen' \in [Proc -> Histories] /\ seen'[p] = h
  BY <1>4, <1>5 DEF IInv, Shapes
<1>7. \A k \in Keys : KeyOK(k)'
  BY <1>5 DEF IInv, KeyOK
<1>8. CASE refusal = "none"
  <2> DEFINE a == [Idle EXCEPT !.pc = "received", !.surface = surface, !.in = r]
  <2>1. Idle \in Servings /\ Idle.answer = NoAnswer
    BY IdleType DEF Idle
  <2>2. a \in Servings /\ a.pc = "received" /\ a.in = r /\ a.answer = NoAnswer
    BY <1>1, <1>5, <2>1 DEF Servings
  <2>3. proc' = [proc EXCEPT ![p] = a]
    BY <1>8 DEF Receive
  <2> HIDE DEF a
  <2>4. proc' \in [Proc -> Servings] /\ proc'[p] = a
    BY <2>2, <2>3 DEF IInv, Shapes
  <2>5. ASSUME NEW q \in Proc PROVE RequestOK(q)'
    <3>1. CASE q = p
      <4>1. NoAnswer.shows = {}
        BY DEF NoAnswer
      <4>2. Underway(p)'
        BY <1>1, <1>4, <1>5, <1>6, <2>2, <2>4, <4>1 DEF Underway
      <4>3. QED BY <1>4, <1>6, <2>2, <2>4, <3>1, <4>1, <4>2 DEF RequestOK, Answered
    <3>2. CASE q # p
      <4>1. proc'[q] = proc[q] /\ seen'[q] = seen[q] /\ RequestOK(q)
        BY <1>5, <2>3, <3>2 DEF IInv, Shapes
      <4>2. QED BY <1>5, <4>1 DEF RequestOK, Underway, Answered
    <3>3. QED BY <3>1, <3>2
  <2>6. ASSUME NEW q \in Proc
        PROVE  proc'[q] = proc[q] \/ proc'[q].in = NoCall \/ proc'[q].in \in Calls(proc'[q].in.op)
    BY <1>1, <2>2, <2>3, <2>4 DEF IInv, Shapes
  <2>7. Shapes'
    BY <1>5, <1>6, <2>4, <2>6, KeepsShapes DEF IInv, Shapes, TypeOK
  <2>8. QED BY <1>7, <2>5, <2>7 DEF IInv
<1>9. CASE refusal # "none"
  <2>1. Reply(p, refusal, NoResult, {}) /\ refusal \in Codes \ {"Internal"}
    BY <1>9 DEF Receive, Codes
  <2>2. \A q \in Proc : RequestOK(q)'
    BY <1>4, <1>5, <2>1, AnswerStep, NoResultType
  <2>3. /\ proc' \in [Proc -> Servings]
        /\ \A q \in Proc : proc'[q] = proc[q] \/ proc'[q].in = NoCall
    BY <2>1, Answering, NoResultType DEF IInv
  <2>4. Shapes'
    BY <1>5, <1>6, <2>3, KeepsShapes DEF IInv, Shapes, TypeOK
  <2>5. QED BY <1>7, <2>2, <2>4 DEF IInv
<1>10. QED BY <1>8, <1>9

\* The HTTP handlers refuse or pass a request on.
LEMMA RestKeeps ==
  ASSUME IInv, NEW p \in Proc, NEW op \in AllOps, NEW unbound, Rest(p, op, unbound)
  PROVE  IInv'
<1>1. PICK r \in Calls(op) :
        Receive(p, "rest", r,
                IF RegisterRoutes[op] \notin Permits[r.caller] THEN "PermissionDenied"
                ELSE IF r.lacks \in unbound THEN "BadRequest" ELSE "none")
  BY DEF Rest
<1>2. QED BY <1>1, ReceiveKeeps

\* The handlers of http.go and grpc.go.
LEMMA TransportKeeps ==
  ASSUME IInv, NEW p \in Proc, Transport(p)
  PROVE  IInv'
<1>1. ASSUME NEW op \in AllOps, NEW r \in Calls(op), NEW refusal \in {"none", "Unauthenticated"},
             Receive(p, "grpc", r, refusal)
      PROVE  IInv'
  BY <1>1, ReceiveKeeps
<1>2. CASE \/ periodOpHandler(p) \/ postManualEntryHandler(p) \/ getEntryHandler(p)
           \/ reverseEntryHandler(p) \/ listEntriesHandler(p) \/ listARLedgerHandler(p)
           \/ arLedgerSummaryHandler(p) \/ listLegalEntityAccessHandler(p)
           \/ grantLegalEntityAccessHandler(p) \/ revokeLegalEntityAccessHandler(p)
           \/ getCreditExposureHandler(p)
  <2>1. PICK op \in AllOps : \E unbound : Rest(p, op, unbound)
    BY <1>2 DEF periodOpHandler, postManualEntryHandler, getEntryHandler, reverseEntryHandler,
                listEntriesHandler, listARLedgerHandler, arLedgerSummaryHandler,
                listLegalEntityAccessHandler, grantLegalEntityAccessHandler,
                revokeLegalEntityAccessHandler, getCreditExposureHandler,
                AllOps, Commands, AccessOps, Lists, OpenReads
  <2>2. QED BY <2>1, RestKeeps
<1>3. CASE \/ RpcPeriodOps(p) \/ RpcPostManualEntry(p) \/ RpcReverseEntry(p) \/ RpcGetEntry(p)
           \/ RpcListEntries(p) \/ RpcListARLedger(p) \/ RpcCheckPeriodOpen(p)
           \/ RpcGetCreditExposure(p) \/ RpcBatchGetCreditExposure(p)
  <2>1. PICK op \in AllOps : \E r \in Calls(op), refusal \in {"none", "Unauthenticated"} :
          Receive(p, "grpc", r, refusal)
    BY <1>3 DEF requireUser, Rpc, RpcPeriodOps, RpcPostManualEntry, RpcReverseEntry, RpcGetEntry,
                RpcListEntries, RpcListARLedger, RpcCheckPeriodOpen, RpcGetCreditExposure,
                RpcBatchGetCreditExposure, AllOps, Commands, Lists, OpenReads
  <2>2. QED BY <1>1, <2>1
<1>4. QED BY <1>2, <1>3 DEF Transport

\* The grants that are read are the ones held at that moment.
LEMMA ScopeKeeps ==
  ASSUME IInv, NEW p \in Proc, proc[p].pc = "received", allowedLegalEntityIDs(p)
  PROVE  IInv'
<1>1. CASE Broken(p)
  BY <1>1, BrokenStep
<1>2. CASE ~Broken(p)
  <2> DEFINE g == grants[proc[p].in.caller]
             a == [proc[p] EXCEPT !.pc = "scoped", !.scope = g]
  <2>1. /\ proc' = [proc EXCEPT ![p].pc = "scoped", ![p].scope = g]
        /\ UNCHANGED <<grants, status, entries, keys, log, seen>>
    BY <1>2 DEF allowedLegalEntityIDs, LegalEntityIDsFor, tables
  <2>2. proc[p] \in Servings /\ g \in SUBSET Entities
    BY InHand DEF IInv, Shapes, TypeOK
  <2>3. a \in Servings /\ a.pc = "scoped" /\ a.scope = g /\ a.in = proc[p].in /\ a.answer = proc[p].answer
    BY <2>2 DEF Servings
  <2>4. proc' = [proc EXCEPT ![p] = a]
    BY <2>1, <2>2
  <2> HIDE DEF a
  <2>5. proc' \in [Proc -> Servings] /\ proc'[p] = a
    BY <2>3, <2>4 DEF IInv, Shapes
  <2>6. ASSUME NEW q \in Proc PROVE RequestOK(q)'
    <3>1. RequestOK(q)
      BY DEF IInv
    <3>2. CASE q = p
      BY <2>1, <2>3, <2>5, <3>1, <3>2 DEF RequestOK, Underway, Answered
    <3>3. CASE q # p
      <4>1. proc'[q] = proc[q]
        BY <2>4, <3>3 DEF IInv, Shapes
      <4>2. QED BY <2>1, <3>1, <4>1 DEF RequestOK, Underway, Answered
    <3>4. QED BY <3>2, <3>3
  <2>7. Shapes'
    <3>1. ASSUME NEW q \in Proc
          PROVE  proc'[q] = proc[q] \/ proc'[q].in \in Calls(proc'[q].in.op)
      <4>1. CASE q = p
        BY <2>3, <2>5, <4>1 DEF IInv, RequestOK, Underway
      <4>2. CASE q # p
        BY <2>4, <4>2 DEF IInv, Shapes
      <4>3. QED BY <4>1, <4>2
    <3>2. QED BY <2>1, <2>5, <3>1, KeepsShapes DEF IInv, Shapes, TypeOK
  <2>8. \A k \in Keys : KeyOK(k)'
    BY <2>1 DEF IInv, KeyOK
  <2>9. QED BY <2>6, <2>7, <2>8 DEF IInv
<1>3. QED BY <1>1, <1>2

\* So does the service, with the grants it has read.
LEMMA ServiceKeeps ==
  ASSUME IInv, NEW p \in Proc, Service(p)
  PROVE  IInv'
<1>1. PICK op, invalid : Serve(p, op, invalid)
  BY DEF Service, ServeClosePeriod, ServeReopenPeriod, ServeLockPeriod, ServePostManualEntry,
         ServeReverseEntry, ServeGetEntry, ServeLists
<1>2. proc[p].pc = "received" /\ (Refuse(p, "ErrInvalidArgument") \/ allowedLegalEntityIDs(p))
  BY <1>1 DEF Serve, At
<1>3. QED BY <1>2, RefuseStep, ScopeKeeps DEF KnownErrors

------------------------------------------------------------------------------
(* The repository.                                                          *)

\* A result is something.
LEMMA NonEmptyResults ==
  /\ \A i \in 1..MaxEntries : EntryResult(i) \in Results \ {NoResult}
  /\ \A s \in Statuses : StatusResult(s) \in Results \ {NoResult}
<1>1. ASSUME NEW i \in 1..MaxEntries PROVE EntryResult(i) \in Results \ {NoResult}
  <2>1. EntryResult(i).entry # NoResult.entry
    BY DEF EntryResult, NoResult
  <2>2. QED BY <2>1 DEF Results
<1>2. ASSUME NEW s \in Statuses PROVE StatusResult(s) \in Results \ {NoResult}
  <2>1. StatusResult(s).status # NoResult.status
    BY DEF StatusResult, NoResult, Statuses
  <2>2. QED BY <2>1 DEF Results
<1>3. QED BY <1>1, <1>2

\* A period command acts within the grants and spends its key.
LEMMA TransitionKeeps ==
  ASSUME IInv, NEW p \in Proc, NEW op \in PeriodCommands, NEW from \in Statuses, NEW to \in Statuses,
         transitionPeriod(p, op, from, to)
  PROVE  IInv'
<1> DEFINE r == proc[p].in
<1>1. proc[p].pc = "scoped" /\ r.op \in Commands
  BY DEF transitionPeriod, At, Commands
<1>2. CASE \E err \in KnownErrors : Refuse(p, err) \/ RollBack(p, err)
  BY <1>1, <1>2, RefuseStep
<1>3. CASE Broken(p)
  BY <1>1, <1>3, BrokenStep
<1>4. CASE ~Unspent(r.key) /\ Replay(p, {})
  BY <1>1, <1>4, ReplayStep
<1>5. CASE /\ r.entity \in proc[p].scope /\ Unspent(r.key)
           /\ status' = [status EXCEPT ![r.entity] = to]
           /\ Commit(p, StatusResult(to), IF status[r.entity] = to THEN {} ELSE {r.entity})
           /\ UNCHANGED <<grants, entries>>
  <2>1. /\ status' \in [Entities -> Statuses] /\ IsFiniteSet(entries')
        /\ entries' \subseteq [id : 1..MaxEntries, entity : Entities, reverses : 0..MaxEntries,
                              owed : BOOLEAN]
    BY <1>5 DEF IInv, Shapes, TypeOK
  <2>2. StatusResult(to) \in Results \ {NoResult}
    BY NonEmptyResults
  <2>3. QED BY <1>1, <1>5, <2>1, <2>2, CommitStep
<1>6. QED
  <2>1. /\ "ErrForbidden" \in KnownErrors /\ "ErrNotFound" \in KnownErrors
        /\ "ErrInvalidArgument" \in KnownErrors
    BY DEF KnownErrors
  <2>2. QED BY <1>2, <1>3, <1>4, <1>5, <2>1 DEF transitionPeriod

EntryRows == [id : 1..MaxEntries, entity : Entities, reverses : 0..MaxEntries, owed : BOOLEAN]

\* A new entry takes the next id.
LEMMA NewEntry ==
  ASSUME IInv, Cardinality(entries) + 1 <= MaxEntries, NEW e \in Entities,
         NEW original \in 0..MaxEntries, NEW owed \in BOOLEAN,
         entries' = entries \cup {[id |-> Cardinality(entries) + 1, entity |-> e,
                                  reverses |-> original, owed |-> owed]}
  PROVE  /\ entries' \subseteq EntryRows /\ IsFiniteSet(entries')
         /\ Cardinality(entries) + 1 \in 1..MaxEntries
<1>1. IsFiniteSet(entries) /\ entries \subseteq EntryRows
  BY DEF IInv, Shapes, TypeOK, EntryRows
<1>2. Cardinality(entries) \in Nat
  BY <1>1, FS_CardinalityType
<1>3. Cardinality(entries) + 1 \in 1..MaxEntries
  BY <1>2, RequestsAssumption
<1>4. [id |-> Cardinality(entries) + 1, entity |-> e, reverses |-> original, owed |-> owed] \in EntryRows
  BY <1>3 DEF EntryRows
<1>5. IsFiniteSet(entries')
  BY <1>1, FS_AddElement
<1>6. QED BY <1>1, <1>3, <1>4, <1>5

\* A posting spends its key for the one entry that it adds.
LEMMA EntryKeeps ==
  ASSUME IInv, NEW p \in Proc, proc[p].pc = "scoped", proc[p].in.op \in Commands,
         Unspent(proc[p].in.key), NEW e \in proc[p].scope, NEW original \in 0..MaxEntries,
         postEntryTx(p, e, original)
  PROVE  IInv'
<1> DEFINE id == Cardinality(entries) + 1
<1>1. CASE \E err \in KnownErrors : RollBack(p, err)
  BY <1>1, RefuseStep
<1>2. CASE /\ id <= MaxEntries
           /\ entries' = entries \cup {[id |-> id, entity |-> e, reverses |-> original, owed |-> FALSE]}
           /\ Commit(p, EntryResult(id), {e})
           /\ UNCHANGED <<grants, status>>
  <2>1. e \in Entities
    BY InHand
  <2>2. entries' \subseteq EntryRows /\ IsFiniteSet(entries') /\ id \in 1..MaxEntries
    BY <1>2, <2>1, NewEntry
  <2>3. EntryResult(id) \in Results \ {NoResult}
    BY <2>2, NonEmptyResults
  <2>4. status' \in [Entities -> Statuses]
    BY <1>2 DEF IInv, Shapes, TypeOK
  <2>5. QED BY <1>2, <2>2, <2>3, <2>4, CommitStep DEF EntryRows
<1>3. QED
  <2>1. /\ "ErrUnbalancedEntry" \in KnownErrors /\ "ErrPeriodNotOpen" \in KnownErrors
        /\ "ErrInvalidArgument" \in KnownErrors /\ "ErrNotFound" \in KnownErrors
    BY DEF KnownErrors
  <2>2. QED BY <1>1, <1>2, <2>1 DEF postEntryTx

\* A key that was spent is answered with its entry.
LEMMA ReplayEntryKeeps ==
  ASSUME IInv, NEW p \in Proc, proc[p].pc = "scoped", proc[p].in.op \in Commands,
         ~Unspent(proc[p].in.key), ReplayEntry(p)
  PROVE  IInv'
<1> DEFINE found == Named(keys[proc[p].in.key].entry)
<1>1. {x.entity : x \in found} \in SUBSET Entities
  BY DEF Named, IInv, Shapes, TypeOK
<1>2. CASE RollBack(p, "ErrInvalidArgument")
  BY <1>2, RefuseStep DEF KnownErrors
<1>3. CASE Replay(p, {x.entity : x \in found})
  BY <1>1, <1>3, ReplayStep
<1>4. QED BY <1>2, <1>3 DEF ReplayEntry

\* A manual posting keeps the invariant,
LEMMA PostManualEntryKeeps ==
  ASSUME IInv, NEW p \in Proc, PostManualEntry(p)
  PROVE  IInv'
<1>1. proc[p].pc = "scoped" /\ proc[p].in.op \in Commands /\ 0 \in 0..MaxEntries
  BY RequestsAssumption DEF PostManualEntry, At, Commands
<1>2. CASE proc[p].in.entity \notin proc[p].scope
  BY <1>1, <1>2, RefuseStep DEF PostManualEntry, KnownErrors
<1>3. CASE proc[p].in.entity \in proc[p].scope
  BY <1>1, <1>3, BrokenStep, ReplayEntryKeeps, EntryKeeps DEF PostManualEntry
<1>4. QED BY <1>2, <1>3

\* and a reversal,
LEMMA ReverseEntryKeeps ==
  ASSUME IInv, NEW p \in Proc, ReverseEntry(p)
  PROVE  IInv'
<1> DEFINE r == proc[p].in
<1>1. proc[p].pc = "scoped" /\ r.op \in Commands
  BY DEF ReverseEntry, At, Commands
<1>2. CASE Broken(p) \/ (~Unspent(r.key) /\ ReplayEntry(p))
  BY <1>1, <1>2, BrokenStep, ReplayEntryKeeps
<1>3. CASE \E err \in KnownErrors : RollBack(p, err)
  BY <1>1, <1>3, RefuseStep
<1>4. CASE Unspent(r.key) /\ \E x \in entries : x.entity \in proc[p].scope /\ postEntryTx(p, x.entity, x.id)
  <2>1. PICK x \in entries : x.entity \in proc[p].scope /\ postEntryTx(p, x.entity, x.id)
    BY <1>4
  <2>2. x.id \in 0..MaxEntries
    BY DEF IInv, Shapes, TypeOK
  <2>3. QED BY <1>1, <1>4, <2>1, <2>2, EntryKeeps
<1>5. QED
  <2>1. /\ "ErrForbidden" \in KnownErrors /\ "ErrNotFound" \in KnownErrors
        /\ "ErrInvalidArgument" \in KnownErrors /\ "ErrEntryAlreadyReversed" \in KnownErrors
    BY DEF KnownErrors
  <2>2. QED BY <1>2, <1>3, <1>4, <2>1 DEF ReverseEntry, Named

\* and the read of an entry,
LEMMA GetEntryKeeps ==
  ASSUME IInv, NEW p \in Proc, GetEntry(p)
  PROVE  IInv'
<1>1. proc[p].pc = "scoped"
  BY DEF GetEntry, At
<1>2. CASE Broken(p) \/ \E err \in KnownErrors : Refuse(p, err)
  BY <1>1, <1>2, BrokenStep, RefuseStep
<1>3. CASE \E x \in entries : x.entity \in proc[p].scope
                              /\ Reply(p, "OK", EntryResult(x.id), {x.entity}) /\ UNCHANGED <<tables, seen>>
  <2>1. PICK x \in entries : /\ x.entity \in proc[p].scope
                             /\ Reply(p, "OK", EntryResult(x.id), {x.entity}) /\ UNCHANGED <<tables, seen>>
    BY <1>3
  <2>2. x.id \in 1..MaxEntries /\ x.entity \in Entities
    BY DEF IInv, Shapes, TypeOK
  <2>3. EntryResult(x.id) \in AnyResults /\ {x.entity} \in SUBSET Entities
    BY <2>2, NonEmptyResults DEF AnyResults
  <2>4. {x.entity} \subseteq seen[p].held
    BY <1>1, <2>1, InHand
  <2>5. QED BY <1>1, <2>1, <2>3, <2>4, ReadStep, InternalCode
<1>4. QED
  <2>1. /\ "ErrForbidden" \in KnownErrors /\ "ErrNotFound" \in KnownErrors
        /\ "ErrInvalidArgument" \in KnownErrors
    BY DEF KnownErrors
  <2>2. QED BY <1>2, <1>3, <2>1 DEF GetEntry, Named

\* and the lists,
LEMMA ListsKeep ==
  ASSUME IInv, NEW p \in Proc, NEW op, NEW rows \in SUBSET entries, Select(p, op, rows)
  PROVE  IInv'
<1>1. proc[p].pc = "scoped"
  BY DEF Select, At
<1> DEFINE shows == {x.entity : x \in rows} \cap proc[p].scope
<1>2. shows \in SUBSET Entities /\ shows \subseteq seen[p].held
  BY <1>1, InHand
<1>3. CASE Broken(p) \/ Refuse(p, "ErrInvalidArgument")
  BY <1>1, <1>3, BrokenStep, RefuseStep DEF KnownErrors
<1>4. CASE Reply(p, "OK", NoResult, shows) /\ UNCHANGED <<tables, seen>>
  BY <1>1, <1>2, <1>4, ReadStep, InternalCode, NoResultType
<1>5. QED BY <1>3, <1>4 DEF Select

\* and the question for a period,
LEMMA CheckPeriodOpenKeeps ==
  ASSUME IInv, NEW p \in Proc, CheckPeriodOpen(p)
  PROVE  IInv'
<1>1. proc[p].pc = "received"
  BY DEF CheckPeriodOpen, At
<1> DEFINE answer == StatusResult(IF proc[p].in.lacks = "period" THEN "none"
                                 ELSE status[proc[p].in.entity])
<1>2. answer \in Results
  <2>1. status[proc[p].in.entity] \in Statuses
    BY <1>1, InHand DEF IInv, Shapes, TypeOK
  <2>2. StatusResult("none") = NoResult
    BY DEF StatusResult, NoResult
  <2>3. QED BY <2>1, <2>2, NonEmptyResults DEF Results
<1>3. CASE Broken(p) \/ Refuse(p, "ErrInvalidArgument")
  BY <1>1, <1>3, BrokenStep, RefuseStep DEF KnownErrors
<1>4. CASE Reply(p, "OK", Told(p, answer), {}) /\ UNCHANGED <<tables, seen>>
  BY <1>1, <1>2, <1>4, ReadStep, InternalCode, NoResultType, ToldType
<1>5. QED BY <1>3, <1>4 DEF CheckPeriodOpen

\* and the questions for credit used,
LEMMA CreditExposureKeeps ==
  ASSUME IInv, NEW p \in Proc, GetCreditExposure(p) \/ BatchGetCreditExposure(p)
  PROVE  IInv'
<1>1. proc[p].pc = "received"
  BY DEF GetCreditExposure, BatchGetCreditExposure, At
<1>2. CASE Broken(p) \/ Refuse(p, "ErrInvalidArgument")
  BY <1>1, <1>2, BrokenStep, RefuseStep DEF KnownErrors
<1>3. CASE Reply(p, "OK", NoResult, {}) /\ UNCHANGED <<tables, seen>>
  BY <1>1, <1>3, ReadStep, InternalCode, NoResultType
<1>4. QED BY <1>2, <1>3 DEF GetCreditExposure, BatchGetCreditExposure

\* Grants change under the requests of their subject.
LEMMA SetGrantsKeeps ==
  ASSUME IInv, NEW p \in Proc, proc[p].pc = "received", proc[p].in.sub \in Callers,
         NEW now \in SUBSET Entities, SetGrants(p, now)
  PROVE  IInv'
<1> DEFINE s == proc[p].in.sub
<1>1. PICK lost \in BOOLEAN :
        /\ IF lost THEN Reply(p, ToStatus("database"), NoResult, {}) ELSE Reply(p, "OK", NoResult, {})
        /\ seen' = [q \in Proc |->
             [seen[q] EXCEPT
                !.held = IF Served(q, s) THEN @ \cup now ELSE @,
                !.kept = IF Served(q, s) THEN @ \cap now ELSE @,
                !.faulted = IF q = p THEN lost ELSE @]]
  BY DEF SetGrants
<1>2. grants' = [grants EXCEPT ![s] = now] /\ UNCHANGED <<status, entries, keys, log>>
  BY DEF SetGrants
<1>3. PICK code \in {"OK", "Internal"} : Reply(p, code, NoResult, {}) /\ (code = "Internal" => lost)
  BY <1>1, InternalCode
<1>4. /\ proc'[p].pc = "answered" /\ proc'[p].answer.code = code /\ proc'[p].answer.shows = {}
      /\ proc'[p].in = NoCall /\ proc' \in [Proc -> Servings] /\ \A q \in Proc \ {p} : proc'[q] = proc[q]
  BY <1>3, Answering, NoResultType, InternalCode DEF IInv
<1>5. ASSUME NEW q \in Proc
      PROVE  /\ seen'[q] \in Histories
             /\ seen'[q].held = IF Served(q, s) THEN seen[q].held \cup now ELSE seen[q].held
             /\ seen'[q].kept = IF Served(q, s) THEN seen[q].kept \cap now ELSE seen[q].kept
             /\ seen'[q].faulted = IF q = p THEN lost ELSE seen[q].faulted
             /\ seen'[q].did = seen[q].did /\ seen'[q].spent = seen[q].spent
             /\ seen'[q].replayed = seen[q].replayed
  <2>1. seen[q] \in Histories
    BY DEF IInv, Shapes
  <2>2. seen'[q] = [seen[q] EXCEPT
                !.held = IF Served(q, s) THEN @ \cup now ELSE @,
                !.kept = IF Served(q, s) THEN @ \cap now ELSE @,
                !.faulted = IF q = p THEN lost ELSE @]
    BY <1>1
  <2> DEFINE A == IF Served(q, s) THEN seen[q].held \cup now ELSE seen[q].held
             B == IF Served(q, s) THEN seen[q].kept \cap now ELSE seen[q].kept
             f == IF q = p THEN lost ELSE seen[q].faulted
  <2>3. A \in SUBSET Entities /\ B \in SUBSET Entities
    BY <2>1 DEF Histories
  <2>4. f \in BOOLEAN
    BY <2>1 DEF Histories
  <2>5. seen'[q] = [seen[q] EXCEPT !.held = A, !.kept = B, !.faulted = f]
    BY <2>2
  <2> HIDE DEF A, B, f
  <2>6. /\ seen'[q] \in Histories /\ seen'[q].held = A /\ seen'[q].kept = B /\ seen'[q].faulted = f
        /\ seen'[q].did = seen[q].did /\ seen'[q].spent = seen[q].spent
        /\ seen'[q].replayed = seen[q].replayed
    BY <2>1, <2>3, <2>4, <2>5 DEF Histories
  <2>7. QED BY <2>6 DEF A, B, f
<1>6. ASSUME NEW q \in Proc PROVE RequestOK(q)'
  <2>1. RequestOK(q) /\ grants \in [Callers -> SUBSET Entities]
    BY DEF IInv, Shapes, TypeOK
  <2>2. CASE q = p
    <3>1. seen[p].did = {} /\ ~seen[p].spent
      BY InHand
    <3>2. QED BY <1>3, <1>4, <1>5, <2>2, <3>1 DEF RequestOK, Answered
  <2>3. CASE q # p
    <3>1. proc'[q] = proc[q]
      BY <1>4, <2>3
    <3>2. Underway(q) /\ proc[q].pc \in {"received", "scoped"} => Underway(q)'
      <4> SUFFICES ASSUME Underway(q), proc[q].pc \in {"received", "scoped"} PROVE Underway(q)'
        OBVIOUS
      <4> DEFINE c == proc[q].in.caller
      <4>1. /\ seen[q].kept \subseteq grants[c] /\ grants[c] \subseteq seen[q].held
            /\ grants'[c] = IF c = s THEN now ELSE grants[c]
            /\ Served(q, s) <=> c = s
        BY <1>2, <2>1 DEF Underway, Served
      <4>2. seen'[q].kept \subseteq grants'[c] /\ grants'[c] \subseteq seen'[q].held
        BY <1>5, <4>1
      <4>3. proc'[q].in.caller = c
        BY <3>1
      <4> HIDE DEF c
      <4>4. QED BY <1>5, <3>1, <4>2, <4>3 DEF Underway
    <3>3. QED BY <1>5, <2>1, <2>3, <3>1, <3>2 DEF RequestOK, Answered
  <2>4. QED BY <2>2, <2>3
<1>7. Shapes'
  <2>1. grants' \in [Callers -> SUBSET Entities] /\ seen' \in [Proc -> Histories]
    BY <1>1, <1>2, <1>5 DEF IInv, Shapes, TypeOK
  <2>2. QED BY <1>2, <1>4, <2>1, KeepsShapes DEF IInv, Shapes, TypeOK
<1>8. \A k \in Keys : KeyOK(k)'
  BY <1>2 DEF IInv, KeyOK
<1>9. QED BY <1>6, <1>7, <1>8 DEF IInv

\* and grants and revocations.
LEMMA AccessKeeps ==
  ASSUME IInv, NEW p \in Proc,
         ListLegalEntityAccess(p) \/ GrantLegalEntityAccess(p) \/ RevokeLegalEntityAccess(p)
  PROVE  IInv'
<1>1. proc[p].pc = "received" /\ proc[p].in.op \in AccessOps
  BY DEF ListLegalEntityAccess, GrantLegalEntityAccess, RevokeLegalEntityAccess, At, AccessOps
<1>2. proc[p].in.sub \in Callers /\ proc[p].in.entity \in Entities
  BY <1>1, InHand
<1>3. CASE Broken(p)
  BY <1>1, <1>3, BrokenStep
<1>4. CASE Reply(p, "OK", NoResult, {}) /\ UNCHANGED <<tables, seen>>
  BY <1>1, <1>4, ReadStep, InternalCode, NoResultType
<1>5. CASE \E now \in SUBSET Entities : SetGrants(p, now)
  BY <1>1, <1>2, <1>5, SetGrantsKeeps
<1>6. grants[proc[p].in.sub] \in SUBSET Entities
  BY <1>2 DEF IInv, Shapes, TypeOK
<1>7. QED BY <1>2, <1>3, <1>4, <1>5, <1>6
          DEF ListLegalEntityAccess, GrantLegalEntityAccess, RevokeLegalEntityAccess

\* So does all that the repository does,
LEMMA RepositoryKeeps ==
  ASSUME IInv, NEW p \in Proc, Repository(p)
  PROVE  IInv'
<1>1. CASE ClosePeriod(p) \/ ReopenPeriod(p) \/ LockPeriod(p)
  <2>1. {"OPEN", "CLOSED", "LOCKED"} \subseteq Statuses
        /\ {"ClosePeriod", "ReopenPeriod", "LockPeriod"} \subseteq PeriodCommands
    BY DEF Statuses, PeriodCommands
  <2>2. QED BY <1>1, <2>1, TransitionKeeps DEF ClosePeriod, ReopenPeriod, LockPeriod
<1>2. CASE ListEntries(p) \/ ListARLedger(p) \/ SummarizeARLedger(p)
  BY <1>2, ListsKeep DEF ListEntries, ListARLedger, SummarizeARLedger, Receivables
<1>3. QED BY <1>1, <1>2, PostManualEntryKeeps, ReverseEntryKeeps, GetEntryKeeps,
             CheckPeriodOpenKeeps, CreditExposureKeeps, AccessKeeps DEF Repository

\* and an order that is booked meanwhile.
LEMMA PostSalesOrderEntryKeeps ==
  ASSUME IInv, PostSalesOrderEntry
  PROVE  IInv'
<1>1. /\ entries' = entries \cup {[id |-> Cardinality(entries) + 1, entity |-> DefaultEntity,
                                  reverses |-> 0, owed |-> TRUE]}
      /\ UNCHANGED <<grants, status, keys, proc, seen, log>>
  BY DEF PostSalesOrderEntry
<1>2. Cardinality(entries) + 1 <= MaxEntries
  <2>1. Cardinality(entries) \in Nat
    BY FS_CardinalityType DEF IInv, Shapes
  <2>2. QED BY <2>1, RequestsAssumption DEF PostSalesOrderEntry
<1>3. entries' \subseteq EntryRows /\ IsFiniteSet(entries')
  <2>1. DefaultEntity \in Entities /\ 0 \in 0..MaxEntries
    BY RequestsAssumption
  <2>2. TRUE \in BOOLEAN
    OBVIOUS
  <2>3. QED BY <1>1, <1>2, <2>1, <2>2, NewEntry, Zenon
<1>4. Shapes'
  BY <1>1, <1>3, KeepsShapes DEF IInv, Shapes, TypeOK, EntryRows
<1>5. (\A p \in Proc : RequestOK(p)') /\ (\A k \in Keys : KeyOK(k)')
  BY <1>1 DEF IInv, RequestOK, Underway, Answered, KeyOK
<1>6. QED BY <1>4, <1>5 DEF IInv

\* The component starts so.
LEMMA InitInv == Init => IInv
<1> SUFFICES ASSUME Init PROVE IInv
  OBVIOUS
<1>1. Shapes
  <2>1. NoHistory \in Histories
    BY DEF NoHistory, Histories
  <2>2. grants \in [Callers -> SUBSET Entities] /\ "OPEN" \in Statuses /\ NoResult \in Results
    BY RequestsAssumption DEF Init, Statuses, Results
  <2>3. TypeOK
    <3>1. ASSUME NEW p \in Proc
          PROVE  proc[p] = Idle /\ Idle.in = NoCall /\ Idle.answer.code = "none"
      BY DEF Init, Idle, NoAnswer
    <3>2. "none" \in Codes /\ Idle.pc = "idle" /\ Idle.scope = {}
      BY DEF Codes, Idle
    <3>3. QED BY <2>2, <3>1, <3>2 DEF Init, TypeOK
  <2>4. QED BY <2>1, <2>2, <2>3, IdleType, FS_EmptySet DEF Init, Shapes
<1>2. ASSUME NEW p \in Proc PROVE RequestOK(p)
  <2>1. /\ proc[p].pc = "idle" /\ proc[p].answer.shows = {}
        /\ seen[p].did = {} /\ ~seen[p].spent
    BY DEF Init, Idle, NoAnswer, NoHistory
  <2>2. QED BY <2>1 DEF RequestOK, Answered
<1>3. ASSUME NEW k \in Keys PROVE KeyOK(k)
  BY DEF Init, KeyOK
<1>4. QED BY <1>1, <1>2, <1>3 DEF IInv

\* Every step keeps the invariant.
LEMMA Step == IInv /\ [Next]_vars => IInv'
<1> SUFFICES ASSUME IInv, [Next]_vars PROVE IInv'
  OBVIOUS
<1>1. CASE UNCHANGED vars
  BY <1>1 DEF vars, IInv, Shapes, TypeOK, RequestOK, Underway, Answered, KeyOK
<1>2. QED BY <1>1, PostSalesOrderEntryKeeps, TransportKeeps, ServiceKeeps, RepositoryKeeps DEF Next

------------------------------------------------------------------------------
(* The theorems.                                                            *)

\* What every request has done, shown and knows of its caller's grants fits what
\* the tables say (service.go:31, http.go:45, repo.go:73).
THEOREM Invariant == Spec => []IInv
BY InitInv, Step, PTL DEF Spec

\* Tables, requests and answers keep their shape.
THEOREM Types == Spec => []TypeOK
BY Invariant, PTL DEF IInv, Shapes

\* A command touches only legal entities that its caller was granted while it was
\* served, however grants and requests race.
THEOREM EffectsAreGranted == Spec => []EffectsWithinGrants
<1>1. IInv => EffectsWithinGrants
  BY DEF IInv, RequestOK, EffectsWithinGrants
<1>2. QED BY <1>1, Invariant, PTL

\* An answer tells only of such legal entities, unless a spent key repeats it.
THEOREM AnswersAreGranted == Spec => []AnswersWithinGrants
<1>1. IInv => AnswersWithinGrants
  BY DEF IInv, RequestOK, AnswersWithinGrants
<1>2. QED BY <1>1, Invariant, PTL

\* A refusal has neither an effect nor the price of a key.
THEOREM RefusalIsFree == Spec => []RefusedChangesNothing
<1>1. IInv => RefusedChangesNothing
  BY DEF IInv, RequestOK, RefusedChangesNothing
<1>2. QED BY <1>1, Invariant, PTL

\* Only faults are answered with Internal.
THEOREM OnlyFaultsAreInternal == Spec => []InternalMeansFault
<1>1. IInv => InternalMeansFault
  BY DEF IInv, RequestOK, InternalMeansFault
<1>2. QED BY <1>1, Invariant, PTL

\* A key has at most one effect and one answer, however often it is sent and
\* whichever of its acknowledgements are lost.
THEOREM RetriesAreSafe == Spec => []RetryIsSafe
<1>1. ASSUME IInv PROVE RetryIsSafe
  <2>1. ASSUME NEW k \in Keys
        PROVE  /\ log[k].effects <= 1 /\ Cardinality(log[k].told) <= 1
               /\ log[k].told # {} => log[k].told = {keys[k]}
    <3>1. log[k].effects \in 0..1 /\ log[k].told \subseteq {keys[k]}
      BY <1>1 DEF IInv, Shapes, KeyOK
    <3>2. log[k].told = {} \/ log[k].told = {keys[k]}
      BY <3>1
    <3>3. Cardinality({}) = 0 /\ Cardinality({keys[k]}) = 1
      BY FS_EmptySet, FS_Singleton, Zenon
    <3>4. Cardinality(log[k].told) \in {0, 1}
      BY <3>2, <3>3, Zenon
    <3>5. QED BY <3>1, <3>2, <3>4
  <2>2. QED BY <2>1 DEF RetryIsSafe
<1>2. QED BY <1>1, Invariant, PTL

\* Only the request that a step is of moves.
LEMMA OneMoves ==
  ASSUME IInv, NEW p \in Proc, NEW q \in Proc \ {p}, Transport(q) \/ Service(q) \/ Repository(q)
  PROVE  proc'[p] = proc[p]
<1>1. DOMAIN proc = Proc
  BY DEF IInv, Shapes
<1>2. ASSUME NEW x, proc' = [proc EXCEPT ![q] = x] PROVE proc'[p] = proc[p]
  BY <1>1, <1>2
<1>3. ASSUME NEW code, NEW result, NEW shows, Reply(q, code, result, shows) PROVE proc'[p] = proc[p]
  BY <1>2, <1>3 DEF Reply
<1>4. CASE Transport(q)
  <2>1. PICK surface, r, refusal : Receive(q, surface, r, refusal)
    BY <1>4 DEF Transport, Rest, Rpc, periodOpHandler, postManualEntryHandler, getEntryHandler,
                reverseEntryHandler, listEntriesHandler, listARLedgerHandler,
                arLedgerSummaryHandler, listLegalEntityAccessHandler,
                grantLegalEntityAccessHandler, revokeLegalEntityAccessHandler,
                RpcPeriodOps, RpcPostManualEntry, RpcReverseEntry, RpcGetEntry,
                RpcListEntries, RpcListARLedger, RpcCheckPeriodOpen,
                getCreditExposureHandler, RpcGetCreditExposure, RpcBatchGetCreditExposure
  <2>2. QED BY <1>2, <1>3, <2>1 DEF Receive
<1>5. CASE Service(q)
  <2>1. PICK op, invalid : Serve(q, op, invalid)
    BY <1>5 DEF Service, ServeClosePeriod, ServeReopenPeriod, ServeLockPeriod, ServePostManualEntry,
                ServeReverseEntry, ServeGetEntry, ServeLists
  <2>2. QED BY <1>1, <1>3, <2>1 DEF Serve, Refuse, allowedLegalEntityIDs, Broken
<1>6. CASE Repository(q)
  <2>1. ASSUME NEW err, Refuse(q, err) \/ RollBack(q, err) \/ Broken(q) PROVE proc'[p] = proc[p]
    BY <1>3, <2>1 DEF Refuse, RollBack, Broken
  <2>2. ASSUME NEW result, NEW changed, Commit(q, result, changed) PROVE proc'[p] = proc[p]
    BY <1>3, <2>2 DEF Commit
  <2>3. ASSUME NEW shows, Replay(q, shows) PROVE proc'[p] = proc[p]
    BY <1>3, <2>3 DEF Replay
  <2>4. ASSUME NEW e, NEW original, postEntryTx(q, e, original) PROVE proc'[p] = proc[p]
    BY <2>1, <2>2, <2>4 DEF postEntryTx
  <2>5. ASSUME NEW op, NEW from, NEW to, transitionPeriod(q, op, from, to) PROVE proc'[p] = proc[p]
    BY <2>1, <2>2, <2>3, <2>5 DEF transitionPeriod
  <2>6. ASSUME NEW op, NEW rows, Select(q, op, rows) PROVE proc'[p] = proc[p]
    BY <1>3, <2>1, <2>6 DEF Select
  <2>7. ASSUME ReplayEntry(q) PROVE proc'[p] = proc[p]
    BY <2>1, <2>3, <2>7 DEF ReplayEntry
  <2>8. CASE PostManualEntry(q) \/ ReverseEntry(q)
    BY <2>1, <2>4, <2>7, <2>8 DEF PostManualEntry, ReverseEntry
  <2>9. CASE \/ GetEntry(q) \/ CheckPeriodOpen(q) \/ ListLegalEntityAccess(q)
             \/ GetCreditExposure(q) \/ BatchGetCreditExposure(q)
    BY <1>3, <2>1, <2>9 DEF GetEntry, CheckPeriodOpen, ListLegalEntityAccess,
                            GetCreditExposure, BatchGetCreditExposure
  <2>10. ASSUME NEW now, SetGrants(q, now) PROVE proc'[p] = proc[p]
    BY <1>3, <2>10 DEF SetGrants
  <2>11. CASE GrantLegalEntityAccess(q) \/ RevokeLegalEntityAccess(q)
    BY <2>1, <2>10, <2>11 DEF GrantLegalEntityAccess, RevokeLegalEntityAccess
  <2>12. QED BY <1>6, <2>5, <2>6, <2>8, <2>9, <2>11
             DEF Repository, ClosePeriod, ReopenPeriod, LockPeriod, ListEntries, ListARLedger,
                 SummarizeARLedger
<1>7. QED BY <1>4, <1>5, <1>6

\* A list leaves out nothing that its caller was granted all along: the scope is
\* read once, after the request came and before the rows are.
THEOREM ListsAreCovering == Spec => ListsCoverGrants
<1> DEFINE Rows(p) == IF proc[p].in.op = "ListEntries" THEN entries ELSE Receivables
           Covers(p) ==
             (At(p, "scoped", Lists) /\ proc'[p].pc = "answered" /\ proc'[p].answer.code = "OK") =>
               seen[p].kept \cap {x.entity : x \in Rows(p)} \subseteq proc'[p].answer.shows
<1>1. ASSUME IInv, [Next]_vars, NEW p \in Proc PROVE Covers(p)
  <2> SUFFICES ASSUME At(p, "scoped", Lists), proc'[p].pc = "answered", proc'[p].answer.code = "OK"
               PROVE  seen[p].kept \cap {x.entity : x \in Rows(p)} \subseteq proc'[p].answer.shows
    OBVIOUS
  <2>1. proc[p].pc = "scoped" /\ proc[p].in.op \in Lists
    BY DEF At
  <2>2. Transport(p) \/ Service(p) \/ Repository(p)
    <3>1. proc'[p] # proc[p]
      BY <2>1
    <3>2. CASE UNCHANGED vars \/ PostSalesOrderEntry
      BY <3>1, <3>2 DEF vars, PostSalesOrderEntry
    <3>3. CASE \E q \in Proc : Transport(q) \/ Service(q) \/ Repository(q)
      BY <1>1, <3>1, <3>3, OneMoves
    <3>4. QED BY <1>1, <3>2, <3>3 DEF Next
  <2>3. ~Transport(p)
    <3>1. \A surface, r, refusal : ~Receive(p, surface, r, refusal)
      BY <2>1 DEF Receive
    <3>2. QED BY <3>1 DEF Transport, Rest, Rpc, periodOpHandler, postManualEntryHandler, getEntryHandler,
                reverseEntryHandler, listEntriesHandler, listARLedgerHandler,
                arLedgerSummaryHandler, listLegalEntityAccessHandler,
                grantLegalEntityAccessHandler, revokeLegalEntityAccessHandler,
                RpcPeriodOps, RpcPostManualEntry, RpcReverseEntry, RpcGetEntry,
                RpcListEntries, RpcListARLedger, RpcCheckPeriodOpen,
                getCreditExposureHandler, RpcGetCreditExposure, RpcBatchGetCreditExposure
  <2>4. ~Service(p)
    <3>1. \A op, invalid : ~Serve(p, op, invalid)
      BY <2>1 DEF Serve, At
    <3>2. QED BY <3>1 DEF Service, ServeClosePeriod, ServeReopenPeriod, ServeLockPeriod,
                ServePostManualEntry, ServeReverseEntry, ServeGetEntry, ServeLists
  <2>5. Select(p, proc[p].in.op, Rows(p))
    <3>1. Repository(p) /\ proc[p].in.op \in {"ListEntries", "ListARLedger", "SummarizeARLedger"}
      BY <2>1, <2>2, <2>3, <2>4 DEF Lists
    <3>2. ListEntries(p) \/ ListARLedger(p) \/ SummarizeARLedger(p)
      BY <2>1, <3>1 DEF Repository, ClosePeriod, ReopenPeriod, LockPeriod, transitionPeriod,
                PostManualEntry, ReverseEntry, GetEntry, CheckPeriodOpen, ListLegalEntityAccess,
                GetCreditExposure, BatchGetCreditExposure,
                GrantLegalEntityAccess, RevokeLegalEntityAccess, At
    <3>3. QED BY <3>2 DEF ListEntries, ListARLedger, SummarizeARLedger, Select, At
  <2> DEFINE shows == {x.entity : x \in Rows(p)} \cap proc[p].scope
  <2>6. shows \in SUBSET Entities
    BY <1>1, <2>1, InHand
  <2>7. Reply(p, "OK", NoResult, shows)
    <3>1. ~Refuse(p, "ErrInvalidArgument") /\ ~Broken(p)
      <4>1. ToStatus("ErrInvalidArgument") \in Codes \ {"OK"}
        BY DEF ToStatus, Codes
      <4>2. ASSUME NEW code \in Codes \ {"OK"} PROVE ~Reply(p, code, NoResult, {})
        BY <1>1, <4>2, Answering, NoResultType DEF IInv
      <4>3. QED BY <4>1, <4>2, InternalCode DEF Refuse, Broken
    <3>2. QED BY <2>5, <3>1 DEF Select
  <2>8. proc'[p].answer.shows = shows
    BY <1>1, <2>6, <2>7, Answering, InternalCode, NoResultType DEF IInv
  <2>9. seen[p].kept \subseteq proc[p].scope
    BY <1>1, <2>1, InHand
  <2>10. QED BY <2>8, <2>9
<1>2. ASSUME IInv, [Next]_vars PROVE \A p \in Proc : Covers(p)
  BY <1>1, <1>2
<1>3. Spec => [][\A p \in Proc : Covers(p)]_vars
  BY <1>2, Invariant, PTL DEF Spec
<1>4. QED BY <1>3 DEF ListsCoverGrants
==============================================================================
