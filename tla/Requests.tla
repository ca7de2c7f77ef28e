------------------------------- MODULE Requests -------------------------------
(***************************************************************************)
(* A request of the finance API on its way through the layers: an HTTP or  *)
(* gRPC handler receives it, the service validates it and reads which      *)
(* legal entities its caller is granted, the repository runs it.  The      *)
(* grants are read in a transaction of their own, so others may grant,     *)
(* revoke, post or close in between; any transaction may fail, and a       *)
(* commit may succeed although its caller is told that it failed.          *)
(*                                                                         *)
(* The repository's transaction is one step here: Posting has its          *)
(* statements and locks, and shows that it takes effect at its commit.     *)
(***************************************************************************)
EXTENDS Naturals, FiniteSets

CONSTANTS
  Proc,           \* requests that are served at the same time
  Callers,        \* subjects of verified claims
  NoCaller,
  Permits,        \* Permits[c]: the permission keys that caller c holds
  InitialGrants,  \* what legal_entity_access may hold at the start
  Managed,        \* the caller-entity pairs that are granted and revoked
  Entities,       \* legal entities; each has one accounting period
  DefaultEntity,  \* the one that orders are booked for
  Keys,           \* idempotency keys
  NoKey,
  Asked(_, _),    \* Asked(p, r): p may be sent request r in this instance
  MaxEntries      \* bound: entries booked in a behaviour

VARIABLES
  grants,   \* grants[c]: the rows of legal_entity_access of caller c
  status,   \* status[e]: accounting_periods.status
  entries,  \* finance_journal_entries; owed: with a row in ar_ledger
  keys,     \* command_idempotency: keys[k] is the stored result
  proc,     \* proc[p]: the request that p serves and how far it is
  seen,     \* history: what happened since the request of p arrived
  log       \* history: log[k]: what was done and answered under key k

tables == <<grants, status, entries, keys, log>>
vars == <<grants, status, entries, keys, proc, seen, log>>

PeriodCommands == {"ClosePeriod", "ReopenPeriod", "LockPeriod"}
Commands == PeriodCommands \cup {"PostManualEntry", "ReverseEntry"}
AccessOps == {"ListAccess", "GrantAccess", "RevokeAccess"}
Lists == {"ListEntries", "ListARLedger", "SummarizeARLedger"}
\* Reads that look at no grants: components ask for a period, and credit used has
\* no legal entity (docs/design.md:70).
OpenReads == {"CheckPeriodOpen", "GetCreditExposure", "BatchGetCreditExposure"}
AllOps == Commands \cup AccessOps \cup Lists \cup OpenReads \cup {"GetEntry"}
Statuses == {"OPEN", "CLOSED", "LOCKED"}

ASSUME RequestsAssumption ==
  /\ InitialGrants \subseteq [Callers -> SUBSET Entities]
  /\ Managed \subseteq Callers \X Entities
  /\ DefaultEntity \in Entities
  /\ NoKey \notin Keys
  /\ MaxEntries \in Nat \ {0}

------------------------------------------------------------------------------
(* Requests and answers.                                                    *)

\* The one thing that may be wrong with a request ("nothing" when it is sound).
Defects(op) ==
  {"nothing"} \cup
  CASE op \in PeriodCommands -> {"body", "key", "entity", "period"}
    [] op = "CheckPeriodOpen" -> {"entity", "period"}
    [] op = "PostManualEntry" -> {"body", "key", "entity", "noLines", "noAccount",
                                  "unbalanced", "unknownAccount"}
    [] op = "ReverseEntry" -> {"body", "key", "entry", "entryId"}
    [] op = "GetEntry" -> {"entry", "entryId"}
    [] op \in {"ListEntries", "ListARLedger"} -> {"window", "cursor"}
    [] op = "GrantAccess" -> {"body", "entity"}
    [] op \in {"GetCreditExposure", "BatchGetCreditExposure"} -> {"customer"}
    [] OTHER -> {}

\* What only JSON bodies and query strings can get wrong, and what a URL with
\* the id of the entry or the customer in its path cannot leave out.
RestDefects == {"body", "window"}
RpcDefects == {"entry", "customer"}

Calls(op) ==
  {[op |-> op, caller |-> c, sub |-> w[1], entity |-> w[2], entry |-> i, key |-> k,
    lacks |-> d] :
     c \in Callers,
     w \in IF op \in AccessOps THEN Managed ELSE {NoCaller} \X
          (IF op \in PeriodCommands \cup {"PostManualEntry", "CheckPeriodOpen"}
           THEN Entities ELSE {DefaultEntity}),
     i \in IF op \in {"ReverseEntry", "GetEntry"} THEN 1..MaxEntries ELSE {0},
     k \in IF op \in Commands THEN Keys ELSE {NoKey},
     d \in Defects(op)}

NoResult == [entry |-> 0, status |-> "none"]
EntryResult(i) == [entry |-> i, status |-> "none"]
StatusResult(s) == [entry |-> 0, status |-> s]
NoAnswer == [code |-> "none", result |-> NoResult, shows |-> {}]

NoCall == [op |-> "none", caller |-> NoCaller, sub |-> NoCaller, entity |-> DefaultEntity,
           entry |-> 0, key |-> NoKey, lacks |-> "nothing"]
Idle == [pc |-> "idle", surface |-> "rest", in |-> NoCall, scope |-> {}, answer |-> NoAnswer]
NoHistory == [held |-> {}, kept |-> {}, did |-> {}, spent |-> FALSE,
              replayed |-> FALSE, faulted |-> FALSE]

\* Mutant: a reversal of a reversed entry has no case of its own.
ToStatusWithoutReversed(err) ==
  CASE err \in {"ErrPeriodNotOpen", "ErrUnbalancedEntry"} -> "FailedPrecondition"
    [] err = "ErrNotFound" -> "NotFound"
    [] err = "ErrInvalidArgument" -> "InvalidArgument"
    [] err = "ErrForbidden" -> "PermissionDenied"
    [] OTHER -> "Internal"

\* An entry that is read is always POSTED, so ErrEntryNotPosted never comes up.
ToStatus(err) ==
  CASE err \in {"ErrPeriodNotOpen", "ErrUnbalancedEntry", "ErrEntryAlreadyReversed"} ->
         "FailedPrecondition"
    [] err = "ErrNotFound" -> "NotFound"
    [] err = "ErrInvalidArgument" -> "InvalidArgument"
    [] err = "ErrForbidden" -> "PermissionDenied"
    [] OTHER -> "Internal"

toProtoPeriodStatus(s) == IF s \in Statuses THEN s ELSE "UNSPECIFIED"

Reply(p, code, result, shows) ==
  proc' = [proc EXCEPT ![p] = [Idle EXCEPT !.pc = "answered",
              !.answer = [code |-> code, result |-> result, shows |-> shows]]]
Refuse(p, err) ==
  Reply(p, ToStatus(err), NoResult, {}) /\ UNCHANGED <<tables, seen>>

\* A transaction of p is rolled back by the database or never reaches it.
Broken(p) ==
  /\ Reply(p, ToStatus("database"), NoResult, {})
  /\ seen' = [seen EXCEPT ![p].faulted = TRUE]
  /\ UNCHANGED tables

At(p, pc, ops) == proc[p].pc = pc /\ proc[p].in.op \in ops

------------------------------------------------------------------------------
(* Transport: the handlers of http.go and grpc.go.  A refusal here never    *)
(* reaches the service.                                                     *)

RegisterRoutes ==
  [op \in AllOps |->
     CASE op \in PeriodCommands -> "erp.finance.close"
       [] op \in {"PostManualEntry", "ReverseEntry"} -> "erp.finance.post"
       [] op \in AccessOps -> "erp.finance.manage_access"
       [] OTHER -> "erp.finance.view"]

Receive(p, surface, r, refusal) ==
  /\ Asked(p, r)
  /\ proc[p].pc \in {"idle", "answered"}
  /\ IF refusal = "none"
     THEN proc' = [proc EXCEPT ![p] = [Idle EXCEPT !.pc = "received", !.surface = surface, !.in = r]]
     ELSE Reply(p, refusal, NoResult, {})
  /\ seen' = [seen EXCEPT ![p] =
       [NoHistory EXCEPT !.held = grants[r.caller], !.kept = grants[r.caller]]]
  /\ UNCHANGED tables

\* besdk.POST and besdk.GET ask for the route's permission before the handler.
Rest(p, op, unbound) ==
  \E r \in {c \in Calls(op) : c.lacks \notin RpcDefects} :
    Receive(p, "rest", r,
            IF RegisterRoutes[op] \notin Permits[r.caller] THEN "PermissionDenied"
            ELSE IF r.lacks \in unbound THEN "BadRequest" ELSE "none")

periodOpHandler(p) == \E op \in PeriodCommands : Rest(p, op, {"body", "key", "entity"})
postManualEntryHandler(p) == Rest(p, "PostManualEntry", {"body", "key", "entity"})
getCreditExposureHandler(p) == Rest(p, "GetCreditExposure", {})
getEntryHandler(p) == Rest(p, "GetEntry", {})
reverseEntryHandler(p) == Rest(p, "ReverseEntry", {"body", "key"})
listEntriesHandler(p) == Rest(p, "ListEntries", {"window"})
listARLedgerHandler(p) == Rest(p, "ListARLedger", {"window"})
arLedgerSummaryHandler(p) == Rest(p, "SummarizeARLedger", {})
listLegalEntityAccessHandler(p) == Rest(p, "ListAccess", {})
grantLegalEntityAccessHandler(p) == Rest(p, "GrantAccess", {"body", "entity"})
revokeLegalEntityAccessHandler(p) == Rest(p, "RevokeAccess", {})

\* The gRPC port verifies no token today, so the claims are absent; the code is
\* written, and tested, for the day when they are there.
requireUser == {IF claims THEN "none" ELSE "Unauthenticated" : claims \in BOOLEAN}

Rpc(p, op, checks) ==
  \E r \in {c \in Calls(op) : c.lacks \notin RestDefects}, refusal \in checks :
    Receive(p, "grpc", r, refusal)

RpcPeriodOps(p) == \E op \in PeriodCommands : Rpc(p, op, requireUser)
RpcPostManualEntry(p) == Rpc(p, "PostManualEntry", requireUser)
RpcReverseEntry(p) == Rpc(p, "ReverseEntry", requireUser)
RpcGetEntry(p) == Rpc(p, "GetEntry", requireUser)
RpcListEntries(p) == Rpc(p, "ListEntries", requireUser)
RpcListARLedger(p) == Rpc(p, "ListARLedger", requireUser)
RpcCheckPeriodOpen(p) == Rpc(p, "CheckPeriodOpen", {"none"})
RpcGetCreditExposure(p) == Rpc(p, "GetCreditExposure", {"none"})
RpcBatchGetCreditExposure(p) == Rpc(p, "BatchGetCreditExposure", {"none"})

------------------------------------------------------------------------------
(* The service: validation, then the caller's legal entities.               *)

LegalEntityIDsFor(sub) == grants[sub]

\* A transaction of its own: it can fail, and its answer can be old when used.
allowedLegalEntityIDs(p) ==
  \/ /\ proc' = [proc EXCEPT ![p].pc = "scoped",
                              ![p].scope = LegalEntityIDsFor(proc[p].in.caller)]
     /\ UNCHANGED <<tables, seen>>
  \/ Broken(p)

Serve(p, op, invalid) ==
  /\ At(p, "received", {op})
  /\ IF proc[p].in.lacks \in invalid THEN Refuse(p, "ErrInvalidArgument")
     ELSE allowedLegalEntityIDs(p)

\* "entity" stands for the blank period too; "period" is one that is not there.
validatePeriodOp == {"key", "entity"}

ServeClosePeriod(p) == Serve(p, "ClosePeriod", validatePeriodOp)
ServeReopenPeriod(p) == Serve(p, "ReopenPeriod", validatePeriodOp)
ServeLockPeriod(p) == Serve(p, "LockPeriod", validatePeriodOp)
ServePostManualEntry(p) == Serve(p, "PostManualEntry", {"key", "entity", "noLines", "noAccount"})
ServeReverseEntry(p) == Serve(p, "ReverseEntry", {"key", "entry"})
ServeGetEntry(p) == Serve(p, "GetEntry", {"entry"})
ServeLists(p) == \E op \in Lists : Serve(p, op, {})

------------------------------------------------------------------------------
(* The repository.                                                          *)

Unspent(k) == keys[k] = NoResult
Named(i) == {x \in entries : x.id = i}

\* What a surface makes of a result: gRPC says UNSPECIFIED for a status that it
\* does not know, as when the key was spent by a command of another kind.
Told(p, result) ==
  IF proc[p].surface = "grpc" /\ proc[p].in.op \in PeriodCommands \cup {"CheckPeriodOpen"}
  THEN StatusResult(toProtoPeriodStatus(result.status)) ELSE result

\* Mutant: the key keeps the blank result that it was claimed with.
LeaveClaimed(k, result) == keys' = [keys EXCEPT ![k] = StatusResult("claimed")]

finalizeIdempotency(k, result) == keys' = [keys EXCEPT ![k] = result]

\* The transaction stores its result under the key and commits; the caller may
\* be told all the same that it failed, when the acknowledgement is lost.
Commit(p, result, changed) ==
  LET k == proc[p].in.key IN
  /\ finalizeIdempotency(k, result)
  /\ \E lost \in BOOLEAN :
       /\ IF lost THEN Reply(p, ToStatus("database"), NoResult, {})
          ELSE Reply(p, "OK", Told(p, result), changed)
       /\ log' = [log EXCEPT ![k].effects = @ + Cardinality(changed),
                             ![k].told = IF lost THEN @ ELSE @ \cup {result}]
       /\ seen' = [seen EXCEPT ![p].did = changed, ![p].spent = TRUE, ![p].faulted = lost]

\* A spent key: the stored result answers, whatever this request says.
Replay(p, shows) ==
  LET k == proc[p].in.key IN
  /\ Reply(p, "OK", Told(p, keys[k]), shows)
  /\ log' = [log EXCEPT ![k].told = @ \cup {keys[k]}]
  /\ seen' = [seen EXCEPT ![p].replayed = TRUE]
  /\ UNCHANGED <<grants, status, entries, keys>>

\* Mutant: the key is claimed in a transaction of its own, which stays.
RefuseWithClaim(p, err) ==
  /\ Reply(p, ToStatus(err), NoResult, {})
  /\ keys' = [keys EXCEPT ![proc[p].in.key] = StatusResult("claimed")]
  /\ seen' = [seen EXCEPT ![p].spent = TRUE]
  /\ UNCHANGED <<grants, status, entries, log>>

\* The rollback takes the claim of the key with it.
RollBack(p, err) == Refuse(p, err)

transitionPeriod(p, op, from, to) ==
  LET r == proc[p].in IN
  /\ At(p, "scoped", {op})
  /\ IF r.entity \notin proc[p].scope THEN Refuse(p, "ErrForbidden")
     ELSE \/ Broken(p)
          \/ ~Unspent(r.key) /\ Replay(p, {})
          \/ /\ Unspent(r.key)
             /\ CASE r.lacks = "period" -> RollBack(p, "ErrNotFound")
                  [] r.lacks # "period" /\ status[r.entity] \notin {from, to} ->
                       RollBack(p, "ErrInvalidArgument")
                  [] OTHER ->
                       /\ status' = [status EXCEPT ![r.entity] = to]
                       /\ Commit(p, StatusResult(to),
                                 IF status[r.entity] = to THEN {} ELSE {r.entity})
                       /\ UNCHANGED <<grants, entries>>

ClosePeriod(p) == transitionPeriod(p, "ClosePeriod", "OPEN", "CLOSED")
ReopenPeriod(p) == transitionPeriod(p, "ReopenPeriod", "CLOSED", "OPEN")
LockPeriod(p) == transitionPeriod(p, "LockPeriod", "CLOSED", "LOCKED")

\* The business date is today.  It may be past the end of the entity's period,
\* as when nobody has created the next one: then there is no period to look at.
postEntryTx(p, e, original) ==
  LET id == Cardinality(entries) + 1 IN
  \/ proc[p].in.lacks = "unbalanced" /\ RollBack(p, "ErrUnbalancedEntry")
  \/ /\ proc[p].in.lacks # "unbalanced"
     /\ \/ RollBack(p, "ErrNotFound")
        \/ status[e] # "OPEN" /\ RollBack(p, "ErrPeriodNotOpen")
        \/ /\ status[e] = "OPEN"
           /\ proc[p].in.lacks = "unknownAccount" /\ RollBack(p, "ErrInvalidArgument")
        \/ /\ status[e] = "OPEN" /\ proc[p].in.lacks # "unknownAccount"
           /\ id <= MaxEntries
           /\ entries' = entries \cup {[id |-> id, entity |-> e, reverses |-> original, owed |-> FALSE]}
           /\ Commit(p, EntryResult(id), {e})
           /\ UNCHANGED <<grants, status>>

\* getEntryTx of the stored result; a period status is no entry's id.
ReplayEntry(p) ==
  LET found == Named(keys[proc[p].in.key].entry) IN
  IF found = {} THEN RollBack(p, "ErrInvalidArgument")
  ELSE Replay(p, {x.entity : x \in found})

PostManualEntry(p) ==
  LET r == proc[p].in IN
  /\ At(p, "scoped", {"PostManualEntry"})
  /\ IF r.entity \notin proc[p].scope THEN Refuse(p, "ErrForbidden")
     ELSE \/ Broken(p)
          \/ ~Unspent(r.key) /\ ReplayEntry(p)
          \/ Unspent(r.key) /\ postEntryTx(p, r.entity, 0)

\* Mutant: the original's legal entity is not looked at.
ReverseEntryOfAnyone(p) ==
  LET r == proc[p].in IN
  /\ At(p, "scoped", {"ReverseEntry"})
  /\ \/ Broken(p)
     \/ ~Unspent(r.key) /\ ReplayEntry(p)
     \/ Unspent(r.key) /\ \E x \in Named(r.entry) : postEntryTx(p, x.entity, x.id)

\* Which entity is touched is known only once the original is read.
ReverseEntry(p) ==
  LET r == proc[p].in IN
  /\ At(p, "scoped", {"ReverseEntry"})
  /\ \/ Broken(p)
     \/ ~Unspent(r.key) /\ ReplayEntry(p)
     \/ /\ Unspent(r.key)
        /\ \/ r.lacks = "entryId" /\ RollBack(p, "ErrInvalidArgument")
           \/ r.lacks # "entryId" /\ Named(r.entry) = {} /\ RollBack(p, "ErrNotFound")
           \/ /\ r.lacks # "entryId"
              /\ \E x \in Named(r.entry) :
                   CASE x.entity \notin proc[p].scope -> RollBack(p, "ErrForbidden")
                     [] x.entity \in proc[p].scope /\ (\E y \in entries : y.reverses = x.id) ->
                          RollBack(p, "ErrEntryAlreadyReversed")
                     [] OTHER -> postEntryTx(p, x.entity, x.id)

\* Mutant: the entry is answered without a look at its legal entity.
GetEntryOfAnyone(p) ==
  LET r == proc[p].in IN
  /\ At(p, "scoped", {"GetEntry"})
  /\ \/ Broken(p)
     \/ \E x \in Named(r.entry) :
          Reply(p, "OK", EntryResult(x.id), {x.entity}) /\ UNCHANGED <<tables, seen>>

GetEntry(p) ==
  LET r == proc[p].in IN
  /\ At(p, "scoped", {"GetEntry"})
  /\ \/ Broken(p)
     \/ r.lacks = "entryId" /\ Refuse(p, "ErrInvalidArgument")
     \/ r.lacks # "entryId" /\ Named(r.entry) = {} /\ Refuse(p, "ErrNotFound")
     \/ /\ r.lacks # "entryId"
        /\ \E x \in Named(r.entry) :
             IF x.entity \notin proc[p].scope THEN Refuse(p, "ErrForbidden")
             ELSE Reply(p, "OK", EntryResult(x.id), {x.entity}) /\ UNCHANGED <<tables, seen>>

\* One statement with the scope in its WHERE clause.
Select(p, op, rows) ==
  /\ At(p, "scoped", {op})
  /\ \/ Broken(p)
     \/ proc[p].in.lacks = "cursor" /\ Refuse(p, "ErrInvalidArgument")
     \/ /\ proc[p].in.lacks # "cursor"
        /\ Reply(p, "OK", NoResult, {x.entity : x \in rows} \cap proc[p].scope)
        /\ UNCHANGED <<tables, seen>>

Receivables == {x \in entries : x.owed}

\* Mutant: a caller with several legal entities is shown one of them.
ListEntriesOfOne(p) ==
  /\ At(p, "scoped", {"ListEntries"})
  /\ \E e \in proc[p].scope : Reply(p, "OK", NoResult, {x.entity : x \in entries} \cap {e})
  /\ UNCHANGED <<tables, seen>>

ListEntries(p) == Select(p, "ListEntries", entries)
ListARLedger(p) == Select(p, "ListARLedger", Receivables)
SummarizeARLedger(p) == Select(p, "SummarizeARLedger", Receivables)

\* Components ask it of each other: no caller, hence no legal entities.
CheckPeriodOpen(p) ==
  LET r == proc[p].in IN
  /\ At(p, "received", {"CheckPeriodOpen"})
  /\ \/ r.lacks = "entity" /\ Refuse(p, "ErrInvalidArgument")
     \/ /\ r.lacks # "entity"
        /\ \/ Broken(p)
           \/ /\ Reply(p, "OK", Told(p, StatusResult(
                     IF r.lacks = "period" THEN "none" ELSE status[r.entity])), {})
              /\ UNCHANGED <<tables, seen>>

\* Credit used is one figure a customer; the caller's legal entities are not read.
GetCreditExposure(p) ==
  /\ At(p, "received", {"GetCreditExposure"})
  /\ \/ proc[p].in.lacks = "customer" /\ Refuse(p, "ErrInvalidArgument")
     \/ /\ proc[p].in.lacks # "customer"
        /\ Broken(p) \/ (Reply(p, "OK", NoResult, {}) /\ UNCHANGED <<tables, seen>>)

\* No customers are no question: the answer is empty and no transaction can fail.
BatchGetCreditExposure(p) ==
  /\ At(p, "received", {"BatchGetCreditExposure"})
  /\ \/ proc[p].in.lacks # "customer" /\ Broken(p)
     \/ Reply(p, "OK", NoResult, {}) /\ UNCHANGED <<tables, seen>>

ListLegalEntityAccess(p) ==
  /\ At(p, "received", {"ListAccess"})
  /\ \/ Broken(p)
     \/ Reply(p, "OK", NoResult, {}) /\ UNCHANGED <<tables, seen>>

Served(q, s) == proc[q].in.caller = s /\ proc[q].pc \in {"received", "scoped"}

\* Writes the rows of the subject's grants; the history of every request that
\* the subject has under way follows.
SetGrants(p, now) ==
  LET s == proc[p].in.sub IN
  /\ grants' = [grants EXCEPT ![s] = now]
  /\ \E lost \in BOOLEAN :
       /\ IF lost THEN Reply(p, ToStatus("database"), NoResult, {}) ELSE Reply(p, "OK", NoResult, {})
       /\ seen' = [q \in Proc |->
            [seen[q] EXCEPT
               !.held = IF Served(q, s) THEN @ \cup now ELSE @,
               !.kept = IF Served(q, s) THEN @ \cap now ELSE @,
               !.faulted = IF q = p THEN lost ELSE @]]
  /\ UNCHANGED <<status, entries, keys, log>>

GrantLegalEntityAccess(p) ==
  /\ At(p, "received", {"GrantAccess"})
  /\ Broken(p) \/ SetGrants(p, grants[proc[p].in.sub] \cup {proc[p].in.entity})

RevokeLegalEntityAccess(p) ==
  /\ At(p, "received", {"RevokeAccess"})
  /\ Broken(p) \/ SetGrants(p, grants[proc[p].in.sub] \ {proc[p].in.entity})

\* A confirmed sales order, booked by the event consumer.
PostSalesOrderEntry ==
  /\ status[DefaultEntity] = "OPEN"
  /\ Cardinality(entries) < MaxEntries
  /\ entries' = entries \cup {[id |-> Cardinality(entries) + 1, entity |-> DefaultEntity,
                              reverses |-> 0, owed |-> TRUE]}
  /\ UNCHANGED <<grants, status, keys, proc, seen, log>>

------------------------------------------------------------------------------
Init ==
  /\ grants \in InitialGrants
  /\ status = [e \in Entities |-> "OPEN"]
  /\ entries = {}
  /\ keys = [k \in Keys |-> NoResult]
  /\ proc = [p \in Proc |-> Idle]
  /\ seen = [p \in Proc |-> NoHistory]
  /\ log = [k \in Keys |-> [told |-> {}, effects |-> 0]]

Transport(p) ==
  \/ periodOpHandler(p) \/ postManualEntryHandler(p) \/ getEntryHandler(p)
  \/ reverseEntryHandler(p) \/ listEntriesHandler(p) \/ listARLedgerHandler(p)
  \/ arLedgerSummaryHandler(p) \/ listLegalEntityAccessHandler(p)
  \/ grantLegalEntityAccessHandler(p) \/ revokeLegalEntityAccessHandler(p)
  \/ getCreditExposureHandler(p) \/ RpcGetCreditExposure(p) \/ RpcBatchGetCreditExposure(p)
  \/ RpcPeriodOps(p) \/ RpcPostManualEntry(p) \/ RpcReverseEntry(p) \/ RpcGetEntry(p)
  \/ RpcListEntries(p) \/ RpcListARLedger(p) \/ RpcCheckPeriodOpen(p)

Service(p) ==
  \/ ServeClosePeriod(p) \/ ServeReopenPeriod(p) \/ ServeLockPeriod(p)
  \/ ServePostManualEntry(p) \/ ServeReverseEntry(p) \/ ServeGetEntry(p) \/ ServeLists(p)

Repository(p) ==
  \/ ClosePeriod(p) \/ ReopenPeriod(p) \/ LockPeriod(p)
  \/ PostManualEntry(p) \/ ReverseEntry(p) \/ GetEntry(p)
  \/ ListEntries(p) \/ ListARLedger(p) \/ SummarizeARLedger(p) \/ CheckPeriodOpen(p)
  \/ GetCreditExposure(p) \/ BatchGetCreditExposure(p)
  \/ ListLegalEntityAccess(p) \/ GrantLegalEntityAccess(p) \/ RevokeLegalEntityAccess(p)

Next == PostSalesOrderEntry \/ \E p \in Proc : Transport(p) \/ Service(p) \/ Repository(p)
Spec == Init /\ [][Next]_vars
==============================================================================
