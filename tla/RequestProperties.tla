-------------------------- MODULE RequestProperties --------------------------
(* What callers of the finance API can rely on, whatever happens between    *)
(* the steps of their requests.                                             *)
EXTENDS Requests

Results == {NoResult} \cup {EntryResult(i) : i \in 1..MaxEntries}
           \cup {StatusResult(s) : s \in Statuses}
Codes == {"none", "OK", "BadRequest", "Unauthenticated", "PermissionDenied", "InvalidArgument",
          "NotFound", "FailedPrecondition", "Internal"}

\* Tables and requests have the shape of the schema, of the handlers' inputs and
\* of the codes that ToStatus and the handlers return.
TypeOK ==
  /\ grants \in [Callers -> SUBSET Entities]
  /\ status \in [Entities -> Statuses]
  /\ entries \subseteq [id : 1..MaxEntries, entity : Entities, reverses : 0..MaxEntries,
                        owed : BOOLEAN]
  /\ keys \in [Keys -> Results]
  /\ \A p \in Proc :
       /\ proc[p].pc \in {"idle", "received", "scoped", "answered"}
       /\ proc[p].in = NoCall \/ proc[p].in \in Calls(proc[p].in.op)
       /\ proc[p].scope \subseteq Entities
       /\ proc[p].answer.code \in Codes

Answered(p, code) == proc[p].pc = "answered" /\ proc[p].answer.code = code

\* Whatever a request changes belongs to legal entities that its caller was
\* granted at some moment between the request's arrival and the change: the
\* grants that a command acts on may be revoked before it commits, but they are
\* never older than the request.
EffectsWithinGrants == \A p \in Proc : seen[p].did \subseteq seen[p].held

\* An answer tells only of legal entities that the caller was granted at some
\* moment while the request was served, unless it repeats the stored answer of
\* a key: that is the answer of the first time.
AnswersWithinGrants ==
  \A p \in Proc : ~seen[p].replayed => proc[p].answer.shows \subseteq seen[p].held

\* A request that is refused has changed nothing and left its key unspent, so
\* that the caller may correct it and use the key again; only OK, or an answer
\* that a fault has cost, may come with an effect.
RefusedChangesNothing ==
  \A p \in Proc :
    (seen[p].did # {} \/ seen[p].spent) => Answered(p, "OK") \/ Answered(p, "Internal")

\* Internal is answered only when the database failed or its acknowledgement was
\* lost: whatever the handlers, the service and the repository check, and whatever
\* others do meanwhile, has a code of its own (service.go logs Internal, and
\* nothing else, as an error).
InternalMeansFault ==
  \A p \in Proc : Answered(p, "Internal") => seen[p].faulted

\* A caller that repeats a command under its key until it is answered OK, also
\* after an Internal whose transaction had committed, has it done once, and is
\* told the same result however often it asks.
RetryIsSafe ==
  \A k \in Keys :
    /\ log[k].effects <= 1
    /\ Cardinality(log[k].told) <= 1
    /\ log[k].told # {} => log[k].told = {keys[k]}

\* A list or summary covers every legal entity that its caller was granted all
\* the while it was served and that has rows when it is answered.
ListsCoverGrants ==
  [][\A p \in Proc :
       (At(p, "scoped", Lists) /\ proc'[p].pc = "answered" /\ proc'[p].answer.code = "OK") =>
         LET rows == IF proc[p].in.op = "ListEntries" THEN entries ELSE Receivables
         IN  seen[p].kept \cap {x.entity : x \in rows} \subseteq proc'[p].answer.shows]_vars

------------------------------------------------------------------------------
(* The inductive invariant behind all of them.                              *)

CallRecords ==
  [op : AllOps \cup {"none"}, caller : Callers \cup {NoCaller}, sub : Callers \cup {NoCaller},
   entity : Entities, entry : 0..MaxEntries, key : Keys \cup {NoKey},
   lacks : UNION {Defects(op) : op \in AllOps}]
Answers == [code : Codes, result : Results \cup {StatusResult("UNSPECIFIED")},
            shows : SUBSET Entities]
Servings == [pc : {"idle", "received", "scoped", "answered"}, surface : {"rest", "grpc"},
             in : CallRecords, scope : SUBSET Entities, answer : Answers]
Histories == [held : SUBSET Entities, kept : SUBSET Entities, did : SUBSET Entities,
              spent : BOOLEAN, replayed : BOOLEAN, faulted : BOOLEAN]

Shapes ==
  /\ TypeOK
  /\ IsFiniteSet(entries)
  /\ log \in [Keys -> [told : SUBSET Results, effects : 0..1]]
  /\ proc \in [Proc -> Servings] /\ seen \in [Proc -> Histories]

\* While a request is under way it has done nothing yet, and what it knows of
\* its caller's grants lies between those that were kept and those that were held.
Underway(p) ==
  /\ proc[p].in \in Calls(proc[p].in.op) /\ proc[p].in.op \in AllOps
  /\ seen[p].kept \subseteq grants[proc[p].in.caller] /\ grants[proc[p].in.caller] \subseteq seen[p].held
  /\ seen[p].did = {} /\ ~seen[p].spent
  /\ proc[p].answer.shows = {}

RequestOK(p) ==
  /\ proc[p].pc \in {"received", "scoped"} => Underway(p)
  /\ proc[p].pc = "scoped" => seen[p].kept \subseteq proc[p].scope /\ proc[p].scope \subseteq seen[p].held
  /\ proc[p].pc = "idle" => seen[p].did = {} /\ ~seen[p].spent
  /\ seen[p].did \subseteq seen[p].held
  /\ ~seen[p].replayed => proc[p].answer.shows \subseteq seen[p].held
  /\ (seen[p].did # {} \/ seen[p].spent) => Answered(p, "OK") \/ Answered(p, "Internal")
  /\ Answered(p, "Internal") => seen[p].faulted

\* An unspent key has done nothing and answered nobody.
KeyOK(k) ==
  /\ keys[k] = NoResult => log[k].effects = 0 /\ log[k].told = {}
  /\ log[k].told \subseteq {keys[k]}

IInv == Shapes /\ (\A p \in Proc : RequestOK(p)) /\ (\A k \in Keys : KeyOK(k))
==============================================================================
