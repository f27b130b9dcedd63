---------------------------- MODULE VectorBackends ----------------------------
(***************************************************************************)
(* What the stores do while a request waits for them, one statement, call  *)
(* or file operation a step: PostgreSQL through the pgvector plugin,       *)
(* Qdrant through its plugin, and the deprecated paths, which are the      *)
(* tables of LangChain and the directory of the old TurboVec facade. A     *)
(* store is shared; a call may fail at any step, or its answer get lost.   *)
(***************************************************************************)
EXTENDS ParserRegistry, VectorOptions, MetadataFilter

CONSTANTS
    Collections,
    Attributes(_),      \* the metadata of a record, by its id, but for source and hash
    PageSize, MaxScan,  \* of an aggregation over Qdrant, which has 256 and 100,000
    MaxFaults           \* BOUND: failures of stores and providers

\* What requests may be for, and how long their vectors are.
ASSUME RequestAssumption ==
    /\ None \notin Requests
    /\ \A p \in DOMAIN Plays : \A r \in Requests :
         LET q == Plays[p].request[r]
         IN  /\ q.kind \in {"ingest", "parse", "tool", "delete", "list", "search", "drop"}
             /\ q.collection \in Collections /\ q.width \in Nat \ {0} /\ q.batch \in Nat \ {0}
             /\ q.filter = None \/ (Bounded(q.filter) /\ (q.via = "server" => OfRequest(q.filter)))
    /\ PageSize \in Nat /\ MaxScan \in Nat

\* None is none of the operations, and of the stores that are modelled.
ASSUME NameAssumption ==
    None \notin {"ingest", "parse", "tool", "delete", "list", "search", "drop", "lookup", "ensure", "upsert",
                 "pgvector", "qdrant", "langchain", "files"}

VARIABLES
    pg,      \* the plugin's tables: whether they exist, width (0: no collection) and rows
    qd,      \* Qdrant: width (0: no collection) and points
    lc,      \* LangChain's tables: whether they exist, and rows
    tv,      \* the old TurboVec directories: format and rows
    call,    \* of each request: the operation it waits for
    effects, \* history: what was written, deleted, dropped, listed and found, in order
    faults

stores == <<pg, qd, lc, tv>>
backends == <<stores, call, effects, faults>>

NoCall == [op |-> None, via |-> None, step |-> "answered", rows |-> {}, memo |-> None, out |-> None]

\* A row is [id, source, hash, width]. Its id is a digest of what it says, and of
\* the source; LangChain gives every row one of its own.
BackendInit ==
    /\ pg = [schema |-> FALSE, width |-> [c \in Collections |-> 0], rows |-> [c \in Collections |-> {}]]
    /\ qd = [width |-> [c \in Collections |-> 0], rows |-> [c \in Collections |-> {}]]
    /\ lc = [tables |-> FALSE, rows |-> [c \in Collections |-> {}]]
    /\ tv = [c \in Collections |-> [format |-> site.directory, rows |-> {}]]
    /\ call = [r \in Requests |-> NoCall] /\ effects = <<>> /\ faults = 0

Call(r, op, via, rows, memo) ==
    call' = [call EXCEPT ![r] = [NoCall EXCEPT !.op = op, !.via = via, !.step = "start",
                                               !.rows = rows, !.memo = memo]]

At(r, via, op, step) == call[r].via = via /\ call[r].op = op /\ call[r].step = step
Goto(r, step, memo)  == call' = [call EXCEPT ![r].step = step, ![r].memo = memo]
Answer(r, n, list)   == call' = [call EXCEPT ![r].step = "answered", ![r].out = [ok |-> TRUE, n |-> n, list |-> list]]
Fail(r, why)         == call' = [call EXCEPT ![r].step = "answered", ![r].out = [ok |-> FALSE, why |-> why]]

Effect(r, what, n) ==
    effects' = Append(effects, [by |-> r, what |-> what, via |-> call[r].via, n |-> n,
                                rows |-> IF what = "wrote" THEN call[r].rows ELSE {}])
Coll(r)          == request[r].collection
Merged(old, new) == {x \in old : x.id \notin {y.id : y \in new}} \cup new
Of(rows, s)      == {x \in rows : x.source = s}
Grouped(rows)    == {[source |-> x.source, n |-> Cardinality(Of(rows, x.source))] : x \in rows}
Tagged(r, rows)  == {x \in rows : x.hash = call[r].memo}

\* The fingerprint of an ingest that has one.
Metadata(x) ==
    LET own   == {"source"} \cup (IF x.hash = None THEN {} ELSE {"source_hash"})
        other == DOMAIN Attributes(x.id) \ {"source", "source_hash"}
    IN  [f \in own \cup other |-> CASE f = "source" -> Words(x.source) [] f = "source_hash" -> Words(x.hash)
                                   [] OTHER -> Attributes(x.id)[f]]

\* A lookup is a search for the fingerprint.
FilterOf(r)      == IF call[r].op = "lookup" THEN Equals("source_hash", Words(call[r].memo)) ELSE request[r].filter
Unfiltered(r)    == call[r].op = "search" /\ request[r].filter = None
Found(r, rows) ==
    /\ Answer(r, Cardinality(rows), IF call[r].op = "search" THEN {x.id : x \in rows} ELSE {})
    /\ IF call[r].op = "search" THEN Effect(r, "searched", 0) ELSE UNCHANGED effects

Misfit(r, rows)  == \E x \in rows : x.width # request[r].width

-----------------------------------------------------------------------------
(* docpipe.vectorstores.pgvector.queries: a method is a transaction, but for the *)
(* look at the collection that comes before an upsert and a search.              *)

PgCreating(r) == At(r, "pgvector", "ensure", "insert") /\ ~pg.schema

\* CREATE ... IF NOT EXISTS waits for the one who creates, and fails if it commits.
PgEnsureRead(r) ==
    /\ At(r, "pgvector", "ensure", "start")
    /\ IF \E q \in Requests : PgCreating(q) THEN Goto(r, "blocked", None)
       ELSE IF pg.width[Coll(r)] \notin {0, request[r].width} THEN Fail(r, "operation")
       ELSE Goto(r, "insert", None)
    /\ UNCHANGED <<stores, effects>>

\* Mutant: only a creator that gives up is noticed.
PgEnsureForgotten(r) ==
    /\ At(r, "pgvector", "ensure", "blocked") /\ ~pg.schema /\ ~\E q \in Requests : PgCreating(q)
    /\ Goto(r, "start", None) /\ UNCHANGED <<stores, effects>>

PgEnsureBlocked(r) ==
    /\ At(r, "pgvector", "ensure", "blocked") /\ ~\E q \in Requests : PgCreating(q)
    /\ IF pg.schema THEN Fail(r, "operation") ELSE Goto(r, "start", None)
    /\ UNCHANGED <<stores, effects>>

\* ON CONFLICT DO NOTHING: whatever the width of the one that is there now.
PgEnsureInsert(r) ==
    /\ At(r, "pgvector", "ensure", "insert")
    /\ pg' = [pg EXCEPT !.schema = TRUE, !.width[Coll(r)] = IF @ = 0 THEN request[r].width ELSE @]
    /\ Answer(r, 0, {}) /\ UNCHANGED <<qd, lc, tv, effects>>

PgRequire(r) ==
    /\ \E op \in {"upsert", "search", "lookup"} : At(r, "pgvector", op, "start")
    /\ IF ~pg.schema THEN Fail(r, "operation")
       ELSE IF pg.width[Coll(r)] = 0 THEN Fail(r, "CollectionNotFoundError")
       ELSE Goto(r, "statement", call[r].memo)
    /\ UNCHANGED <<stores, effects>>

\* Mutant: no foreign key.
PgUpsertUnreferenced(r) ==
    /\ At(r, "pgvector", "upsert", "statement")
    /\ pg' = [pg EXCEPT !.rows[Coll(r)] = Merged(@, call[r].rows)]
    /\ Answer(r, Cardinality(call[r].rows), {}) /\ Effect(r, "wrote", Cardinality(call[r].rows))
    /\ UNCHANGED <<qd, lc, tv>>

PgUpsert(r) ==
    /\ At(r, "pgvector", "upsert", "statement")
    /\ IF pg.width[Coll(r)] = 0  \* the foreign key
       THEN Fail(r, "operation") /\ UNCHANGED <<pg, effects>>
       ELSE /\ pg' = [pg EXCEPT !.rows[Coll(r)] = Merged(@, call[r].rows)]
            /\ Answer(r, Cardinality(call[r].rows), {}) /\ Effect(r, "wrote", Cardinality(call[r].rows))
    /\ UNCHANGED <<qd, lc, tv>>

\* What a statement may come to: the rows it selects, or Broken, as it fails.
Selection(r, rows) ==
    LET truth == [x \in rows |-> IF Unfiltered(r) THEN {"true"} ELSE Compiled(Metadata(x), FilterOf(r))]
    IN  {Broken : x \in {y \in rows : "error" \in truth[y]}}
          \cup (IF \E x \in rows : truth[x] = {"error"} THEN {} ELSE {{x \in rows : "true" \in truth[x]}})

PgSearch(r) ==
    /\ \E op \in {"search", "lookup"} : At(r, "pgvector", op, "statement")
    /\ \E found \in Selection(r, pg.rows[Coll(r)]) :
         IF found = Broken \/ Misfit(r, found) THEN Fail(r, "operation") /\ UNCHANGED effects ELSE Found(r, found)
    /\ UNCHANGED stores

PgDelete(r) ==
    /\ At(r, "pgvector", "delete", "start")
    /\ LET gone == Of(pg.rows[Coll(r)], request[r].source)
       IN  IF ~pg.schema THEN Fail(r, "operation") /\ UNCHANGED <<pg, effects>>
           ELSE /\ pg' = [pg EXCEPT !.rows[Coll(r)] = @ \ gone]
                /\ Answer(r, Cardinality(gone), {}) /\ Effect(r, "deleted", Cardinality(gone))
    /\ UNCHANGED <<qd, lc, tv>>

PgAggregate(r) ==
    /\ At(r, "pgvector", "list", "start")
    /\ LET rows == pg.rows[Coll(r)]
       IN  IF ~pg.schema THEN Fail(r, "operation") /\ UNCHANGED effects
           ELSE Answer(r, Cardinality(rows), Grouped(rows)) /\ Effect(r, "listed", 0)
    /\ UNCHANGED stores

PgDrop(r) ==
    /\ At(r, "pgvector", "drop", "start")
    /\ IF ~pg.schema THEN Fail(r, "operation") /\ UNCHANGED <<pg, effects>>
       ELSE /\ pg' = [pg EXCEPT !.width[Coll(r)] = 0, !.rows[Coll(r)] = {}]
            /\ Answer(r, 0, {}) /\ Effect(r, "dropped", 0)
    /\ UNCHANGED <<qd, lc, tv>>

PgStep(r) ==
    \/ PgEnsureRead(r) \/ PgEnsureBlocked(r) \/ PgEnsureInsert(r) \/ PgRequire(r) \/ PgUpsert(r) \/ PgSearch(r)
    \/ PgDelete(r) \/ PgAggregate(r) \/ PgDrop(r)

-----------------------------------------------------------------------------
(* docpipe.vectorstores.qdrant: every call of the client is a request of its own. *)

QdMissing(r) == qd.width[Coll(r)] = 0
QdFail(r)    == Fail(r, "operation") /\ UNCHANGED <<stores, effects>>

QdExists(r) ==
    /\ At(r, "qdrant", "ensure", "start")
    /\ Goto(r, IF QdMissing(r) THEN "create" ELSE "inspect", None) /\ UNCHANGED <<stores, effects>>

QdInspect(r) ==
    /\ At(r, "qdrant", "ensure", "inspect")
    /\ IF qd.width[Coll(r)] # request[r].width THEN QdFail(r)
       ELSE Answer(r, 0, {}) /\ UNCHANGED <<stores, effects>>

\* Somebody else may have created it since.
QdCreate(r) ==
    /\ At(r, "qdrant", "ensure", "create")
    /\ IF ~QdMissing(r) THEN QdFail(r)
       ELSE /\ qd' = [qd EXCEPT !.width[Coll(r)] = request[r].width]
            /\ Answer(r, 0, {}) /\ UNCHANGED <<pg, lc, tv, effects>>

\* An update that is only acknowledged is uncertain: it was applied, or it was not.
QdUpdate(r, rows, n, what) ==
    \/ /\ qd' = [qd EXCEPT !.rows[Coll(r)] = rows]
       /\ Effect(r, what, IF what = "wrote" THEN n ELSE Cardinality(qd.rows[Coll(r)] \ rows))
       /\ \/ Answer(r, n, {}) /\ UNCHANGED faults
          \/ faults < MaxFaults /\ faults' = faults + 1 /\ Fail(r, "uncertain")
    \/ /\ faults < MaxFaults /\ faults' = faults + 1 /\ Fail(r, "uncertain") /\ UNCHANGED <<qd, effects>>

QdUpsert(r) ==
    /\ At(r, "qdrant", "upsert", "start")
    /\ IF qd.width[Coll(r)] # request[r].width THEN QdFail(r) /\ UNCHANGED faults
       ELSE /\ QdUpdate(r, Merged(qd.rows[Coll(r)], call[r].rows), Cardinality(call[r].rows), "wrote")
            /\ UNCHANGED <<pg, lc, tv>>

QdSearch(r) ==
    /\ \E op \in {"search", "lookup"} : At(r, "qdrant", op, "start")
    /\ IF qd.width[Coll(r)] # request[r].width THEN QdFail(r)
       ELSE /\ Found(r, {x \in qd.rows[Coll(r)] : Unfiltered(r) \/ PayloadMatches(Metadata(x), FilterOf(r))})
            /\ UNCHANGED stores

QdCount(r) ==
    /\ At(r, "qdrant", "delete", "start")
    /\ IF QdMissing(r) THEN QdFail(r)
       ELSE /\ Goto(r, "delete", Cardinality(Of(qd.rows[Coll(r)], request[r].source)))
            /\ UNCHANGED <<stores, effects>>

\* What is reported is what was counted before.
QdDelete(r) ==
    /\ At(r, "qdrant", "delete", "delete")
    /\ IF QdMissing(r) THEN QdFail(r) /\ UNCHANGED faults
       ELSE LET rows == qd.rows[Coll(r)]
            IN  /\ QdUpdate(r, rows \ Of(rows, request[r].source), call[r].memo, "deleted")
                /\ UNCHANGED <<pg, lc, tv>>

\* Mutant: the page starts after its first id.
RestAfter(rows, next) == {x \in rows : x.id > next}

Rest(rows, next) == {x \in rows : x.id >= next}
First(size, rows) == {x \in rows : Cardinality({y \in rows : y.id < x.id}) < size}

\* Page after page, in the order of the ids; memo is what was seen and the next id.
QdScroll(r) ==
    /\ \E step \in {"start", "scroll"} : At(r, "qdrant", "list", step)
    /\ LET memo == IF call[r].step = "start" THEN [seen |-> {}, next |-> 0] ELSE call[r].memo
           size == Min({PageSize, MaxScan - Cardinality(memo.seen)})
           rest == Rest(qd.rows[Coll(r)], memo.next)
           page == First(size, rest)
           seen == memo.seen \cup page
       IN  IF size < 1 \/ QdMissing(r) THEN Fail(r, "operation") /\ UNCHANGED effects
           ELSE IF page # rest
                THEN /\ Goto(r, "scroll", [seen |-> seen, next |-> Min({x.id : x \in rest \ page})])
                     /\ UNCHANGED effects
                ELSE Answer(r, Cardinality(seen), Grouped(seen)) /\ Effect(r, "listed", 0)
    /\ UNCHANGED stores

QdDrop(r) ==
    /\ At(r, "qdrant", "drop", "start")
    /\ qd' = [qd EXCEPT !.width[Coll(r)] = 0, !.rows[Coll(r)] = {}]
    /\ Answer(r, 0, {}) /\ Effect(r, "dropped", 0) /\ UNCHANGED <<pg, lc, tv>>

QdStep(r) ==
    \/ /\ QdExists(r) \/ QdInspect(r) \/ QdCreate(r) \/ QdSearch(r) \/ QdCount(r) \/ QdScroll(r) \/ QdDrop(r)
       /\ UNCHANGED faults
    \/ QdUpsert(r) \/ QdDelete(r)

-----------------------------------------------------------------------------
(* docpipe.vectorstores.factory and turbovec_store: the deprecated paths *)

\* PGVector makes its tables when it is constructed; rows get ids of their own.
LcWrite(r) ==
    /\ \E op \in {"lookup", "upsert"} : At(r, "langchain", op, "start")
    /\ IF call[r].op = "lookup"
       THEN /\ lc' = [lc EXCEPT !.tables = TRUE] /\ UNCHANGED effects
            /\ Answer(r, Cardinality(Tagged(r, lc.rows[Coll(r)])), {})
       ELSE /\ lc' = [lc EXCEPT !.tables = TRUE, !.rows[Coll(r)] = @ \cup call[r].rows]
            /\ Answer(r, Cardinality(call[r].rows), {}) /\ Effect(r, "wrote", Cardinality(call[r].rows))
    /\ UNCHANGED <<pg, qd, tv>>

\* The total, then the groups: two statements.
LcList(r) ==
    /\ \/ /\ At(r, "langchain", "list", "start")
          /\ IF lc.tables THEN Goto(r, "groups", Cardinality(lc.rows[Coll(r)])) ELSE Fail(r, "undefined table")
          /\ UNCHANGED effects
       \/ /\ At(r, "langchain", "list", "groups")
          /\ Answer(r, call[r].memo, Grouped(lc.rows[Coll(r)])) /\ Effect(r, "listed", 0)
    /\ UNCHANGED stores

\* DELETE FROM the name of the collection, which is no table.
LcDelete(r) ==
    /\ At(r, "langchain", "delete", "start") /\ Fail(r, "undefined table")
    /\ UNCHANGED <<stores, effects>>

\* load_or_create_turbovec_store, then the dump of what was loaded and changed.
TvLoad(r) ==
    /\ \E op \in {"lookup", "upsert"} : At(r, "files", op, "start")
    /\ IF tv[Coll(r)].format = "plugin" THEN Fail(r, "vendor")
       ELSE IF call[r].op = "lookup" THEN Answer(r, Cardinality(Tagged(r, tv[Coll(r)].rows)), {})
       ELSE Goto(r, "dump", [n |-> Cardinality(call[r].rows), rows |-> tv[Coll(r)].rows \cup call[r].rows])
    /\ UNCHANGED <<stores, effects>>

\* delete_by_source_turbovec reads the document store first, on its own.
TvScan(r) ==
    /\ At(r, "files", "delete", "start")
    /\ LET gone == Of(tv[Coll(r)].rows, request[r].source)
       IN  IF tv[Coll(r)].format = "plugin" THEN Fail(r, "AttributeError") /\ UNCHANGED effects
           ELSE IF gone = {} THEN Answer(r, 0, {}) /\ Effect(r, "deleted", 0)
           ELSE Goto(r, "load", gone) /\ UNCHANGED effects
    /\ UNCHANGED stores

TvReload(r) ==
    /\ At(r, "files", "delete", "load")
    /\ Goto(r, "dump", [n |-> Cardinality(call[r].memo), rows |-> tv[Coll(r)].rows \ call[r].memo])
    /\ UNCHANGED <<stores, effects>>

TvDump(r) ==
    /\ \E op \in {"upsert", "delete"} : At(r, "files", op, "dump")
    /\ tv' = [tv EXCEPT ![Coll(r)] = [format |-> "legacy", rows |-> call[r].memo.rows]]
    /\ Answer(r, call[r].memo.n, {})
    /\ Effect(r, IF call[r].op = "upsert" THEN "wrote" ELSE "deleted", call[r].memo.n)
    /\ UNCHANGED <<pg, qd, lc>>

\* A listing and a deletion block the event loop; a write is in a thread.
Blocking(r) == call[r].step # "answered" /\ call[r].via \in {"langchain", "files"}
                 /\ request[r].kind \in {"delete", "list"}

LegacyStep(r) ==
    /\ Blocking(r) => Runs(r)
    /\ LcWrite(r) \/ LcList(r) \/ LcDelete(r) \/ TvLoad(r) \/ TvScan(r) \/ TvReload(r) \/ TvDump(r)

-----------------------------------------------------------------------------
\* Other plugins are only known by their contract; TurboVec's is in TurboVecStore.
OtherStep(r) ==
    /\ call[r].via \notin {None, "pgvector", "qdrant", "langchain", "files"} /\ call[r].step = "start"
    /\ Answer(r, Cardinality(call[r].rows), {}) \/ Fail(r, "operation")
    /\ UNCHANGED <<stores, effects>>

BackendStep(r) ==
    \/ (PgStep(r) \/ LegacyStep(r) \/ OtherStep(r)) /\ UNCHANGED faults
    \/ QdStep(r)

\* The connection is lost before the step, or before its answer.
Outage(r) ==
    /\ call[r].op # None /\ (call[r].step = "answered" => call[r].out.ok)
    /\ call[r].via # "files" /\ faults < MaxFaults /\ faults' = faults + 1
    /\ Fail(r, "connection") /\ UNCHANGED <<stores, effects>>
=============================================================================
