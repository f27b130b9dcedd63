---------------------------- MODULE PlatformProofs ----------------------------
(***************************************************************************)
(* Theorems about Platform, for every site, all requests and all plays:    *)
(* what the process holds open and when, that records in PostgreSQL and    *)
(* Qdrant have a collection, and its width, and that replies are true.     *)
(***************************************************************************)
EXTENDS Platform, TLAPS, FiniteSetTheorems, WellFoundedInduction, SequenceTheorems

Lives == {"new", "created", "up", "stopped", "broken"}

\* The application is up once; while it is, what it opened may be open, and only then
\* does the server have requests.
Alive ==
    /\ life \in Lives /\ starts \in Nat /\ admins \in {0, 1}
    /\ life = "up" => starts = 1 /\ (site.db = "migrate" => admins = 1)
    /\ opened # {} => life = "up"
    /\ \A r \in Requests : InServer(r) /\ phase[r] \notin {"idle", "ended"} => life = "up"

\* Requests that are under way at the same time have met.
Company ==
    /\ \A r \in Requests : phase[r] = "idle" => call[r] = NoCall
    /\ \A r, q \in Requests : r # q /\ InFlight(r) /\ InFlight(q) => Together(r, q)

\* A request waits for the store it was composed for.
Waits(r, op) == call[r].op = op /\ call[r].via = Via(r)
Calls ==
    /\ call = [r \in Requests |-> call[r]] /\ phase = [r \in Requests |-> phase[r]]
    /\ \A r \in Requests :
         /\ DOMAIN call[r] = DOMAIN NoCall
         /\ \A x \in call[r].rows : x.width = request[r].width
         /\ phase[r] \in {"resolve", "tool", "registry", "parsing", "store", "parsed", "compose", "encode"} =>
              call[r] = NoCall
         /\ phase[r] \in {"lookup", "ensure", "upsert"} => Waits(r, phase[r])
         /\ phase[r] = "next" => Waits(r, "upsert") /\ call[r].step = "answered" /\ Out(r).ok

\* The collection of r is as wide as its records, unless somebody else was about.
Fits(r)   == pg.width[Coll(r)] = request[r].width
Agreed(r) == Fits(r) \/ Overlapped(r)
Ensuring ==
    \A r \in Requests : call[r].via = "pgvector" =>
        /\ call[r].op = "ensure" /\ call[r].step = "insert" => pg.width[Coll(r)] = 0 \/ Agreed(r)
        /\ phase[r] = "ensure" /\ call[r].step = "answered" /\ Out(r).ok => Agreed(r)
        /\ call[r].op = "upsert" /\ (call[r].step # "answered" \/ phase[r] \in {"upsert", "next"}) => Agreed(r)

\* Who is somewhere else than the others expected.
Stray(c) == \E r, q \in Requests : Together(r, q) /\ Same(r, q) /\ request[r].collection = c
Stored ==
    /\ DOMAIN pg = {"schema", "width", "rows"} /\ DOMAIN pg.width = Collections /\ DOMAIN pg.rows = Collections
    /\ DOMAIN qd = {"width", "rows"} /\ DOMAIN qd.width = Collections /\ DOMAIN qd.rows = Collections
    /\ \A c \in Collections :
         /\ pg.width[c] # 0 => pg.schema
         /\ pg.width[c] = 0 => pg.rows[c] = {}
         /\ \A x \in pg.rows[c] : x.width # pg.width[c] => Stray(c)
         /\ qd.width[c] = 0 => qd.rows[c] = {}
         /\ \A x \in qd.rows[c] : x.width = qd.width[c]

\* A client of Qdrant is open for the answer, and the runtime's discovery is run by
\* whoever waits for it.
Kept ==
    /\ \A r \in clients : request[r].kind # "ingest" => phase[r] = "answer"
    /\ DOMAIN registry = Registries
    /\ \A id \in Registries : DOMAIN registry[id] = {"started", "loader", "todo", "loaded"}
    /\ \A r \in Requests : registry["runtime"].loader = r => phase[r] = "registry"

\* The requests of the play.
Asks ==
    \A r \in Requests :
        /\ request[r].kind \in {"ingest", "parse", "tool", "delete", "list", "search", "drop"}
        /\ Coll(r) \in Collections /\ request[r].width \in Nat \ {0}

IInv == Asks /\ Alive /\ Company /\ Calls /\ Ensuring /\ Stored /\ Kept

-----------------------------------------------------------------------------
\* The play does not change.
LEMMA AsksStay == ASSUME Asks, UNCHANGED fixed PROVE Asks'
BY DEF Asks, fixed, Coll

\* Before the first request nothing is open, stored or called for.
LEMMA InitIInv == PlatformInit => IInv
<1> SUFFICES ASSUME PlatformInit PROVE IInv
  OBVIOUS
<1>1. Asks
  BY RequestAssumption DEF PlatformInit, FixedInit, Asks, Coll
<1>2. Alive
  BY DEF PlatformInit, ServiceInit, Alive, Lives
<1>3. Company
  BY DEF PlatformInit, ServiceInit, BackendInit, Company, InFlight, NoCall
<1>4. Calls
  BY DEF PlatformInit, ServiceInit, BackendInit, Calls, NoCall
<1>5. Ensuring
  BY DEF PlatformInit, ServiceInit, BackendInit, Ensuring, NoCall, Out
<1>6. Stored
  BY DEF PlatformInit, ServiceInit, BackendInit, Stored
<1>7. Kept
  BY RequestAssumption DEF PlatformInit, ServiceInit, RegistryInit, Kept, Registries
<1> QED  BY <1>1, <1>2, <1>3, <1>4, <1>5, <1>6, <1>7 DEF IInv

-----------------------------------------------------------------------------
(* What a step of the service does to its request *)

Early == {"resolve", "tool", "registry", "parsing", "store", "parsed", "compose", "encode"}

Asked(op, via, rows, memo) ==
    [NoCall EXCEPT !.op = op, !.via = via, !.step = "start", !.rows = rows, !.memo = memo]

\* Where the request goes, and what it does about its call: nothing, forgets it, or asks
\* the store for something; an upsert is asked for with records of the collection's width.
Rests(r, p) ==
    /\ call' = call
    /\ \/ p \in {"ended", "finish", "record"}
       \/ p \in Early /\ phase[r] \in Early
       \/ p = "next" /\ phase[r] = "upsert" /\ call[r].step = "answered" /\ Out(r).ok
Forgets(r, p) == call' = [call EXCEPT ![r] = NoCall] /\ p \in {"ended", "finish", "encode"}
Calling(r, p) ==
    \E op, rows, memo :
        /\ call' = [call EXCEPT ![r] = Asked(op, Via(r), rows, memo)]
        /\ \A x \in rows : x.width = request[r].width
        /\ op = "upsert" /\ Via(r) = "pgvector" => Agreed(r)
        /\ \/ p = op /\ op \in {"lookup", "ensure", "upsert"}
           \/ p = "answer" /\ op = request[r].kind /\ op \notin {"ingest", "lookup", "ensure", "upsert"}
Gives(r) == call' = [call EXCEPT ![r].step = "answered", ![r].out = [ok |-> FALSE, why |-> "closed"]]

Serves(r) ==
    /\ phase[r] \notin {"idle", "ended"}
    /\ \E p : /\ phase' = [phase EXCEPT ![r] = p] /\ p # "idle"
              /\ Rests(r, p) \/ Forgets(r, p) \/ Calling(r, p) \/ (p = "ended" /\ Gives(r))
              /\ r \in clients' => request[r].kind = "ingest" \/ p = "answer" \/ (r \in clients /\ phase[r] # "answer")
              /\ \/ registry' = registry /\ (phase[r] = "registry" => registry["runtime"].loader # r)
                 \/ p = phase[r] /\ \E id \in Registries :
                      /\ EnsureDiscovered(r, id) /\ (id = "runtime" => phase[r] = "registry")
    /\ clients' \subseteq clients \cup {r}
    /\ jobs' # jobs => InServer(r)
    /\ UNCHANGED stores

\* No kind of request is named like an operation of an ingest.
LEMMA RequestKinds == ASSUME IInv, NEW r \in Requests PROVE request[r].kind \notin {"ensure", "upsert", "lookup"}
BY DEF IInv, Asks

\* How a step that asks the store for something is recognised.
LEMMA Called ==
    ASSUME NEW r \in Requests, NEW p, NEW op, NEW rows, NEW memo, Call(r, op, Via(r), rows, memo),
           \A x \in rows : x.width = request[r].width,
           op = "upsert" /\ Via(r) = "pgvector" => Agreed(r),
           \/ p = op /\ op \in {"lookup", "ensure", "upsert"}
           \/ p = "answer" /\ op = request[r].kind /\ op \notin {"ingest", "lookup", "ensure", "upsert"}
    PROVE  Calling(r, p)
BY DEF Calling, Call, Asked

\* A request that stays where it is.
LEMMA Stays == ASSUME Calls, NEW r \in Requests PROVE phase = [phase EXCEPT ![r] = phase[r]]
BY DEF Calls

\* A registry finds its entry points: the request stays where it is.
LEMMA DiscoverServes == ASSUME IInv, NEW r \in Requests, Discover1(r) PROVE Serves(r)
BY Stays DEF IInv, Discover1, Serves, Rests, Early, served, backends, Registries

\* The plugins of a request are resolved before it asks a store.
LEMMA ResolveServes == ASSUME IInv, NEW r \in Requests, Resolve(r) PROVE Serves(r)
BY DEF Resolve, Refuse, Reply, Go, Serves, Rests, Early, backends

\* So are its parser and what the parser cache has.
LEMMA GetParserServes == ASSUME IInv, NEW r \in Requests, GetParser(r) PROVE Serves(r)
BY DEF GetParser, Discovered, Refuse, Reply, Go, Serves, Rests, Early, backends

\* And so is its document.
LEMMA ParseServes == ASSUME IInv, NEW r \in Requests, Parse(r) PROVE Serves(r)
BY DEF Parse, Refuse, Reply, Go, Serves, Rests, Early

\* A parse request is answered, another one goes on to its store.
LEMMA ParsedServes == ASSUME IInv, NEW r \in Requests, Parsed(r) PROVE Serves(r)
BY DEF Parsed, Reply, Go, Serves, Rests, Early, backends

\* A tool asks no store.
LEMMA UseToolServes == ASSUME IInv, NEW r \in Requests, UseTool(r) PROVE Serves(r)
BY DEF UseTool, Refuse, Reply, Go, Serves, Rests, Early, backends

\* The store is asked, for a lookup or for the answer itself, or the request is refused.
LEMMA ComposeServes == ASSUME IInv, NEW r \in Requests, Compose(r) PROVE Serves(r)
<1>1. phase[r] = "compose" /\ UNCHANGED <<jobs, registry, stores>>
  BY DEF Compose
<1>2. \A s : Refuse(r, s) => phase' = [phase EXCEPT ![r] = "ended"]
  BY DEF Refuse, Reply, Go
<1>3. CASE Refusal(r) # None
  <2>1. phase' = [phase EXCEPT ![r] = "ended"] /\ UNCHANGED <<clients, call>>
    BY <1>2, <1>3 DEF Compose
  <2> QED  BY <1>1, <2>1 DEF Serves, Rests
<1>4. CASE Refusal(r) = None
  <2>1. clients' \subseteq clients \cup {r}
    BY <1>4 DEF Compose, Opens
  <2>2. CASE Q(r).kind # "ingest"
    <3>1. Go(r, "answer") /\ Call(r, Q(r).kind, Via(r), {}, None)
      BY <1>4, <2>2 DEF Compose
    <3>2. Calling(r, "answer")
      <4>1. Q(r).kind = request[r].kind /\ Q(r).kind \notin {"ingest", "lookup", "ensure", "upsert"}
        BY <2>2, RequestKinds DEF Q
      <4> QED  BY <3>1, <4>1, Called
    <3> QED  BY <1>1, <2>1, <3>1, <3>2 DEF Serves, Go
  <2>3. CASE Q(r).kind = "ingest" /\ Ids(r) = {}
    BY <1>1, <1>4, <2>1, <2>3 DEF Compose, Serves, Rests, Go, Q
  <2>4. CASE Q(r).kind = "ingest" /\ Ids(r) # {} /\ Asking(r)
    <3>1. Go(r, "lookup") /\ Call(r, "lookup", Via(r), {}, content[Q(r).source])
      BY <1>4, <2>4 DEF Compose
    <3>2. Calling(r, "lookup")
      BY <3>1, Called
    <3> QED  BY <1>1, <2>1, <2>4, <3>1, <3>2 DEF Serves, Go, Q
  <2>5. CASE Q(r).kind = "ingest" /\ Ids(r) # {} /\ ~Asking(r)
    <3>1. UNCHANGED call /\ \E p \in {"ended", "encode"} : phase' = [phase EXCEPT ![r] = p]
      BY <1>2, <1>4, <2>5 DEF Compose, Go
    <3> QED  BY <1>1, <2>1, <2>5, <3>1 DEF Serves, Rests, Early, Q
  <2> QED  BY <2>2, <2>3, <2>4, <2>5
<1> QED  BY <1>3, <1>4

\* The answer of a lookup is forgotten.
LEMMA LookedUpServes == ASSUME IInv, NEW r \in Requests, LookedUp(r) PROVE Serves(r)
BY DEF LookedUp, Answered, Refuse, Reply, Go, Serves, Forgets

\* The records of a document are as wide as its vectors.
LEMMA RowsFit == ASSUME NEW r, NEW h PROVE \A x \in Rows(r, h) : x.width = request[r].width
BY DEF Rows, Q

\* So are those of a batch.
LEMMA BatchOfRows == ASSUME NEW r PROVE Batch(r) \subseteq Rows(r, hash[r]) \ accepted[r]
BY DEF Batch, First

\* The deprecated paths do not lead to the plugin of PostgreSQL.
LEMMA DeprecatedVia == ASSUME NEW r, Deprecated(r) PROVE Via(r) # "pgvector"
BY DEF Via

\* The collection is ensured before the first batch; on a deprecated path the records are
\* written at once, and so is a later batch.
LEMMA EncodeServes == ASSUME IInv, NEW r \in Requests, Encode(r) PROVE Serves(r)
<1>1. phase[r] \in {"encode", "next"} /\ UNCHANGED <<clients, jobs, registry, stores>>
  BY DEF Encode
<1>2. CASE \E s : Refuse(r, s) /\ UNCHANGED call
  BY <1>1, <1>2 DEF Refuse, Reply, Go, Serves, Rests
<1>3. CASE (Deprecated(r) \/ phase[r] = "next") /\ Go(r, "upsert") /\ Call(r, "upsert", Via(r), Batch(r), None)
  <2>1. Via(r) = "pgvector" => Agreed(r)
    BY <1>3, DeprecatedVia DEF IInv, Calls, Waits, Ensuring
  <2>2. \A x \in Batch(r) : x.width = request[r].width
    BY BatchOfRows, RowsFit
  <2>3. Calling(r, "upsert")
    BY <1>3, <2>1, <2>2, Called
  <2> QED  BY <1>1, <1>3, <2>3 DEF Serves, Go
<1>4. CASE Go(r, "ensure") /\ Call(r, "ensure", Via(r), {}, None)
  <2>2. Calling(r, "ensure")
    BY <1>4, Called
  <2> QED  BY <1>1, <1>4, <2>2 DEF Serves, Go
<1> QED  BY <1>2, <1>3, <1>4 DEF Encode

\* The records are written after an ensure that succeeded, which is why they fit.
LEMMA EnsuredServes == ASSUME IInv, NEW r \in Requests, Ensured(r) PROVE Serves(r)
<1>1. /\ phase[r] = "ensure" /\ call[r].step = "answered" /\ UNCHANGED <<clients, jobs, registry, stores>>
  BY DEF Ensured, Answered
<1>2. CASE Out(r).ok
  <2>1. Via(r) = "pgvector" => Agreed(r)
    BY <1>1, <1>2 DEF IInv, Calls, Waits, Ensuring
  <2>2. phase' = [phase EXCEPT ![r] = "upsert"] /\ Call(r, "upsert", Via(r), Batch(r), None)
    BY <1>2 DEF Ensured, Go
  <2>3. Calling(r, "upsert")
    <3>1. \A x \in Batch(r) : x.width = request[r].width
      BY BatchOfRows, RowsFit
    <3> QED  BY <2>1, <2>2, <3>1, Called
  <2> QED  BY <1>1, <2>2, <2>3 DEF Serves
<1>3. CASE ~Out(r).ok
  <2>1. phase' = [phase EXCEPT ![r] = "ended"] /\ call' = [call EXCEPT ![r] = NoCall]
    BY <1>3 DEF Ensured, Refuse, Reply, Go
  <2> QED  BY <1>1, <2>1 DEF Serves, Forgets
<1> QED  BY <1>2, <1>3

\* The outcome of a write is kept with the call.
LEMMA WrittenServes == ASSUME IInv, NEW r \in Requests, Written(r) PROVE Serves(r)
<1>1. phase[r] = "upsert" /\ call[r].step = "answered" /\ UNCHANGED <<clients, jobs, registry, stores, call>>
  BY DEF Written, Answered, backends
<1>2. \/ \E p \in {"finish", "next"} : Out(r).ok /\ phase' = [phase EXCEPT ![r] = p]
      \/ phase' = [phase EXCEPT ![r] = "ended"]
  BY DEF Written, Refuse, Reply, Go
<1> QED  BY <1>1, <1>2 DEF Serves, Rests

\* LightRAG is no store of these.
LEMMA SyncGraphServes == ASSUME IInv, NEW r \in Requests, SyncGraph(r) PROVE Serves(r)
BY DEF SyncGraph, Refuse, Reply, Go, Serves, Rests

\* A job is only recorded for a request of the server.
LEMMA RecordServes == ASSUME IInv, NEW r \in Requests, Record(r) PROVE Serves(r)
BY DEF Record, Reply, Go, Serves, Rests, backends

\* The client of an answer is closed with it.
LEMMA RespondServes == ASSUME IInv, NEW r \in Requests, Respond(r) PROVE Serves(r)
<1>1. /\ phase[r] = "answer" /\ phase' = [phase EXCEPT ![r] = "ended"] /\ clients' = clients \ {r}
      /\ UNCHANGED <<call, jobs, registry, stores>>
  BY DEF Respond, Answered, Reply, Go, backends
<1> QED  BY <1>1 DEF Serves, Rests

\* A client that leaves: what a thread does for the request goes on.
LEMMA DisconnectServes == ASSUME IInv, NEW r \in Requests, Disconnect(r) PROVE Serves(r)
<1>1. /\ phase[r] \notin {"idle", "ended", "answer"} /\ phase' = [phase EXCEPT ![r] = "ended"]
      /\ registry["runtime"].loader # r /\ UNCHANGED <<clients, jobs, registry, stores>>
  BY DEF Disconnect, Go, Registries
<1>2. call' = call \/ Gives(r)
  BY DEF Disconnect, Fail, Gives
<1> QED  BY <1>1, <1>2 DEF Serves, Rests

\* Every step of the service has that form.
LEMMA ProgressServes == ASSUME IInv, NEW r \in Requests, Progress(r) PROVE Serves(r)
BY DiscoverServes, ResolveServes, GetParserServes, ParseServes, ParsedServes, UseToolServes, ComposeServes,
   LookedUpServes, EncodeServes, EnsuredServes, WrittenServes, SyncGraphServes, RecordServes, RespondServes
   DEF Progress

-----------------------------------------------------------------------------
(* What a step of a store does to the call it is about *)

\* A call that is under way, or whose answer is, goes on for the same operation of
\* the same store.
Waiting(r) == call[r].step # "answered" \/ phase[r] \in {"lookup", "ensure", "upsert", "answer"}
Moves(r) ==
    /\ Waiting(r)
    /\ call' = [q \in Requests |-> call'[q]] /\ \A q \in Requests \ {r} : call'[q] = call[q]
    /\ DOMAIN call'[r] = DOMAIN call[r]
    /\ call'[r].op = call[r].op /\ call'[r].via = call[r].via /\ call'[r].rows = call[r].rows

\* The call comes to an insert after the look at the collection, and to an upsert
\* before it is answered; no other success of an ensure.
Looks(r) ==
    call[r].via = "pgvector" =>
        /\ call[r].op = "ensure" /\ call'[r].step = "insert" => pg.width[Coll(r)] \in {0, request[r].width}
        /\ call[r].op = "ensure" => ~(call'[r].step = "answered" /\ call'[r].out.ok)
        /\ call[r].op = "upsert" /\ call'[r].step # "answered" => call[r].step # "answered"

PgInserts(r) ==
    /\ At(r, "pgvector", "ensure", "insert") /\ call'[r].step = "answered"
    /\ pg' = [pg EXCEPT !.schema = TRUE, !.width[Coll(r)] = IF @ = 0 THEN request[r].width ELSE @]
PgWrites(r) ==
    /\ At(r, "pgvector", "upsert", "statement") /\ call'[r].step = "answered" /\ pg.width[Coll(r)] # 0
    /\ pg' = [pg EXCEPT !.rows[Coll(r)] = Merged(@, call[r].rows)]
PgRemoves(r) ==
    /\ call[r].op \in {"delete", "drop"}
    /\ \/ \E gone : pg' = [pg EXCEPT !.rows[Coll(r)] = @ \ gone]
       \/ pg' = [pg EXCEPT !.width[Coll(r)] = 0, !.rows[Coll(r)] = {}]

QdCreates(r) == QdMissing(r) /\ qd' = [qd EXCEPT !.width[Coll(r)] = request[r].width]
QdWrites(r)  ==
    /\ qd.width[Coll(r)] = request[r].width
    /\ qd' = [qd EXCEPT !.rows[Coll(r)] = Merged(@, call[r].rows)]
QdRemoves(r) ==
    \/ \E gone : qd' = [qd EXCEPT !.rows[Coll(r)] = @ \ gone]
    \/ qd' = [qd EXCEPT !.width[Coll(r)] = 0, !.rows[Coll(r)] = {}]

Answers(r) ==
    /\ Moves(r)
    /\ (UNCHANGED pg /\ Looks(r)) \/ PgInserts(r) \/ PgWrites(r) \/ PgRemoves(r)
    /\ UNCHANGED qd \/ QdCreates(r) \/ QdWrites(r) \/ QdRemoves(r)
    /\ UNCHANGED <<registry, served, lived, met>>

\* The three ways in which a step changes a call: it goes to its next statement,
LEMMA GoesOn ==
    ASSUME Calls, NEW r \in Requests, call[r].step # "answered", NEW step, NEW memo,
           Goto(r, step, memo)
    PROVE  Moves(r) /\ call'[r].step = step
BY DEF Goto, Moves, Calls, NoCall, Waiting

\* it is answered,
LEMMA Succeeds ==
    ASSUME Calls, NEW r \in Requests, call[r].step # "answered", NEW n, NEW list,
           Answer(r, n, list)
    PROVE  Moves(r) /\ call'[r].step = "answered"
BY DEF Answer, Moves, Calls, NoCall, Waiting

\* or it fails.
LEMMA Fails ==
    ASSUME Calls, NEW r \in Requests, Waiting(r), NEW why, Fail(r, why)
    PROVE  Moves(r) /\ call'[r].step = "answered" /\ ~call'[r].out.ok
BY DEF Fail, Moves, Calls, NoCall

\* A statement of PostgreSQL.
LEMMA PgAnswers ==
    ASSUME IInv, NEW r \in Requests, PgStep(r), UNCHANGED <<registry, served, lived, met>>
    PROVE  Answers(r)
<1> SUFFICES Moves(r) /\ ((UNCHANGED pg /\ Looks(r)) \/ PgInserts(r) \/ PgWrites(r) \/ PgRemoves(r)) /\ UNCHANGED qd
  BY DEF Answers
<1> USE DEF IInv
<1>f. \A why : call[r].step # "answered" /\ Fail(r, why) => Moves(r) /\ Looks(r)
  BY Fails DEF Waiting, Looks
<1>1. CASE PgEnsureRead(r)
  <2>1. At(r, "pgvector", "ensure", "start") /\ UNCHANGED <<pg, qd>>
    BY <1>1 DEF PgEnsureRead, stores
  <2>2. CASE Goto(r, "blocked", None)
    BY <2>1, <2>2, GoesOn DEF At, Looks
  <2>3. CASE Fail(r, "operation")
    BY <2>1, <2>3, <1>f DEF At
  <2>4. CASE pg.width[Coll(r)] \in {0, request[r].width} /\ Goto(r, "insert", None)
    BY <2>1, <2>4, GoesOn DEF At, Looks
  <2> QED  BY <1>1, <2>2, <2>3, <2>4 DEF PgEnsureRead
<1>2. CASE PgEnsureBlocked(r)
  <2>1. At(r, "pgvector", "ensure", "blocked") /\ UNCHANGED <<pg, qd>>
    BY <1>2 DEF PgEnsureBlocked, stores
  <2>2. CASE Fail(r, "operation")
    BY <2>1, <2>2, <1>f DEF At
  <2>3. CASE Goto(r, "start", None)
    BY <2>1, <2>3, GoesOn DEF At, Looks
  <2> QED  BY <1>2, <2>2, <2>3 DEF PgEnsureBlocked
<1>3. CASE PgEnsureInsert(r)
  BY <1>3, Succeeds DEF PgEnsureInsert, PgInserts, At
<1>4. CASE PgRequire(r)
  <2>1. /\ call[r].via = "pgvector" /\ call[r].op \in {"upsert", "search", "lookup"} /\ call[r].step = "start"
        /\ UNCHANGED <<pg, qd>>
    BY <1>4 DEF PgRequire, At, stores
  <2>2. CASE \E why : Fail(r, why)
    BY <2>1, <2>2, <1>f
  <2>3. CASE Goto(r, "statement", call[r].memo)
    BY <2>1, <2>3, GoesOn DEF Looks
  <2> QED  BY <1>4, <2>2, <2>3 DEF PgRequire
<1>5. CASE PgUpsert(r)
  <2>1. At(r, "pgvector", "upsert", "statement") /\ UNCHANGED qd
    BY <1>5 DEF PgUpsert
  <2>2. CASE pg.width[Coll(r)] = 0
    BY <1>5, <2>1, <2>2, <1>f DEF PgUpsert, At
  <2>3. CASE pg.width[Coll(r)] # 0
    BY <1>5, <2>1, <2>3, Succeeds DEF PgUpsert, PgWrites, At
  <2> QED  BY <2>2, <2>3
<1>6. CASE PgSearch(r)
  <2>1. /\ call[r].via = "pgvector" /\ call[r].op \in {"search", "lookup"} /\ call[r].step = "statement"
        /\ UNCHANGED <<pg, qd>>
    BY <1>6 DEF PgSearch, At, stores
  <2>2. (\E why : Fail(r, why)) \/ (\E n, list : Answer(r, n, list))
    BY <1>6 DEF PgSearch, Found
  <2> QED  BY <2>1, <2>2, <1>f, Succeeds DEF Looks
<1>7. CASE PgDelete(r)
  <2>1. At(r, "pgvector", "delete", "start") /\ UNCHANGED qd
    BY <1>7 DEF PgDelete
  <2>2. CASE ~pg.schema
    BY <1>7, <2>1, <2>2, <1>f DEF PgDelete, At
  <2>3. CASE pg.schema
    BY <1>7, <2>1, <2>3, Succeeds DEF PgDelete, PgRemoves, At
  <2> QED  BY <2>2, <2>3
<1>8. CASE PgAggregate(r)
  <2>1. At(r, "pgvector", "list", "start") /\ UNCHANGED <<pg, qd>>
    BY <1>8 DEF PgAggregate, stores
  <2>2. (\E why : Fail(r, why)) \/ (\E n, list : Answer(r, n, list))
    BY <1>8 DEF PgAggregate
  <2> QED  BY <2>1, <2>2, <1>f, Succeeds DEF At, Looks
<1>9. CASE PgDrop(r)
  <2>1. At(r, "pgvector", "drop", "start") /\ UNCHANGED qd
    BY <1>9 DEF PgDrop
  <2>2. CASE ~pg.schema
    BY <1>9, <2>1, <2>2, <1>f DEF PgDrop, At
  <2>3. CASE pg.schema
    BY <1>9, <2>1, <2>3, Succeeds DEF PgDrop, PgRemoves, At
  <2> QED  BY <2>2, <2>3
<1> QED  BY <1>1, <1>2, <1>3, <1>4, <1>5, <1>6, <1>7, <1>8, <1>9 DEF PgStep

\* A call of Qdrant's client.
LEMMA QdAnswers ==
    ASSUME IInv, NEW r \in Requests, QdStep(r), UNCHANGED <<registry, served, lived, met>>
    PROVE  Answers(r)
<1> SUFFICES /\ Moves(r) /\ call[r].via = "qdrant" /\ UNCHANGED pg
             /\ UNCHANGED qd \/ QdCreates(r) \/ QdWrites(r) \/ QdRemoves(r)
  BY DEF Answers, Looks
<1> USE DEF IInv
<1>f. \A why : call[r].step # "answered" /\ Fail(r, why) => Moves(r)
  BY Fails DEF Waiting
<1>q. call[r].step # "answered" /\ QdFail(r) => Moves(r) /\ UNCHANGED <<pg, qd>>
  BY <1>f DEF QdFail, stores
<1>u. \A rows, n, what : call[r].step # "answered" /\ QdUpdate(r, rows, n, what) =>
         Moves(r) /\ (UNCHANGED qd \/ qd' = [qd EXCEPT !.rows[Coll(r)] = rows])
  BY <1>f, Succeeds DEF QdUpdate
<1>1. CASE QdExists(r)
  BY <1>1, GoesOn DEF QdExists, At, stores
<1>2. CASE QdInspect(r)
  BY <1>2, <1>q, Succeeds DEF QdInspect, At, stores
<1>3. CASE QdCreate(r)
  BY <1>3, <1>q, Succeeds DEF QdCreate, QdCreates, At
<1>4. CASE QdSearch(r)
  BY <1>4, <1>q, Succeeds DEF QdSearch, Found, At, stores
<1>5. CASE QdCount(r)
  BY <1>5, <1>q, GoesOn DEF QdCount, At, stores
<1>6. CASE QdScroll(r)
  <2>1. /\ call[r].via = "qdrant" /\ call[r].step # "answered" /\ UNCHANGED <<pg, qd>>
    BY <1>6 DEF QdScroll, At, stores
  <2>2. \/ \E why : Fail(r, why)
        \/ \E n, list : Answer(r, n, list)
        \/ \E memo : Goto(r, "scroll", memo)
    BY <1>6 DEF QdScroll
  <2> QED  BY <2>1, <2>2, <1>f, Succeeds, GoesOn
<1>7. CASE QdDrop(r)
  BY <1>7, Succeeds DEF QdDrop, QdRemoves, At
<1>8. CASE QdUpsert(r)
  <2>1. At(r, "qdrant", "upsert", "start")
    BY <1>8 DEF QdUpsert
  <2>2. CASE qd.width[Coll(r)] # request[r].width
    BY <1>8, <2>1, <2>2, <1>q DEF QdUpsert, At
  <2>3. CASE qd.width[Coll(r)] = request[r].width
    BY <1>8, <2>1, <2>3, <1>u DEF QdUpsert, QdWrites, At
  <2> QED  BY <2>2, <2>3
<1>9. CASE QdDelete(r)
  <2>1. At(r, "qdrant", "delete", "delete")
    BY <1>9 DEF QdDelete
  <2>2. CASE QdMissing(r)
    BY <1>9, <2>1, <2>2, <1>q DEF QdDelete, At
  <2>3. CASE ~QdMissing(r)
    BY <1>9, <2>1, <2>3, <1>u DEF QdDelete, QdRemoves, At
  <2> QED  BY <2>2, <2>3
<1> QED  BY <1>1, <1>2, <1>3, <1>4, <1>5, <1>6, <1>7, <1>8, <1>9 DEF QdStep

\* The deprecated paths and the plugins that are only a contract.
LEMMA OthersAnswer ==
    ASSUME IInv, NEW r \in Requests, LegacyStep(r) \/ OtherStep(r), UNCHANGED <<registry, served, lived, met>>
    PROVE  Answers(r)
<1> USE DEF IInv
<1>f. \A why : call[r].step # "answered" /\ Fail(r, why) => Moves(r)
  BY Fails DEF Waiting
<1>1. /\ call[r].step # "answered" /\ call[r].via \notin {"pgvector", "qdrant"} /\ UNCHANGED <<pg, qd>>
      /\ \/ \E why : Fail(r, why)
         \/ \E n, list : Answer(r, n, list)
         \/ \E step, memo : Goto(r, step, memo)
  BY DEF LegacyStep, OtherStep, LcWrite, LcList, LcDelete, TvLoad, TvScan, TvReload, TvDump, At, stores
<1>3. Moves(r)
  BY <1>1, <1>f, Succeeds, GoesOn
<1> QED  BY <1>1, <1>3 DEF Answers, Looks

\* Every step of a store has that form.
LEMMA StoreAnswers == ASSUME IInv, NEW r \in Requests, Store(r) PROVE Answers(r)
BY PgAnswers, QdAnswers, OthersAnswer DEF Store, BackendStep

\* The connection is lost.
LEMMA LoseAnswers == ASSUME IInv, NEW r \in Requests, Lose(r) PROVE Answers(r)
<1>1. Waiting(r) /\ Fail(r, "connection") /\ UNCHANGED <<pg, qd, registry, served, lived, met>>
  BY DEF Lose, Outage, Waiting, stores
<1>2. Moves(r) /\ Looks(r)
  BY <1>1, Fails DEF IInv, Looks
<1> QED  BY <1>1, <1>2 DEF Answers

-----------------------------------------------------------------------------
(* The store of a request, and whether two requests are about one collection, *)
(* are settled by the play.                                                   *)

\* What a request asks for, and of which collection.
LEMMA PlayStays ==
    ASSUME UNCHANGED fixed
    PROVE  /\ site' = site /\ request' = request
           /\ \A r : Coll(r)' = Coll(r) /\ InServer(r)' = InServer(r)
           /\ \A r, q : Same(r, q)' = Same(r, q)
BY DEF fixed, Coll, InServer, Same, Q

\* Which store it goes to.
LEMMA ViaStays == ASSUME UNCHANGED fixed, NEW r PROVE Via(r)' = Via(r)
BY DEF fixed, Via, Deprecated, Provider, RolledBack, InServer, Q, Selected, Namespaced, Backend, VectorFields,
       ResolveVectorOptions, Conflicts, LegacyOptions, FieldOf, LegacyBackends

\* Who has met stays so.
LEMMA MeetingsStay ==
    ASSUME UNCHANGED fixed, met \subseteq met'
    PROVE  /\ \A r : Overlapped(r) => Overlapped(r)'
           /\ \A c : Stray(c) => Stray(c)'
BY PlayStays DEF Overlapped, Stray, Together

-----------------------------------------------------------------------------
(* The steps of the stores *)

\* A call stays the one its request waits for, and whoever is under way was so before.
LEMMA AnswersKeepCalls ==
    ASSUME IInv, NEW r \in Requests, Answers(r), UNCHANGED fixed PROVE Calls' /\ Company'
<1> USE DEF IInv
<1>1. phase' = phase /\ met' = met
  BY DEF Answers, served
<1>2. \A q \in Requests : /\ DOMAIN call'[q] = DOMAIN call[q] /\ call'[q].op = call[q].op
                          /\ call'[q].via = call[q].via /\ call'[q].rows = call[q].rows
  BY DEF Answers, Moves
<1>3. \A q \in Requests : InFlight(q)' => InFlight(q)
  BY <1>1 DEF Answers, Moves, Waiting, InFlight
<1>4. phase[r] \notin Early \cup {"idle"}
  BY DEF Answers, Moves, Company, Calls, Waiting, NoCall, Early
<1>5. phase[r] # "next"
  BY DEF Answers, Moves, Calls, Waiting
<1>6. Calls'
  BY <1>5, <1>1, <1>2, <1>4, PlayStays, ViaStays DEF Calls, Waits, Out, Answers, Moves, Early
<1>7. Company'
  BY <1>1, <1>3, <1>4 DEF Company, Answers, Moves, Together
<1> QED  BY <1>6, <1>7

\* What a step does to the tables of PostgreSQL, collection by collection.
LEMMA PgTables ==
    ASSUME IInv, NEW r \in Requests, Answers(r)
    PROVE  /\ DOMAIN pg' = DOMAIN pg /\ DOMAIN pg'.width = Collections /\ DOMAIN pg'.rows = Collections
           /\ \A c \in Collections \ {Coll(r)} : pg'.width[c] = pg.width[c] /\ pg'.rows[c] = pg.rows[c]
           /\ pg.schema => pg'.schema
           /\ LET c == Coll(r)
              IN  \/ pg'.width[c] = pg.width[c] /\ pg'.rows[c] = pg.rows[c] /\ (UNCHANGED pg => Looks(r))
                  \/ /\ PgInserts(r) /\ pg'.schema /\ pg'.rows[c] = pg.rows[c]
                     /\ pg'.width[c] = IF pg.width[c] = 0 THEN request[r].width ELSE pg.width[c]
                  \/ PgWrites(r) /\ pg'.width[c] = pg.width[c] /\ pg'.rows[c] = Merged(pg.rows[c], call[r].rows)
                  \/ PgRemoves(r) /\ pg'.width[c] \in {0, pg.width[c]} /\ pg'.rows[c] \subseteq pg.rows[c]
                     /\ (pg'.width[c] = 0 => pg'.rows[c] = {} \/ pg.width[c] = 0)
<1>1. CASE UNCHANGED pg /\ Looks(r)
  BY <1>1 DEF IInv, Stored
<1>2. CASE PgInserts(r)
  BY <1>2 DEF IInv, Stored, Asks, PgInserts
<1>3. CASE PgWrites(r)
  BY <1>3 DEF IInv, Stored, Asks, PgWrites
<1>4. CASE PgRemoves(r)
  <2>1. CASE \E gone : pg' = [pg EXCEPT !.rows[Coll(r)] = @ \ gone]
    BY <1>4, <2>1 DEF IInv, Stored, Asks
  <2>2. CASE pg' = [pg EXCEPT !.width[Coll(r)] = 0, !.rows[Coll(r)] = {}]
    BY <1>4, <2>2 DEF IInv, Stored, Asks
  <2> QED  BY <1>4, <2>1, <2>2 DEF PgRemoves
<1> QED  BY <1>1, <1>2, <1>3, <1>4 DEF Answers

\* And to the collections of Qdrant.
LEMMA QdCollections ==
    ASSUME IInv, NEW r \in Requests, Answers(r)
    PROVE  /\ DOMAIN qd' = DOMAIN qd /\ DOMAIN qd'.width = Collections /\ DOMAIN qd'.rows = Collections
           /\ \A c \in Collections \ {Coll(r)} : qd'.width[c] = qd.width[c] /\ qd'.rows[c] = qd.rows[c]
           /\ LET c == Coll(r)
              IN  \/ qd'.width[c] = qd.width[c] /\ qd'.rows[c] \subseteq qd.rows[c]
                  \/ qd.width[c] = 0 /\ qd'.width[c] = request[r].width /\ qd'.rows[c] = qd.rows[c]
                  \/ /\ qd.width[c] = request[r].width /\ qd'.width[c] = qd.width[c]
                     /\ qd'.rows[c] = Merged(qd.rows[c], call[r].rows)
                  \/ qd'.rows[c] = {}
<1>1. CASE UNCHANGED qd
  BY <1>1 DEF IInv, Stored
<1>2. CASE QdCreates(r)
  BY <1>2 DEF IInv, Stored, Asks, QdCreates, QdMissing
<1>3. CASE QdWrites(r)
  BY <1>3 DEF IInv, Stored, Asks, QdWrites
<1>4. CASE QdRemoves(r)
  <2>1. CASE \E gone : qd' = [qd EXCEPT !.rows[Coll(r)] = @ \ gone]
    BY <2>1 DEF IInv, Stored, Asks
  <2>2. CASE qd' = [qd EXCEPT !.width[Coll(r)] = 0, !.rows[Coll(r)] = {}]
    BY <2>2 DEF IInv, Stored, Asks
  <2> QED  BY <1>4, <2>1, <2>2 DEF QdRemoves
<1> QED  BY <1>1, <1>2, <1>3, <1>4 DEF Answers

\* Who works on the collection of another one that is under way has met it.
LEMMA Overlap ==
    ASSUME Company, NEW r \in Requests, NEW q \in Requests, r # q, InFlight(r), InFlight(q), Same(r, q)
    PROVE  Overlapped(r) /\ Overlapped(q)
BY DEF Company, Overlapped, Together, Same

\* A collection gets the width of who ensured it, and changes only under a request that is not alone.
LEMMA AnswersKeepEnsuring ==
    ASSUME IInv, NEW r \in Requests, Answers(r), UNCHANGED fixed PROVE Ensuring'
<1> USE DEF IInv
<1>0. phase' = phase /\ met' = met /\ InFlight(r) /\ phase[r] # "idle"
  BY DEF Answers, Moves, served, InFlight, Waiting, Company, NoCall
<1>o. \A q : Overlapped(q) => Overlapped(q)'
  BY <1>0, MeetingsStay
<1> SUFFICES ASSUME NEW q \in Requests, call'[q].via = "pgvector"
             PROVE  /\ call'[q].op = "ensure" /\ call'[q].step = "insert" => pg'.width[Coll(q)] = 0 \/ Agreed(q)'
                    /\ phase[q] = "ensure" /\ call'[q].step = "answered" /\ call'[q].out.ok => Agreed(q)'
                    /\ call'[q].op = "upsert" /\ (call'[q].step # "answered" \/ phase[q] \in {"upsert", "next"})
                         => Agreed(q)'
  BY <1>0, PlayStays DEF Ensuring, Out
<1>1. CASE q # r
  <2>1. call'[q] = call[q]
    BY <1>1 DEF Answers, Moves
  <2>2. CASE ~Same(r, q)
    <3>1. pg'.width[Coll(q)] = pg.width[Coll(q)]
      BY <2>2, PgTables DEF Same, Coll, Asks
    <3>2. Agreed(q) => Agreed(q)'
      BY <3>1, <1>o, PlayStays DEF Agreed, Fits
    <3> QED  BY <2>1, <3>1, <3>2 DEF Ensuring, Out
  <2>3. CASE Same(r, q)
    <3>1. InFlight(q) => Agreed(q)'
      BY <1>0, <1>1, <1>o, <2>3, Overlap DEF Agreed
    <3> QED  BY <2>1, <3>1 DEF InFlight
  <2> QED  BY <2>2, <2>3
<1>2. CASE q = r
  <2>1. call[r].via = "pgvector" /\ call'[r].op = call[r].op
    BY <1>2 DEF Answers, Moves
  <2>2. phase[r] = "ensure" => call[r].op = "ensure"
    BY DEF Calls, Waits
  <2>3. CASE UNCHANGED pg /\ Looks(r)
    <3>1. Agreed(r) => Agreed(r)'
      BY <1>o, <2>3, PlayStays DEF Agreed, Fits
    <3>2. pg.width[Coll(r)] = request[r].width => Agreed(r)'
      BY <3>1 DEF Agreed, Fits
    <3> QED  BY <1>2, <2>1, <2>2, <2>3, <3>1, <3>2 DEF Ensuring, Looks
  <2>4. CASE PgInserts(r)
    <3>1. At(r, "pgvector", "ensure", "insert") /\ call'[r].step = "answered"
      BY <2>4 DEF PgInserts
    <3>2. pg'.width[Coll(r)] = IF pg.width[Coll(r)] = 0 THEN request[r].width ELSE pg.width[Coll(r)]
      BY <2>4 DEF Stored, Asks, PgInserts
    <3>3. pg.width[Coll(r)] = 0 \/ Agreed(r)
      BY <3>1 DEF Ensuring, At
    <3>4. Agreed(r)'
      BY <1>o, <3>2, <3>3, PlayStays DEF Agreed, Fits
    <3> QED  BY <1>2, <3>4
  <2>5. CASE PgWrites(r)
    <3>1. pg'.width[Coll(r)] = pg.width[Coll(r)] /\ call[r].op = "upsert" /\ call[r].step # "answered"
      BY <2>5 DEF PgWrites, At, Stored, Asks
    <3>2. Agreed(r)'
      BY <1>o, <2>1, <3>1, PlayStays DEF Ensuring, Agreed, Fits
    <3> QED  BY <1>2, <2>1, <2>2, <3>1, <3>2
  <2>6. CASE PgRemoves(r)
    BY <1>2, <2>1, <2>2, <2>6 DEF PgRemoves
  <2> QED  BY <2>3, <2>4, <2>5, <2>6 DEF Answers
<1> QED  BY <1>1, <1>2

\* Records come to a collection of their width, or of one that had company.
LEMMA AnswersKeepStored ==
    ASSUME IInv, NEW r \in Requests, Answers(r), UNCHANGED fixed PROVE Stored'
<1> USE DEF IInv
<1>0. met' = met
  BY DEF Answers
<1>s. \A c : Stray(c) => Stray(c)'
  BY <1>0, MeetingsStay
<1>w. request[r].width \in Nat \ {0} /\ \A x \in call[r].rows : x.width = request[r].width
  BY DEF Asks, Calls
<1> SUFFICES ASSUME NEW c \in Collections
             PROVE  /\ pg'.width[c] # 0 => pg'.schema
                    /\ pg'.width[c] = 0 => pg'.rows[c] = {}
                    /\ \A x \in pg'.rows[c] : x.width # pg'.width[c] => Stray(c)'
                    /\ qd'.width[c] = 0 => qd'.rows[c] = {}
                    /\ \A x \in qd'.rows[c] : x.width = qd'.width[c]
  BY PgTables, QdCollections DEF Stored
<1>1. CASE c # Coll(r)
  BY <1>1, <1>s, PgTables, QdCollections DEF Stored
<1>2. CASE c = Coll(r)
  <2>q. /\ qd'.width[c] = 0 => qd'.rows[c] = {}
        /\ \A x \in qd'.rows[c] : x.width = qd'.width[c]
    BY <1>2, <1>w, QdCollections DEF Stored, Merged
  <2>0. /\ pg.width[c] # 0 => pg.schema
        /\ pg.width[c] = 0 => pg.rows[c] = {}
        /\ \A x \in pg.rows[c] : x.width # pg.width[c] => Stray(c)'
        /\ pg.schema => pg'.schema
    BY <1>s, PgTables DEF Stored
  <2>1. pg'.width[c] = pg.width[c] /\ pg'.rows[c] = pg.rows[c] =>
           /\ pg'.width[c] # 0 => pg'.schema
           /\ pg'.width[c] = 0 => pg'.rows[c] = {}
           /\ \A x \in pg'.rows[c] : x.width # pg'.width[c] => Stray(c)'
    BY <2>0
  <2>2. CASE /\ PgInserts(r) /\ pg'.schema /\ pg'.rows[c] = pg.rows[c]
             /\ pg'.width[c] = IF pg.width[c] = 0 THEN request[r].width ELSE pg.width[c]
    BY <1>w, <2>q, <2>0, <2>2
  <2>3. CASE PgWrites(r) /\ pg'.width[c] = pg.width[c] /\ pg'.rows[c] = Merged(pg.rows[c], call[r].rows)
    <3>1. pg.width[c] # 0 /\ call[r].op = "upsert" /\ call[r].via = "pgvector" /\ call[r].step # "answered"
      BY <1>2, <2>3 DEF PgWrites, At
    <3>2. Fits(r) \/ Overlapped(r)
      BY <3>1 DEF Ensuring, Agreed
    <3>3. Overlapped(r) => Stray(c)
      BY <1>2 DEF Overlapped, Stray, Coll
    <3>4. \A x \in call[r].rows : x.width # pg'.width[c] => Stray(c)'
      BY <1>2, <1>s, <1>w, <2>3, <3>2, <3>3 DEF Fits
    <3>5. pg.schema /\ pg'.schema
      BY <2>0, <3>1
    <3>6. \A x \in pg'.rows[c] : x \in pg.rows[c] \/ x \in call[r].rows
      BY <2>3 DEF Merged
    <3> QED  BY <2>q, <2>0, <2>3, <3>1, <3>4, <3>5, <3>6
  <2>4. CASE /\ PgRemoves(r) /\ pg'.width[c] \in {0, pg.width[c]} /\ pg'.rows[c] \subseteq pg.rows[c]
             /\ (pg'.width[c] = 0 => pg'.rows[c] = {} \/ pg.width[c] = 0)
    BY <2>q, <2>0, <2>4
  <2> QED  BY <1>2, <2>q, <2>1, <2>2, <2>3, <2>4, PgTables
<1> QED  BY <1>1, <1>2

\* A store knows nothing of the application and its registries.
LEMMA AnswersKeepRest ==
    ASSUME IInv, NEW r \in Requests, Answers(r), UNCHANGED fixed PROVE Alive' /\ Kept'
<1>1. UNCHANGED <<life, starts, opened, admins, phase, clients, registry>>
  BY DEF Answers, served, lived
<1>2. Alive'
  BY <1>1, PlayStays DEF IInv, Alive
<1>3. Kept'
  BY <1>1, PlayStays DEF IInv, Kept
<1> QED  BY <1>2, <1>3

-----------------------------------------------------------------------------
(* The steps of the service *)

\* A request that moves was under way.
LEMMA ServesKeepCompany ==
    ASSUME IInv, NEW r \in Requests, Serves(r), met' = met PROVE Company'
<1> USE DEF IInv
<1>1. PICK p : /\ phase' = [phase EXCEPT ![r] = p] /\ p # "idle"
               /\ Rests(r, p) \/ Forgets(r, p) \/ Calling(r, p) \/ (p = "ended" /\ Gives(r))
  BY DEF Serves
<1>2. \A q \in Requests \ {r} : call'[q] = call[q] /\ phase'[q] = phase[q]
  BY <1>1 DEF Rests, Forgets, Calling, Gives, Calls
<1>3. phase'[r] # "idle" /\ InFlight(r)
  BY <1>1 DEF Serves, InFlight, Calls
<1>4. \A q \in Requests : InFlight(q)' => InFlight(q)
  BY <1>2, <1>3 DEF InFlight
<1> QED  BY <1>2, <1>3, <1>4 DEF Company, Together

\* It waits for what it asked of its store.
LEMMA ServesKeepCalls ==
    ASSUME IInv, NEW r \in Requests, Serves(r), UNCHANGED fixed PROVE Calls'
<1> USE DEF IInv
<1>1. PICK p : /\ phase' = [phase EXCEPT ![r] = p] /\ p # "idle"
               /\ Rests(r, p) \/ Forgets(r, p) \/ Calling(r, p) \/ (p = "ended" /\ Gives(r))
  BY DEF Serves
<1>2. /\ call' = [q \in Requests |-> call'[q]] /\ phase' = [q \in Requests |-> phase'[q]]
      /\ \A q \in Requests \ {r} : call'[q] = call[q] /\ phase'[q] = phase[q]
      /\ phase'[r] = p
  BY <1>1 DEF Rests, Forgets, Calling, Gives, Calls
<1>3. /\ DOMAIN call'[r] = DOMAIN NoCall
      /\ \A x \in call'[r].rows : x.width = request[r].width
      /\ p \in Early => call'[r] = NoCall
      /\ p \in {"lookup", "ensure", "upsert"} => call'[r].op = p /\ call'[r].via = Via(r)
      /\ p = "next" => call'[r].op = "upsert" /\ call'[r].via = Via(r) /\ call'[r].step = "answered" /\ call'[r].out.ok
  <2>1. CASE Rests(r, p)
    BY <2>1 DEF Rests, Calls, Waits, Out, Early
  <2>2. CASE Forgets(r, p)
    BY <2>2 DEF Forgets, Calls, NoCall, Early
  <2>3. CASE Calling(r, p)
    <3>1. PICK op, rows, memo : /\ call' = [call EXCEPT ![r] = Asked(op, Via(r), rows, memo)]
                                /\ \A x \in rows : x.width = request[r].width
                                /\ (p = op /\ op \in {"lookup", "ensure", "upsert"}) \/ p = "answer"
      BY <2>3 DEF Calling
    <3>2. /\ call'[r].op = op /\ call'[r].via = Via(r) /\ call'[r].rows = rows
          /\ DOMAIN call'[r] = DOMAIN NoCall
      BY <3>1 DEF Calls, Asked, NoCall
    <3> QED  BY <3>1, <3>2 DEF Early
  <2>4. CASE p = "ended" /\ Gives(r)
    BY <2>4 DEF Gives, Calls, NoCall, Early
  <2> QED  BY <1>1, <2>1, <2>2, <2>3, <2>4
<1>4. \A q \in Requests : Via(q)' = Via(q)
  BY ViaStays
<1> QED  BY <1>2, <1>3, <1>4, PlayStays DEF Calls, Waits, Out, Early

\* It writes to PostgreSQL when the ensure succeeded.
LEMMA ServesKeepEnsuring ==
    ASSUME IInv, NEW r \in Requests, Serves(r), UNCHANGED fixed, met' = met PROVE Ensuring'
<1> USE DEF IInv
<1>1. PICK p : /\ phase' = [phase EXCEPT ![r] = p] /\ p # "idle"
               /\ Rests(r, p) \/ Forgets(r, p) \/ Calling(r, p) \/ (p = "ended" /\ Gives(r))
  BY DEF Serves
<1>2. pg' = pg
  BY DEF Serves, stores
<1>3. \A q \in Requests : Agreed(q)' <=> Agreed(q)
  BY <1>2, PlayStays DEF Agreed, Fits, Overlapped, Together
<1>4. \A q \in Requests \ {r} : call'[q] = call[q] /\ phase'[q] = phase[q]
  BY <1>1 DEF Rests, Forgets, Calling, Gives, Calls
<1>5. phase'[r] = p
  BY <1>1 DEF Calls
<1> DEFINE Fine(q) == call'[q].via = "pgvector" =>
               /\ call'[q].op = "ensure" /\ call'[q].step = "insert" => pg.width[Coll(q)] = 0 \/ Agreed(q)
               /\ phase'[q] = "ensure" /\ call'[q].step = "answered" /\ call'[q].out.ok => Agreed(q)
               /\ call'[q].op = "upsert" /\ (call'[q].step # "answered" \/ phase'[q] \in {"upsert", "next"}) => Agreed(q)
<1>6. \A q \in Requests \ {r} : Fine(q)
  BY <1>4 DEF Ensuring, Out
<1>7. Fine(r)
  <2>1. CASE Rests(r, p)
    BY <1>5, <2>1 DEF Rests, Ensuring, Early
  <2>2. CASE Forgets(r, p)
    BY <1>5, <2>2 DEF Forgets, Calls, NoCall
  <2>3. CASE Calling(r, p)
    <3>1. PICK op, rows, memo : /\ call' = [call EXCEPT ![r] = Asked(op, Via(r), rows, memo)]
                                /\ op = "upsert" /\ Via(r) = "pgvector" => Agreed(r)
      BY <2>3 DEF Calling
    <3>2. call'[r].op = op /\ call'[r].via = Via(r) /\ call'[r].step = "start"
      BY <3>1 DEF Calls, Asked, NoCall
    <3> QED  BY <3>1, <3>2
  <2>4. CASE p = "ended" /\ Gives(r)
    BY <1>5, <2>4 DEF Gives, Calls, NoCall
  <2> QED  BY <1>1, <2>1, <2>2, <2>3, <2>4
<1>8. \A q \in Requests : Fine(q)
  BY <1>6, <1>7
<1> HIDE DEF Fine
<1>9. \A q \in Requests : Coll(q)' = Coll(q) /\ (Out(q).ok)' = call'[q].out.ok
  BY PlayStays DEF Out
<1> QED  BY <1>2, <1>3, <1>8, <1>9 DEF Ensuring, Fine

\* The service does not touch the stores.
LEMMA ServesKeepStored ==
    ASSUME IInv, NEW r \in Requests, Serves(r), UNCHANGED fixed, met' = met PROVE Stored'
<1>1. UNCHANGED <<pg, qd>>
  BY DEF Serves, stores
<1>2. \A c : Stray(c) => Stray(c)'
  BY MeetingsStay
<1> QED  BY <1>1, <1>2 DEF IInv, Stored

\* Clients are opened for an answer, and closed with it; discovery is run by whoever waits for it.
LEMMA ServesKeepKept ==
    ASSUME IInv, NEW r \in Requests, Serves(r), UNCHANGED fixed PROVE Kept'
<1> USE DEF IInv
<1>1. PICK p : /\ phase' = [phase EXCEPT ![r] = p]
               /\ r \in clients' => request[r].kind = "ingest" \/ p = "answer" \/ (r \in clients /\ phase[r] # "answer")
               /\ \/ registry' = registry /\ (phase[r] = "registry" => registry["runtime"].loader # r)
                  \/ p = phase[r] /\ \E id \in Registries :
                       EnsureDiscovered(r, id) /\ (id = "runtime" => phase[r] = "registry")
  BY DEF Serves
<1>2. phase'[r] = p /\ \A q \in Requests \ {r} : phase'[q] = phase[q]
  BY <1>1 DEF Calls
<1>3. \A q \in clients' : request[q].kind # "ingest" => phase'[q] = "answer"
  BY <1>1, <1>2 DEF Kept, Serves
<1>4. CASE registry' = registry /\ (phase[r] = "registry" => registry["runtime"].loader # r)
  BY <1>2, <1>3, <1>4, PlayStays DEF Kept
<1>5. CASE p = phase[r] /\ \E id \in Registries :
             EnsureDiscovered(r, id) /\ (id = "runtime" => phase[r] = "registry")
  <2>1. PICK id \in Registries : EnsureDiscovered(r, id) /\ (id = "runtime" => phase[r] = "registry")
    BY <1>5
  <2>2. /\ DOMAIN registry' = Registries
        /\ \A i \in Registries : DOMAIN registry'[i] = {"started", "loader", "todo", "loaded"}
        /\ \A i \in Registries \ {id} : registry'[i] = registry[i]
        /\ registry'[id].loader \in {None, r, registry[id].loader}
    BY <2>1 DEF Kept, EnsureDiscovered, Start, LoadEntry
  <2>3. \A q \in Requests : registry'["runtime"].loader = q => phase'[q] = "registry"
    BY <1>2, <1>5, <2>1, <2>2, RequestAssumption DEF Kept, Registries
  <2> QED  BY <1>3, <2>2, <2>3, PlayStays DEF Kept
<1> QED  BY <1>1, <1>4, <1>5

\* The engine is opened by a request of the server, which is up.
LEMMA ServesKeepAlive ==
    ASSUME IInv, NEW r \in Requests, Serves(r), UNCHANGED <<fixed, life, starts, admins>>,
           opened' = opened \/ (jobs' # jobs /\ opened' = opened \cup {"engine"})
    PROVE  Alive'
<1> USE DEF IInv
<1>1. PICK p : phase' = [phase EXCEPT ![r] = p]
  BY DEF Serves
<1>2. \A q \in Requests \ {r} : phase'[q] = phase[q]
  BY <1>1 DEF Calls
<1>3. InServer(r) => life = "up"
  BY DEF Serves, Alive
<1>4. opened' # {} => life = "up"
  BY <1>3 DEF Serves, Alive
<1> QED  BY <1>2, <1>3, <1>4, PlayStays DEF Alive

\* A step of the service, or a client that leaves.
LEMMA ServeKeeps ==
    ASSUME IInv, NEW r \in Requests, Serve(r) \/ Leave(r), UNCHANGED fixed PROVE IInv'
<1>1. Serves(r) /\ UNCHANGED <<life, starts, admins, met>>
  BY ProgressServes, DisconnectServes DEF Serve, Leave, lived
<1>2. opened' = opened \/ (jobs' # jobs /\ opened' = opened \cup {"engine"})
  BY DEF Serve, Leave, lived
<1>3. Asks'
  BY AsksStay DEF IInv
<1> QED  BY <1>1, <1>2, <1>3, ServesKeepCompany, ServesKeepCalls, ServesKeepEnsuring, ServesKeepStored,
            ServesKeepKept, ServesKeepAlive DEF IInv

\* A step of a store, or a connection that is lost.
LEMMA StoreKeeps ==
    ASSUME IInv, NEW r \in Requests, Store(r) \/ Lose(r), UNCHANGED fixed PROVE IInv'
<1>1. Answers(r)
  BY StoreAnswers, LoseAnswers
<1>2. Asks'
  BY AsksStay DEF IInv
<1> QED  BY <1>1, <1>2, AnswersKeepCalls, AnswersKeepEnsuring, AnswersKeepStored, AnswersKeepRest DEF IInv

-----------------------------------------------------------------------------
(* The other steps *)

\* A request that arrives meets everyone who is there.
LEMMA ArriveKeeps == ASSUME IInv, NEW r \in Requests, Arrive(r), UNCHANGED fixed PROVE IInv'
<1> USE DEF IInv
<1>1. /\ phase[r] = "idle" /\ (InServer(r) => life = "up")
      /\ UNCHANGED <<lived, clients, registry, pg, qd, call>>
      /\ met' = met \cup {{r, q} : q \in {q \in Requests \ {r} : InFlight(q)}}
      /\ \E p \in {"resolve", "tool", "compose"} : phase' = [phase EXCEPT ![r] = p]
  BY DEF Arrive, Begin, Go, InServer, backends, stores
<1>2. /\ phase' = [q \in Requests |-> phase'[q]] /\ phase'[r] \in {"resolve", "tool", "compose"}
      /\ \A q \in Requests \ {r} : phase'[q] = phase[q]
  BY <1>1 DEF Calls
<1>3. call[r] = NoCall
  BY <1>1 DEF Company
<1>4. /\ \A q : Overlapped(q) => Overlapped(q)'
      /\ \A c : Stray(c) => Stray(c)'
  BY <1>1, MeetingsStay
<1>5. Asks'
  BY AsksStay
<1>6. Alive'
  BY <1>1, <1>2, PlayStays DEF Alive, lived
<1>7. Company'
  <2>1. \A q \in Requests \ {r} : InFlight(q)' <=> InFlight(q)
    BY <1>1, <1>2 DEF InFlight
  <2>2. \A q \in Requests \ {r} : InFlight(q) => Together(r, q)' /\ Together(q, r)'
    BY <1>1 DEF Together
  <2>3. \A p, q \in Requests : Together(p, q) => Together(p, q)'
    BY <1>1 DEF Together
  <2> QED  BY <1>1, <1>2, <2>1, <2>2, <2>3 DEF Company
<1>8. Calls'
  BY <1>1, <1>2, <1>3, PlayStays, ViaStays DEF Calls, Waits, Out
<1>9. Ensuring'
  <2>1. \A q \in Requests : Agreed(q) => Agreed(q)'
    BY <1>1, <1>4, PlayStays DEF Agreed, Fits
  <2> QED  BY <1>1, <1>2, <2>1, PlayStays DEF Ensuring, Out
<1>10. Stored'
  BY <1>1, <1>4 DEF Stored
<1>11. Kept'
  BY <1>1, <1>2, PlayStays DEF Kept
<1> QED  BY <1>5, <1>6, <1>7, <1>8, <1>9, <1>10, <1>11

\* The application starts and stops, a source changes or an entry of the cache expires.
LEMMA RestKeeps ==
    ASSUME IInv, UNCHANGED fixed, UNCHANGED <<pg, qd, call, registry, phase, clients, met>>,
           LifeCycle \/ UNCHANGED lived
    PROVE  IInv'
<1> USE DEF IInv
<1>1. Asks'
  BY AsksStay
<1>2. /\ \A q : Overlapped(q)' <=> Overlapped(q)
      /\ \A c : Stray(c)' <=> Stray(c)
      /\ \A p, q : Together(p, q)' <=> Together(p, q)
      /\ \A q \in Requests : InFlight(q)' <=> InFlight(q)
  BY PlayStays DEF Overlapped, Stray, Together, InFlight
<1>3. Company' /\ Calls'
  BY <1>2, PlayStays, ViaStays DEF Company, Calls, Waits, Out
<1>4. Ensuring'
  BY <1>2, PlayStays DEF Ensuring, Agreed, Fits, Out
<1>5. Stored' /\ Kept'
  BY <1>2, PlayStays DEF Stored, Kept
<1>6. Alive'
  <2>1. CASE CreateApp
    BY <2>1, PlayStays DEF CreateApp, Alive, Lives
  <2>2. CASE Startup
    <3>0. starts \in Nat /\ opened = {} /\ starts' = starts + 1 /\ admins \in {0, 1}
      BY <2>2 DEF Startup, Alive
    <3>1. \/ life' = "broken" /\ UNCHANGED <<opened, admins>>
          \/ life' = "up" /\ starts = 0 /\ admins' = IF site.db = "migrate" THEN Seeded(admins) ELSE admins
      <4>1. CASE ~Startable \/ starts > 0
        BY <2>2, <4>1 DEF Startup
      <4>2. CASE Startable /\ ~(starts > 0)
        <5>1. starts = 0
          BY <3>0, <4>2
        <5> QED  BY <2>2, <4>2, <5>1 DEF Startup
      <4> QED  BY <4>1, <4>2
    <3>2. /\ life' \in Lives /\ starts' \in Nat /\ admins' \in {0, 1} /\ (opened' # {} => life' = "up")
          /\ life' = "up" => starts' = 1 /\ (site.db = "migrate" => admins' = 1)
      BY <3>0, <3>1 DEF Lives, Seeded
    <3>3. \A q \in Requests : ~(InServer(q) /\ phase[q] \notin {"idle", "ended"})
      BY <2>2 DEF Startup, Alive
    <3> QED  BY <2>2, <3>2, <3>3, PlayStays DEF Startup, Alive
  <2>3. CASE Shutdown
    BY <2>3, PlayStays DEF Shutdown, Alive, Lives
  <2>4. CASE UNCHANGED lived
    BY <2>4, PlayStays DEF lived, Alive
  <2> QED  BY <2>1, <2>2, <2>3, <2>4 DEF LifeCycle
<1> QED  BY <1>1, <1>3, <1>4, <1>5, <1>6

\* Every step keeps the invariant.
LEMMA NextIInv == ASSUME IInv, [Next]_vars PROVE IInv'
<1>1. UNCHANGED fixed
  BY DEF Next, vars
<1>2. CASE LifeCycle
  BY <1>1, <1>2, RestKeeps DEF LifeCycle, backends, stores, served
<1>3. CASE Changes
  BY <1>1, <1>3, RestKeeps DEF Changes, Edit, backends, stores
<1>4. CASE UNCHANGED vars
  BY <1>1, <1>4, RestKeeps DEF vars, backends, stores, served
<1>5. CASE \E r \in Requests : Arrive(r) \/ Serve(r) \/ Store(r) \/ Lose(r) \/ Leave(r)
  BY <1>1, <1>5, ArriveKeeps, ServeKeeps, StoreKeeps
<1> QED  BY <1>2, <1>3, <1>4, <1>5 DEF Next

\* What the process holds and what the stores hold: the application is up once, and only
\* then is anything of it open; a client of Qdrant outlives its request after an ingest
\* only; and records have a collection, of their width, but for those of PostgreSQL whose
\* collection was made or dropped while they were on their way.
THEOREM PlatformInvariant == Spec => []PlatformInv
<1>1. IInv => PlatformInv
  <2> SUFFICES ASSUME IInv PROVE PlatformInv
    OBVIOUS
  <2>1. /\ life \in {"new", "created", "up", "stopped", "broken"}
        /\ life = "up" => starts = 1
        /\ opened # {} => life = "up"
        /\ admins \in {0, 1} /\ (life = "up" /\ site.db = "migrate" => admins = 1)
    BY DEF IInv, Alive, Lives
  <2>2. \A c \in Collections :
          /\ pg.rows[c] # {} => pg.schema /\ pg.width[c] # 0
          /\ \A x \in pg.rows[c] : x.width # pg.width[c] => Stray(c)
          /\ \A x \in qd.rows[c] : x.width = qd.width[c]
    BY DEF IInv, Stored
  <2>3. /\ \A r \in clients : request[r].kind # "ingest" => phase[r] = "answer"
        /\ \A r \in Requests : registry["runtime"].loader = r => phase[r] = "registry"
    BY DEF IInv, Kept
  <2> QED  BY <2>1, <2>2, <2>3 DEF PlatformInv, Stray
<1>2. IInv /\ [Next]_vars => IInv'
  BY NextIInv
<1> QED  BY <1>1, <1>2, InitIInv, PTL DEF Spec

-----------------------------------------------------------------------------
(* What becomes of a call, and what is written, deleted and read: the second *)
(* invariant, from which the replies follow.                                 *)

\* The way of a request, and that it asks no store that refuses it.
Course ==
    \A r \in Requests :
        /\ phase[r] \in {"resolve", "registry", "parsing", "store", "parsed"} =>
             request[r].kind \in {"ingest", "parse"}
        /\ phase[r] = "tool" => request[r].kind = "tool"
        /\ phase[r] \in {"lookup", "encode", "ensure", "upsert", "next", "finish", "record"} =>
             request[r].kind = "ingest" /\ Refusal(r) = None
        /\ phase[r] = "answer" => request[r].kind # "ingest" /\ call[r].op = request[r].kind
        /\ call[r] = NoCall \/ (Refusal(r) = None /\ call[r].via = Via(r))
        /\ call[r].op \in {"lookup", "ensure", "upsert"} => request[r].kind = "ingest"
        /\ phase[r] \in {"next", "finish", "record"} => call[r].rows \subseteq accepted[r]

\* What an operation is called when it is done; who has acted has its answer, or sends
\* another batch, and who writes no batches acts once.
Doing == [upsert |-> "wrote", delete |-> "deleted", drop |-> "dropped", list |-> "listed", search |-> "searched"]
History ==
    /\ \E S : effects \in Seq(S)
    /\ \A i \in DOMAIN effects :
         LET q == effects[i].by
         IN  /\ q \in Requests /\ call[q].op \in DOMAIN Doing
             /\ call[q].step = "answered" \/ call[q].op = "upsert"
             /\ effects[i].what = Doing[call[q].op] /\ effects[i].via = call[q].via
    /\ \A r \in Requests : call[r].op # "upsert" => \A i, j \in Acts(r) : i = j

\* The tables of LangChain and the directories of the old TurboVec.
Shelves ==
    /\ DOMAIN lc = {"tables", "rows"} /\ DOMAIN lc.rows = Collections
    /\ tv = [c \in Collections |-> tv[c]] /\ \A c \in Collections : DOMAIN tv[c] = {"format", "rows"}

\* The variables of the requests are functions of them.
Listed ==
    /\ hash = [r \in Requests |-> hash[r]] /\ doc = [r \in Requests |-> doc[r]]
    /\ accepted = [r \in Requests |-> accepted[r]]
    /\ reply = [r \in Requests |-> reply[r]] /\ \A r \in Requests : DOMAIN reply[r] = {"status", "n", "list"}

-----------------------------------------------------------------------------
(* The steps of the service *)

\* What is said of a request is a reply.
Rewords(r) == reply' = [reply EXCEPT ![r] = reply'[r]] /\ DOMAIN reply'[r] = {"status", "n", "list"}

\* What the store confirmed is the batch that was sent; the graph comes after all of them.
Turns(r, p, q) == phase[r] = p /\ phase'[r] = q
Accepts(r) ==
    /\ Turns(r, "upsert", "finish") \/ Turns(r, "upsert", "next")
    /\ call[r].step = "answered" /\ Out(r).ok
    /\ accepted' = [accepted EXCEPT ![r] = @ \cup call[r].rows]
Draws(r) ==
    /\ Turns(r, "finish", "record")
    /\ graph' = IF Q(r).graph = "directory" /\ doc[r] # "blank" THEN graph \cup {<<r, doc[r]>>} ELSE graph

\* Nothing but its own request changes.
Apart(r) ==
    /\ phase' = [phase EXCEPT ![r] = phase'[r]] /\ call' = [call EXCEPT ![r] = call'[r]]
    /\ hash' = [hash EXCEPT ![r] = hash'[r]] /\ doc' = [doc EXCEPT ![r] = doc'[r]]
    /\ Rewords(r)
    /\ accepted' = accepted \/ Accepts(r)
    /\ graph' = graph \/ Draws(r)
    /\ UNCHANGED <<stores, effects>>

Unasked == {"resolve", "tool", "registry", "parsing", "store", "parsed", "compose", "encode"}
Unsaid(r)        == UNCHANGED <<call, hash, doc>>
Success(r)       == reply'[r].status \in {"200", "done"}

\* It gets nearer to its store, or is refused on its way.
Nears(r) ==
    /\ phase[r] \in Unasked /\ phase'[r] \in Unasked /\ call' = call /\ hash' = hash
    /\ phase'[r] = "encode" => phase[r] \in {"compose", "encode"} /\ request[r].kind = "ingest" /\ Refusal(r) = None
    /\ phase'[r] \in {"registry", "parsing", "store", "parsed"} => request[r].kind \in {"ingest", "parse"}
    /\ phase'[r] \in {"resolve", "tool"} => phase[r] = phase'[r]
EndsEarly(r) ==
    /\ phase[r] \in Unasked /\ phase'[r] = "ended" /\ Unsaid(r)
    /\ Success(r) => request[r].kind \in {"parse", "tool"}

\* It asks its store for an operation,
AsksFor(r, p, q, op, rows, memo) ==
    /\ Turns(r, p, q) /\ call' = [call EXCEPT ![r] = Asked(op, Via(r), rows, memo)] /\ doc' = doc
AsksFirst(r) ==
    /\ Refusal(r) = None
    /\ \/ /\ request[r].kind # "ingest" /\ AsksFor(r, "compose", "answer", request[r].kind, {}, None) /\ hash' = hash
       \/ /\ request[r].kind = "ingest" /\ AsksFor(r, "compose", "lookup", "lookup", {}, hash'[r]) /\ Asking(r)
AsksAgain(r) ==
    /\ hash' = hash
    /\ \/ AsksFor(r, "encode", "ensure", "ensure", {}, None)
       \/ \E p \in {"encode", "ensure", "next"} : AsksFor(r, p, "upsert", "upsert", Batch(r), None)

\* or learns its answer.
Learns(r) ==
    /\ call' = [call EXCEPT ![r] = NoCall] /\ UNCHANGED <<hash, doc>>
    /\ \/ phase[r] \in {"lookup", "ensure"} /\ phase'[r] = "ended" /\ ~Success(r)
       \/ Turns(r, "lookup", "encode")
       \/ Turns(r, "lookup", "finish") /\ call[r].step = "answered" /\ Out(r).ok /\ Out(r).n > 0
Finishes(r) ==
    /\ Unsaid(r)
    /\ \/ Turns(r, "compose", "finish") /\ request[r].kind = "ingest" /\ Ids(r) = {} /\ Refusal(r) = None
       \/ Turns(r, "upsert", "finish") /\ Accepts(r) /\ Rows(r, hash[r]) \subseteq accepted'[r]
       \/ Turns(r, "upsert", "next") /\ Accepts(r)
       \/ Turns(r, "upsert", "ended") /\ call[r].step = "answered" /\ ~Out(r).ok /\ ~Success(r)
       \/ Turns(r, "next", "ended") /\ ~Success(r)
       \/ Draws(r)
       \/ Turns(r, "finish", "ended") /\ Q(r).graph # "none" /\ ~Success(r)
       \/ Turns(r, "record", "ended") /\ Success(r) /\ reply'[r].n = Cardinality(accepted[r])
       \/ /\ Turns(r, "answer", "ended") /\ call[r].step = "answered"
          /\ Success(r) => Out(r).ok /\ reply'[r].n = Out(r).n /\ reply'[r].list = Out(r).list
\* Its client leaves.
Leaves(r) ==
    /\ phase[r] \in Unasked \cup {"lookup", "ensure", "upsert", "next"} /\ phase[r] # "tool"
    /\ phase'[r] = "ended" /\ reply'[r].status = "closed" /\ UNCHANGED <<hash, doc>>
    /\ call' = call \/ (Gives(r) /\ call[r].step # "answered")

Proceeds(r) ==
    /\ Apart(r)
    /\ \/ Nears(r) \/ EndsEarly(r) \/ AsksFirst(r) \/ AsksAgain(r) \/ Learns(r) \/ Finishes(r) \/ Leaves(r)

\* What a reply says.
LEMMA Says ==
    ASSUME Listed, Calls, NEW r \in Requests, NEW s, NEW n, NEW list, Reply(r, s, n, list)
    PROVE  /\ phase' = [phase EXCEPT ![r] = phase'[r]] /\ phase'[r] = "ended"
           /\ Rewords(r) /\ reply'[r].n = n /\ reply'[r].list = list
           /\ (Success(r) => s \in {"200", "done"}) /\ (s = "200" => Success(r))
BY DEF Reply, Go, Listed, Calls, Success, Rewords

\* A refusal is none.
LEMMA Refuses ==
    ASSUME Listed, Calls, NEW r \in Requests, NEW s, Refuse(r, s), s \notin {"200", "done"}
    PROVE  /\ phase' = [phase EXCEPT ![r] = phase'[r]] /\ phase'[r] = "ended"
           /\ Rewords(r) /\ ~Success(r)
BY Says DEF Refuse

\* A request goes on.
LEMMA Goes ==
    ASSUME Calls, NEW r \in Requests, NEW p, Go(r, p)
    PROVE  phase' = [phase EXCEPT ![r] = phase'[r]] /\ phase'[r] = p
BY DEF Go, Calls

\* What is not touched is apart.
LEMMA StaysApart ==
    ASSUME Listed, Calls, NEW r \in Requests
    PROVE  /\ call' = call => call' = [call EXCEPT ![r] = call'[r]]
           /\ hash' = hash => hash' = [hash EXCEPT ![r] = hash'[r]]
           /\ doc' = doc => doc' = [doc EXCEPT ![r] = doc'[r]]
           /\ reply' = reply => Rewords(r)
           /\ phase' = phase => phase' = [phase EXCEPT ![r] = phase'[r]]
BY DEF Listed, Calls, Rewords

\* So is what is changed for the request alone.
LEMMA ChangesApart ==
    ASSUME Listed, Calls, NEW r \in Requests, NEW x
    PROVE  /\ call' = [call EXCEPT ![r] = x] => call' = [call EXCEPT ![r] = call'[r]] /\ call'[r] = x
           /\ hash' = [hash EXCEPT ![r] = x] => hash' = [hash EXCEPT ![r] = hash'[r]] /\ hash'[r] = x
           /\ doc' = [doc EXCEPT ![r] = x] => doc' = [doc EXCEPT ![r] = doc'[r]] /\ doc'[r] = x
BY DEF Listed, Calls

-----------------------------------------------------------------------------
\* A registry finds its entry points: the request stays where it is.
LEMMA DiscoverProceeds ==
    ASSUME IInv, Course, Listed, NEW r \in Requests, Discover1(r) PROVE Proceeds(r)
<1>1. UNCHANGED <<phase, call, hash, doc, reply, stores, effects, accepted, graph>> /\ phase[r] \in {"resolve", "tool", "registry"}
  BY DEF Discover1, served, backends
<1>2. Apart(r)
  BY <1>1, StaysApart DEF Apart, IInv
<1>3. Nears(r)
  BY <1>1 DEF Nears, Unasked, Course
<1> QED  BY <1>2, <1>3 DEF Proceeds

\* How the plugins of a request are refused.
LEMMA Refusals == ASSUME NEW q, "refused" \in DOMAIN ResolvePlugins(q) PROVE ResolvePlugins(q).refused \in {"422", "500", "400"}
BY DEF ResolvePlugins

\* The plugins of a request are resolved, or it is refused.
LEMMA ResolveProceeds ==
    ASSUME IInv, Course, Listed, NEW r \in Requests, Resolve(r) PROVE Proceeds(r)
<1>1. phase[r] = "resolve" /\ UNCHANGED <<call, hash, doc, stores, effects, accepted, graph>>
  BY DEF Resolve, backends
<1>2. \/ \E s \in {"422", "500", "400"} : Refuse(r, s)
      \/ Go(r, "registry") /\ reply' = reply
  BY Refusals DEF Resolve
<1>3. CASE \E s \in {"422", "500", "400"} : Refuse(r, s)
  <2>1. PICK s \in {"422", "500", "400"} : Refuse(r, s)
    BY <1>3
  <2>2. /\ phase' = [phase EXCEPT ![r] = phase'[r]] /\ phase'[r] = "ended"
        /\ Rewords(r) /\ ~Success(r)
    BY <2>1, Refuses DEF IInv
  <2> QED  BY <1>1, <2>2, StaysApart DEF Proceeds, Apart, EndsEarly, Unasked, Unsaid, IInv
<1>4. CASE Go(r, "registry") /\ reply' = reply
  <2>1. phase' = [phase EXCEPT ![r] = phase'[r]] /\ phase'[r] = "registry"
    BY <1>4, Goes DEF IInv
  <2> QED  BY <1>1, <1>4, <2>1, StaysApart DEF Proceeds, Apart, Nears, Unasked, Course, IInv
<1> QED  BY <1>2, <1>3, <1>4

\* A parser, or the text that the cache has.
LEMMA GetParserProceeds ==
    ASSUME IInv, Course, Listed, NEW r \in Requests, GetParser(r) PROVE Proceeds(r)
<1>1. phase[r] = "registry" /\ UNCHANGED <<call, hash, stores, effects, accepted, graph>>
  BY DEF GetParser, backends
<1>2. \/ Refuse(r, "400") /\ doc' = doc
      \/ /\ \E p \in {"parsed", "parsing"} : Go(r, p)
         /\ reply' = reply /\ (doc' = doc \/ \E x : doc' = [doc EXCEPT ![r] = x])
  BY DEF GetParser
<1>3. CASE Refuse(r, "400") /\ doc' = doc
  <2>2. /\ phase' = [phase EXCEPT ![r] = phase'[r]] /\ phase'[r] = "ended"
        /\ Rewords(r) /\ ~Success(r)
    BY <1>3, Refuses DEF IInv
  <2> QED  BY <1>1, <1>3, <2>2, StaysApart DEF Proceeds, Apart, EndsEarly, Unasked, Unsaid, IInv
<1>4. CASE /\ \E p \in {"parsed", "parsing"} : Go(r, p)
           /\ reply' = reply /\ (doc' = doc \/ \E x : doc' = [doc EXCEPT ![r] = x])
  <2>1. phase' = [phase EXCEPT ![r] = phase'[r]] /\ phase'[r] \in {"parsed", "parsing"}
    BY <1>4, Goes DEF IInv
  <2>2. doc' = [doc EXCEPT ![r] = doc'[r]]
    BY <1>4, StaysApart, ChangesApart DEF IInv
  <2> QED  BY <1>1, <1>4, <2>1, <2>2, StaysApart DEF Proceeds, Apart, Nears, Unasked, Course, IInv
<1> QED  BY <1>2, <1>3, <1>4

\* The document is parsed and cached.
LEMMA ParseProceeds ==
    ASSUME IInv, Course, Listed, NEW r \in Requests, Parse(r) PROVE Proceeds(r)
<1>1. phase[r] \in {"parsing", "store"} /\ UNCHANGED <<call, hash, stores, effects, accepted, graph>>
  BY DEF Parse
<1>2. \/ Refuse(r, "400") /\ doc' = doc
      \/ /\ \E p \in {"parsed", "store"} : Go(r, p)
         /\ reply' = reply /\ (doc' = doc \/ \E x : doc' = [doc EXCEPT ![r] = x])
  BY DEF Parse
<1>3. CASE Refuse(r, "400") /\ doc' = doc
  <2>2. /\ phase' = [phase EXCEPT ![r] = phase'[r]] /\ phase'[r] = "ended"
        /\ Rewords(r) /\ ~Success(r)
    BY <1>3, Refuses DEF IInv
  <2> QED  BY <1>1, <1>3, <2>2, StaysApart DEF Proceeds, Apart, EndsEarly, Unasked, Unsaid, IInv
<1>4. CASE /\ \E p \in {"parsed", "store"} : Go(r, p)
           /\ reply' = reply /\ (doc' = doc \/ \E x : doc' = [doc EXCEPT ![r] = x])
  <2>1. phase' = [phase EXCEPT ![r] = phase'[r]] /\ phase'[r] \in {"parsed", "store"}
    BY <1>4, Goes DEF IInv
  <2>2. doc' = [doc EXCEPT ![r] = doc'[r]]
    BY <1>4, StaysApart, ChangesApart DEF IInv
  <2> QED  BY <1>1, <1>4, <2>1, <2>2, StaysApart DEF Proceeds, Apart, Nears, Unasked, Course, IInv
<1> QED  BY <1>2, <1>3, <1>4

\* A parse request is answered, an ingest goes on.
LEMMA ParsedProceeds ==
    ASSUME IInv, Course, Listed, NEW r \in Requests, Parsed(r) PROVE Proceeds(r)
<1>1. phase[r] = "parsed" /\ UNCHANGED <<call, hash, doc, stores, effects, accepted, graph>>
  BY DEF Parsed, backends
<1>3. CASE Q(r).kind = "parse"
  <2>1. Reply(r, "200", 0, {doc[r]})
    BY <1>3 DEF Parsed
  <2>2. /\ phase' = [phase EXCEPT ![r] = phase'[r]] /\ phase'[r] = "ended" /\ Rewords(r)
    BY <2>1, Says DEF IInv
  <2> QED  BY <1>1, <1>3, <2>2, StaysApart DEF Proceeds, Apart, EndsEarly, Unasked, Unsaid, IInv, Q
<1>4. CASE Q(r).kind # "parse"
  <2>1. Go(r, "compose") /\ reply' = reply
    BY <1>4 DEF Parsed
  <2>2. phase' = [phase EXCEPT ![r] = phase'[r]] /\ phase'[r] = "compose"
    BY <2>1, Goes DEF IInv
  <2> QED  BY <1>1, <2>1, <2>2, StaysApart DEF Proceeds, Apart, Nears, Unasked, IInv
<1> QED  BY <1>3, <1>4

\* A tool is answered.
LEMMA UseToolProceeds ==
    ASSUME IInv, Course, Listed, NEW r \in Requests, UseTool(r) PROVE Proceeds(r)
<1>1. phase[r] = "tool" /\ UNCHANGED <<call, hash, doc, stores, effects, accepted, graph>>
  BY DEF UseTool, backends
<1>2. \E s : Reply(r, s, 0, {})
  BY DEF UseTool, Refuse
<1>3. /\ phase' = [phase EXCEPT ![r] = phase'[r]] /\ phase'[r] = "ended" /\ Rewords(r)
  BY <1>2, Says DEF IInv
<1> QED  BY <1>1, <1>3, StaysApart DEF Proceeds, Apart, EndsEarly, Unasked, Unsaid, IInv, Course

\* How a store is refused.
LEMMA RefusalIs == ASSUME NEW r, Refusal(r) # None PROVE Refusal(r) \in {"400", "422"}
BY DEF Refusal

\* The store is asked, for a lookup or for the answer itself, or the request is refused.
LEMMA ComposeProceeds ==
    ASSUME IInv, Course, Listed, NEW r \in Requests, Compose(r) PROVE Proceeds(r)
<1> USE DEF IInv
<1>1. phase[r] = "compose" /\ UNCHANGED <<doc, stores, effects, accepted, graph>>
  BY DEF Compose
<1>r. ASSUME Refuse(r, "400") \/ Refuse(r, "422"), UNCHANGED <<hash, call>> PROVE Proceeds(r)
  <2>1. /\ phase' = [phase EXCEPT ![r] = phase'[r]] /\ phase'[r] = "ended"
        /\ Rewords(r) /\ ~Success(r)
    BY <1>r, Refuses
  <2> QED  BY <1>1, <1>r, <2>1, StaysApart DEF Proceeds, Apart, EndsEarly, Unasked, Unsaid
<1>2. CASE Refusal(r) # None
  <2>1. Refuse(r, Refusal(r)) /\ UNCHANGED <<hash, call>>
    BY <1>2 DEF Compose
  <2>2. Refusal(r) = "400" \/ Refusal(r) = "422"
    BY <1>2, RefusalIs
  <2> QED  BY <1>r, <2>1, <2>2
<1>3. CASE Refusal(r) = None
  <2>2. CASE Q(r).kind # "ingest"
    <3>1. Go(r, "answer") /\ Call(r, Q(r).kind, Via(r), {}, None) /\ UNCHANGED <<hash, reply>>
      BY <1>3, <2>2 DEF Compose
    <3>2. phase' = [phase EXCEPT ![r] = phase'[r]] /\ phase'[r] = "answer"
      BY <3>1, Goes
    <3>3. call' = [call EXCEPT ![r] = Asked(request[r].kind, Via(r), {}, None)]
      BY <3>1 DEF Call, Asked, Q
    <3>4. AsksFirst(r)
      BY <1>1, <1>3, <2>2, <3>1, <3>2, <3>3 DEF AsksFirst, AsksFor, Turns, Q
    <3>5. call' = [call EXCEPT ![r] = call'[r]]
      BY <3>3, ChangesApart
    <3> QED  BY <1>1, <3>1, <3>2, <3>4, <3>5, StaysApart DEF Proceeds, Apart
  <2>3. CASE Q(r).kind = "ingest" /\ Ids(r) = {}
    <3>1. Go(r, "finish") /\ UNCHANGED <<hash, reply, call>>
      BY <1>3, <2>3 DEF Compose
    <3>2. phase' = [phase EXCEPT ![r] = phase'[r]] /\ phase'[r] = "finish"
      BY <3>1, Goes
    <3>3. Finishes(r)
      BY <1>1, <1>3, <2>3, <3>1, <3>2 DEF Finishes, Turns, Unsaid, Q
    <3> QED  BY <1>1, <3>1, <3>2, <3>3, StaysApart DEF Proceeds, Apart
  <2>4. CASE Q(r).kind = "ingest" /\ Ids(r) # {} /\ Asking(r)
    <3>1. /\ Go(r, "lookup") /\ Call(r, "lookup", Via(r), {}, content[Q(r).source]) /\ reply' = reply
          /\ hash' = [hash EXCEPT ![r] = content[Q(r).source]]
      BY <1>3, <2>4 DEF Compose
    <3>2. phase' = [phase EXCEPT ![r] = phase'[r]] /\ phase'[r] = "lookup"
      BY <3>1, Goes
    <3>3. hash' = [hash EXCEPT ![r] = hash'[r]] /\ hash'[r] = content[Q(r).source]
      BY <3>1, ChangesApart
    <3>4. call' = [call EXCEPT ![r] = Asked("lookup", Via(r), {}, hash'[r])]
      BY <3>1, <3>3 DEF Call, Asked
    <3>5. AsksFirst(r)
      BY <1>1, <1>3, <2>4, <3>1, <3>2, <3>4 DEF AsksFirst, AsksFor, Turns, Q
    <3>6. call' = [call EXCEPT ![r] = call'[r]]
      BY <3>4, ChangesApart
    <3> QED  BY <1>1, <3>1, <3>2, <3>3, <3>5, <3>6, StaysApart DEF Proceeds, Apart
  <2>5. CASE Q(r).kind = "ingest" /\ Ids(r) # {} /\ ~Asking(r)
    <3>1. UNCHANGED <<hash, call>> /\ (Refuse(r, "400") \/ (Go(r, "encode") /\ reply' = reply))
      BY <1>3, <2>5 DEF Compose
    <3>2. CASE Go(r, "encode") /\ reply' = reply
      <4>1. phase' = [phase EXCEPT ![r] = phase'[r]] /\ phase'[r] = "encode"
        BY <3>2, Goes
      <4> QED  BY <1>1, <1>3, <2>5, <3>1, <3>2, <4>1, StaysApart DEF Proceeds, Apart, Nears, Unasked, Q
    <3> QED  BY <1>r, <3>1, <3>2
  <2> QED  BY <2>2, <2>3, <2>4, <2>5
<1> QED  BY <1>2, <1>3

\* The answer of a lookup.
LEMMA LookedUpProceeds ==
    ASSUME IInv, Course, Listed, NEW r \in Requests, LookedUp(r) PROVE Proceeds(r)
<1> USE DEF IInv
<1>1. /\ phase[r] = "lookup" /\ call[r].step = "answered" /\ UNCHANGED <<hash, doc, stores, effects, accepted, graph>>
      /\ call' = [call EXCEPT ![r] = NoCall]
  BY DEF LookedUp, Answered
<1>2. call' = [call EXCEPT ![r] = call'[r]]
  BY <1>1, ChangesApart
<1>3. \/ Refuse(r, "400")
      \/ Out(r).ok /\ Out(r).n > 0 /\ Go(r, "finish") /\ reply' = reply
      \/ Go(r, "encode") /\ reply' = reply
  BY DEF LookedUp
<1>4. CASE Refuse(r, "400")
  <2>1. /\ phase' = [phase EXCEPT ![r] = phase'[r]] /\ phase'[r] = "ended"
        /\ Rewords(r) /\ ~Success(r)
    BY <1>4, Refuses
  <2> QED  BY <1>1, <1>2, <2>1, StaysApart DEF Proceeds, Apart, Learns
<1>5. CASE Out(r).ok /\ Out(r).n > 0 /\ Go(r, "finish") /\ reply' = reply
  <2>1. phase' = [phase EXCEPT ![r] = phase'[r]] /\ phase'[r] = "finish"
    BY <1>5, Goes
  <2> QED  BY <1>1, <1>2, <1>5, <2>1, StaysApart DEF Proceeds, Apart, Learns, Turns
<1>6. CASE Go(r, "encode") /\ reply' = reply
  <2>1. phase' = [phase EXCEPT ![r] = phase'[r]] /\ phase'[r] = "encode"
    BY <1>6, Goes
  <2> QED  BY <1>1, <1>2, <1>6, <2>1, StaysApart DEF Proceeds, Apart, Learns, Turns
<1> QED  BY <1>3, <1>4, <1>5, <1>6

\* The collection is ensured, or the records of a deprecated path are written at once; so
\* is a later batch.
LEMMA EncodeProceeds ==
    ASSUME IInv, Course, Listed, NEW r \in Requests, Encode(r) PROVE Proceeds(r)
<1> USE DEF IInv
<1>1. phase[r] \in {"encode", "next"} /\ UNCHANGED <<hash, doc, stores, effects, accepted, graph>>
  BY DEF Encode
<1>2. CASE Refuse(r, "400") /\ call' = call
  <2>1. /\ phase' = [phase EXCEPT ![r] = phase'[r]] /\ phase'[r] = "ended"
        /\ Rewords(r) /\ ~Success(r)
    BY <1>2, Refuses
  <2> QED  BY <1>1, <1>2, <2>1, StaysApart DEF Proceeds, Apart, EndsEarly, Finishes, Turns, Unasked, Unsaid
<1>3. CASE Go(r, "upsert") /\ Call(r, "upsert", Via(r), Batch(r), None) /\ reply' = reply
  <2>1. phase' = [phase EXCEPT ![r] = phase'[r]] /\ phase'[r] = "upsert"
    BY <1>3, Goes
  <2>2. call' = [call EXCEPT ![r] = Asked("upsert", Via(r), Batch(r), None)]
    BY <1>3 DEF Call, Asked
  <2>3. call' = [call EXCEPT ![r] = call'[r]]
    BY <2>2, ChangesApart
  <2> QED  BY <1>1, <1>3, <2>1, <2>2, <2>3, StaysApart DEF Proceeds, Apart, AsksAgain, AsksFor, Turns
<1>4. CASE phase[r] = "encode" /\ Go(r, "ensure") /\ Call(r, "ensure", Via(r), {}, None) /\ reply' = reply
  <2>1. phase' = [phase EXCEPT ![r] = phase'[r]] /\ phase'[r] = "ensure"
    BY <1>4, Goes
  <2>2. call' = [call EXCEPT ![r] = Asked("ensure", Via(r), {}, None)]
    BY <1>4 DEF Call, Asked
  <2>3. call' = [call EXCEPT ![r] = call'[r]]
    BY <2>2, ChangesApart
  <2> QED  BY <1>1, <1>4, <2>1, <2>2, <2>3, StaysApart DEF Proceeds, Apart, AsksAgain, AsksFor, Turns
<1> QED  BY <1>2, <1>3, <1>4 DEF Encode

\* The records are written after the ensure.
LEMMA EnsuredProceeds ==
    ASSUME IInv, Course, Listed, NEW r \in Requests, Ensured(r) PROVE Proceeds(r)
<1> USE DEF IInv
<1>1. phase[r] = "ensure" /\ UNCHANGED <<hash, doc, stores, effects, accepted, graph>>
  BY DEF Ensured, Answered
<1>2. CASE Refuse(r, "400") /\ call' = [call EXCEPT ![r] = NoCall]
  <2>1. /\ phase' = [phase EXCEPT ![r] = phase'[r]] /\ phase'[r] = "ended"
        /\ Rewords(r) /\ ~Success(r)
    BY <1>2, Refuses
  <2>2. call' = [call EXCEPT ![r] = call'[r]]
    BY <1>2, ChangesApart
  <2> QED  BY <1>1, <1>2, <2>1, <2>2, StaysApart DEF Proceeds, Apart, Learns
<1>3. CASE Go(r, "upsert") /\ Call(r, "upsert", Via(r), Batch(r), None) /\ reply' = reply
  <2>1. phase' = [phase EXCEPT ![r] = phase'[r]] /\ phase'[r] = "upsert"
    BY <1>3, Goes
  <2>2. call' = [call EXCEPT ![r] = Asked("upsert", Via(r), Batch(r), None)]
    BY <1>3 DEF Call, Asked
  <2>3. call' = [call EXCEPT ![r] = call'[r]]
    BY <2>2, ChangesApart
  <2> QED  BY <1>1, <1>3, <2>1, <2>2, <2>3, StaysApart DEF Proceeds, Apart, AsksAgain, AsksFor, Turns
<1> QED  BY <1>2, <1>3 DEF Ensured

\* The outcome of a write is kept with the call.
LEMMA WrittenProceeds ==
    ASSUME IInv, Course, Listed, NEW r \in Requests, Written(r) PROVE Proceeds(r)
<1> USE DEF IInv
<1>1. phase[r] = "upsert" /\ call[r].step = "answered" /\ UNCHANGED <<call, hash, doc, stores, effects, graph>>
  BY DEF Written, Answered, backends
<1>2. CASE Out(r).ok
  <2>0. /\ Go(r, IF Rows(r, hash[r]) \subseteq accepted[r] \cup call[r].rows THEN "finish" ELSE "next")
        /\ reply' = reply /\ accepted' = [accepted EXCEPT ![r] = @ \cup call[r].rows]
    BY <1>2 DEF Written
  <2>1. /\ phase' = [phase EXCEPT ![r] = phase'[r]]
        /\ phase'[r] = IF Rows(r, hash[r]) \subseteq accepted[r] \cup call[r].rows THEN "finish" ELSE "next"
    BY <2>0, Goes
  <2>2. Accepts(r) /\ accepted'[r] = accepted[r] \cup call[r].rows
    BY <1>1, <1>2, <2>0, <2>1 DEF Accepts, Turns, Listed
  <2> QED  BY <1>1, <2>0, <2>1, <2>2, StaysApart DEF Proceeds, Apart, Finishes, Turns, Unsaid
<1>3. CASE ~Out(r).ok
  <2>0. Refuse(r, "400") /\ accepted' = accepted
    BY <1>3 DEF Written
  <2>1. /\ phase' = [phase EXCEPT ![r] = phase'[r]] /\ phase'[r] = "ended"
        /\ Rewords(r) /\ ~Success(r)
    BY <2>0, Refuses
  <2> QED  BY <1>1, <1>3, <2>0, <2>1, StaysApart DEF Proceeds, Apart, Finishes, Turns, Unsaid
<1> QED  BY <1>2, <1>3

\* The graph comes after the vectors.
LEMMA SyncGraphProceeds ==
    ASSUME IInv, Course, Listed, NEW r \in Requests, SyncGraph(r) PROVE Proceeds(r)
<1> USE DEF IInv
<1>1. phase[r] = "finish" /\ UNCHANGED <<call, hash, doc, stores, effects, accepted>>
  BY DEF SyncGraph
<1>2. CASE /\ Go(r, "record") /\ reply' = reply
           /\ graph' = IF Q(r).graph = "directory" /\ doc[r] # "blank" THEN graph \cup {<<r, doc[r]>>} ELSE graph
  <2>1. phase' = [phase EXCEPT ![r] = phase'[r]] /\ phase'[r] = "record"
    BY <1>2, Goes
  <2> QED  BY <1>1, <1>2, <2>1, StaysApart DEF Proceeds, Apart, Finishes, Draws, Turns, Unsaid
<1>3. CASE Q(r).graph # "none" /\ (Refuse(r, "400") \/ Refuse(r, "500")) /\ graph' = graph
  <2>1. /\ phase' = [phase EXCEPT ![r] = phase'[r]] /\ phase'[r] = "ended"
        /\ Rewords(r) /\ ~Success(r)
    BY <1>3, Refuses
  <2> QED  BY <1>1, <1>3, <2>1, StaysApart DEF Proceeds, Apart, Finishes, Turns, Unsaid
<1> QED  BY <1>2, <1>3 DEF SyncGraph

\* The job is recorded, and the ingest answered.
LEMMA RecordProceeds ==
    ASSUME IInv, Course, Listed, NEW r \in Requests, Record(r) PROVE Proceeds(r)
<1> USE DEF IInv
<1>1. phase[r] = "record" /\ UNCHANGED <<call, hash, doc, stores, effects, accepted, graph>>
  BY DEF Record, backends
<1>2. Reply(r, "200", Cardinality(accepted[r]), {})
  BY DEF Record
<1>3. /\ phase' = [phase EXCEPT ![r] = phase'[r]] /\ phase'[r] = "ended"
      /\ Rewords(r) /\ Success(r) /\ reply'[r].n = Cardinality(accepted[r])
  BY <1>2, Says
<1> QED  BY <1>1, <1>3, StaysApart DEF Proceeds, Apart, Finishes, Turns, Unsaid

\* The answer of a deletion, a listing, a search or a drop.
LEMMA RespondProceeds ==
    ASSUME IInv, Course, Listed, NEW r \in Requests, Respond(r) PROVE Proceeds(r)
<1> USE DEF IInv
<1>1. phase[r] = "answer" /\ call[r].step = "answered" /\ UNCHANGED <<call, hash, doc, stores, effects, accepted, graph>>
  BY DEF Respond, Answered, backends
<1>2. Reply(r, StatusOf(r), IF Out(r).ok THEN Out(r).n ELSE 0, IF Out(r).ok THEN Out(r).list ELSE {})
  BY DEF Respond
<1>3. /\ phase' = [phase EXCEPT ![r] = phase'[r]] /\ phase'[r] = "ended"
      /\ Rewords(r)
      /\ reply'[r].n = IF Out(r).ok THEN Out(r).n ELSE 0
      /\ reply'[r].list = IF Out(r).ok THEN Out(r).list ELSE {}
      /\ Success(r) => StatusOf(r) \in {"200", "done"}
  BY <1>2, Says
<1>4. Success(r) => Out(r).ok
  BY <1>3 DEF StatusOf
<1>5. Finishes(r)
  BY <1>1, <1>3, <1>4 DEF Finishes, Turns, Unsaid
<1> QED  BY <1>1, <1>3, <1>5, StaysApart DEF Proceeds, Apart

\* A client that leaves.
LEMMA DisconnectProceeds ==
    ASSUME IInv, Course, Listed, NEW r \in Requests, Disconnect(r) PROVE Proceeds(r)
<1> USE DEF IInv
<1>1. /\ phase[r] \in Unasked \cup {"lookup", "ensure", "upsert", "next"} /\ phase[r] # "tool"
      /\ UNCHANGED <<hash, doc, stores, effects, accepted, graph>> /\ Go(r, "ended")
      /\ reply' = [reply EXCEPT ![r].status = "closed"]
  BY DEF Disconnect, Unasked
<1>2. phase' = [phase EXCEPT ![r] = phase'[r]] /\ phase'[r] = "ended"
  BY <1>1, Goes
<1>3. Rewords(r) /\ reply'[r].status = "closed"
  BY <1>1 DEF Listed, Rewords
<1>4. call' = call \/ (Gives(r) /\ call[r].step # "answered")
  BY DEF Disconnect, Fail, Gives
<1>5. call' = [call EXCEPT ![r] = call'[r]]
  BY <1>4 DEF Gives, Calls
<1> QED  BY <1>1, <1>2, <1>3, <1>4, <1>5, StaysApart DEF Proceeds, Apart, Leaves

\* Every step of the service has that form.
LEMMA ServiceProceeds ==
    ASSUME IInv, Course, Listed, NEW r \in Requests, Serve(r) \/ Leave(r) PROVE Proceeds(r)
BY DiscoverProceeds, ResolveProceeds, GetParserProceeds, ParseProceeds, ParsedProceeds, UseToolProceeds,
   ComposeProceeds, LookedUpProceeds, EncodeProceeds, EnsuredProceeds, WrittenProceeds, SyncGraphProceeds,
   RecordProceeds, RespondProceeds, DisconnectProceeds
   DEF Serve, Leave, Progress

-----------------------------------------------------------------------------
(* The way of a request *)

\* What is refused is settled by the play.
LEMMA RefusalStays == ASSUME UNCHANGED fixed, NEW r PROVE Refusal(r)' = Refusal(r) /\ Deprecated(r)' = Deprecated(r)
<1>1. site' = site /\ request' = request /\ known' = known /\ Q(r)' = Q(r) /\ InServer(r)' = InServer(r)
  BY DEF fixed, Q, InServer
<1>2. \A q : ProcessPolicy(site)' = ProcessPolicy(site) /\ TenantPolicy(site, q)' = TenantPolicy(site, q)
  BY <1>1 DEF ProcessPolicy, TenantPolicy, Policies
<1>3. /\ VectorFields(Q(r), site)' = VectorFields(Q(r), site)
      /\ Backend(Q(r), site)' = Backend(Q(r), site)
      /\ Selected(Q(r), site)' = Selected(Q(r), site)
  BY <1>1 DEF VectorFields, Backend, Selected, Namespaced, ResolveVectorOptions, Conflicts, LegacyOptions
<1>4. Provider(r)' = Provider(r)
  BY <1>1, <1>3 DEF Provider
<1>5. Deprecated(r)' = Deprecated(r) /\ RolledBack(r)' = RolledBack(r)
  BY <1>1, <1>3 DEF Deprecated, RolledBack
<1>6. Loading(r)' = Loading(r)
  BY <1>1, <1>4 DEF Loading
<1>7. Config(r)' = Config(r)
  BY <1>1 DEF Config
<1>8. Unsupported(r)' = Unsupported(r)
  BY <1>1, <1>4 DEF Unsupported, Unsearchable, Facets
<1> QED  BY <1>1, <1>3, <1>5, <1>6, <1>7, <1>8 DEF Refusal, Creates

\* An operation that is asked for.
LEMMA AskedIs ==
    ASSUME Calls, NEW r \in Requests, NEW op, NEW via, NEW rows, NEW memo,
           call' = [call EXCEPT ![r] = Asked(op, via, rows, memo)]
    PROVE  /\ call'[r].op = op /\ call'[r].via = via /\ call'[r].step = "start" /\ call'[r].rows = rows
           /\ call'[r].memo = memo
BY DEF Calls, Asked, NoCall

\* The operations of a call.
Operations == {"ingest", "parse", "tool", "delete", "list", "search", "drop", "lookup", "ensure", "upsert"}
\* Where nobody calls there is no operation.
LEMMA NoOperation == NoCall.op \notin Operations /\ NoCall.via \notin Vendors /\ NoCall.step = "answered" /\ NoCall.rows = {}
BY NameAssumption DEF NoCall, Operations, Vendors

\* The service leads a request on its way.
LEMMA ProceedsKeepsCourse ==
    ASSUME IInv, Course, Listed, NEW r \in Requests, Proceeds(r), UNCHANGED fixed PROVE Course' /\ Listed'
<1> USE DEF IInv
<1>1. \A q \in Requests \ {r} : phase'[q] = phase[q] /\ call'[q] = call[q]
  BY DEF Proceeds, Apart, Calls
<1>2. Listed'
  BY DEF Proceeds, Apart, Accepts, Rewords, Listed
<1>3. /\ request' = request
      /\ \A q : Refusal(q)' = Refusal(q) /\ Via(q)' = Via(q)
  BY PlayStays, RefusalStays, ViaStays
<1> DEFINE Way(q) ==
        /\ phase'[q] \in {"resolve", "registry", "parsing", "store", "parsed"} =>
             request[q].kind \in {"ingest", "parse"}
        /\ phase'[q] = "tool" => request[q].kind = "tool"
        /\ phase'[q] \in {"lookup", "encode", "ensure", "upsert", "next", "finish", "record"} =>
             request[q].kind = "ingest" /\ Refusal(q) = None
        /\ phase'[q] = "answer" => request[q].kind # "ingest" /\ call'[q].op = request[q].kind
        /\ call'[q] = NoCall \/ (Refusal(q) = None /\ call'[q].via = Via(q))
        /\ call'[q].op \in {"lookup", "ensure", "upsert"} => request[q].kind = "ingest"
        /\ phase'[q] \in {"next", "finish", "record"} => call'[q].rows \subseteq accepted'[q]
<1>a. \A q \in Requests : accepted'[q] = accepted[q] \/ (q = r /\ accepted'[q] = accepted[q] \cup call[q].rows)
  BY DEF Proceeds, Apart, Accepts, Listed
<1>4. \A q \in Requests \ {r} : Way(q)
  BY <1>1, <1>a DEF Course
<1>5. Way(r)
  <2>0. request[r].kind \in Operations \ {"lookup", "ensure", "upsert"}
    BY DEF Asks, Operations
  <2>1. CASE Nears(r)
    BY <2>1, NoOperation DEF Nears, Course, Unasked, Operations
  <2>2. CASE EndsEarly(r)
    BY <2>2, NoOperation DEF EndsEarly, Course, Unsaid, Operations
  <2>3. CASE AsksFirst(r)
    BY <2>0, <2>3, AskedIs DEF AsksFirst, AsksFor, Turns, Operations
  <2>4. CASE AsksAgain(r)
    <3>1. Refusal(r) = None /\ request[r].kind = "ingest"
      BY <2>4 DEF AsksAgain, AsksFor, Turns, Course
    <3> QED  BY <3>1, <2>4, AskedIs DEF AsksAgain, AsksFor, Turns
  <2>5. CASE Learns(r)
    <3>1. call'[r] = NoCall
      BY <2>5 DEF Learns, Calls
    <3> QED  BY <2>5, <3>1, NoOperation DEF Learns, Turns, Course, Operations
  <2>6. CASE Finishes(r)
    <3>1. call' = call /\ (phase[r] = "compose" => call[r] = NoCall)
      BY <2>6 DEF Finishes, Unsaid, Calls
    <3>2. phase'[r] \in {"next", "finish", "record"} => call[r].rows \subseteq accepted'[r]
      <4>1. CASE Accepts(r)
        BY <4>1 DEF Accepts, Listed
      <4>2. CASE Turns(r, "compose", "finish")
        BY <3>1, <4>2, NoOperation DEF Turns
      <4>3. CASE Draws(r)
        BY <1>a, <4>3 DEF Draws, Turns, Course
      <4> QED  BY <2>6, <4>1, <4>2, <4>3 DEF Finishes, Turns
    <3> QED  BY <2>6, <3>1, <3>2 DEF Finishes, Draws, Turns, Course
  <2>7. CASE Leaves(r)
    <3>1. phase'[r] = "ended"
      BY <2>7 DEF Leaves
    <3>2. CASE call' = call
      BY <3>1, <3>2 DEF Course
    <3>3. CASE Gives(r) /\ call[r].step # "answered"
      <4>1. call'[r].op = call[r].op /\ call'[r].via = call[r].via
        BY <3>3 DEF Gives, Calls, NoCall
      <4>2. call[r] # NoCall
        BY <3>3 DEF NoCall
      <4> QED  BY <3>1, <4>1, <4>2 DEF Course
    <3> QED  BY <2>7, <3>2, <3>3 DEF Leaves
  <2> QED  BY <2>1, <2>2, <2>3, <2>4, <2>5, <2>6, <2>7 DEF Proceeds
<1> HIDE DEF Way
<1>6. \A q \in Requests : Way(q)
  BY <1>4, <1>5
<1> QED  BY <1>2, <1>3, <1>6 DEF Way, Course

\* A store leads its request nowhere.
LEMMA AnswersKeepsCourse ==
    ASSUME IInv, Course, Listed, NEW r \in Requests, Answers(r), UNCHANGED fixed PROVE Course' /\ Listed'
<1> USE DEF IInv
<1>1. /\ UNCHANGED <<phase, hash, doc, accepted, reply>> /\ request' = request
      /\ \A q : Refusal(q)' = Refusal(q) /\ Via(q)' = Via(q)
  BY PlayStays, RefusalStays, ViaStays DEF Answers, served
<1>2. /\ \A q \in Requests \ {r} : call'[q] = call[q]
      /\ call'[r].op = call[r].op /\ call'[r].via = call[r].via /\ call'[r].rows = call[r].rows
  BY DEF Answers, Moves
<1>3. call[r] # NoCall
  <2>1. CASE call[r].step # "answered"
    BY <2>1, NoOperation
  <2>2. CASE phase[r] \in {"lookup", "ensure", "upsert"}
    BY <2>2, NoOperation DEF Calls, Waits, Operations
  <2>3. CASE phase[r] = "answer"
    BY <2>3, NoOperation DEF Course, Asks, Operations
  <2> QED  BY <2>1, <2>2, <2>3 DEF Answers, Moves, Waiting
<1>4. Listed'
  BY <1>1 DEF Listed
<1> QED  BY <1>1, <1>2, <1>3, <1>4 DEF Course

\* A request that arrives has its way before it.
LEMMA ArriveKeepsCourse ==
    ASSUME IInv, Course, Listed, NEW r \in Requests, Arrive(r), UNCHANGED fixed PROVE Course' /\ Listed'
<1> USE DEF IInv
<1>1. /\ UNCHANGED <<call, hash, accepted, reply>> /\ request' = request
      /\ \A q : Refusal(q)' = Refusal(q) /\ Via(q)' = Via(q)
  BY PlayStays, RefusalStays, ViaStays DEF Arrive, Begin, backends
<1>2. \E x : doc' = [doc EXCEPT ![r] = x]
  BY DEF Arrive, Begin
<1>3. \/ request[r].kind \in {"ingest", "parse"} /\ Go(r, "resolve")
      \/ request[r].kind = "tool" /\ Go(r, "tool")
      \/ Go(r, "compose")
  BY DEF Arrive, Begin, Q
<1>4. /\ \A q \in Requests \ {r} : phase'[q] = phase[q]
      /\ phase'[r] \in {"resolve", "tool", "compose"}
      /\ phase'[r] = "resolve" => request[r].kind \in {"ingest", "parse"}
      /\ phase'[r] = "tool" => request[r].kind = "tool"
  BY <1>3 DEF Go, Calls
<1>5. Listed'
  BY <1>1, <1>2 DEF Listed
<1> QED  BY <1>1, <1>4, <1>5 DEF Course

\* Nothing else is about requests.
LEMMA RestKeepsCourse ==
    ASSUME Course, Listed, UNCHANGED <<call, phase, hash, doc, accepted, reply>>, UNCHANGED fixed PROVE Course' /\ Listed'
<1>1. request' = request /\ \A q : Refusal(q)' = Refusal(q) /\ Via(q)' = Via(q)
  BY PlayStays, RefusalStays, ViaStays
<1>2. Listed'
  BY DEF Listed
<1> QED  BY <1>1, <1>2 DEF Course

\* The steps of the process, by what they do to requests.
LEMMA Steps ==
    ASSUME IInv, Course, Listed, [Next]_vars
    PROVE  /\ UNCHANGED fixed
           /\ \/ \E r \in Requests : Arrive(r)
              \/ \E r \in Requests : Proceeds(r) /\ met' = met
              \/ \E r \in Requests : (Store(r) \/ Lose(r)) /\ Answers(r)
              \/ UNCHANGED <<stores, call, effects, phase, hash, doc, accepted, graph, reply, met>>
<1>1. UNCHANGED fixed
  BY DEF Next, vars
<1>2. CASE LifeCycle \/ Changes \/ UNCHANGED vars
  BY <1>1, <1>2 DEF LifeCycle, Changes, Edit, CreateApp, Shutdown, Startup, backends, served, vars
<1>3. CASE \E r \in Requests : Serve(r) \/ Leave(r)
  <2>1. PICK r \in Requests : Serve(r) \/ Leave(r)
    BY <1>3
  <2>2. met' = met
    BY <2>1 DEF Serve, Leave
  <2> QED  BY <1>1, <2>1, <2>2, ServiceProceeds
<1>4. CASE \E r \in Requests : Store(r) \/ Lose(r)
  BY <1>1, <1>4, StoreAnswers, LoseAnswers
<1> QED  BY <1>1, <1>2, <1>3, <1>4 DEF Next

\* Every step keeps requests on their way.
LEMMA NextCourse == ASSUME IInv, Course, Listed, [Next]_vars PROVE Course' /\ Listed'
BY Steps, ArriveKeepsCourse, ProceedsKeepsCourse, AnswersKeepsCourse, RestKeepsCourse

\* They start on it.
LEMMA InitCourse == PlatformInit => Course /\ Listed
<1> SUFFICES ASSUME PlatformInit PROVE Course /\ Listed
  OBVIOUS
<1>1. \A r \in Requests : phase[r] = "idle" /\ call[r] = NoCall
  BY DEF PlatformInit, ServiceInit, BackendInit
<1>2. Listed
  BY DEF PlatformInit, ServiceInit, Listed, NoReply
<1> QED  BY <1>1, <1>2, NoOperation DEF Course, Operations

-----------------------------------------------------------------------------
(* Induction *)

\* Of numbers there is a least one.
LEMMA Least ==
    ASSUME NEW S \in SUBSET Nat, S # {}
    PROVE  \E m \in S : \A k \in S : m <= k
<1>1. PICK m \in S : \A k \in S : ~(<<k, m>> \in OpToRel(<, Nat))
  BY WFMin, NatLessThanWellFounded
<1>2. \A k \in S : ~(k < m)
  BY <1>1 DEF OpToRel
<1> QED  BY <1>2

\* What holds of zero, and of every successor up to n, holds up to n.
LEMMA Counting ==
    ASSUME NEW n \in Nat, NEW W, 0 \in W, \A k \in 0 .. n - 1 : k \in W => k + 1 \in W
    PROVE  \A k \in 0 .. n : k \in W
<1> DEFINE bad == {k \in 0 .. n : k \notin W}
<1> SUFFICES ASSUME bad # {} PROVE FALSE
  OBVIOUS
<1>1. bad \in SUBSET Nat
  OBVIOUS
<1>2. PICK m \in bad : \A k \in bad : m <= k
  <2> HIDE DEF bad
  <2> QED  BY <1>1, Least
<1>3. m # 0 /\ m - 1 \in 0 .. n - 1 /\ (m - 1) + 1 = m
  BY <1>2
<1>4. m - 1 \in W
  BY <1>2, <1>3
<1> QED  BY <1>2, <1>3, <1>4

-----------------------------------------------------------------------------
(* What discovery comes to *)

\* The play is one of the plays.
Played == \E p \in DOMAIN Plays : site = Plays[p].site /\ request = Plays[p].request /\ known = Discover(site)

\* What is built in is found under its name.
Genuine(found) ==
    /\ DOMAIN found = {"catalog", "issues", "failed"} /\ Official \subseteq DOMAIN found.catalog
    /\ \A k \in Official : found.catalog[k].target = k

\* A name that is taken, too.
Taking(catalog, key, reg) == [k \in DOMAIN catalog \cup {key} |-> IF k = key THEN reg ELSE catalog[k]]

\* An entry of a distribution takes no name that is taken.
LEMMA EntryGenuine == ASSUME NEW found, Genuine(found), NEW d, NEW e PROVE Genuine(AddEntry(found, d, e))
<1>1. CASE AddEntry(found, d, e) = found
  BY <1>1
<1>2. CASE \E why : AddEntry(found, d, e) = [found EXCEPT !.failed = why]
  BY <1>2 DEF Genuine
<1>3. CASE e.key \notin DOMAIN found.catalog /\ \E issues :
             AddEntry(found, d, e) = [found EXCEPT !.catalog = Taking(@, e.key, Described(d, e)), !.issues = issues]
  <2>1. PICK issues : AddEntry(found, d, e) =
                        [found EXCEPT !.catalog = Taking(@, e.key, Described(d, e)), !.issues = issues]
    BY <1>3
  <2>2. PICK new : new = Taking(found.catalog, e.key, Described(d, e))
    OBVIOUS
  <2>3. Official \subseteq DOMAIN new /\ \A k \in Official : new[k] = found.catalog[k]
    BY <1>3, <2>2 DEF Genuine, Taking
  <2>4. AddEntry(found, d, e) = [found EXCEPT !.catalog = new, !.issues = issues]
    BY <2>1, <2>2
  <2> QED  BY <2>3, <2>4 DEF Genuine
<1> QED  BY <1>1, <1>2, <1>3 DEF AddEntry, Taking

\* The entries of a distribution one by one, up to k.
Adds(f, found, d, k) ==
    f = [i \in 0 .. k |-> IF i = 0 THEN found ELSE AddEntry(f[i - 1], d, d.entries[i])]

\* Nor does a distribution.
LEMMA DistributionGenuine ==
    ASSUME NEW found, Genuine(found), NEW d, Len(d.entries) \in Nat PROVE Genuine(RegisterDistribution(found, d))
<1> DEFINE n == Len(d.entries)
           Have == {k \in 0 .. n : \E f : Adds(f, found, d, k)}
           added == CHOOSE f : Adds(f, found, d, n)
           Fine == {k \in 0 .. n : Genuine(added[k])}
<1>0. n \in Nat /\ 0 \in 0 .. n /\ n \in 0 .. n
  OBVIOUS
<1>1. 0 \in Have
  <2> DEFINE f == [i \in 0 .. 0 |-> found]
  <2>1. Adds(f, found, d, 0)
    BY DEF Adds
  <2> HIDE DEF f
  <2> QED  BY <2>1
<1>2. ASSUME NEW k \in 0 .. n - 1, k \in Have PROVE k + 1 \in Have
  <2>1. PICK f : Adds(f, found, d, k)
    BY <1>2
  <2> DEFINE g == [i \in 0 .. k + 1 |-> IF i \in 0 .. k THEN f[i] ELSE AddEntry(f[k], d, d.entries[i])]
  <2>2. ASSUME NEW i \in 0 .. k + 1
        PROVE  g[i] = IF i = 0 THEN found ELSE AddEntry(g[i - 1], d, d.entries[i])
    <3>1. CASE i = 0
      BY <2>1, <3>1 DEF Adds
    <3>2. CASE i \in 1 .. k
      <4>1. g[i] = f[i] /\ g[i - 1] = f[i - 1] /\ i \in 0 .. k /\ i # 0
        BY <3>2
      <4>2. f[i] = AddEntry(f[i - 1], d, d.entries[i])
        BY <2>1, <4>1 DEF Adds
      <4> QED  BY <4>1, <4>2
    <3>3. CASE i = k + 1
      <4>1. g[i] = AddEntry(f[k], d, d.entries[i]) /\ g[i - 1] = f[k] /\ i # 0
        BY <3>3
      <4> QED  BY <4>1
    <3> QED  BY <3>1, <3>2, <3>3
  <2>3. Adds(g, found, d, k + 1)
    BY <2>2 DEF Adds
  <2> HIDE DEF g
  <2> QED  BY <2>3
<1>3. \E f : Adds(f, found, d, n)
  <2> HIDE DEF n, Have
  <2>1. n \in Have
    BY <1>0, <1>1, <1>2, Counting
  <2> QED  BY <2>1 DEF Have
<1>4. Adds(added, found, d, n)
  BY <1>3
<1> HIDE DEF added
<1>5. 0 \in Fine
  BY <1>4 DEF Adds
<1>6. ASSUME NEW k \in 0 .. n - 1, k \in Fine PROVE k + 1 \in Fine
  <2>1. added[k + 1] = AddEntry(added[k], d, d.entries[k + 1])
    BY <1>4 DEF Adds
  <2> QED  BY <1>6, <2>1, EntryGenuine
<1>7. Genuine(added[n])
  <2> HIDE DEF n, Fine
  <2>1. n \in Fine
    BY <1>0, <1>5, <1>6, Counting
  <2> QED  BY <2>1 DEF Fine
<1>8. \/ RegisterDistribution(found, d) = found
      \/ RegisterDistribution(found, d) = [found EXCEPT !.issues = Append(@, "plugin_manifest_invalid")]
      \/ RegisterDistribution(found, d) = added[n]
  BY DEF RegisterDistribution, added, Adds
<1> QED  BY <1>7, <1>8 DEF Genuine

\* The distributions one by one, up to k.
Registers(f, s, k) ==
    f = [i \in 0 .. k |-> IF i = 0 THEN [catalog |-> Builtins(s), issues |-> <<>>, failed |-> None]
                          ELSE RegisterDistribution(f[i - 1], s.dists[i])]

\* So official plugins are what they were built to be.
LEMMA DiscoveryGenuine ==
    ASSUME NEW s, Len(s.dists) \in Nat, \A i \in 1 .. Len(s.dists) : Len(s.dists[i].entries) \in Nat
    PROVE  Genuine(Discover(s))
<1> DEFINE n == Len(s.dists)
           nothing == [catalog |-> Builtins(s), issues |-> <<>>, failed |-> None]
           Have == {k \in 0 .. n : \E f : Registers(f, s, k)}
           found == CHOOSE f : Registers(f, s, n)
           Fine == {k \in 0 .. n : Genuine(found[k])}
<1>0. n \in Nat /\ 0 \in 0 .. n /\ n \in 0 .. n
  OBVIOUS
<1>1. 0 \in Have
  <2> DEFINE f == [i \in 0 .. 0 |-> nothing]
  <2>1. Registers(f, s, 0)
    BY DEF Registers
  <2> HIDE DEF f
  <2> QED  BY <2>1
<1>2. ASSUME NEW k \in 0 .. n - 1, k \in Have PROVE k + 1 \in Have
  <2>1. PICK f : Registers(f, s, k)
    BY <1>2
  <2> DEFINE g == [i \in 0 .. k + 1 |-> IF i \in 0 .. k THEN f[i] ELSE RegisterDistribution(f[k], s.dists[i])]
  <2>2. ASSUME NEW i \in 0 .. k + 1
        PROVE  g[i] = IF i = 0 THEN nothing ELSE RegisterDistribution(g[i - 1], s.dists[i])
    <3>1. CASE i = 0
      BY <2>1, <3>1 DEF Registers
    <3>2. CASE i \in 1 .. k
      <4>1. g[i] = f[i] /\ g[i - 1] = f[i - 1] /\ i \in 0 .. k /\ i # 0
        BY <3>2
      <4>2. f[i] = RegisterDistribution(f[i - 1], s.dists[i])
        BY <2>1, <4>1 DEF Registers
      <4> QED  BY <4>1, <4>2
    <3>3. CASE i = k + 1
      <4>1. g[i] = RegisterDistribution(f[k], s.dists[i]) /\ g[i - 1] = f[k] /\ i # 0
        BY <3>3
      <4> QED  BY <4>1
    <3> QED  BY <3>1, <3>2, <3>3
  <2>3. Registers(g, s, k + 1)
    BY <2>2 DEF Registers
  <2> HIDE DEF g
  <2> QED  BY <2>3
<1>3. \E f : Registers(f, s, n)
  <2> HIDE DEF n, Have
  <2>1. n \in Have
    BY <1>0, <1>1, <1>2, Counting
  <2> QED  BY <2>1 DEF Have
<1>4. Registers(found, s, n)
  BY <1>3
<1> HIDE DEF found
<1>5. 0 \in Fine
  <2>1. found[0] = nothing
    BY <1>4 DEF Registers
  <2>2. Genuine(nothing)
    BY DEF Genuine, Builtins, Registration
  <2> QED  BY <2>1, <2>2
<1>6. ASSUME NEW k \in 0 .. n - 1, k \in Fine PROVE k + 1 \in Fine
  <2>1. found[k + 1] = RegisterDistribution(found[k], s.dists[k + 1])
    BY <1>4 DEF Registers
  <2>2. Genuine(found[k]) /\ Len(s.dists[k + 1].entries) \in Nat
    BY <1>6
  <2> QED  BY <2>1, <2>2, DistributionGenuine
<1>7. Genuine(found[n])
  <2> HIDE DEF n, Fine
  <2>1. n \in Fine
    BY <1>0, <1>5, <1>6, Counting
  <2> QED  BY <2>1 DEF Fine
<1>8. Discover(s) = found[n]
  BY DEF Discover, found, Registers
<1> QED  BY <1>7, <1>8

-----------------------------------------------------------------------------
(* The store that is asked *)

\* None of the requests is about a play that is not played.
LEMMA InitPlayed == PlatformInit => Played
BY DEF PlatformInit, FixedInit, Played

\* It is played to the end.
LEMMA PlayedStays == ASSUME Played, UNCHANGED fixed PROVE Played'
BY DEF Played, fixed

\* What the play was like.
LEMMA PlayedIs ==
    ASSUME Played
    PROVE  /\ Genuine(known) /\ site.entryPoints \in Seq({site.entryPoints[i] : i \in DOMAIN site.entryPoints})
           /\ \A t \in DOMAIN Policies(site) : \A group \in DOMAIN Policies(site)[t] : Policies(site)[t][group] # None
           /\ \A r \in Requests : TenantPolicy(site, request[r].tenant) = None => site.policies = None
<1>1. PICK p \in DOMAIN Plays : site = Plays[p].site /\ request = Plays[p].request /\ known = Discover(site)
  BY DEF Played
<1>2. Genuine(known)
  BY <1>1, DiscoveryGenuine, SiteAssumption
<1> QED  BY <1>1, <1>2, SiteAssumption

\* A plugin that is loaded is allowed, to the process and to the tenant.
LEMMA LoadedIsAllowed ==
    ASSUME Played, NEW r \in Requests, Loading(r) = "loaded"
    PROVE  /\ Provider(r) \notin site.disabled
           /\ site.vectorstores = None \/ Provider(r) \in site.vectorstores
           /\ site.policies # None =>
                /\ Q(r).tenant \in DOMAIN Policies(site)
                /\ LET mine == Policies(site)[Q(r).tenant]
                   IN  "vectorstores" \in DOMAIN mine => Provider(r) \in mine.vectorstores
<1> DEFINE k == <<"vectorstore", Provider(r)>>
           reg == known.catalog[k]
           tenant == TenantPolicy(site, Q(r).tenant)
<1>1. EvaluatePolicy(k, reg, ProcessPolicy(site), tenant) = "allowed"
  BY DEF Loading, LoadPlugin
<1>2. EvaluateScope(k, reg, ProcessPolicy(site)) = "allowed"
  BY <1>1 DEF EvaluatePolicy
<1>3. tenant # None => EvaluateScope(k, reg, tenant) = "allowed"
  BY <1>1, <1>2 DEF EvaluatePolicy
<1>4. k[1] = "vectorstore" /\ k[2] = Provider(r)
  OBVIOUS
<1> HIDE DEF k, reg
<1>5. Provider(r) \notin site.disabled /\ (site.vectorstores = None \/ Provider(r) \in site.vectorstores)
  BY <1>2, <1>4 DEF EvaluateScope, ProcessPolicy
<1>6. ASSUME site.policies # None
      PROVE  /\ Q(r).tenant \in DOMAIN Policies(site)
             /\ LET mine == Policies(site)[Q(r).tenant]
                IN  "vectorstores" \in DOMAIN mine => Provider(r) \in mine.vectorstores
  <2>1. tenant # None
    BY <1>6, PlayedIs DEF Q
  <2>2. EvaluateScope(k, reg, tenant) = "allowed"
    BY <1>3, <2>1
  <2>3. tenant.allow.vectorstore = None \/ Provider(r) \in tenant.allow.vectorstore
    BY <1>4, <2>2 DEF EvaluateScope, TenantPolicy
  <2>4. tenant.allow.vectorstore =
          IF Q(r).tenant \notin DOMAIN Policies(site) THEN {}
          ELSE IF "vectorstores" \in DOMAIN Policies(site)[Q(r).tenant]
          THEN Policies(site)[Q(r).tenant]["vectorstores"] ELSE None
    BY <1>6 DEF TenantPolicy
  <2>5. Q(r).tenant \in DOMAIN Policies(site)
    BY <2>3, <2>4, SiteAssumption
  <2> QED  BY <2>3, <2>4, <2>5, PlayedIs
<1> QED  BY <1>5, <1>6

\* A store that was asked is one the process and the tenant allow, and official
\* plugins are what they were built to be.
\* On the deprecated paths nobody was asked, but for requests which chose no plugin.
LEMMA StoresAllowed == ASSUME Course, Played, NEW r \in Requests PROVE StoreHolds(r)
<1> SUFFICES ASSUME call[r].op # None PROVE StoreHolds(r)
  BY DEF StoreHolds
<1>1. Refusal(r) = None /\ call[r].via = Via(r)
  BY DEF Course, NoCall
<1>2. CASE Deprecated(r)
  <2>1. call[r].via \in {"langchain", "files"}
    BY <1>1, <1>2 DEF Via
  <2>2. Q(r).kind \in {"ingest", "delete", "list"} /\ Q(r).store = None
    BY <1>2 DEF Deprecated, RolledBack, Selected, Namespaced
  <2> QED  BY <1>2, <2>1, <2>2 DEF StoreHolds
<1>3. CASE ~Deprecated(r)
  <2>1. call[r].via = Provider(r)
    BY <1>1, <1>3 DEF Via
  <2>2. Loading(r) = "loaded"
    BY <1>1, <1>3, SiteAssumption DEF Refusal
  <2>3. <<"vectorstore", Provider(r)>> \in Official =>
          known.catalog[<<"vectorstore", Provider(r)>>].target = <<"vectorstore", Provider(r)>>
    BY PlayedIs DEF Genuine
  <2> QED  BY <1>3, <2>1, <2>2, <2>3, LoadedIsAllowed DEF StoreHolds
<1> QED  BY <1>2, <1>3

-----------------------------------------------------------------------------
(* The steps of the stores *)

\* What the store of r has of its collection; nothing happens to the others.
Shelf(r)     == Held(call[r].via, Coll(r))
Elsewhere(r) ==
    \A via \in Vendors, c \in Collections : Held(via, c)' = Held(via, c) \/ (via = call[r].via /\ c = Coll(r))
Loose(r)     == call[r].step # "answered"
Closed(r)    == Loose(r) /\ call'[r].step = "answered"
Gone(r)      == Of(Shelf(r), request[r].source)

\* A row that carries the fingerprint is found.
Meets(r) == \E x \in Shelf(r) : x.hash = call[r].memo

\* How far an operation has come that takes more than one step.
Scrolling(r) == IF call[r].step = "start" THEN [seen |-> {}, next |-> 0] ELSE call[r].memo
Size(r)      == Min({PageSize, MaxScan - Cardinality(Scrolling(r).seen)})
Remaining(r) == Rest(Shelf(r), Scrolling(r).next)
Page(r)      == First(Size(r), Remaining(r))
Seen(r)      == Scrolling(r).seen \cup Page(r)
Halfway(r) ==
    /\ Loose(r) /\ call'[r].step # "answered"
    /\ call[r].op = "lookup" => call'[r].memo = call[r].memo
    /\ call[r].via = "files" /\ call[r].op = "upsert" => call'[r].step = "dump" /\
         call'[r].memo = [n |-> Cardinality(call[r].rows), rows |-> Shelf(r) \cup call[r].rows]
    /\ call[r].via = "files" /\ call[r].op = "delete" =>
         \/ call'[r].step = "load" /\ call'[r].memo = Gone(r)
         \/ /\ call[r].step = "load" /\ call'[r].step = "dump"
            /\ call'[r].memo = [n |-> Cardinality(call[r].memo), rows |-> Shelf(r) \ call[r].memo]
    /\ call[r].via = "qdrant" /\ call[r].op = "delete" =>
         call'[r].step = "delete" /\ call'[r].memo = Cardinality(Gone(r))
    /\ call[r].via = "langchain" /\ call[r].op = "list" =>
         call'[r].step = "groups" /\ call'[r].memo = Cardinality(Shelf(r))
    /\ call[r].via = "qdrant" /\ call[r].op = "list" =>
         /\ call[r].step \in {"start", "scroll"} /\ call'[r].step = "scroll"
         /\ ~(Size(r) < 1) /\ Page(r) # Remaining(r)
         /\ call'[r].memo = [seen |-> Seen(r), next |-> Min({x.id : x \in Remaining(r) \ Page(r)})]

\* A step that shows nowhere but in its call: it fails, comes half the way, or answers
\* an ensure or a lookup.
Missed(r)   == call'[r].step = "answered" /\ ~Out(r)'.ok /\ (Loose(r) \/ Out(r)'.why = "connection")
Informs(r) ==
    /\ Closed(r) /\ Out(r)'.ok
    /\ call[r].via \in Vendors =>
         call[r].op = "ensure" \/ (call[r].op = "lookup" /\ (Out(r)'.n > 0 => Meets(r)))
Quiet(r) ==
    /\ effects' = effects /\ \A via \in Vendors, c \in Collections : Held(via, c)' = Held(via, c)
    /\ Missed(r) \/ Halfway(r) \/ Informs(r)

\* What is done, and how it is answered.
Puts(r) ==
    /\ call[r].op = "upsert"
    /\ IF call[r].via = "files"
       THEN call[r].step = "dump" /\ Shelf(r)' = call[r].memo.rows /\ Out(r)'.ok /\ Out(r)'.n = call[r].memo.n
       ELSE /\ \/ Shelf(r)' = Merged(Shelf(r), call[r].rows)
               \/ call[r].via = "langchain" /\ Shelf(r)' = Shelf(r) \cup call[r].rows
            /\ Out(r)'.ok => Out(r)'.n = Cardinality(call[r].rows)
            /\ ~Out(r)'.ok => Out(r)'.why = "uncertain"
Takes(r, n) ==
    /\ call[r].op = "delete"
    /\ \/ /\ call[r].via = "pgvector" /\ Shelf(r)' = Shelf(r) \ Gone(r)
          /\ Out(r)'.ok /\ Out(r)'.n = n
       \/ /\ call[r].via = "qdrant" /\ call[r].step = "delete" /\ Shelf(r)' = Shelf(r) \ Gone(r)
          /\ n = Cardinality(Shelf(r) \ (Shelf(r) \ Gone(r))) /\ (Out(r)'.ok => Out(r)'.n = call[r].memo)
       \/ /\ call[r].via = "files" /\ Out(r)'.ok /\ Out(r)'.n = n
          /\ \/ Gone(r) = {} /\ Shelf(r)' = Shelf(r)
             \/ call[r].step = "dump" /\ Shelf(r)' = call[r].memo.rows
Drops(r) == call[r].op = "drop" /\ Shelf(r)' = {}
Lists(r) ==
    /\ call[r].op = "list" /\ Shelf(r)' = Shelf(r) /\ Out(r)'.ok
    /\ \/ /\ call[r].via = "pgvector"
          /\ Out(r)'.n = Cardinality(Shelf(r)) /\ Out(r)'.list = Grouped(Shelf(r))
       \/ /\ call[r].via = "langchain" /\ call[r].step = "groups"
          /\ Out(r)'.n = call[r].memo /\ Out(r)'.list = Grouped(Shelf(r))
       \/ /\ call[r].via = "qdrant" /\ call[r].step \in {"start", "scroll"}
          /\ ~(Size(r) < 1) /\ Page(r) = Remaining(r)
          /\ Out(r)'.n = Cardinality(Seen(r)) /\ Out(r)'.list = Grouped(Seen(r))
Hits(r, rows) ==
    IF call[r].via = "pgvector" THEN rows # Broken /\ rows \in Selection(r, Shelf(r))
    ELSE rows = {x \in Shelf(r) : Unfiltered(r) \/ PayloadMatches(Metadata(x), FilterOf(r))}
Searches(r) ==
    /\ call[r].op = "search" /\ call[r].via \in {"pgvector", "qdrant"} /\ Shelf(r)' = Shelf(r) /\ Out(r)'.ok
    /\ \E rows : Hits(r, rows) /\ Out(r)'.list = {x.id : x \in rows}

Deed(r, n) == [by |-> r, what |-> Doing[call[r].op], via |-> call[r].via, n |-> n,
               rows |-> IF call[r].op = "upsert" THEN call[r].rows ELSE {}]
Noted(r, n) == effects' = Append(effects, Deed(r, n))
Performs(r) ==
    /\ Closed(r) /\ call[r].via \in Vendors /\ call[r].op \in DOMAIN Doing /\ Elsewhere(r)
    /\ \E n : Noted(r, n) /\ (Puts(r) \/ Takes(r, n) \/ Drops(r) \/ Lists(r) \/ Searches(r))

Acted(r) == Shelves' /\ (Quiet(r) \/ Performs(r))

-----------------------------------------------------------------------------
\* A call that goes on.
LEMMA Going ==
    ASSUME Calls, NEW r \in Requests, NEW step, NEW memo, Goto(r, step, memo)
    PROVE  call'[r].step = step /\ call'[r].memo = memo
BY DEF Goto, Calls, NoCall

\* A call that is answered,
LEMMA Answering ==
    ASSUME Calls, NEW r \in Requests, NEW n, NEW list, Answer(r, n, list)
    PROVE  call'[r].step = "answered" /\ Out(r)'.ok /\ Out(r)'.n = n /\ Out(r)'.list = list
BY DEF Answer, Calls, NoCall, Out

\* or fails.
LEMMA Failing ==
    ASSUME Calls, NEW r \in Requests, NEW why, Fail(r, why)
    PROVE  call'[r].step = "answered" /\ ~Out(r)'.ok /\ Out(r)'.why = why
BY DEF Fail, Calls, NoCall, Out

\* What each store has.
LEMMA HeldIs ==
    ASSUME NEW c
    PROVE  /\ Held("pgvector", c) = pg.rows[c] /\ Held("qdrant", c) = qd.rows[c]
           /\ Held("langchain", c) = lc.rows[c] /\ Held("files", c) = tv[c].rows
BY DEF Held

\* A store that is left alone.
LEMMA StoresStay ==
    ASSUME Shelves, UNCHANGED stores
    PROVE  Shelves' /\ \A via \in Vendors, c \in Collections : Held(via, c)' = Held(via, c)
BY DEF stores, Shelves, Held, Vendors

\* A call that fails where nothing is done,
LEMMA QuietFailure ==
    ASSUME Calls, Shelves, NEW r \in Requests, NEW why, Fail(r, why), Loose(r) \/ why = "connection", UNCHANGED <<stores, effects>>
    PROVE  Acted(r)
BY StoresStay, Failing DEF Acted, Quiet, Missed
\* and one that goes half the way.
LEMMA QuietStep ==
    ASSUME Calls, Shelves, NEW r \in Requests, Halfway(r), UNCHANGED <<stores, effects>>
    PROVE  Acted(r)
BY StoresStay DEF Acted, Quiet

-----------------------------------------------------------------------------
(* Filters *)

\* The parts of a filter on the way to a place.
PartsTo(f, e, p) == f = [n \in 0 .. Len(p) |-> IF n = 0 THEN e ELSE f[n - 1].of[p[n]]]

\* The root is the filter,
LEMMA RootPart == ASSUME NEW e PROVE Root = <<>> /\ Len(Root) = 0 /\ Part(e, Root) = e /\ Part(e, <<>>) = e
<1> DEFINE g == [n \in 0 .. 0 |-> e]
           f == CHOOSE f : PartsTo(f, e, <<>>)
<1>1. PartsTo(g, e, <<>>)
  BY DEF PartsTo
<1> HIDE DEF g
<1>2. PartsTo(f, e, <<>>)
  BY <1>1
<1>3. Part(e, <<>>) = f[0]
  BY DEF Part, PartsTo
<1> HIDE DEF f
<1>4. f[0] = e
  BY <1>2 DEF PartsTo
<1> QED  BY <1>3, <1>4 DEF Root

\* and below it are its parts.
LEMMA NextPart == ASSUME NEW e, NEW i \in Nat PROVE Len(<<i>>) = 1 /\ Part(e, <<i>>) = e.of[i]
<1> DEFINE g == [n \in 0 .. 1 |-> IF n = 0 THEN e ELSE e.of[i]]
           f == CHOOSE f : PartsTo(f, e, <<i>>)
<1>0. Len(<<i>>) = 1 /\ <<i>>[1] = i
  OBVIOUS
<1>1. PartsTo(g, e, <<i>>)
  <2>1. \A n \in 0 .. 1 : g[n] = IF n = 0 THEN e ELSE g[n - 1].of[<<i>>[n]]
    BY <1>0
  <2> QED  BY <1>0, <2>1 DEF PartsTo
<1> HIDE DEF g
<1>2. PartsTo(f, e, <<i>>)
  BY <1>1
<1>3. Part(e, <<i>>) = f[1]
  BY <1>0 DEF Part, PartsTo
<1> HIDE DEF f
<1>4. f[0] = e /\ f[1] = f[0].of[i]
  BY <1>0, <1>2 DEF PartsTo
<1> QED  BY <1>0, <1>3, <1>4

\* A condition has no other place than its root.
LEMMA OnePlace == ASSUME NEW e, ~Compound(e) PROVE Inside(e) = {Root} /\ Conditions(e) = {Root}
<1>1. Root \in Places
  <2>1. <<>> \in [1 .. 0 -> 1 .. Widest]
    OBVIOUS
  <2> QED  BY <2>1, BoundAssumption DEF Places, Root
<1>2. Root \in Inside(e)
  BY <1>1, RootPart DEF Inside
<1>3. ASSUME NEW p \in Inside(e) PROVE p = Root
  <2>1. PICK n \in 0 .. Deepest : p \in [1 .. n -> 1 .. Widest]
    BY DEF Inside, Places
  <2>2. CASE n = 0
    BY <2>1, <2>2 DEF Root
  <2>3. CASE n # 0
    <3>1. Len(p) = n /\ 1 \in 1 .. Len(p) /\ p \in Seq(Nat)
      BY <2>1, <2>3, BoundAssumption
    <3>2. SubSeq(p, 1, 1 - 1) = <<>>
      BY <3>1
    <3>3. Compound(Part(e, SubSeq(p, 1, 1 - 1)))
      BY <3>1 DEF Inside
    <3> QED  BY <3>2, <3>3, RootPart
  <2> QED  BY <2>2, <2>3
<1> QED  BY <1>2, <1>3, RootPart DEF Conditions

\* What a filter comes to, place by place.
Chosen(child) ==
    {{g[i] : i \in DOMAIN child} : g \in {g \in [DOMAIN child -> UNION {child[i] : i \in DOMAIN child}] :
                                            \A i \in DOMAIN child : g[i] \in child[i]}}
Level(this, child, value) ==
    CASE this.kind = "and" -> UNION {Decided(s, "false", "true") : s \in Chosen(child)}
      [] this.kind = "or"  -> UNION {Decided(s, "true", "false") : s \in Chosen(child)}
      [] this.kind = "not" -> {Negated(t) : t \in child[1]}
      [] OTHER             -> value
Below(f, e, p) == [i \in DOMAIN Part(e, p).of |-> f[Append(p, i)]]
CombinedFrom(f, e, values) == f = [p \in Inside(e) |-> Level(Part(e, p), Below(f, e, p), values[p])]

\* A condition comes to its value.
LEMMA ConditionValue ==
    ASSUME NEW e, ~Compound(e), e.kind \notin {"and", "or", "not"}, NEW values PROVE Combined(e, values) = values[Root]
<1> DEFINE g == [p \in {Root} |-> values[p]]
           f == CHOOSE f : CombinedFrom(f, e, values)
<1>0. Inside(e) = {Root} /\ Part(e, Root) = e
  BY OnePlace, RootPart
<1>1. CombinedFrom(g, e, values)
  BY <1>0 DEF CombinedFrom, Level
<1> HIDE DEF g
<1>2. CombinedFrom(f, e, values)
  BY <1>1
<1>3. Combined(e, values) = f[Root]
  BY DEF Combined, CombinedFrom, Level, Below, Chosen
<1> HIDE DEF f
<1>4. f[Root] = values[Root]
  BY <1>0, <1>2 DEF CombinedFrom, Level
<1> QED  BY <1>3, <1>4

\* So a condition on one field holds if it is met,
LEMMA NamedMatches ==
    ASSUME NEW meta, NEW e, Named(e)
    PROVE  /\ Compiled(meta, e) = {IF e.field \in DOMAIN meta THEN Truth(Satisfies(meta, e)) ELSE "null"}
           /\ Matches(meta, e) <=> Satisfies(meta, e)
           /\ PayloadMatches(meta, e) <=> PayloadSatisfies(meta, e)
<1>1. ~Compound(e) /\ e.kind = "equals"
  BY DEF Named, Equals, Compound
<1>2. Conditions(e) = {Root} /\ Part(e, Root) = e /\ Root \in Conditions(e)
  BY <1>1, OnePlace, RootPart
<1>3. \A values : Combined(e, values) = values[Root]
  BY <1>1, ConditionValue
<1>4. Compiled(meta, e) = CompiledCondition(meta, e)
  BY <1>2, <1>3 DEF Compiled
<1>5. \A truth : DOMAIN truth = {Root} => (Holds(e, truth) <=> truth[Root])
  BY <1>3 DEF Holds, Truth
<1>6. Matches(meta, e) <=> Satisfies(meta, e)
  BY <1>2, <1>5 DEF Matches
<1>7. PayloadMatches(meta, e) <=> PayloadSatisfies(meta, e)
  BY <1>2, <1>5 DEF PayloadMatches
<1> QED  BY <1>1, <1>4, <1>6, <1>7 DEF CompiledCondition

\* and a fingerprint is found where it is.
LEMMA FingerprintMatches ==
    ASSUME NEW x, NEW h
    PROVE  LET e == Equals("source_hash", Words(h))
           IN  /\ "true" \in Compiled(Metadata(x), e) => x.hash = h
               /\ PayloadMatches(Metadata(x), e) => x.hash = h
<1> DEFINE e == Equals("source_hash", Words(h))
           meta == Metadata(x)
<1>1. Named(e) /\ e.field = "source_hash" /\ e.kind = "equals" /\ e.value = Words(h)
  BY DEF Named, Equals
<1>2. "source_hash" \in DOMAIN meta => meta["source_hash"] = Words(x.hash)
  BY DEF Metadata
<1>3. Words(x.hash).v = x.hash /\ Words(h).v = h /\ Words(h).type = "words"
  BY DEF Words, Value
<1> HIDE DEF e, meta
<1>4. "true" \in Compiled(meta, e) => Satisfies(meta, e)
  BY <1>1, NamedMatches DEF Truth
<1>5. Satisfies(meta, e) => x.hash = h
  BY <1>1, <1>2, <1>3 DEF Satisfies, EqualScalar
<1>6. PayloadSatisfies(meta, e) => x.hash = h
  BY <1>1, <1>2, <1>3 DEF PayloadSatisfies, Condition
<1> QED  BY <1>1, <1>4, <1>5, <1>6, NamedMatches DEF e, meta

\* A lookup in PostgreSQL finds nothing but rows that carry the fingerprint.
LEMMA LookupFinds ==
    ASSUME NEW r, call[r].op = "lookup", NEW rows, NEW found \in Selection(r, rows), found # Broken,
           Cardinality(found) > 0
    PROVE  \E x \in rows : x.hash = call[r].memo
<1> DEFINE e == Equals("source_hash", Words(call[r].memo))
           truth == [x \in rows |-> Compiled(Metadata(x), e)]
<1>1. found = {x \in rows : "true" \in truth[x]}
  BY DEF Selection, Unfiltered, FilterOf
<1>2. found # {}
  BY FS_EmptySet
<1>3. PICK x \in rows : "true" \in Compiled(Metadata(x), e)
  BY <1>1, <1>2
<1> QED  BY <1>3, FingerprintMatches

\* A change of PostgreSQL alone: of one collection, if the rows of another are as before.
LEMMA PgChanges ==
    ASSUME Shelves, NEW r \in Requests, call[r].via = "pgvector", call'[r].via = call[r].via, UNCHANGED <<qd, lc, tv>>,
           \A c \in Collections : pg'.rows[c] = pg.rows[c] \/ c = Coll(r), request' = request
    PROVE  /\ Shelves' /\ Elsewhere(r) /\ Shelf(r)' = pg'.rows[Coll(r)] /\ Shelf(r) = pg.rows[Coll(r)]
           /\ pg'.rows[Coll(r)] = pg.rows[Coll(r)] =>
                \A via \in Vendors, c \in Collections : Held(via, c)' = Held(via, c)
<1>1. Shelves'
  BY DEF Shelves
<1>2. Shelf(r)' = pg'.rows[Coll(r)] /\ Shelf(r) = pg.rows[Coll(r)]
  BY DEF Shelf, Held, Coll
<1>3. \A c \in Collections : /\ Held("pgvector", c)' = pg'.rows[c] /\ Held("pgvector", c) = pg.rows[c]
                             /\ Held("qdrant", c)' = Held("qdrant", c)
                             /\ Held("langchain", c)' = Held("langchain", c)
                             /\ Held("files", c)' = Held("files", c)
  BY DEF Held
<1> QED  BY <1>1, <1>2, <1>3 DEF Elsewhere, Vendors

\* What PostgreSQL does comes to one of these.
LEMMA PgActs ==
    ASSUME IInv, Shelves, NEW r \in Requests, PgStep(r), Moves(r), request' = request PROVE Acted(r)
<1> USE DEF IInv
<1>v. /\ call[r].via = "pgvector" /\ Loose(r) /\ call'[r].via = "pgvector" /\ call'[r].op = call[r].op
      /\ call[r].via \in Vendors /\ Coll(r) \in Collections
  BY DEF PgStep, PgEnsureRead, PgEnsureBlocked, PgEnsureInsert, PgRequire, PgUpsert, PgSearch, PgDelete, PgAggregate,
         PgDrop, At, Loose, Moves, Vendors, Asks
<1>f. ASSUME NEW why, Fail(r, why), UNCHANGED <<stores, effects>> PROVE Acted(r)
  BY <1>f, <1>v, QuietFailure
<1>1. CASE PgEnsureRead(r) \/ PgEnsureBlocked(r)
  <2>1. call[r].op = "ensure" /\ UNCHANGED <<stores, effects>>
    BY <1>1 DEF PgEnsureRead, PgEnsureBlocked, At
  <2>2. CASE \E why : Fail(r, why)
    BY <1>f, <2>1, <2>2
  <2>3. CASE \E step, memo : Goto(r, step, memo) /\ step \in {"blocked", "insert", "start"}
    <3>1. call'[r].step # "answered"
      BY <2>3, Going
    <3> QED  BY <1>v, <2>1, <3>1, QuietStep DEF Halfway
  <2> QED  BY <1>1, <2>2, <2>3 DEF PgEnsureRead, PgEnsureBlocked
<1>2. CASE PgEnsureInsert(r)
  <2>1. /\ call[r].op = "ensure" /\ Answer(r, 0, {}) /\ UNCHANGED <<qd, lc, tv, effects>>
        /\ pg'.rows = pg.rows
    BY <1>2 DEF PgEnsureInsert, At, Stored
  <2>2. Informs(r)
    BY <1>v, <2>1, Answering DEF Informs, Closed
  <2> QED  BY <1>v, <2>1, <2>2, PgChanges DEF Acted, Quiet
<1>3. CASE PgRequire(r)
  <2>1. call[r].op \in {"upsert", "search", "lookup"} /\ UNCHANGED <<stores, effects>>
    BY <1>3 DEF PgRequire, At
  <2>2. CASE \E why : Fail(r, why)
    BY <1>f, <2>1, <2>2
  <2>3. CASE Goto(r, "statement", call[r].memo)
    <3>1. call'[r].step = "statement" /\ call'[r].memo = call[r].memo
      BY <2>3, Going
    <3> QED  BY <1>v, <2>1, <3>1, QuietStep DEF Halfway
  <2> QED  BY <1>3, <2>2, <2>3 DEF PgRequire
<1>4. CASE PgUpsert(r)
  <2>1. call[r].op = "upsert" /\ UNCHANGED <<qd, lc, tv>>
    BY <1>4 DEF PgUpsert, At
  <2>2. CASE Fail(r, "operation") /\ UNCHANGED <<pg, effects>>
    BY <1>f, <2>1, <2>2 DEF stores
  <2>3. CASE /\ pg' = [pg EXCEPT !.rows[Coll(r)] = Merged(@, call[r].rows)]
             /\ Answer(r, Cardinality(call[r].rows), {}) /\ Effect(r, "wrote", Cardinality(call[r].rows))
    <3>1. /\ \A c \in Collections : pg'.rows[c] = pg.rows[c] \/ c = Coll(r)
          /\ pg'.rows[Coll(r)] = Merged(pg.rows[Coll(r)], call[r].rows)
      BY <1>v, <2>3 DEF Stored
    <3>2. /\ Shelves' /\ Elsewhere(r) /\ Shelf(r)' = Merged(Shelf(r), call[r].rows)
      BY <1>v, <2>1, <3>1, PgChanges
    <3>3. Puts(r) /\ Closed(r)
      BY <1>v, <2>1, <2>3, <3>2, Answering DEF Puts, Closed
    <3>4. Noted(r, Cardinality(call[r].rows))
      BY <2>1, <2>3 DEF Effect, Noted, Deed, Doing
    <3> QED  BY <1>v, <2>1, <3>2, <3>3, <3>4 DEF Acted, Performs, Doing
  <2> QED  BY <1>4, <2>2, <2>3 DEF PgUpsert
<1>5. CASE PgSearch(r)
  <2>1. call[r].op \in {"search", "lookup"} /\ UNCHANGED stores
    BY <1>5 DEF PgSearch, At
  <2>2. PICK found \in Selection(r, pg.rows[Coll(r)]) :
          IF found = Broken \/ Misfit(r, found) THEN Fail(r, "operation") /\ UNCHANGED effects ELSE Found(r, found)
    BY <1>5 DEF PgSearch
  <2>3. Shelf(r) = pg.rows[Coll(r)]
    BY <1>v DEF Shelf, Held
  <2>4. CASE Fail(r, "operation") /\ UNCHANGED effects
    BY <1>f, <2>1, <2>4
  <2>5. CASE Found(r, found) /\ found # Broken /\ call[r].op = "lookup"
    <3>1. Answer(r, Cardinality(found), {}) /\ UNCHANGED effects
      BY <2>5 DEF Found
    <3>2. Cardinality(found) > 0 => Meets(r)
      BY <2>2, <2>3, <2>5, LookupFinds DEF Meets
    <3>3. Informs(r)
      BY <1>v, <2>5, <3>1, <3>2, Answering DEF Informs, Closed
    <3> QED  BY <2>1, <3>1, <3>3, StoresStay DEF Acted, Quiet
  <2>6. CASE Found(r, found) /\ found # Broken /\ call[r].op = "search"
    <3>1. Answer(r, Cardinality(found), {x.id : x \in found}) /\ Effect(r, "searched", 0)
      BY <2>6 DEF Found
    <3>2. Shelf(r)' = Shelf(r) /\ Elsewhere(r) /\ Shelves'
      BY <1>v, <2>1, StoresStay DEF Shelf, Elsewhere, Coll
    <3>3. Hits(r, found)
      BY <1>v, <2>2, <2>3, <2>6 DEF Hits, FilterOf
    <3>4. Searches(r) /\ Closed(r)
      BY <1>v, <2>6, <3>1, <3>2, <3>3, Answering DEF Searches, Closed
    <3>5. Noted(r, 0)
      BY <2>6, <3>1 DEF Effect, Noted, Deed, Doing
    <3> QED  BY <1>v, <2>6, <3>2, <3>4, <3>5 DEF Acted, Performs, Doing
  <2> QED  BY <2>1, <2>2, <2>4, <2>5, <2>6
<1>6. CASE PgDelete(r)
  <2>1. call[r].op = "delete" /\ UNCHANGED <<qd, lc, tv>>
    BY <1>6 DEF PgDelete, At
  <2>2. CASE Fail(r, "operation") /\ UNCHANGED <<pg, effects>>
    BY <1>f, <2>1, <2>2 DEF stores
  <2> DEFINE gone == Of(pg.rows[Coll(r)], request[r].source)
  <2>3. CASE /\ pg' = [pg EXCEPT !.rows[Coll(r)] = @ \ gone]
             /\ Answer(r, Cardinality(gone), {}) /\ Effect(r, "deleted", Cardinality(gone))
    <3>1. /\ \A c \in Collections : pg'.rows[c] = pg.rows[c] \/ c = Coll(r)
          /\ pg'.rows[Coll(r)] = pg.rows[Coll(r)] \ gone
      BY <1>v, <2>3 DEF Stored
    <3>2. /\ Shelves' /\ Elsewhere(r) /\ Shelf(r)' = Shelf(r) \ gone /\ gone = Gone(r)
      BY <1>v, <2>1, <3>1, PgChanges DEF Gone
    <3>3. Takes(r, Cardinality(gone)) /\ Closed(r)
      BY <1>v, <2>1, <2>3, <3>2, Answering DEF Takes, Closed
    <3>4. Noted(r, Cardinality(gone))
      BY <2>1, <2>3 DEF Effect, Noted, Deed, Doing
    <3> QED  BY <1>v, <2>1, <3>2, <3>3, <3>4 DEF Acted, Performs, Doing
  <2> QED  BY <1>6, <2>2, <2>3 DEF PgDelete
<1>7. CASE PgAggregate(r)
  <2>1. call[r].op = "list" /\ UNCHANGED stores
    BY <1>7 DEF PgAggregate, At
  <2>2. CASE Fail(r, "operation") /\ UNCHANGED effects
    BY <1>f, <2>1, <2>2
  <2>3. CASE /\ Answer(r, Cardinality(pg.rows[Coll(r)]), Grouped(pg.rows[Coll(r)])) /\ Effect(r, "listed", 0)
    <3>1. Shelf(r)' = Shelf(r) /\ Elsewhere(r) /\ Shelves' /\ Shelf(r) = pg.rows[Coll(r)]
      BY <1>v, <2>1, StoresStay, HeldIs DEF Shelf, Elsewhere, Coll
    <3>2. Lists(r) /\ Closed(r)
      BY <1>v, <2>1, <2>3, <3>1, Answering DEF Lists, Closed
    <3>3. Noted(r, 0)
      BY <2>1, <2>3 DEF Effect, Noted, Deed, Doing
    <3> QED  BY <1>v, <2>1, <3>1, <3>2, <3>3 DEF Acted, Performs, Doing
  <2> QED  BY <1>7, <2>2, <2>3 DEF PgAggregate
<1>8. CASE PgDrop(r)
  <2>1. call[r].op = "drop" /\ UNCHANGED <<qd, lc, tv>>
    BY <1>8 DEF PgDrop, At
  <2>2. CASE Fail(r, "operation") /\ UNCHANGED <<pg, effects>>
    BY <1>f, <2>1, <2>2 DEF stores
  <2>3. CASE /\ pg' = [pg EXCEPT !.width[Coll(r)] = 0, !.rows[Coll(r)] = {}]
             /\ Answer(r, 0, {}) /\ Effect(r, "dropped", 0)
    <3>1. /\ \A c \in Collections : pg'.rows[c] = pg.rows[c] \/ c = Coll(r)
          /\ pg'.rows[Coll(r)] = {}
      BY <1>v, <2>3 DEF Stored
    <3>2. /\ Shelves' /\ Elsewhere(r) /\ Shelf(r)' = {}
      BY <1>v, <2>1, <3>1, PgChanges
    <3>3. Drops(r) /\ Closed(r)
      BY <1>v, <2>1, <2>3, <3>2, Answering DEF Drops, Closed
    <3>4. Noted(r, 0)
      BY <2>1, <2>3 DEF Effect, Noted, Deed, Doing
    <3> QED  BY <1>v, <2>1, <3>2, <3>3, <3>4 DEF Acted, Performs, Doing
  <2> QED  BY <1>8, <2>2, <2>3 DEF PgDrop
<1> QED  BY <1>1, <1>2, <1>3, <1>4, <1>5, <1>6, <1>7, <1>8 DEF PgStep

\* A change of Qdrant alone.
LEMMA QdChanges ==
    ASSUME Shelves, NEW r \in Requests, call[r].via = "qdrant", call'[r].via = call[r].via, UNCHANGED <<pg, lc, tv>>,
           \A c \in Collections : qd'.rows[c] = qd.rows[c] \/ c = Coll(r), request' = request
    PROVE  /\ Shelves' /\ Elsewhere(r) /\ Shelf(r)' = qd'.rows[Coll(r)] /\ Shelf(r) = qd.rows[Coll(r)]
           /\ qd'.rows[Coll(r)] = qd.rows[Coll(r)] =>
                \A via \in Vendors, c \in Collections : Held(via, c)' = Held(via, c)
<1>1. Shelves'
  BY DEF Shelves
<1>2. Shelf(r)' = qd'.rows[Coll(r)] /\ Shelf(r) = qd.rows[Coll(r)]
  BY DEF Shelf, Held, Coll
<1>3. \A c \in Collections : /\ Held("qdrant", c)' = qd'.rows[c] /\ Held("qdrant", c) = qd.rows[c]
                             /\ Held("pgvector", c)' = Held("pgvector", c)
                             /\ Held("langchain", c)' = Held("langchain", c)
                             /\ Held("files", c)' = Held("files", c)
  BY DEF Held
<1> QED  BY <1>1, <1>2, <1>3 DEF Elsewhere, Vendors

\* An update of Qdrant is done and answered, done and uncertain, or not done and uncertain.
LEMMA QdUpdates ==
    ASSUME IInv, Shelves, NEW r \in Requests, call[r].via = "qdrant", call'[r].via = call[r].via, Loose(r),
           NEW rows, NEW n, NEW what, QdUpdate(r, rows, n, what), UNCHANGED <<pg, lc, tv>>, request' = request
    PROVE  \/ Acted(r)
           \/ /\ Shelves' /\ Elsewhere(r) /\ Shelf(r)' = rows /\ Shelf(r) = qd.rows[Coll(r)] /\ Closed(r)
              /\ Out(r)'.ok => Out(r)'.n = n
              /\ ~Out(r)'.ok => Out(r)'.why = "uncertain"
              /\ Effect(r, what, IF what = "wrote" THEN n ELSE Cardinality(qd.rows[Coll(r)] \ rows))
<1> USE DEF IInv
<1>0. Coll(r) \in Collections
  BY DEF Asks
<1>1. CASE Fail(r, "uncertain") /\ UNCHANGED <<qd, effects>>
  BY <1>1, QuietFailure DEF stores
<1>2. CASE /\ qd' = [qd EXCEPT !.rows[Coll(r)] = rows]
           /\ Effect(r, what, IF what = "wrote" THEN n ELSE Cardinality(qd.rows[Coll(r)] \ rows))
           /\ Answer(r, n, {}) \/ Fail(r, "uncertain")
  <2>1. /\ \A c \in Collections : qd'.rows[c] = qd.rows[c] \/ c = Coll(r)
        /\ qd'.rows[Coll(r)] = rows
    BY <1>0, <1>2 DEF Stored
  <2>2. Shelves' /\ Elsewhere(r) /\ Shelf(r)' = rows /\ Shelf(r) = qd.rows[Coll(r)]
    BY <2>1, QdChanges
  <2>3. Closed(r) /\ (Out(r)'.ok => Out(r)'.n = n) /\ (~Out(r)'.ok => Out(r)'.why = "uncertain")
    BY <1>2, Answering, Failing DEF Closed
  <2> QED  BY <1>2, <2>2, <2>3
<1> QED  BY <1>1, <1>2 DEF QdUpdate

\* What Qdrant does comes to one of these.
LEMMA QdActs ==
    ASSUME IInv, Shelves, NEW r \in Requests, QdStep(r), Moves(r), request' = request PROVE Acted(r)
<1> USE DEF IInv
<1>v. /\ call[r].via = "qdrant" /\ Loose(r) /\ call'[r].via = call[r].via /\ call'[r].op = call[r].op
      /\ call[r].via \in Vendors /\ Coll(r) \in Collections
  BY DEF QdStep, QdExists, QdInspect, QdCreate, QdUpsert, QdSearch, QdCount, QdDelete, QdScroll, QdDrop, At, Loose,
         Moves, Vendors, Asks
<1>f. ASSUME NEW why, Fail(r, why), UNCHANGED <<stores, effects>> PROVE Acted(r)
  BY <1>f, <1>v, QuietFailure
<1>s. Shelf(r) = qd.rows[Coll(r)]
  BY <1>v DEF Shelf, Held
<1>1. CASE QdExists(r)
  <2>1. call[r].op = "ensure" /\ UNCHANGED <<stores, effects>>
    BY <1>1 DEF QdExists, At
  <2>2. call'[r].step # "answered"
    BY <1>1, Going DEF QdExists
  <2> QED  BY <1>v, <2>1, <2>2, QuietStep DEF Halfway
<1>2. CASE QdInspect(r) \/ QdCreate(r)
  <2>1. call[r].op = "ensure" /\ UNCHANGED <<pg, lc, tv>>
    BY <1>2 DEF QdInspect, QdCreate, QdFail, stores, At
  <2>2. CASE QdFail(r)
    BY <1>f, <2>2 DEF QdFail
  <2>3. CASE Answer(r, 0, {}) /\ UNCHANGED effects /\ qd'.rows = qd.rows
    <3>1. Informs(r)
      BY <1>v, <2>1, <2>3, Answering DEF Informs, Closed
    <3> QED  BY <1>v, <2>1, <2>3, <3>1, QdChanges DEF Acted, Quiet
  <2> QED  BY <1>2, <2>2, <2>3 DEF QdInspect, QdCreate, Stored, stores
<1>3. CASE QdUpsert(r)
  <2>1. call[r].op = "upsert"
    BY <1>3 DEF QdUpsert, At
  <2>2. CASE QdFail(r)
    BY <1>f, <2>2 DEF QdFail
  <2>3. CASE /\ QdUpdate(r, Merged(qd.rows[Coll(r)], call[r].rows), Cardinality(call[r].rows), "wrote")
             /\ UNCHANGED <<pg, lc, tv>>
    <3>1. \/ Acted(r)
          \/ /\ Shelves' /\ Elsewhere(r) /\ Shelf(r)' = Merged(Shelf(r), call[r].rows) /\ Closed(r)
             /\ Out(r)'.ok => Out(r)'.n = Cardinality(call[r].rows)
             /\ ~Out(r)'.ok => Out(r)'.why = "uncertain"
             /\ Effect(r, "wrote", Cardinality(call[r].rows))
      BY <1>v, <1>s, <2>3, QdUpdates
    <3>2. Effect(r, "wrote", Cardinality(call[r].rows)) => Noted(r, Cardinality(call[r].rows))
      BY <2>1 DEF Effect, Noted, Deed, Doing
    <3> QED  BY <1>v, <2>1, <3>1, <3>2 DEF Acted, Performs, Puts, Doing
  <2> QED  BY <1>3, <2>2, <2>3 DEF QdUpsert
<1>4. CASE QdSearch(r)
  <2>1. call[r].op \in {"search", "lookup"}
    BY <1>4 DEF QdSearch, At
  <2>2. CASE QdFail(r)
    BY <1>f, <2>2 DEF QdFail
  <2> DEFINE found == {x \in qd.rows[Coll(r)] : Unfiltered(r) \/ PayloadMatches(Metadata(x), FilterOf(r))}
  <2>5. CASE Found(r, found) /\ UNCHANGED stores /\ call[r].op = "lookup"
    <3>1. Answer(r, Cardinality(found), {}) /\ UNCHANGED effects
      BY <2>5 DEF Found
    <3>2. Cardinality(found) > 0 => Meets(r)
      <4>1. SUFFICES ASSUME Cardinality(found) > 0 PROVE Meets(r)
        OBVIOUS
      <4>2. PICK x \in found : TRUE
        BY <4>1, FS_EmptySet
      <4>3. PayloadMatches(Metadata(x), Equals("source_hash", Words(call[r].memo)))
        BY <2>5 DEF Unfiltered, FilterOf
      <4> QED  BY <1>s, <4>3, FingerprintMatches DEF Meets
    <3>3. Informs(r)
      BY <1>v, <2>5, <3>1, <3>2, Answering DEF Informs, Closed
    <3> QED  BY <2>5, <3>1, <3>3, StoresStay DEF Acted, Quiet
  <2>6. CASE Found(r, found) /\ UNCHANGED stores /\ call[r].op = "search"
    <3>1. Answer(r, Cardinality(found), {x.id : x \in found}) /\ Effect(r, "searched", 0)
      BY <2>6 DEF Found
    <3>2. Shelf(r)' = Shelf(r) /\ Elsewhere(r) /\ Shelves'
      BY <1>v, <2>6, StoresStay DEF Shelf, Elsewhere, Coll
    <3>3. Hits(r, found)
      BY <1>v, <1>s, <2>6 DEF Hits
    <3>4. Searches(r) /\ Closed(r)
      BY <1>v, <2>6, <3>1, <3>2, <3>3, Answering DEF Searches, Closed
    <3>5. Noted(r, 0)
      BY <2>6, <3>1 DEF Effect, Noted, Deed, Doing
    <3> QED  BY <1>v, <2>6, <3>2, <3>4, <3>5 DEF Acted, Performs, Doing
  <2> QED  BY <1>4, <2>1, <2>2, <2>5, <2>6 DEF QdSearch
<1>5. CASE QdCount(r)
  <2>1. call[r].op = "delete" /\ UNCHANGED <<stores, effects>>
    BY <1>5 DEF QdCount, QdFail, At
  <2>2. CASE QdFail(r)
    BY <1>f, <2>2 DEF QdFail
  <2>3. CASE Goto(r, "delete", Cardinality(Of(qd.rows[Coll(r)], request[r].source)))
    <3>1. call'[r].step = "delete" /\ call'[r].memo = Cardinality(Gone(r))
      BY <1>s, <2>3, Going DEF Gone
    <3> QED  BY <1>v, <2>1, <3>1, QuietStep DEF Halfway
  <2> QED  BY <1>5, <2>2, <2>3 DEF QdCount
<1>6. CASE QdDelete(r)
  <2>1. call[r].op = "delete" /\ call[r].step = "delete"
    BY <1>6 DEF QdDelete, At
  <2>2. CASE QdFail(r)
    BY <1>f, <2>2 DEF QdFail
  <2>3. CASE /\ QdUpdate(r, Shelf(r) \ Gone(r), call[r].memo, "deleted") /\ UNCHANGED <<pg, lc, tv>>
    <3>1. \/ Acted(r)
          \/ /\ Shelves' /\ Elsewhere(r) /\ Shelf(r)' = Shelf(r) \ Gone(r) /\ Closed(r)
             /\ Out(r)'.ok => Out(r)'.n = call[r].memo
             /\ Effect(r, "deleted", Cardinality(Shelf(r) \ (Shelf(r) \ Gone(r))))
      BY <1>v, <1>s, <2>3, QdUpdates
    <3>2. \A n : Effect(r, "deleted", n) => Noted(r, n)
      BY <2>1 DEF Effect, Noted, Deed, Doing
    <3> QED  BY <1>v, <2>1, <3>1, <3>2 DEF Acted, Performs, Takes, Doing
  <2> QED  BY <1>6, <1>s, <2>2, <2>3 DEF QdDelete, Gone
<1>7. CASE QdScroll(r)
  <2>1. call[r].op = "list" /\ call[r].step \in {"start", "scroll"} /\ UNCHANGED stores
    BY <1>7 DEF QdScroll, At
  <2>2. CASE Fail(r, "operation") /\ UNCHANGED effects
    BY <1>f, <2>1, <2>2
  <2>3. CASE /\ ~(Size(r) < 1) /\ Page(r) # Remaining(r) /\ UNCHANGED effects
             /\ Goto(r, "scroll", [seen |-> Seen(r), next |-> Min({x.id : x \in Remaining(r) \ Page(r)})])
    <3>1. call'[r].step = "scroll" /\ call'[r].memo = [seen |-> Seen(r), next |-> Min({x.id : x \in Remaining(r) \ Page(r)})]
      BY <2>3, Going
    <3> QED  BY <1>v, <2>1, <2>3, <3>1, QuietStep DEF Halfway
  <2>4. CASE /\ ~(Size(r) < 1) /\ Page(r) = Remaining(r)
             /\ Answer(r, Cardinality(Seen(r)), Grouped(Seen(r))) /\ Effect(r, "listed", 0)
    <3>1. Shelf(r)' = Shelf(r) /\ Elsewhere(r) /\ Shelves'
      BY <1>v, <2>1, StoresStay DEF Shelf, Elsewhere, Coll
    <3>2. Lists(r) /\ Closed(r)
      BY <1>v, <2>1, <2>4, <3>1, Answering DEF Lists, Closed
    <3>3. Noted(r, 0)
      BY <2>1, <2>4 DEF Effect, Noted, Deed, Doing
    <3> QED  BY <1>v, <2>1, <3>1, <3>2, <3>3 DEF Acted, Performs, Doing
  <2> QED  BY <1>7, <1>s, <2>2, <2>3, <2>4 DEF QdScroll, Scrolling, Size, Remaining, Page, Seen
<1>8. CASE QdDrop(r)
  <2>1. call[r].op = "drop" /\ UNCHANGED <<pg, lc, tv>>
    BY <1>8 DEF QdDrop, At
  <2>2. /\ qd' = [qd EXCEPT !.width[Coll(r)] = 0, !.rows[Coll(r)] = {}]
        /\ Answer(r, 0, {}) /\ Effect(r, "dropped", 0)
    BY <1>8 DEF QdDrop
  <2>3. /\ \A c \in Collections : qd'.rows[c] = qd.rows[c] \/ c = Coll(r)
        /\ qd'.rows[Coll(r)] = {}
    BY <1>v, <2>2 DEF Stored
  <2>4. /\ Shelves' /\ Elsewhere(r) /\ Shelf(r)' = {}
    BY <1>v, <2>1, <2>3, QdChanges
  <2>5. Drops(r) /\ Closed(r)
    BY <1>v, <2>1, <2>2, <2>4, Answering DEF Drops, Closed
  <2>6. Noted(r, 0)
    BY <2>1, <2>2 DEF Effect, Noted, Deed, Doing
  <2> QED  BY <1>v, <2>1, <2>4, <2>5, <2>6 DEF Acted, Performs, Doing
<1> QED  BY <1>1, <1>2, <1>3, <1>4, <1>5, <1>6, <1>7, <1>8 DEF QdStep

\* A change of the tables of LangChain,
LEMMA LcChanges ==
    ASSUME Shelves, NEW r \in Requests, call[r].via = "langchain", call'[r].via = call[r].via, UNCHANGED <<pg, qd, tv>>,
           request' = request, Coll(r) \in Collections, NEW rows,
           lc' = [lc EXCEPT !.tables = TRUE, !.rows[Coll(r)] = rows]
    PROVE  Shelves' /\ Elsewhere(r) /\ Shelf(r)' = rows /\ Shelf(r) = lc.rows[Coll(r)]
<1>1. Shelves'
  BY DEF Shelves
<1>2. \A c \in Collections : lc'.rows[c] = lc.rows[c] \/ c = Coll(r)
  BY DEF Shelves
<1>3. Shelf(r)' = rows /\ Shelf(r) = lc.rows[Coll(r)]
  BY DEF Shelf, Held, Coll, Shelves
<1>4. \A c \in Collections : /\ Held("langchain", c)' = lc'.rows[c] /\ Held("langchain", c) = lc.rows[c]
                             /\ Held("qdrant", c)' = Held("qdrant", c)
                             /\ Held("pgvector", c)' = Held("pgvector", c)
                             /\ Held("files", c)' = Held("files", c)
  BY DEF Held
<1> QED  BY <1>1, <1>2, <1>3, <1>4 DEF Elsewhere, Vendors

\* and one of the old files.
LEMMA TvChanges ==
    ASSUME Shelves, NEW r \in Requests, call[r].via = "files", call'[r].via = call[r].via, UNCHANGED <<pg, qd, lc>>,
           request' = request, Coll(r) \in Collections, NEW rows,
           tv' = [tv EXCEPT ![Coll(r)] = [format |-> "legacy", rows |-> rows]]
    PROVE  Shelves' /\ Elsewhere(r) /\ Shelf(r)' = rows
<1>1. Shelves'
  BY DEF Shelves
<1>2. \A c \in Collections : tv'[c] = tv[c] \/ c = Coll(r)
  BY DEF Shelves
<1>3. Shelf(r)' = rows
  BY DEF Shelf, Held, Coll, Shelves
<1>4. \A c \in Collections : /\ Held("files", c)' = tv'[c].rows /\ Held("files", c) = tv[c].rows
                             /\ Held("qdrant", c)' = Held("qdrant", c)
                             /\ Held("pgvector", c)' = Held("pgvector", c)
                             /\ Held("langchain", c)' = Held("langchain", c)
  BY DEF Held
<1> QED  BY <1>1, <1>2, <1>3, <1>4 DEF Elsewhere, Vendors

\* The tables of LangChain,
LEMMA LcActs ==
    ASSUME IInv, Shelves, NEW r \in Requests, LcWrite(r) \/ LcList(r) \/ LcDelete(r), Moves(r), request' = request
    PROVE  Acted(r)
<1> USE DEF IInv
<1>v. /\ call[r].via = "langchain" /\ Loose(r) /\ call'[r].via = call[r].via /\ call'[r].op = call[r].op
      /\ call[r].via \in Vendors /\ Coll(r) \in Collections
  BY DEF LcWrite, LcList, LcDelete, At, Loose, Moves, Vendors, Asks
<1>s. Shelf(r) = lc.rows[Coll(r)]
  BY <1>v DEF Shelf, Held
<1>1. CASE LcWrite(r) /\ call[r].op = "lookup"
  <2>1. /\ lc' = [lc EXCEPT !.tables = TRUE] /\ UNCHANGED <<pg, qd, tv, effects>>
        /\ Answer(r, Cardinality(Tagged(r, lc.rows[Coll(r)])), {})
    BY <1>1 DEF LcWrite
  <2>2. Cardinality(Tagged(r, lc.rows[Coll(r)])) > 0 => Meets(r)
    BY <1>s, FS_EmptySet DEF Tagged, Meets
  <2>3. Informs(r)
    BY <1>v, <1>1, <2>1, <2>2, Answering DEF Informs, Closed
  <2>4. lc'.rows = lc.rows /\ Shelves'
    BY <2>1 DEF Shelves
  <2>5. \A via \in Vendors, c \in Collections : Held(via, c)' = Held(via, c)
    BY <2>1, <2>4 DEF Held, Vendors
  <2> QED  BY <2>1, <2>3, <2>4, <2>5 DEF Acted, Quiet
<1>2. CASE LcWrite(r) /\ call[r].op = "upsert"
  <2>1. /\ lc' = [lc EXCEPT !.tables = TRUE, !.rows[Coll(r)] = @ \cup call[r].rows] /\ UNCHANGED <<pg, qd, tv>>
        /\ Answer(r, Cardinality(call[r].rows), {}) /\ Effect(r, "wrote", Cardinality(call[r].rows))
    BY <1>2 DEF LcWrite
  <2>2. lc' = [lc EXCEPT !.tables = TRUE, !.rows[Coll(r)] = Shelf(r) \cup call[r].rows]
    BY <1>v, <1>s, <2>1 DEF Shelves
  <2>3. Shelves' /\ Elsewhere(r) /\ Shelf(r)' = Shelf(r) \cup call[r].rows
    <3>1. PICK new : new = Shelf(r) \cup call[r].rows
      OBVIOUS
    <3> QED  BY <1>v, <2>1, <2>2, <3>1, LcChanges
  <2>4. Puts(r) /\ Closed(r)
    BY <1>v, <1>2, <2>1, <2>3, Answering DEF Puts, Closed
  <2>5. Noted(r, Cardinality(call[r].rows))
    BY <1>2, <2>1 DEF Effect, Noted, Deed, Doing
  <2> QED  BY <1>v, <1>2, <2>3, <2>4, <2>5 DEF Acted, Performs, Doing
<1>3. CASE LcList(r) /\ call[r].step = "start"
  <2>1. call[r].op = "list" /\ UNCHANGED <<stores, effects>>
    BY <1>3 DEF LcList, At
  <2>2. CASE \E why : Fail(r, why)
    BY <1>v, <2>1, <2>2, QuietFailure
  <2>3. CASE Goto(r, "groups", Cardinality(lc.rows[Coll(r)]))
    <3>1. call'[r].step = "groups" /\ call'[r].memo = Cardinality(Shelf(r))
      BY <1>s, <2>3, Going
    <3> QED  BY <1>v, <2>1, <3>1, QuietStep DEF Halfway
  <2> QED  BY <1>3, <2>2, <2>3 DEF LcList, At
<1>4. CASE LcList(r) /\ call[r].step # "start"
  <2>1. /\ call[r].op = "list" /\ call[r].step = "groups" /\ UNCHANGED stores
        /\ Answer(r, call[r].memo, Grouped(lc.rows[Coll(r)])) /\ Effect(r, "listed", 0)
    BY <1>4 DEF LcList, At
  <2>2. Shelf(r)' = Shelf(r) /\ Elsewhere(r) /\ Shelves'
    BY <1>v, <2>1, StoresStay DEF Shelf, Elsewhere, Coll
  <2>3. Lists(r) /\ Closed(r)
    BY <1>v, <1>s, <2>1, <2>2, Answering DEF Lists, Closed
  <2>4. Noted(r, 0)
    BY <2>1 DEF Effect, Noted, Deed, Doing
  <2> QED  BY <1>v, <2>1, <2>2, <2>3, <2>4 DEF Acted, Performs, Doing
<1>5. CASE LcDelete(r)
  BY <1>v, <1>5, QuietFailure DEF LcDelete
<1> QED  BY <1>1, <1>2, <1>3, <1>4, <1>5 DEF LcWrite, At

\* the old files,
LEMMA TvActs ==
    ASSUME IInv, Shelves, NEW r \in Requests, TvLoad(r) \/ TvScan(r) \/ TvReload(r) \/ TvDump(r), Moves(r), request' = request
    PROVE  Acted(r)
<1> USE DEF IInv
<1>v. /\ call[r].via = "files" /\ Loose(r) /\ call'[r].via = call[r].via /\ call'[r].op = call[r].op
      /\ call[r].via \in Vendors /\ Coll(r) \in Collections
  BY DEF TvLoad, TvScan, TvReload, TvDump, At, Loose, Moves, Vendors, Asks
<1>s. Shelf(r) = tv[Coll(r)].rows
  BY <1>v DEF Shelf, Held
<1>1. CASE TvLoad(r)
  <2>1. call[r].op \in {"lookup", "upsert"} /\ UNCHANGED <<stores, effects>>
    BY <1>1 DEF TvLoad, At
  <2>2. CASE \E why : Fail(r, why)
    BY <1>v, <2>1, <2>2, QuietFailure
  <2>3. CASE call[r].op = "lookup" /\ Answer(r, Cardinality(Tagged(r, tv[Coll(r)].rows)), {})
    <3>1. Cardinality(Tagged(r, tv[Coll(r)].rows)) > 0 => Meets(r)
      BY <1>s, FS_EmptySet DEF Tagged, Meets
    <3>2. Informs(r)
      BY <1>v, <2>3, <3>1, Answering DEF Informs, Closed
    <3> QED  BY <2>1, <3>2, StoresStay DEF Acted, Quiet
  <2>4. CASE /\ call[r].op = "upsert"
             /\ Goto(r, "dump", [n |-> Cardinality(call[r].rows), rows |-> tv[Coll(r)].rows \cup call[r].rows])
    <3>1. /\ call'[r].step = "dump"
          /\ call'[r].memo = [n |-> Cardinality(call[r].rows), rows |-> Shelf(r) \cup call[r].rows]
      BY <1>s, <2>4, Going
    <3> QED  BY <1>v, <2>1, <2>4, <3>1, QuietStep DEF Halfway
  <2> QED  BY <1>1, <2>1, <2>2, <2>3, <2>4 DEF TvLoad
<1>2. CASE TvScan(r)
  <2>1. call[r].op = "delete" /\ UNCHANGED stores
    BY <1>2 DEF TvScan, At
  <2>2. CASE (\E why : Fail(r, why)) /\ UNCHANGED effects
    BY <1>v, <2>1, <2>2, QuietFailure
  <2>3. CASE Gone(r) = {} /\ Answer(r, 0, {}) /\ Effect(r, "deleted", 0)
    <3>1. Shelf(r)' = Shelf(r) /\ Elsewhere(r) /\ Shelves'
      BY <1>v, <2>1, StoresStay DEF Shelf, Elsewhere, Coll
    <3>2. Takes(r, 0) /\ Closed(r)
      BY <1>v, <2>1, <2>3, <3>1, Answering DEF Takes, Closed
    <3>3. Noted(r, 0)
      BY <2>1, <2>3 DEF Effect, Noted, Deed, Doing
    <3> QED  BY <1>v, <2>1, <3>1, <3>2, <3>3 DEF Acted, Performs, Doing
  <2>4. CASE Goto(r, "load", Gone(r)) /\ UNCHANGED effects
    <3>1. call'[r].step = "load" /\ call'[r].memo = Gone(r)
      BY <2>4, Going
    <3> QED  BY <1>v, <2>1, <2>4, <3>1, QuietStep DEF Halfway
  <2> QED  BY <1>2, <1>s, <2>2, <2>3, <2>4 DEF TvScan, Gone
<1>3. CASE TvReload(r)
  <2>1. /\ call[r].op = "delete" /\ call[r].step = "load" /\ UNCHANGED <<stores, effects>>
        /\ Goto(r, "dump", [n |-> Cardinality(call[r].memo), rows |-> tv[Coll(r)].rows \ call[r].memo])
    BY <1>3 DEF TvReload, At
  <2>2. /\ call'[r].step = "dump"
        /\ call'[r].memo = [n |-> Cardinality(call[r].memo), rows |-> Shelf(r) \ call[r].memo]
    BY <1>s, <2>1, Going
  <2> QED  BY <1>v, <2>1, <2>2, QuietStep DEF Halfway
<1>4. CASE TvDump(r)
  <2>1. /\ call[r].op \in {"upsert", "delete"} /\ call[r].step = "dump" /\ UNCHANGED <<pg, qd, lc>>
        /\ tv' = [tv EXCEPT ![Coll(r)] = [format |-> "legacy", rows |-> call[r].memo.rows]]
        /\ Answer(r, call[r].memo.n, {})
        /\ Effect(r, IF call[r].op = "upsert" THEN "wrote" ELSE "deleted", call[r].memo.n)
    BY <1>4 DEF TvDump, At
  <2>2. Shelves' /\ Elsewhere(r) /\ Shelf(r)' = call[r].memo.rows
    <3>1. PICK new : new = call[r].memo.rows
      OBVIOUS
    <3> QED  BY <1>v, <2>1, <3>1, TvChanges
  <2>3. (Puts(r) \/ Takes(r, call[r].memo.n)) /\ Closed(r)
    BY <1>v, <2>1, <2>2, Answering DEF Puts, Takes, Closed
  <2>4. Noted(r, call[r].memo.n)
    <3>1. CASE call[r].op = "upsert"
      BY <2>1, <3>1 DEF Effect, Noted, Deed, Doing
    <3>2. CASE call[r].op = "delete"
      BY <2>1, <3>2 DEF Effect, Noted, Deed, Doing
    <3> QED  BY <2>1, <3>1, <3>2
  <2> QED  BY <1>v, <2>1, <2>2, <2>3, <2>4 DEF Acted, Performs, Doing
<1> QED  BY <1>1, <1>2, <1>3, <1>4

\* and the other plugins.
LEMMA OthersAct ==
    ASSUME IInv, Shelves, NEW r \in Requests, OtherStep(r), Moves(r), request' = request PROVE Acted(r)
<1> USE DEF IInv
<1>1. Loose(r) /\ call[r].via \notin Vendors /\ UNCHANGED <<stores, effects>>
  BY DEF OtherStep, Loose, Vendors
<1>2. CASE \E n : Answer(r, n, {})
  <2>1. Informs(r)
    BY <1>1, <1>2, Answering DEF Informs, Closed
  <2> QED  BY <1>1, <2>1, StoresStay DEF Acted, Quiet
<1>3. CASE Fail(r, "operation")
  BY <1>1, <1>3, QuietFailure
<1> QED  BY <1>2, <1>3 DEF OtherStep

\* So every step of a store is quiet, or does what it was asked for.
LEMMA StoreActs ==
    ASSUME IInv, Shelves, NEW r \in Requests, Store(r) \/ Lose(r), UNCHANGED fixed PROVE Acted(r) /\ Moves(r)
<1>1. Moves(r) /\ request' = request
  BY StoreAnswers, LoseAnswers, PlayStays DEF Answers
<1>2. CASE Lose(r)
  <2>1. Calls /\ Fail(r, "connection") /\ UNCHANGED <<stores, effects>>
    BY <1>2 DEF Lose, Outage, IInv
  <2>2. PICK why : why = "connection"
    OBVIOUS
  <2> QED  BY <1>1, <2>1, <2>2, QuietFailure
<1>3. CASE Store(r)
  BY <1>1, <1>3, PgActs, QdActs, LcActs, TvActs, OthersAct DEF Store, BackendStep, LegacyStep
<1> QED  BY <1>1, <1>2, <1>3

-----------------------------------------------------------------------------
(* The history *)

\* One more effect.
LEMMA OneMore ==
    ASSUME NEW s, \E S : s \in Seq(S), NEW x
    PROVE  LET t == Append(s, x)
           IN  /\ \E S : t \in Seq(S)
               /\ Len(s) + 1 \in DOMAIN t /\ t[Len(s) + 1] = x
               /\ \A i \in DOMAIN s : i \in DOMAIN t /\ t[i] = s[i] /\ i < Len(s) + 1
               /\ \A i \in DOMAIN t : i \in DOMAIN s \/ i = Len(s) + 1
<1>1. PICK S : s \in Seq(S)
  OBVIOUS
<1> DEFINE T == S \cup {x}
<1>2. s \in Seq(T) /\ x \in T
  BY <1>1
<1>3. Append(s, x) \in Seq(T)
  BY <1>2
<1> QED  BY <1>2, <1>3

\* Who has not done anything is not in the history.
LEMMA Unacted ==
    ASSUME History, NEW r \in Requests,
           (Loose(r) /\ call[r].op # "upsert") \/ call[r].op \notin DOMAIN Doing
    PROVE  Acts(r) = {}
BY DEF History, Acts, Loose

\* What was done stays done, by whom and of what.
Recalls ==
    \A i \in DOMAIN effects :
        LET q == effects[i].by
        IN  /\ i \in DOMAIN effects' /\ effects'[i] = effects[i]
            /\ q \in Requests /\ call'[q].op = call[q].op /\ hash'[q] = hash[q] /\ doc'[q] = doc[q]

\* A request goes on with the operation it has, or begins one: another batch at most.
Pursues(r) ==
    /\ hash'[r] = hash[r] /\ doc'[r] = doc[r] /\ call'[r].op = call[r].op /\ call'[r].via = call[r].via
    /\ call[r].step = "answered" => call'[r].step = "answered" \/ call[r].op = "upsert"

\* A request that goes on, or has done nothing, leaves the history alone.
LEMMA ServiceRecalls ==
    ASSUME IInv, History, Course, NEW r \in Requests, Listed, Apart(r), Pursues(r) \/ Acts(r) = {}
    PROVE  History' /\ Recalls
<1> USE DEF IInv
<1>1. effects' = effects /\ \A q \in Requests \ {r} : call'[q] = call[q] /\ hash'[q] = hash[q] /\ doc'[q] = doc[q]
  BY DEF Apart, Calls, Listed
<1>2. ASSUME NEW i \in DOMAIN effects PROVE effects[i].by \in Requests /\ Pursues(effects[i].by)
  <2>1. effects[i].by \in Requests
    BY DEF History
  <2>2. effects[i].by = r => i \in Acts(r)
    BY DEF Acts
  <2> QED  BY <1>1, <2>1, <2>2 DEF Pursues
<1>3. Acts(r)' = Acts(r) /\ \A q \in Requests \ {r} : Acts(q)' = Acts(q)
  BY <1>1 DEF Acts
<1>4. ASSUME NEW q \in Requests, call'[q].op # "upsert", NEW i \in Acts(q)', NEW j \in Acts(q)' PROVE i = j
  <2>1. i \in Acts(q) /\ j \in Acts(q)
    BY <1>3, <1>4
  <2>2. Pursues(q)
    BY <1>2, <2>1 DEF Acts
  <2> QED  BY <1>4, <2>1, <2>2 DEF History, Pursues
<1>5. History'
  BY <1>1, <1>2, <1>4 DEF History, Pursues
<1> QED  BY <1>1, <1>2, <1>5 DEF Recalls, Pursues

\* Of the steps of the service, those that change an operation are about a request that has
\* done nothing.
LEMMA ProceedsRecalls ==
    ASSUME IInv, History, Course, Listed, NEW r \in Requests, Proceeds(r) PROVE History' /\ Recalls
<1> USE DEF IInv
<1>1. Apart(r)
  BY DEF Proceeds
<1>2. CASE EndsEarly(r) \/ Finishes(r)
  <2>1. Pursues(r)
    BY <1>2 DEF EndsEarly, Finishes, Accepts, Draws, Unsaid, Pursues
  <2> QED  BY <1>1, <2>1, ServiceRecalls
<1>3. CASE Nears(r) \/ AsksFirst(r) \/ (AsksAgain(r) /\ phase[r] # "next") \/ Learns(r)
  <2>1. call[r] = NoCall \/ call[r].op \in {"lookup", "ensure"}
    BY <1>3 DEF Nears, Unasked, AsksFirst, AsksAgain, AsksFor, Turns, Learns, Calls, Waits
  <2>2. Acts(r) = {}
    BY <2>1, NoOperation, Unacted DEF Doing, Operations
  <2> QED  BY <1>1, <2>2, ServiceRecalls
<1>4. CASE AsksAgain(r) /\ phase[r] = "next"
  <2>1. hash' = hash /\ doc' = doc /\ call' = [call EXCEPT ![r] = Asked("upsert", Via(r), Batch(r), None)]
    BY <1>4 DEF AsksAgain, AsksFor, Turns
  <2>2. call'[r].op = "upsert" /\ call'[r].via = Via(r)
    BY <2>1, AskedIs
  <2>3. Pursues(r)
    BY <1>4, <2>1, <2>2 DEF Pursues, Calls, Waits
  <2> QED  BY <1>1, <2>3, ServiceRecalls
<1>5. CASE Leaves(r)
  <2>1. CASE call' = call
    <3>1. Pursues(r)
      BY <1>5, <2>1 DEF Leaves, Pursues
    <3> QED  BY <1>1, <3>1, ServiceRecalls
  <2>2. CASE Gives(r) /\ call[r].step # "answered"
    <3>1. call'[r].op = call[r].op /\ call'[r].via = call[r].via
      BY <2>2 DEF Gives, Calls, NoCall
    <3>2. Pursues(r)
      BY <1>5, <2>2, <3>1 DEF Leaves, Pursues
    <3> QED  BY <1>1, <3>2, ServiceRecalls
  <2> QED  BY <1>5, <2>1, <2>2 DEF Leaves
<1> QED  BY <1>2, <1>3, <1>4, <1>5 DEF Proceeds

\* A step of a store that shows nowhere changes nothing in it,
LEMMA QuietRecalls ==
    ASSUME IInv, History, NEW r \in Requests, Quiet(r), Moves(r), UNCHANGED <<hash, doc>> PROVE History' /\ Recalls
<1>1. /\ \A q \in Requests : call'[q].op = call[q].op /\ call'[q].via = call[q].via /\ call'[q].rows = call[q].rows
      /\ \A q \in Requests : call[q].step = "answered" => call'[q].step = "answered"
      /\ effects' = effects
  BY DEF Moves, Quiet, Missed, Halfway, Informs, Closed, Loose
<1>2. History'
  BY <1>1 DEF History, Acts
<1> QED  BY <1>1, <1>2 DEF Recalls, History

\* and one that does what was asked for adds an effect.
LEMMA PerformsRecalls ==
    ASSUME IInv, History, NEW r \in Requests, Performs(r), Moves(r), UNCHANGED <<hash, doc>>
    PROVE  /\ History' /\ Recalls /\ Len(effects) + 1 \in DOMAIN effects'
           /\ \E n : effects'[Len(effects) + 1] = Deed(r, n)
                     /\ Noted(r, n) /\ (Puts(r) \/ Takes(r, n) \/ Drops(r) \/ Lists(r) \/ Searches(r))
           /\ Acts(r)' = Acts(r) \cup {Len(effects) + 1} /\ (call[r].op # "upsert" => Acts(r) = {})
           /\ \A i \in DOMAIN effects : i < Len(effects) + 1
           /\ \A q \in Requests \ {r} : Acts(q)' = Acts(q)
<1> DEFINE k == Len(effects) + 1
<1>1. PICK n : Noted(r, n) /\ (Puts(r) \/ Takes(r, n) \/ Drops(r) \/ Lists(r) \/ Searches(r))
  BY DEF Performs
<1>2. PICK x : x = Deed(r, n)
  OBVIOUS
<1>3. effects' = Append(effects, x)
  BY <1>1, <1>2 DEF Noted
<1>h. \E S : effects \in Seq(S)
  BY DEF History
<1>4. /\ \E S : effects' \in Seq(S)
      /\ k \in DOMAIN effects' /\ effects'[k] = x
      /\ \A i \in DOMAIN effects : i \in DOMAIN effects' /\ effects'[i] = effects[i] /\ i < k
      /\ \A i \in DOMAIN effects' : i \in DOMAIN effects \/ i = k
  BY <1>3, <1>h, OneMore
<1> HIDE DEF k
<1>5. /\ \A q \in Requests : call'[q].op = call[q].op /\ call'[q].via = call[q].via /\ call'[q].rows = call[q].rows
      /\ \A q \in Requests : call[q].step = "answered" => call'[q].step = "answered"
      /\ call'[r].step = "answered" /\ call[r].op \in DOMAIN Doing
  BY DEF Moves, Performs, Closed, Loose
<1>6. call[r].op # "upsert" => Acts(r) = {}
  BY Unacted DEF Performs, Closed
<1>7. Acts(r)' = Acts(r) \cup {k} /\ \A q \in Requests \ {r} : Acts(q)' = Acts(q)
  <2>1. \A q : Acts(q)' = {i \in DOMAIN effects' : effects'[i].by = q}
    BY DEF Acts
  <2>2. effects'[k].by = r
    BY <1>2, <1>4 DEF Deed
  <2>4. Acts(r)' = Acts(r) \cup {k}
    BY <1>4, <2>1, <2>2 DEF Acts
  <2>5. \A q \in Requests \ {r} : Acts(q)' = Acts(q)
    BY <1>4, <2>1, <2>2 DEF Acts
  <2> QED  BY <2>4, <2>5
<1>8. Recalls
  BY <1>4, <1>5 DEF Recalls, History
<1>9. History'
  <2>1. ASSUME NEW i \in DOMAIN effects'
        PROVE  LET q == effects'[i].by
               IN  /\ q \in Requests /\ call'[q].op \in DOMAIN Doing
                   /\ call'[q].step = "answered" \/ call'[q].op = "upsert"
                   /\ effects'[i].what = Doing[call'[q].op] /\ effects'[i].via = call'[q].via
    <3>1. CASE i \in DOMAIN effects
      BY <1>4, <1>5, <3>1 DEF History
    <3>2. CASE i = k
      BY <1>2, <1>4, <1>5, <3>2 DEF Deed
    <3> QED  BY <1>4, <3>1, <3>2
  <2>2. \A q \in Requests : call'[q].op # "upsert" => \A i, j \in Acts(q)' : i = j
    BY <1>5, <1>6, <1>7 DEF History
  <2> QED  BY <1>4, <2>1, <2>2 DEF History
<1> QED  BY <1>1, <1>2, <1>4, <1>6, <1>7, <1>8, <1>9 DEF k

-----------------------------------------------------------------------------
(* What a step does to the others *)

Base == IInv /\ Course /\ Listed /\ Shelves /\ History

\* A step of the store of r that shows nowhere, or does what was asked for.
Stores(r) == Moves(r) /\ UNCHANGED <<served, met>> /\ (Quiet(r) \/ Performs(r))

\* Every step keeps what was said so far, and is one of these.
LEMMA NextBase ==
    ASSUME Base, [Next]_vars
    PROVE  /\ Base' /\ Recalls /\ UNCHANGED fixed /\ met \subseteq met'
           /\ \/ \E r \in Requests : Arrive(r)
              \/ \E r \in Requests : Proceeds(r) /\ met' = met
              \/ \E r \in Requests : Stores(r)
              \/ UNCHANGED <<stores, call, effects, phase, hash, doc, accepted, graph, reply, met>>
<1> USE DEF Base
<1>1. /\ IInv' /\ Course' /\ Listed' /\ UNCHANGED fixed
      /\ \/ \E r \in Requests : Arrive(r)
         \/ \E r \in Requests : Proceeds(r) /\ met' = met
         \/ \E r \in Requests : (Store(r) \/ Lose(r)) /\ Answers(r)
         \/ UNCHANGED <<stores, call, effects, phase, hash, doc, accepted, graph, reply, met>>
  BY Steps, NextIInv, NextCourse
<1>2. ASSUME UNCHANGED <<stores, call, effects, hash>>, \A q \in Requests : doc'[q] = doc[q] \/ Acts(q) = {}
      PROVE  Shelves' /\ History' /\ Recalls
  <2>1. Shelves'
    BY <1>2, StoresStay
  <2>2. \A i \in DOMAIN effects : effects[i].by \in Requests /\ Acts(effects[i].by) # {}
    BY DEF History, Acts
  <2> QED  BY <1>2, <2>1, <2>2 DEF History, Acts, Recalls
<1>3. CASE \E r \in Requests : Arrive(r)
  <2>1. PICK r \in Requests : Arrive(r)
    BY <1>3
  <2>2. /\ UNCHANGED <<stores, call, effects, hash>> /\ met \subseteq met' /\ phase[r] = "idle"
        /\ \E x : doc' = [doc EXCEPT ![r] = x]
    BY <2>1 DEF Arrive, Begin, backends
  <2>3. Acts(r) = {}
    BY <2>2, NoOperation, Unacted DEF IInv, Company, Operations, Doing
  <2>4. \A q \in Requests : doc'[q] = doc[q] \/ Acts(q) = {}
    BY <2>2, <2>3 DEF Listed
  <2> QED  BY <1>1, <1>2, <1>3, <2>2, <2>4
<1>4. CASE \E r \in Requests : Proceeds(r) /\ met' = met
  <2>1. PICK r \in Requests : Proceeds(r) /\ met' = met
    BY <1>4
  <2>2. Shelves'
    BY <2>1, StoresStay DEF Proceeds, Apart
  <2> QED  BY <1>1, <2>1, <2>2, ProceedsRecalls
<1>5. CASE \E r \in Requests : (Store(r) \/ Lose(r)) /\ Answers(r)
  <2>1. PICK r \in Requests : (Store(r) \/ Lose(r)) /\ Answers(r)
    BY <1>5
  <2>2. Acted(r) /\ Moves(r)
    BY <1>1, <2>1, StoreActs
  <2>3. UNCHANGED <<served, met>> /\ UNCHANGED <<hash, doc>>
    BY <2>1 DEF Answers, served
  <2>4. History' /\ Recalls
    BY <2>2, <2>3, QuietRecalls, PerformsRecalls DEF Acted
  <2> QED  BY <1>1, <2>2, <2>3, <2>4 DEF Acted, Stores
<1>6. CASE UNCHANGED <<stores, call, effects, phase, hash, doc, accepted, graph, reply, met>>
  BY <1>1, <1>2, <1>6
<1> QED  BY <1>1, <1>3, <1>4, <1>5, <1>6

\* Somebody wrote to the collection of q after the effect i; one with the fingerprint of q.
Rewritten(q, i) == \E j \in DOMAIN effects :
    j > i /\ effects[j].what = "wrote" /\ effects[j].via = call[q].via /\ Same(q, effects[j].by)

\* What was said of the others stays true.
LEMMA SaidStays ==
    ASSUME Recalls, UNCHANGED fixed, met \subseteq met', NEW q \in Requests
    PROVE  /\ Overlapped(q) => Overlapped(q)'
           /\ hash'[q] = hash[q] /\ SameHash(q) => SameHash(q)'
           /\ call'[q].via = call[q].via => \A i : Rewritten(q, i) => Rewritten(q, i)'
           /\ call'[q].via = call[q].via /\ Later(q) => Later(q)'
<1>1. request' = request /\ (Overlapped(q) => Overlapped(q)')
  BY PlayStays, MeetingsStay
<1>2. ASSUME hash'[q] = hash[q], SameHash(q) PROVE SameHash(q)'
  <2>1. PICK i \in DOMAIN effects : effects[i].what = "wrote" /\ hash[effects[i].by] = hash[q]
    BY <1>2 DEF SameHash
  <2>2. i \in DOMAIN effects' /\ effects'[i] = effects[i] /\ hash'[effects[i].by] = hash[effects[i].by]
    BY <2>1 DEF Recalls
  <2> QED  BY <1>2, <2>1, <2>2 DEF SameHash
<1>3. ASSUME call'[q].via = call[q].via, NEW i, Rewritten(q, i) PROVE Rewritten(q, i)'
  BY <1>1, <1>3 DEF Rewritten, Recalls, Same
<1>4. ASSUME call'[q].via = call[q].via, Later(q) PROVE Later(q)'
  <2>1. PICK i \in DOMAIN effects \ Acts(q), j \in Acts(q) :
          /\ effects[i].what \notin {"listed", "searched"} /\ effects[i].via = call[q].via /\ Same(q, effects[i].by)
          /\ i > j
    BY <1>4 DEF Later
  <2>2. i \in DOMAIN effects' /\ effects'[i] = effects[i] /\ j \in DOMAIN effects' /\ effects'[j] = effects[j]
    BY <2>1 DEF Recalls, Acts
  <2>3. i \in DOMAIN effects' \ Acts(q)' /\ j \in Acts(q)'
    BY <2>1, <2>2 DEF Acts
  <2> QED  BY <1>1, <1>4, <2>1, <2>2, <2>3 DEF Later, Same
<1> QED  BY <1>1, <1>2, <1>3, <1>4

\* The rows of its collection stay, unless somebody else changes them: who writes to it,
\* or puts back what a deletion of the old TurboVec files has left.
Dumped(q, x) == \E p \in Requests :
    p # q /\ At(p, "files", "delete", "dump") /\ call[q].via = "files" /\ Same(q, p) /\ x \in call[p].memo.rows
Drawn(q) == {g \in graph : g[1] = q}
Disturbed(q) ==
    /\ (Acts(q) # {} => Later(q)') /\ (InFlight(q) => Overlapped(q))
    /\ \A x \in Shelf(q)' : x \in Shelf(q) \/ (\A i \in Acts(q) : Rewritten(q, i)') \/ Dumped(q, x)
Beside(q) ==
    /\ phase'[q] = phase[q] /\ call'[q] = call[q] /\ hash'[q] = hash[q] /\ doc'[q] = doc[q] /\ reply'[q] = reply[q]
    /\ accepted'[q] = accepted[q] /\ Drawn(q)' = Drawn(q) /\ Acts(q)' = Acts(q)
    /\ Modelled(q) => Shelf(q)' = Shelf(q) \/ Disturbed(q)

\* The store of another collection, or another store, has what it had.
LEMMA ElsewhereStays ==
    ASSUME Asks, NEW r \in Requests, NEW q \in Requests, Elsewhere(r), request' = request, call'[q] = call[q],
           Modelled(q), ~(call[q].via = call[r].via /\ Same(q, r))
    PROVE  Shelf(q)' = Shelf(q)
<1>1. PICK v, c : v = call[q].via /\ c = Coll(q)
  OBVIOUS
<1>2. Shelf(q)' = Held(v, c)' /\ Shelf(q) = Held(v, c)
  BY <1>1 DEF Shelf, Coll
<1>3. v \in Vendors /\ c \in Collections /\ ~(v = call[r].via /\ c = Coll(r))
  BY <1>1 DEF Modelled, Asks, Same, Coll
<1> QED  BY <1>2, <1>3 DEF Elsewhere

\* Who does something to a collection changes it for all whose it is.
LEMMA PerformsBeside ==
    ASSUME Base, NEW r \in Requests, Stores(r), Performs(r), NEW q \in Requests, q # r, UNCHANGED fixed
    PROVE  Beside(q)
<1> USE DEF Base, IInv
<1>1. /\ request' = request /\ UNCHANGED <<phase, hash, doc, accepted, graph, reply>> /\ call'[q] = call[q]
      /\ Drawn(q)' = Drawn(q)
  BY PlayStays DEF Stores, Moves, served, Drawn
<1>k. PICK k : k = Len(effects) + 1
  OBVIOUS
<1>2. /\ k \in DOMAIN effects' /\ Acts(q)' = Acts(q)
      /\ \A i \in DOMAIN effects : k > i
      /\ effects'[k].by = r /\ effects'[k].what = Doing[call[r].op] /\ effects'[k].via = call[r].via
      /\ \E n : Puts(r) \/ Takes(r, n) \/ Drops(r) \/ Lists(r) \/ Searches(r)
  <2>1. UNCHANGED <<hash, doc>>
    BY <1>1
  <2>2. /\ Len(effects) + 1 \in DOMAIN effects' /\ Acts(q)' = Acts(q)
        /\ \A i \in DOMAIN effects : i < Len(effects) + 1
    BY <2>1, PerformsRecalls DEF Stores
  <2>3. \E n : effects'[Len(effects) + 1] = Deed(r, n)
               /\ (Puts(r) \/ Takes(r, n) \/ Drops(r) \/ Lists(r) \/ Searches(r))
    BY <2>1, PerformsRecalls DEF Stores
  <2>4. \A i \in DOMAIN effects : Len(effects) + 1 > i
    <3>1. PICK S : effects \in Seq(S)
      BY DEF History
    <3> QED  BY <3>1
  <2> QED  BY <1>k, <2>2, <2>3, <2>4 DEF Deed
<1>3. CASE ~(call[q].via = call[r].via /\ Same(q, r))
  BY <1>1, <1>2, <1>3, ElsewhereStays DEF Beside, Performs
<1>4. CASE call[q].via = call[r].via /\ Same(q, r)
  <2>1. Shelf(q)' = Shelf(r)' /\ Shelf(q) = Shelf(r)
    BY <1>1, <1>4 DEF Shelf, Same, Coll, Stores, Moves
  <2>2. CASE \E n : Lists(r) \/ Searches(r)
    BY <1>1, <1>2, <2>1, <2>2 DEF Beside, Lists, Searches
  <2>3. CASE \E n : Puts(r) \/ Takes(r, n) \/ Drops(r)
    <3>1. effects'[k].what \notin {"listed", "searched"} /\ (Puts(r) => effects'[k].what = "wrote")
      BY <1>2, <2>3 DEF Puts, Takes, Drops, Doing
    <3>2. Acts(q) \subseteq DOMAIN effects
      BY DEF Acts
    <3>3. Acts(q) # {} => Later(q)'
      <4>1. k \notin Acts(q)'
        BY <1>2 DEF Acts
      <4> QED  BY <1>1, <1>2, <1>4, <3>1, <3>2, <4>1 DEF Later, Same
    <3>4. InFlight(q) => Overlapped(q)
      <4>1. InFlight(r)
        BY DEF Performs, Closed, Loose, InFlight
      <4>2. Same(r, q)
        BY <1>4 DEF Same
      <4> QED  BY <4>1, <4>2, Overlap
    <3>5. ASSUME NEW x \in Shelf(q)'
          PROVE  x \in Shelf(q) \/ (\A i \in Acts(q) : Rewritten(q, i)') \/ Dumped(q, x)
      <4>1. CASE Puts(r)
        BY <1>1, <1>2, <1>4, <3>1, <3>2, <4>1 DEF Rewritten, Same
      <4>2. CASE \E n : Takes(r, n)
        <5>1. CASE call[r].via = "files" /\ call[r].step = "dump" /\ Shelf(r)' = call[r].memo.rows
          <6>1. At(r, "files", "delete", "dump")
            BY <4>2, <5>1 DEF Takes, At
          <6> QED  BY <1>4, <2>1, <3>5, <5>1, <6>1 DEF Dumped
        <5>2. CASE Shelf(r)' \subseteq Shelf(r)
          BY <2>1, <3>5, <5>2
        <5> QED  BY <4>2, <5>1, <5>2 DEF Takes
      <4>3. CASE Drops(r)
        BY <2>1, <3>5, <4>3 DEF Drops
      <4> QED  BY <2>3, <4>1, <4>2, <4>3
    <3> QED  BY <1>1, <1>2, <3>3, <3>4, <3>5 DEF Beside, Disturbed
  <2> QED  BY <1>2, <2>2, <2>3
<1> QED  BY <1>3, <1>4

\* A request that stays where it is, while the stores do.
LEMMA StillBeside ==
    ASSUME Base, NEW q \in Requests, UNCHANGED fixed, effects' = effects,
           phase'[q] = phase[q] /\ call'[q] = call[q] /\ hash'[q] = hash[q] /\ doc'[q] = doc[q] /\ reply'[q] = reply[q],
           accepted'[q] = accepted[q], Drawn(q)' = Drawn(q),
           \A via \in Vendors, c \in Collections : Held(via, c)' = Held(via, c)
    PROVE  Beside(q)
<1>1. PICK v, c : v = call[q].via /\ c = Coll(q)
  OBVIOUS
<1>2. request' = request /\ c \in Collections /\ (Modelled(q) => v \in Vendors)
  BY <1>1, PlayStays DEF Modelled, Base, IInv, Asks
<1>3. Shelf(q)' = Held(v, c)' /\ Shelf(q) = Held(v, c)
  BY <1>1, <1>2 DEF Shelf, Coll
<1> QED  BY <1>2, <1>3 DEF Beside, Acts

\* What a step does, from where a request is: something to it, or nothing.
LEMMA NextBeside ==
    ASSUME Base, [Next]_vars, NEW q \in Requests
    PROVE  Beside(q) \/ Arrive(q) \/ Proceeds(q) \/ Stores(q)
<1> USE DEF Base, IInv
<1>1. UNCHANGED fixed
  BY NextBase
<1>2. CASE \E r \in Requests : Arrive(r)
  <2>1. PICK r \in Requests : Arrive(r)
    BY <1>2
  <2>2. /\ UNCHANGED <<stores, effects, call, hash, accepted, reply>> /\ Drawn(q)' = Drawn(q)
        /\ \E x : doc' = [doc EXCEPT ![r] = x]
        /\ \E p : Go(r, p)
    BY <2>1 DEF Arrive, Begin, backends, Drawn
  <2>3. q # r => doc'[q] = doc[q] /\ phase'[q] = phase[q]
    BY <2>2 DEF Listed, Calls, Go
  <2>4. \A via \in Vendors, c \in Collections : Held(via, c)' = Held(via, c)
    BY <2>2, StoresStay
  <2> QED  BY <1>1, <2>1, <2>2, <2>3, <2>4, StillBeside
<1>3. CASE \E r \in Requests : Proceeds(r) /\ met' = met
  <2>1. PICK r \in Requests : Proceeds(r) /\ met' = met
    BY <1>3
  <2>2. /\ UNCHANGED <<stores, effects>>
        /\ q # r => /\ phase'[q] = phase[q] /\ call'[q] = call[q] /\ hash'[q] = hash[q] /\ doc'[q] = doc[q]
                    /\ reply'[q] = reply[q] /\ accepted'[q] = accepted[q] /\ Drawn(q)' = Drawn(q)
    BY <2>1 DEF Proceeds, Apart, Accepts, Draws, Drawn, Rewords, Calls, Listed
  <2>3. \A via \in Vendors, c \in Collections : Held(via, c)' = Held(via, c)
    BY <2>2, StoresStay
  <2> QED  BY <1>1, <2>1, <2>2, <2>3, StillBeside
<1>4. CASE \E r \in Requests : Stores(r)
  <2>1. PICK r \in Requests : Stores(r)
    BY <1>4
  <2>2. CASE r # q /\ Quiet(r)
    <3>1. /\ effects' = effects /\ \A via \in Vendors, c \in Collections : Held(via, c)' = Held(via, c)
          /\ UNCHANGED <<phase, hash, doc, accepted, reply>> /\ call'[q] = call[q] /\ Drawn(q)' = Drawn(q)
      BY <2>1, <2>2 DEF Quiet, Stores, Moves, served, Drawn
    <3> QED  BY <1>1, <3>1, StillBeside
  <2>3. CASE r # q /\ Performs(r)
    BY <1>1, <2>1, <2>3, PerformsBeside
  <2> QED  BY <2>1, <2>2, <2>3 DEF Stores
<1>5. CASE UNCHANGED <<stores, call, effects, phase, hash, doc, accepted, graph, reply, met>>
  <2>1. (\A via \in Vendors, c \in Collections : Held(via, c)' = Held(via, c)) /\ Drawn(q)' = Drawn(q)
    BY <1>5, StoresStay DEF Drawn
  <2> QED  BY <1>1, <1>5, <2>1, StillBeside
<1> QED  BY <1>2, <1>3, <1>4, <1>5, NextBase

-----------------------------------------------------------------------------
(* What becomes of the call of a request *)

\* An id is of one record.
OneEach(rows) == \A x, y \in rows : x.id = y.id => x = y
\* So are those of an ingest.
LEMMA RowsOneEach == ASSUME NEW r, NEW h PROVE OneEach(Rows(r, h))
BY DEF OneEach, Rows

\* The records of an ingest carry its fingerprint, and a lookup looks for it; those of a
\* batch that is on its way were not sent before.
Carries(q) ==
    /\ call[q].op = "upsert" => call[q].rows \subseteq Rows(q, hash[q])
    /\ call[q].op = "upsert" /\ Loose(q) => call[q].rows \cap accepted[q] = {}
    /\ call[q].op = "lookup" /\ Loose(q) => call[q].memo = hash[q]
    /\ accepted[q] # {} => call[q].op = "upsert" /\ accepted[q] \subseteq Rows(q, hash[q])
Carried == \A q \in Requests : Carries(q)

\* A call stays what it is, while others change its collection, or its answer is heard; or
\* it is another one, which is about the next batch if anything has been done.
Heard(q) == call[q].op = "upsert" /\ ~Loose(q) /\ Out(q).ok /\ accepted'[q] = accepted[q] \cup call[q].rows
Unmoved(q) ==
    /\ call'[q] = call[q] /\ hash'[q] = hash[q] /\ Acts(q)' = Acts(q) /\ (call[q] = NoCall \/ doc'[q] = doc[q])
    /\ Modelled(q) => Shelf(q)' = Shelf(q) \/ Disturbed(q)
    /\ accepted'[q] = accepted[q] \/ Heard(q)
Renewed(q) ==
    /\ Acts(q)' = Acts(q) /\ accepted'[q] = accepted[q] /\ (Acts(q) # {} => call[q].op = "upsert")
    /\ call[q].op = "upsert" =>
         /\ call'[q].op = "upsert" /\ call'[q].via = call[q].via /\ hash'[q] = hash[q] /\ doc'[q] = doc[q]
         /\ Modelled(q) => Shelf(q)' = Shelf(q)
         /\ Loose(q) \/ call[q].rows \subseteq accepted[q]
    /\ \/ call'[q].step = "start" /\ Carries(q)'
       \/ call'[q] = NoCall
       \/ /\ call'[q].step = "answered" /\ ~Out(q)'.ok /\ hash'[q] = hash[q] /\ doc'[q] = doc[q]
          /\ call'[q].op = call[q].op /\ call'[q].rows = call[q].rows /\ Loose(q)

\* The records of a document stay the same.
LEMMA RowsStay == ASSUME UNCHANGED fixed, NEW q \in Requests, doc'[q] = doc[q] PROVE \A h : Rows(q, h)' = Rows(q, h)
<1>1. Deprecated(q)' = Deprecated(q) /\ request' = request
  BY PlayStays, RefusalStays
<1> QED  BY <1>1 DEF Rows, Ids, Q

\* What the service does to a call.
LEMMA ProceedsCall ==
    ASSUME Base, NEW q \in Requests, Carries(q), Proceeds(q), UNCHANGED fixed PROVE Unmoved(q) \/ Renewed(q)
<1> USE DEF Base, IInv
<1>1. effects' = effects /\ request' = request /\ UNCHANGED stores
  BY PlayStays DEF Proceeds, Apart
<1>2. Acts(q)' = Acts(q)
  BY <1>1 DEF Acts
<1>a. (phase[q] # "upsert" => accepted'[q] = accepted[q]) /\ (accepted'[q] = accepted[q] \/ Heard(q))
  BY DEF Proceeds, Apart, Accepts, Turns, Listed, Heard, Calls, Waits, Loose
<1>3. ASSUME call'[q].via = call[q].via, Modelled(q) PROVE Shelf(q)' = Shelf(q)
  <2>1. PICK v, c : v = call[q].via /\ c = Coll(q)
    OBVIOUS
  <2>2. v \in Vendors /\ c \in Collections
    BY <1>3, <2>1 DEF Modelled, Asks
  <2>3. Shelf(q)' = Held(v, c)' /\ Shelf(q) = Held(v, c)
    BY <1>1, <1>3, <2>1 DEF Shelf, Coll
  <2> QED  BY <1>1, <2>2, <2>3, StoresStay
<1>4. CASE Nears(q) \/ EndsEarly(q)
  <2>1. call' = call /\ hash' = hash /\ call[q] = NoCall
    BY <1>4 DEF Nears, EndsEarly, Unsaid, Unasked, Calls
  <2> QED  BY <1>2, <1>3, <1>a, <2>1 DEF Unmoved
<1>5. CASE AsksFirst(q)
  <2>1. request[q].kind \in Operations \ {"upsert", "lookup"}
    BY DEF Asks, Operations
  <2>2. call[q] = NoCall /\ call[q].op # "upsert" /\ accepted'[q] = {} /\ accepted[q] = {}
    BY <1>5, <1>a, NoOperation DEF AsksFirst, AsksFor, Turns, Calls, Carries, Operations
  <2>3. Acts(q) = {}
    BY <2>2, NoOperation, Unacted DEF Doing, Operations
  <2>4. CASE request[q].kind # "ingest" /\ AsksFor(q, "compose", "answer", request[q].kind, {}, None)
    <3>1. call' = [call EXCEPT ![q] = Asked(request[q].kind, Via(q), {}, None)]
      BY <2>4 DEF AsksFor
    <3>2. call'[q].step = "start" /\ call'[q].op = request[q].kind
      BY <3>1, AskedIs
    <3> QED  BY <1>2, <2>1, <2>2, <2>3, <3>2 DEF Renewed, Carries, Operations
  <2>5. CASE AsksFor(q, "compose", "lookup", "lookup", {}, hash'[q])
    <3>h. PICK h : h = hash'[q]
      OBVIOUS
    <3>1. call' = [call EXCEPT ![q] = Asked("lookup", Via(q), {}, h)]
      BY <2>5, <3>h DEF AsksFor
    <3>2. call'[q].step = "start" /\ call'[q].op = "lookup" /\ call'[q].memo = h
      BY <3>1, AskedIs
    <3> QED  BY <1>2, <2>1, <2>2, <2>3, <3>h, <3>2 DEF Renewed, Carries
  <2> QED  BY <1>5, <2>4, <2>5 DEF AsksFirst
<1>6. CASE AsksAgain(q)
  <2>1. /\ hash' = hash /\ doc' = doc /\ accepted'[q] = accepted[q]
        /\ phase[q] # "next" => call[q].op # "upsert" /\ call[q].op \notin DOMAIN Doing
        /\ phase[q] = "next" => /\ call[q].op = "upsert" /\ call[q].step = "answered" /\ call[q].via = Via(q)
                                /\ call[q].rows \subseteq accepted[q]
    <3>1. /\ phase[q] \in {"encode", "ensure", "next"} /\ hash' = hash /\ doc' = doc
      BY <1>6 DEF AsksAgain, AsksFor, Turns
    <3>2. phase[q] # "next" => call[q] = NoCall \/ call[q].op = "ensure"
      BY <3>1 DEF Calls, Waits
    <3>3. phase[q] # "next" => call[q].op # "upsert" /\ call[q].op \notin DOMAIN Doing
      BY <3>2, NoOperation DEF Doing, Operations
    <3>4. phase[q] = "next" => call[q].op = "upsert" /\ call[q].step = "answered"
      BY DEF Calls, Waits
    <3>5. phase[q] = "next" => call[q].via = Via(q) /\ call[q].rows \subseteq accepted[q]
      BY <3>4, NoOperation DEF Course, Operations
    <3> QED  BY <1>a, <3>1, <3>3, <3>4, <3>5
  <2>2. phase[q] # "next" => Acts(q) = {} /\ accepted[q] = {}
    BY <2>1, Unacted DEF Carries
  <2>3. CASE call' = [call EXCEPT ![q] = Asked("upsert", Via(q), Batch(q), None)]
    <3>1. PICK h : h = hash[q]
      OBVIOUS
    <3>2. call'[q].step = "start" /\ call'[q].op = "upsert" /\ call'[q].rows = Batch(q) /\ call'[q].via = Via(q)
      BY <2>3, AskedIs
    <3>3. Rows(q, h)' = Rows(q, h) /\ hash'[q] = h
      BY <1>a, <2>1, <3>1, RowsStay
    <3>4. call'[q].rows \subseteq Rows(q, h) /\ call'[q].rows \cap accepted[q] = {}
      BY <3>1, <3>2, BatchOfRows
    <3>5. Carries(q)'
      BY <2>1, <2>2, <3>1, <3>2, <3>3, <3>4 DEF Carries
    <3>6. CASE phase[q] = "next"
      BY <1>2, <1>3, <2>1, <3>2, <3>5, <3>6 DEF Renewed
    <3> QED  BY <1>2, <2>1, <2>2, <3>2, <3>5, <3>6 DEF Renewed
  <2>4. CASE call' = [call EXCEPT ![q] = Asked("ensure", Via(q), {}, None)] /\ phase[q] # "next"
    <3>2. call'[q].step = "start" /\ call'[q].op = "ensure"
      BY <2>4, AskedIs
    <3> QED  BY <1>2, <2>1, <2>2, <2>4, <3>2 DEF Renewed, Carries
  <2> QED  BY <1>6, <2>3, <2>4 DEF AsksAgain, AsksFor, Turns
<1>7. CASE Learns(q)
  <2>1. call'[q] = NoCall /\ call[q].op \in {"lookup", "ensure"}
    BY <1>7 DEF Learns, Calls, Waits, Turns
  <2>2. Acts(q) = {} /\ accepted'[q] = accepted[q]
    BY <1>7, <1>a, <2>1, Unacted DEF Doing, Learns, Turns
  <2> QED  BY <1>2, <2>1, <2>2 DEF Renewed
<1>8. CASE Finishes(q)
  BY <1>2, <1>3, <1>a, <1>8 DEF Finishes, Unsaid, Unmoved
<1>9. CASE Leaves(q)
  <2>1. CASE call' = call
    BY <1>2, <1>3, <1>a, <1>9, <2>1 DEF Leaves, Unmoved
  <2>2. CASE Gives(q) /\ call[q].step # "answered"
    <3>1. /\ call'[q].step = "answered" /\ ~Out(q)'.ok /\ call'[q].op = call[q].op /\ call'[q].rows = call[q].rows
          /\ call'[q].via = call[q].via
      BY <2>2 DEF Gives, Calls, Out, NoCall
    <3>2. (Acts(q) # {} => call[q].op = "upsert") /\ Loose(q) /\ accepted'[q] = accepted[q]
      BY <1>a, <2>2, Unacted DEF Loose, Heard
    <3> QED  BY <1>2, <1>3, <1>9, <3>1, <3>2 DEF Leaves, Renewed
  <2> QED  BY <1>9, <2>1, <2>2 DEF Leaves
<1> QED  BY <1>4, <1>5, <1>6, <1>7, <1>8, <1>9 DEF Proceeds

\* A step leaves a call alone, replaces it, or is its store's.
LEMMA NextCall ==
    ASSUME Base, [Next]_vars, NEW q \in Requests, Carries(q) PROVE Unmoved(q) \/ Renewed(q) \/ Stores(q)
<1> USE DEF Base, IInv
<1>1. UNCHANGED fixed
  BY NextBase
<1>2. CASE Arrive(q)
  <2>1. /\ UNCHANGED <<stores, effects, call, hash, accepted>> /\ phase[q] = "idle" /\ request' = request
    BY <1>1, <1>2, PlayStays DEF Arrive, Begin, backends
  <2>2. call[q] = NoCall
    BY <2>1 DEF Company
  <2>3. ~Modelled(q)
    BY <2>2, NoOperation DEF Modelled
  <2> QED  BY <2>1, <2>2, <2>3 DEF Unmoved, Acts
<1>3. CASE Beside(q)
  BY <1>3 DEF Beside, Unmoved
<1> QED  BY <1>1, <1>2, <1>3, NextBeside, ProceedsCall

\* What the records carry stays, since a document is read before they are made.
LEMMA NextCarried == ASSUME Base, Carried, [Next]_vars PROVE Carried'
<1> SUFFICES ASSUME NEW q \in Requests PROVE Carries(q)'
  BY DEF Carried
<1>1. UNCHANGED fixed /\ Carries(q)
  BY NextBase DEF Carried
<1>2. CASE Unmoved(q)
  <2>1. CASE call[q] = NoCall
    BY <1>1, <1>2, <2>1, NoOperation DEF Unmoved, Heard, Carries, Operations
  <2>2. CASE doc'[q] = doc[q]
    <3>1. PICK h : h = hash[q]
      OBVIOUS
    <3>2. Rows(q, h)' = Rows(q, h) /\ hash'[q] = h
      BY <1>1, <1>2, <2>2, <3>1, RowsStay DEF Unmoved
    <3> QED  BY <1>1, <1>2, <3>1, <3>2 DEF Unmoved, Heard, Carries, Loose
  <2> QED  BY <1>2, <2>1, <2>2 DEF Unmoved
<1>3. CASE Renewed(q)
  <2>1. CASE call'[q] = NoCall
    BY <1>1, <1>3, <2>1, NoOperation DEF Renewed, Carries, Operations
  <2>2. CASE /\ call'[q].step = "answered" /\ hash'[q] = hash[q] /\ doc'[q] = doc[q]
             /\ call'[q].op = call[q].op /\ call'[q].rows = call[q].rows
    <3>1. PICK h : h = hash[q]
      OBVIOUS
    <3>2. Rows(q, h)' = Rows(q, h) /\ hash'[q] = h
      BY <1>1, <2>2, <3>1, RowsStay
    <3> QED  BY <1>1, <1>3, <2>2, <3>1, <3>2 DEF Renewed, Carries, Loose
  <2> QED  BY <1>3, <2>1, <2>2 DEF Renewed
<1>4. CASE Stores(q)
  <2>1. /\ hash'[q] = hash[q] /\ doc'[q] = doc[q] /\ accepted'[q] = accepted[q]
        /\ call'[q].op = call[q].op /\ call'[q].rows = call[q].rows /\ (Loose(q)' => Loose(q))
    BY <1>4 DEF Stores, Moves, served, Quiet, Performs, Missed, Halfway, Informs, Closed, Loose
  <2>2. PICK h : h = hash[q]
    OBVIOUS
  <2>3. Rows(q, h)' = Rows(q, h) /\ hash'[q] = h
    BY <1>1, <2>1, <2>2, RowsStay
  <2>4. call[q].op = "lookup" /\ Loose(q)' => Loose(q) /\ call'[q].memo = call[q].memo
    BY <1>4 DEF Stores, Quiet, Performs, Missed, Halfway, Informs, Closed, Loose, Doing
  <2> QED  BY <1>1, <2>1, <2>2, <2>3, <2>4 DEF Carries
<1> QED  BY <1>1, <1>2, <1>3, <1>4, NextCall

-----------------------------------------------------------------------------
(* What is written *)

AnsweredOk(q, op) == call[q].op = op /\ ~Loose(q) /\ Out(q).ok /\ Modelled(q)

\* An ingest whose writes were confirmed has their records in the store until somebody
\* changes the collection; what else it wrote is the last batch, whose answer has yet to
\* be heard or was lost.
There(q, rows) == rows \subseteq Shelf(q) \/ Later(q)
Sent(q, i) ==
    /\ call[q].op = "upsert" /\ effects[i].rows = call[q].rows /\ ~Loose(q)
    /\ Out(q).ok \/ Out(q).why \in {"uncertain", "connection"}
Writes(q) ==
    /\ AnsweredOk(q, "upsert") => Acts(q) # {} /\ There(q, call[q].rows)
    /\ Modelled(q) /\ accepted[q] # {} => Acts(q) # {} /\ There(q, accepted[q])
    /\ At(q, "files", "upsert", "dump") =>
         /\ call[q].rows \subseteq call[q].memo.rows
         /\ accepted[q] \subseteq call[q].memo.rows \/ Later(q)
    /\ \A i \in Acts(q) : effects[i].rows \subseteq accepted[q] \/ Sent(q, i)
Recorded == \A q \in Requests : Writes(q)

\* What is done is the effect of who does it.
LEMMA PerformsActs ==
    ASSUME Base, NEW r \in Requests, Stores(r), Performs(r)
    PROVE  \E k \in DOMAIN effects' :
             /\ effects'[k].by = r /\ effects'[k].what = Doing[call[r].op] /\ effects'[k].via = call[r].via
             /\ effects'[k].rows = IF call[r].op = "upsert" THEN call[r].rows ELSE {}
             /\ Acts(r)' = Acts(r) \cup {k} /\ (call[r].op # "upsert" => Acts(r)' = {k})
             /\ Puts(r) \/ Takes(r, effects'[k].n) \/ Drops(r) \/ Lists(r) \/ Searches(r)
<1>1. UNCHANGED <<hash, doc>>
  BY DEF Stores, served
<1>2. /\ Len(effects) + 1 \in DOMAIN effects' /\ Acts(r)' = Acts(r) \cup {Len(effects) + 1}
      /\ call[r].op # "upsert" => Acts(r) = {}
      /\ \E n : effects'[Len(effects) + 1] = Deed(r, n)
                /\ (Puts(r) \/ Takes(r, n) \/ Drops(r) \/ Lists(r) \/ Searches(r))
  BY <1>1, PerformsRecalls DEF Stores, Base
<1>k. PICK k : k = Len(effects) + 1
  OBVIOUS
<1>3. PICK n : effects'[k] = Deed(r, n)
               /\ (Puts(r) \/ Takes(r, n) \/ Drops(r) \/ Lists(r) \/ Searches(r))
  BY <1>k, <1>2
<1>4. /\ effects'[k].by = r /\ effects'[k].what = Doing[call[r].op] /\ effects'[k].via = call[r].via
      /\ effects'[k].n = n /\ effects'[k].rows = IF call[r].op = "upsert" THEN call[r].rows ELSE {}
  BY <1>3 DEF Deed
<1> QED  BY <1>k, <1>2, <1>3, <1>4

\* Every step keeps what is written so.
LEMMA NextWritten == ASSUME Base, Carried, Recorded, [Next]_vars PROVE Recorded'
<1> USE DEF Base, IInv
<1> SUFFICES ASSUME NEW q \in Requests PROVE Writes(q)'
  BY DEF Recorded
<1>1. UNCHANGED fixed /\ Writes(q) /\ Carries(q) /\ Recalls /\ met \subseteq met'
  BY NextBase DEF Recorded, Carried
<1>e. \A i \in Acts(q) : effects'[i] = effects[i]
  BY <1>1 DEF Recalls, Acts
<1>2. CASE Unmoved(q)
  <2>1. /\ call'[q] = call[q] /\ Acts(q)' = Acts(q) /\ (Later(q) => Later(q)')
        /\ Modelled(q) /\ Acts(q) # {} => Shelf(q)' = Shelf(q) \/ Later(q)'
    BY <1>1, <1>2, SaidStays DEF Unmoved, Disturbed
  <2>2. accepted'[q] = accepted[q] \/ Heard(q)
    BY <1>2 DEF Unmoved
  <2>3. Modelled(q)' = Modelled(q) /\ Out(q)' = Out(q) /\ Loose(q)' = Loose(q)
    BY <2>1 DEF Modelled, Out, Loose
  <2>4. Modelled(q) /\ accepted'[q] # {} => Acts(q) # {} /\ There(q, accepted'[q])
    <3>1. CASE accepted'[q] = accepted[q]
      BY <1>1, <3>1 DEF Writes
    <3>2. CASE Heard(q)
      BY <1>1, <3>2 DEF Heard, Writes, AnsweredOk, There
    <3> QED  BY <2>2, <3>1, <3>2
  <2>5. \A rows : Modelled(q) /\ Acts(q) # {} /\ There(q, rows) => rows \subseteq Shelf(q)' \/ Later(q)'
    BY <2>1 DEF There
  <2>6. AnsweredOk(q, "upsert")' => Acts(q)' # {} /\ There(q, call[q].rows)'
    BY <1>1, <2>1, <2>3, <2>5 DEF Writes, AnsweredOk, There
  <2>7. Modelled(q)' /\ accepted'[q] # {} => Acts(q)' # {} /\ There(q, accepted[q])'
    BY <2>1, <2>3, <2>4, <2>5 DEF There
  <2>8. At(q, "files", "upsert", "dump")' =>
         /\ call'[q].rows \subseteq call'[q].memo.rows
         /\ accepted'[q] \subseteq call'[q].memo.rows \/ Later(q)'
    BY <1>1, <2>1, <2>2 DEF Writes, At, Heard, Loose
  <2>9. \A i \in Acts(q)' : effects'[i].rows \subseteq accepted'[q] \/ Sent(q, i)'
    BY <1>1, <1>e, <2>1, <2>2, <2>3 DEF Writes, Sent, Heard
  <2> QED  BY <2>6, <2>7, <2>8, <2>9 DEF Writes
<1>3. CASE Renewed(q)
  <2>0. /\ Acts(q)' = Acts(q) /\ accepted'[q] = accepted[q] /\ (Acts(q) # {} => call[q].op = "upsert")
        /\ accepted[q] # {} => call[q].op = "upsert"
    BY <1>1, <1>3 DEF Renewed, Carries
  <2>1. ~AnsweredOk(q, "upsert")' /\ ~At(q, "files", "upsert", "dump")'
    BY <1>3, NoOperation DEF Renewed, AnsweredOk, At, Loose, Operations
  <2>2. \A i \in Acts(q)' : effects'[i].rows \subseteq accepted'[q]
    BY <1>1, <1>3, <1>e, <2>0 DEF Renewed, Writes, Sent
  <2>3. Modelled(q)' /\ accepted'[q] # {} => Acts(q)' # {} /\ There(q, accepted[q])'
    <3> SUFFICES ASSUME Modelled(q)', accepted'[q] # {} PROVE Acts(q)' # {} /\ There(q, accepted[q])'
      OBVIOUS
    <3>1. Modelled(q) /\ call'[q].via = call[q].via /\ Shelf(q)' = Shelf(q)
      BY <1>3, <2>0 DEF Renewed, Modelled
    <3>2. Later(q) => Later(q)'
      BY <1>1, <3>1, SaidStays
    <3> QED  BY <1>1, <2>0, <3>1, <3>2 DEF Writes, There
  <2> QED  BY <2>1, <2>2, <2>3 DEF Writes
<1>4. CASE Stores(q)
  <2>1. /\ call'[q].op = call[q].op /\ call'[q].via = call[q].via /\ call'[q].rows = call[q].rows
        /\ accepted'[q] = accepted[q] /\ Modelled(q)' = Modelled(q) /\ (Later(q) => Later(q)')
    BY <1>1, <1>4, SaidStays DEF Stores, Moves, served, Modelled
  <2>2. CASE Quiet(q)
    <3>0. Acts(q)' = Acts(q) /\ \A i \in Acts(q) : effects'[i] = effects[i]
      BY <1>e, <2>2 DEF Quiet, Acts
    <3>a. Modelled(q) => Shelf(q)' = Shelf(q)
      <4>1. PICK v, c : v = call[q].via /\ c = Coll(q)
        OBVIOUS
      <4>2. request' = request /\ c \in Collections /\ (Modelled(q) => v \in Vendors)
        BY <1>1, <4>1, PlayStays DEF Modelled, Asks
      <4>3. Shelf(q)' = Held(v, c)' /\ Shelf(q) = Held(v, c)
        BY <2>1, <4>1, <4>2 DEF Shelf, Coll
      <4> QED  BY <2>2, <4>2, <4>3 DEF Quiet
    <3>b. Modelled(q)' /\ accepted'[q] # {} => Acts(q)' # {} /\ There(q, accepted[q])'
      BY <1>1, <2>1, <3>0, <3>a DEF Writes, There
    <3>1. CASE Missed(q)
      <4>1. \A i \in Acts(q)' : effects'[i].rows \subseteq accepted'[q] \/ Sent(q, i)'
        BY <1>1, <2>1, <3>0, <3>1 DEF Missed, Writes, Sent, Loose
      <4> QED  BY <2>1, <3>b, <3>1, <4>1 DEF Missed, Writes, AnsweredOk, At, Loose
    <3>2. CASE Halfway(q)
      <4>1. \A i \in Acts(q)' : effects'[i].rows \subseteq accepted'[q]
        BY <1>1, <2>1, <3>0, <3>2 DEF Halfway, Writes, Sent
      <4>2. At(q, "files", "upsert", "dump")' =>
              call'[q].memo = [n |-> Cardinality(call[q].rows), rows |-> Shelf(q) \cup call[q].rows]
        BY <2>1, <3>2 DEF Halfway, At
      <4>3. At(q, "files", "upsert", "dump")' => accepted'[q] \subseteq call'[q].memo.rows \/ Later(q)'
        <5>1. At(q, "files", "upsert", "dump")' => Modelled(q)
          BY <2>1 DEF At, Modelled, Vendors
        <5> QED  BY <1>1, <2>1, <4>2, <5>1 DEF Writes, There
      <4> QED  BY <2>1, <3>b, <3>2, <4>1, <4>2, <4>3 DEF Halfway, Writes, AnsweredOk, At, Loose
    <3>3. CASE Informs(q)
      <4>1. \A i \in Acts(q)' : effects'[i].rows \subseteq accepted'[q]
        BY <1>1, <2>1, <3>0, <3>3 DEF Informs, Closed, Loose, Writes, Sent
      <4> QED  BY <2>1, <3>b, <3>3, <4>1 DEF Informs, Closed, Writes, AnsweredOk, At, Loose, Modelled
    <3> QED  BY <2>2, <3>1, <3>2, <3>3 DEF Quiet
  <2>3. CASE Performs(q)
    <3>0. PICK k \in DOMAIN effects' :
            /\ effects'[k].rows = IF call[q].op = "upsert" THEN call[q].rows ELSE {}
            /\ Acts(q)' = Acts(q) \cup {k}
            /\ Puts(q) \/ Takes(q, effects'[k].n) \/ Drops(q) \/ Lists(q) \/ Searches(q)
      BY <1>4, <2>3, PerformsActs
    <3>1. Acts(q)' # {} /\ \E n : Puts(q) \/ Takes(q, n) \/ Drops(q) \/ Lists(q) \/ Searches(q)
      BY <3>0
    <3>2. call'[q].step = "answered" /\ Loose(q) /\ Modelled(q)
      BY <2>3 DEF Performs, Closed, Modelled
    <3>a. \A i \in Acts(q) : effects'[i].rows \subseteq accepted'[q]
      BY <1>1, <1>e, <2>1, <3>2 DEF Writes, Sent
    <3>3. CASE Puts(q)
      <4>1. call[q].rows \subseteq Shelf(q)' /\ (~Out(q)'.ok => Out(q)'.why = "uncertain")
        <5>1. CASE call[q].via = "files"
          <6>1. At(q, "files", "upsert", "dump")
            BY <3>3, <5>1 DEF Puts, At
          <6> QED  BY <1>1, <3>3, <5>1, <6>1 DEF Puts, Writes
        <5>2. CASE call[q].via # "files"
          BY <3>3, <5>2 DEF Puts, Merged
        <5> QED  BY <5>1, <5>2
      <4>2. accepted[q] \subseteq Shelf(q)' \/ Later(q)'
        <5>1. accepted[q] \subseteq Shelf(q) \/ Later(q)'
          BY <1>1, <2>1, <3>2 DEF Writes, There
        <5>2. CASE call[q].via = "files"
          <6>1. At(q, "files", "upsert", "dump")
            BY <3>3, <5>2 DEF Puts, At
          <6> QED  BY <1>1, <2>1, <3>3, <5>2, <6>1 DEF Puts, Writes
        <5>3. \A x \in accepted[q] : x.id \notin {y.id : y \in call[q].rows}
          BY <1>1, <3>2, <3>3, RowsOneEach DEF Carries, Puts, OneEach
        <5>4. CASE Shelf(q)' = Merged(Shelf(q), call[q].rows)
          BY <5>1, <5>3, <5>4 DEF Merged
        <5> QED  BY <3>3, <5>1, <5>2, <5>4 DEF Puts
      <4>3. \A i \in Acts(q)' : effects'[i].rows \subseteq accepted'[q] \/ Sent(q, i)'
        BY <2>1, <3>0, <3>2, <3>3, <3>a, <4>1 DEF Sent, Loose, Puts
      <4> QED  BY <2>1, <3>1, <3>2, <4>1, <4>2, <4>3 DEF Writes, AnsweredOk, At, Loose, There
    <3>4. CASE call[q].op # "upsert"
      <4>1. accepted'[q] = {} /\ \A i \in Acts(q)' : effects'[i].rows \subseteq accepted'[q]
        BY <1>1, <2>1, <3>0, <3>4, <3>a DEF Carries
      <4> QED  BY <2>1, <3>2, <3>4, <4>1 DEF Writes, AnsweredOk, At
    <3> QED  BY <3>1, <3>3, <3>4 DEF Takes, Drops, Lists, Searches
  <2> QED  BY <1>4, <2>2, <2>3 DEF Stores
<1> QED  BY <1>1, <1>2, <1>3, <1>4, NextCall

\* What was written are records of who wrote it.
LEMMA Delivers ==
    ASSUME History, Carried, Recorded, NEW i \in DOMAIN effects, effects[i].what = "wrote"
    PROVE  LET p == effects[i].by IN p \in Requests /\ effects[i].rows \subseteq Rows(p, hash[p])
<1>1. PICK p : p = effects[i].by
  OBVIOUS
<1>2. p \in Requests /\ i \in Acts(p) /\ Writes(p) /\ Carries(p) /\ call[p].op = "upsert"
  BY <1>1 DEF History, Doing, Acts, Recorded, Carried
<1> QED  BY <1>1, <1>2 DEF Writes, Sent, Carries

-----------------------------------------------------------------------------
(* Where records come from *)

Sourced(x, via, c) == \E i \in DOMAIN effects :
    effects[i].what = "wrote" /\ effects[i].via = via /\ Coll(effects[i].by) = c /\ x \in effects[i].rows
Restored(q) ==
    \A op \in {"upsert", "delete"} : At(q, "files", op, "dump") =>
        \A x \in call[q].memo.rows : Sourced(x, "files", Coll(q)) \/ (op = "upsert" /\ x \in call[q].rows)

\* Somebody wrote every record that is there, and that a dump puts back.
Provenance ==
    /\ \A via \in Vendors, c \in Collections : \A x \in Held(via, c) : Sourced(x, via, c)
    /\ \A q \in Requests : Restored(q)

\* Who wrote a record wrote it.
LEMMA SourcedStays == ASSUME Recalls, UNCHANGED fixed, NEW x, NEW via, NEW c, Sourced(x, via, c) PROVE Sourced(x, via, c)'
<1>1. PICK i \in DOMAIN effects :
        effects[i].what = "wrote" /\ effects[i].via = via /\ Coll(effects[i].by) = c /\ x \in effects[i].rows
  BY DEF Sourced
<1>2. i \in DOMAIN effects' /\ effects'[i] = effects[i]
  BY <1>1 DEF Recalls
<1>3. request' = request
  BY PlayStays
<1> QED  BY <1>1, <1>2, <1>3 DEF Sourced, Coll

\* The stores change when somebody does something.
LEMMA HeldChanges ==
    ASSUME Base, [Next]_vars
    PROVE  \/ \A via \in Vendors, c \in Collections : Held(via, c)' = Held(via, c)
           \/ \E r \in Requests : Stores(r) /\ Performs(r)
<1> USE DEF Base
<1>1. CASE UNCHANGED stores
  BY <1>1, StoresStay
<1> QED  BY <1>1, NextBase DEF Arrive, Begin, backends, Proceeds, Apart, Stores, Quiet

\* Every step keeps the records to those that were written.
LEMMA NextProvenance == ASSUME Base, Carried, Provenance, [Next]_vars PROVE Provenance'
<1> USE DEF Base, IInv
<1>1. UNCHANGED fixed /\ Recalls /\ request' = request
  BY NextBase, PlayStays
<1>2. ASSUME NEW via \in Vendors, NEW c \in Collections, NEW x \in Held(via, c)' PROVE Sourced(x, via, c)'
  <2>1. CASE x \in Held(via, c)
    BY <1>1, <2>1, SourcedStays DEF Provenance
  <2>2. CASE \E r \in Requests : Stores(r) /\ Performs(r)
    <3>1. PICK r \in Requests : Stores(r) /\ Performs(r)
      BY <2>2
    <3>2. PICK k \in DOMAIN effects' :
             /\ effects'[k].by = r /\ effects'[k].what = Doing[call[r].op] /\ effects'[k].via = call[r].via
             /\ effects'[k].rows = IF call[r].op = "upsert" THEN call[r].rows ELSE {}
             /\ Puts(r) \/ Takes(r, effects'[k].n) \/ Drops(r) \/ Lists(r) \/ Searches(r)
      BY <3>1, PerformsActs
    <3>3. CASE via = call[r].via /\ c = Coll(r)
      <4>1. x \in Shelf(r)' /\ Shelf(r) = Held(via, c)
        BY <1>1, <1>2, <3>1, <3>3 DEF Shelf, Coll, Stores, Moves
      <4>2. CASE Puts(r) /\ x \in call[r].rows
        <5>1. effects'[k].what = "wrote" /\ x \in effects'[k].rows /\ Coll(r)' = c
          BY <1>1, <3>1, <3>2, <3>3, <4>2 DEF Puts, Doing, Stores, Moves, Coll
        <5> QED  BY <1>1, <3>2, <3>3, <5>1 DEF Sourced, Coll
      <4>3. CASE \E op \in {"upsert", "delete"} : At(r, "files", op, "dump") /\ x \in call[r].memo.rows
                                                 /\ ~(op = "upsert" /\ x \in call[r].rows)
        <5>1. Sourced(x, "files", Coll(r)) /\ call[r].via = "files"
          BY <4>3 DEF Provenance, Restored, At
        <5>2. Sourced(x, via, c)
          BY <3>3, <5>1
        <5> QED  BY <1>1, <5>2, SourcedStays
      <4>4. CASE Puts(r) /\ x \notin call[r].rows
        BY <2>1, <4>1, <4>3, <4>4 DEF Puts, Merged, At
      <4>5. CASE Takes(r, effects'[k].n)
        BY <2>1, <4>1, <4>3, <4>5 DEF Takes, At
      <4> QED  BY <2>1, <3>2, <4>1, <4>2, <4>4, <4>5 DEF Drops, Lists, Searches
    <3> QED  BY <1>2, <2>1, <3>1, <3>3 DEF Performs, Elsewhere
  <2> QED  BY <1>2, <2>1, <2>2, HeldChanges
<1>3. ASSUME NEW q \in Requests PROVE Restored(q)'
  <2>0. PICK c : c = Coll(q)
    OBVIOUS
  <2>1. Coll(q)' = c /\ Restored(q) /\ \A x : Sourced(x, "files", c) => Sourced(x, "files", c)'
    BY <1>1, <2>0, SourcedStays DEF Coll, Provenance
  <2>2. CASE Unmoved(q)
    BY <2>0, <2>1, <2>2 DEF Unmoved, Restored, At
  <2>3. CASE Renewed(q)
    BY <2>3, NoOperation DEF Renewed, Restored, At
  <2>4. CASE Stores(q)
    <3>1. call'[q].op = call[q].op /\ call'[q].via = call[q].via /\ call'[q].rows = call[q].rows
      BY <2>4 DEF Stores, Moves
    <3>2. CASE call'[q].step = "answered"
      BY <3>2 DEF Restored, At
    <3>3. CASE Halfway(q) /\ call[q].via = "files" /\ call[q].op \in {"upsert", "delete"} /\ call'[q].step = "dump"
      <4>1. /\ \A x \in Shelf(q) : Sourced(x, "files", c)
        BY <2>0, <3>3 DEF Shelf, Provenance, Asks, Vendors
      <4>2. \A x \in call'[q].memo.rows : x \in Shelf(q) \/ (call[q].op = "upsert" /\ x \in call[q].rows)
        BY <3>3 DEF Halfway
      <4> QED  BY <2>0, <2>1, <3>1, <4>1, <4>2 DEF Restored, At
    <3> QED  BY <2>4, <3>1, <3>2, <3>3 DEF Stores, Quiet, Performs, Missed, Informs, Closed, Restored, At
  <2> QED  BY <2>2, <2>3, <2>4, NextCall DEF Carried
<1> QED  BY <1>2, <1>3 DEF Provenance

-----------------------------------------------------------------------------
(* How ingests end *)

\* An ingest is finished when all its records were confirmed, if it has any, or its
\* fingerprint had been written before.
Finished(q) == ~Loose(q) /\ Whole(q)
Skips(q) ==
    /\ AnsweredOk(q, "lookup") /\ Out(q).n > 0 => SameHash(q)
    /\ phase[q] \in {"finish", "record"} => Finished(q)
Skipped == \A q \in Requests : Skips(q)

\* The reply of a request is the answer of its store.
Ends(q) == phase[q] = "ended" =>
    /\ reply[q].status # "closed" => ~Loose(q)
    /\ request[q].kind = "ingest" =>
         /\ Done(q) => Whole(q) /\ reply[q].n = Cardinality(accepted[q])
         /\ ~Done(q) /\ reply[q].status # "closed" /\ call[q].op = "upsert" /\ Out(q).ok =>
              call[q].rows \subseteq accepted[q]
    /\ Done(q) /\ request[q].kind \in {"delete", "list", "search", "drop"} =>
         call[q].op = request[q].kind /\ Out(q).ok /\ reply[q].n = Out(q).n /\ reply[q].list = Out(q).list
Ended == \A q \in Requests : Ends(q)

\* Who is finished stays so.
LEMMA FinishedStays ==
    ASSUME Recalls, UNCHANGED fixed, met \subseteq met', NEW q \in Requests, Whole(q),
           hash'[q] = hash[q], doc'[q] = doc[q], accepted'[q] = accepted[q]
    PROVE  Whole(q)'
<1>1. Via(q)' = Via(q) /\ (SameHash(q) => SameHash(q)')
  BY ViaStays, SaidStays
<1>2. PICK h : h = hash[q]
  OBVIOUS
<1>3. Rows(q, h)' = Rows(q, h) /\ hash'[q] = h
  BY <1>2, RowsStay
<1> QED  BY <1>1, <1>2, <1>3 DEF Whole

\* A fingerprint that a lookup has found was written.
LEMMA NextFound ==
    ASSUME Base, Carried, Recorded, Provenance, Skipped, [Next]_vars, NEW q \in Requests
    PROVE  (AnsweredOk(q, "lookup") /\ Out(q).n > 0 => SameHash(q))'
<1> USE DEF Base, IInv
<1>1. UNCHANGED fixed /\ Skips(q) /\ Recalls /\ met \subseteq met'
  BY NextBase DEF Skipped
<1>2. CASE Unmoved(q)
  BY <1>1, <1>2, SaidStays DEF Unmoved, Skips, AnsweredOk, Loose, Modelled, Out
<1>3. CASE Renewed(q)
  BY <1>3, NoOperation DEF Renewed, AnsweredOk, Loose, Operations
<1>4. CASE Stores(q)
  <2>0. hash'[q] = hash[q] /\ call'[q].op = call[q].op /\ call'[q].via = call[q].via
    BY <1>4 DEF Stores, Moves, served
  <2>1. CASE Informs(q) /\ call[q].op = "lookup" /\ Modelled(q) /\ Out(q)'.n > 0
    <3>1. PICK x \in Shelf(q) : x.hash = hash[q]
      BY <2>1 DEF Informs, Meets, Modelled, Carried, Carries, Closed
    <3>2. Sourced(x, call[q].via, Coll(q))
      BY <2>1, <3>1 DEF Shelf, Provenance, Modelled, Asks
    <3>3. PICK i \in DOMAIN effects : effects[i].what = "wrote" /\ x \in effects[i].rows
      BY <3>2 DEF Sourced
    <3>5. effects[i].rows \subseteq Rows(effects[i].by, hash[effects[i].by])
      BY <3>3, Delivers
    <3>6. x.hash = hash[effects[i].by]
      BY <3>3, <3>5 DEF Rows
    <3>7. SameHash(q)
      BY <3>1, <3>3, <3>6 DEF SameHash
    <3> QED  BY <1>1, <2>0, <3>7, SaidStays
  <2>2. CASE ~(Informs(q) /\ call[q].op = "lookup" /\ Modelled(q) /\ Out(q)'.n > 0)
    BY <1>4, <2>0, <2>2
       DEF Stores, Quiet, Performs, Missed, Halfway, Informs, Closed, AnsweredOk, Loose, Modelled, Doing
  <2> QED  BY <2>1, <2>2
<1> QED  BY <1>2, <1>3, <1>4, NextCall DEF Carried

\* So ingests are finished as they should be,
LEMMA NextSkipped == ASSUME Base, Carried, Recorded, Provenance, Skipped, [Next]_vars PROVE Skipped'
<1> USE DEF Base, IInv
<1> SUFFICES ASSUME NEW q \in Requests PROVE Skips(q)'
  BY DEF Skipped
<1>1. UNCHANGED fixed /\ Skips(q) /\ Carries(q) /\ Recalls /\ met \subseteq met'
  BY NextBase DEF Skipped, Carried
<1> SUFFICES ASSUME phase'[q] \in {"finish", "record"} PROVE Finished(q)'
  BY NextFound DEF Skips
<1>2. CASE Beside(q)
  BY <1>1, <1>2, FinishedStays DEF Beside, Skips, Finished, Loose
<1>3. CASE Arrive(q)
  BY <1>3 DEF Arrive, Begin, Go, Calls
<1>4. CASE Proceeds(q)
  <2>1. CASE Learns(q)
    <3>1. /\ call'[q] = NoCall /\ hash'[q] = hash[q] /\ call[q].op = "lookup" /\ call[q].via = Via(q)
          /\ call[q].step = "answered" /\ Out(q).ok /\ Out(q).n > 0 /\ accepted'[q] = {}
      BY <1>1, <1>4, <2>1 DEF Learns, Turns, Calls, Waits, Proceeds, Apart, Accepts, Carries
    <3>2. Via(q) \in Vendors => SameHash(q)
      BY <1>1, <3>1 DEF Skips, AnsweredOk, Loose, Modelled
    <3>3. Via(q)' = Via(q) /\ (SameHash(q) => SameHash(q)')
      BY <1>1, <3>1, ViaStays, SaidStays
    <3> QED  BY <3>1, <3>2, <3>3, NoOperation DEF Finished, Whole, Loose
  <2>2. CASE Finishes(q)
    <3>1. UNCHANGED <<call, hash, doc>>
      BY <2>2 DEF Finishes, Unsaid
    <3>2. PICK h : h = hash[q]
      OBVIOUS
    <3>3. Rows(q, h)' = Rows(q, h) /\ hash'[q] = h
      BY <1>1, <3>1, <3>2, RowsStay
    <3>4. CASE Turns(q, "upsert", "finish") /\ Accepts(q) /\ Rows(q, h) \subseteq accepted'[q]
      <4>1. accepted'[q] = accepted[q] \cup call[q].rows /\ call[q].op = "upsert" /\ ~Loose(q)
        BY <3>4 DEF Accepts, Listed, Turns, Calls, Waits, Loose
      <4>2. accepted'[q] = Rows(q, h)
        BY <1>1, <3>2, <3>4, <4>1 DEF Carries
      <4> QED  BY <3>1, <3>3, <4>1, <4>2 DEF Finished, Whole, Loose
    <3>5. CASE Turns(q, "compose", "finish") /\ Ids(q) = {}
      <4>1. call[q] = NoCall /\ accepted'[q] = accepted[q]
        BY <1>4, <3>5 DEF Turns, Calls, Proceeds, Apart, Accepts
      <4>2. accepted'[q] = {} /\ ~Loose(q) /\ Rows(q, h) = {}
        BY <1>1, <3>5, <4>1, NoOperation DEF Carries, Loose, Operations, Rows
      <4> QED  BY <3>1, <3>3, <4>2 DEF Finished, Whole, Loose
    <3>6. CASE phase[q] = "finish"
      <4>1. accepted'[q] = accepted[q]
        BY <1>4, <3>6 DEF Turns, Proceeds, Apart, Accepts
      <4> QED  BY <1>1, <3>1, <3>6, <4>1, FinishedStays DEF Skips, Finished, Loose
    <3> QED  BY <2>2, <3>2, <3>4, <3>5, <3>6 DEF Finishes, Turns, Draws
  <2> QED  BY <1>4, <2>1, <2>2 DEF Proceeds, Nears, EndsEarly, AsksFirst, AsksAgain, AsksFor, Turns, Leaves, Unasked
<1>5. CASE Stores(q)
  <2>1. phase'[q] = phase[q] /\ Loose(q)
    BY <1>5 DEF Stores, served, Moves, Waiting, Loose
  <2> QED  BY <1>1, <2>1 DEF Skips, Finished
<1> QED  BY <1>2, <1>3, <1>4, <1>5, NextBeside

\* and every request ends with the answer of its store.
LEMMA NextEnded == ASSUME Base, Skipped, Ended, [Next]_vars PROVE Ended'
<1> USE DEF Base, IInv
<1> SUFFICES ASSUME NEW q \in Requests PROVE Ends(q)'
  BY DEF Ended
<1>1. UNCHANGED fixed /\ Skips(q) /\ Ends(q) /\ Recalls /\ met \subseteq met' /\ request' = request /\ Q(q)' = Q(q)
  BY NextBase, PlayStays DEF Skipped, Ended, Q
<1>2. CASE Beside(q)
  <2>1. (Whole(q) => Whole(q)') /\ accepted'[q] = accepted[q]
    BY <1>1, <1>2, FinishedStays DEF Beside
  <2> QED  BY <1>1, <1>2, <2>1 DEF Beside, Ends, Done, Out, Loose
<1>3. CASE Arrive(q)
  BY <1>3 DEF Arrive, Begin, Go, Calls, Ends
<1>4. CASE Proceeds(q) /\ phase'[q] = "ended"
  <2>0. Done(q)' <=> Success(q)
    BY <1>4 DEF Done, Success
  <2>1. CASE EndsEarly(q)
    <3>1. call'[q] = NoCall /\ call[q] = NoCall
      BY <2>1 DEF EndsEarly, Unsaid, Unasked, Calls
    <3> QED  BY <1>1, <2>0, <2>1, <3>1, NoOperation DEF EndsEarly, Ends, Loose, Operations
  <2>2. CASE Learns(q)
    <3>1. call'[q] = NoCall /\ ~Success(q) /\ call[q].op \in {"lookup", "ensure"}
      BY <1>4, <2>2 DEF Learns, Turns, Calls, Waits
    <3> QED  BY <1>1, <2>0, <3>1, NoOperation DEF Ends, Loose, Operations
  <2>3. CASE Finishes(q)
    <3>0. call'[q] = call[q] /\ hash'[q] = hash[q] /\ doc'[q] = doc[q] /\ accepted'[q] = accepted[q]
      BY <1>4, <2>3 DEF Finishes, Unsaid, Proceeds, Apart, Accepts, Turns
    <3>1. Finished(q) => Whole(q)' /\ ~Loose(q)
      BY <1>1, <3>0, FinishedStays DEF Finished
    <3>2. CASE phase[q] = "upsert"
      BY <1>1, <1>4, <2>0, <2>3, <3>0, <3>2 DEF Finishes, Draws, Turns, Calls, Waits, Ends, Loose, Out
    <3>3. CASE phase[q] = "finish"
      <4>1. request[q].kind = "ingest" /\ call[q].rows \subseteq accepted[q]
        BY <3>3 DEF Course
      <4> QED  BY <1>1, <1>4, <2>0, <2>3, <3>0, <3>1, <3>3, <4>1 DEF Finishes, Draws, Turns, Ends, Skips, Loose, Out
    <3>n. CASE phase[q] = "next"
      <4>1. request[q].kind = "ingest" /\ call[q].rows \subseteq accepted[q] /\ ~Loose(q)
        BY <3>n DEF Course, Calls, Loose
      <4> QED  BY <1>1, <1>4, <2>0, <2>3, <3>0, <3>n, <4>1 DEF Finishes, Draws, Turns, Ends, Loose, Out
    <3>4. CASE phase[q] = "record"
      <4>1. request[q].kind = "ingest" /\ Finished(q)
        BY <1>1, <3>4 DEF Skips, Course
      <4> QED  BY <1>1, <1>4, <2>0, <2>3, <3>0, <3>1, <3>4, <4>1 DEF Finishes, Draws, Turns, Ends, Loose, Out
    <3>5. CASE phase[q] = "answer"
      <4>1. request[q].kind # "ingest" /\ call[q].op = request[q].kind
        BY <3>5 DEF Course
      <4> QED  BY <1>1, <1>4, <2>0, <2>3, <3>0, <3>5, <4>1 DEF Finishes, Draws, Turns, Ends, Loose, Out
    <3> QED  BY <1>4, <2>3, <3>2, <3>3, <3>n, <3>4, <3>5 DEF Finishes, Turns, Draws
  <2>4. CASE Leaves(q)
    BY <1>1, <2>0, <2>4 DEF Leaves, Ends, Success
  <2> QED  BY <1>4, <2>1, <2>2, <2>3, <2>4 DEF Proceeds, Nears, AsksFirst, AsksAgain, AsksFor, Turns, Unasked
<1>5. CASE Stores(q) /\ phase'[q] = "ended"
  <2>1. phase[q] = "ended" /\ Loose(q) /\ reply'[q] = reply[q]
    BY <1>5 DEF Stores, served, Moves, Waiting, Loose
  <2>2. reply[q].status = "closed"
    BY <1>1, <2>1 DEF Ends
  <2> QED  BY <1>1, <2>1, <2>2 DEF Ends, Done
<1>6. CASE phase'[q] # "ended"
  BY <1>6 DEF Ends
<1> QED  BY <1>2, <1>3, <1>4, <1>5, <1>6, NextBeside

-----------------------------------------------------------------------------
(* What the graph is given *)

\* An ingest that asked for it has its text in the graph from the end of its vectors on,
\* if it does not fail afterwards.
Sketch(q) == IF Q(q).graph = "directory" /\ doc[q] # "blank" THEN {<<q, doc[q]>>} ELSE {}
Graphs(q) ==
    Drawn(q) = IF request[q].kind = "ingest" /\ (phase[q] = "record" \/ Done(q)) THEN Sketch(q) ELSE {}
Graphed == \A q \in Requests : Graphs(q)

\* Every step keeps the graph so.
LEMMA NextGraphed == ASSUME Base, Graphed, [Next]_vars PROVE Graphed'
<1> USE DEF Base, IInv
<1> SUFFICES ASSUME NEW q \in Requests PROVE Graphs(q)'
  BY DEF Graphed
<1>1. Graphs(q) /\ request' = request /\ Q(q)' = Q(q)
  BY NextBase, PlayStays DEF Graphed, Q
<1>2. CASE Beside(q)
  BY <1>1, <1>2 DEF Beside, Graphs, Done, Sketch
<1>3. CASE Arrive(q)
  <2>1. graph' = graph /\ phase[q] = "idle"
    BY <1>3 DEF Arrive, Begin
  <2>2. phase'[q] \in {"resolve", "tool", "compose"}
    BY <1>3 DEF Arrive, Begin, Go, Calls
  <2> QED  BY <1>1, <2>1, <2>2 DEF Graphs, Done, Drawn
<1>4. CASE Proceeds(q)
  <2>1. CASE Draws(q)
    <3>1. /\ phase[q] = "finish" /\ phase'[q] = "record" /\ request[q].kind = "ingest"
          /\ graph' = graph \cup Sketch(q)
      BY <2>1 DEF Draws, Turns, Course, Sketch
    <3>2. doc'[q] = doc[q]
      BY <1>4, <3>1 DEF Proceeds, Nears, EndsEarly, AsksFirst, AsksAgain, AsksFor, Learns, Finishes, Leaves,
                       Turns, Unasked, Unsaid
    <3>3. Drawn(q) = {}
      BY <1>1, <3>1 DEF Graphs, Done
    <3>4. Drawn(q)' = Sketch(q)
      BY <3>1, <3>3 DEF Drawn, Sketch
    <3> QED  BY <1>1, <3>1, <3>2, <3>4 DEF Graphs, Sketch
  <2>2. CASE ~Draws(q)
    <3>1. Drawn(q)' = Drawn(q)
      BY <1>4, <2>2 DEF Proceeds, Apart, Drawn
    <3>2. /\ phase[q] # "ended" /\ phase'[q] # "record"
          /\ phase[q] = "record" => Finishes(q) /\ phase'[q] = "ended" /\ Success(q) /\ doc' = doc
          /\ phase[q] # "record" /\ phase'[q] = "ended" => request[q].kind # "ingest" \/ ~Success(q)
      <4>1. CASE Finishes(q)
        BY <2>2, <4>1 DEF Finishes, Turns, Unsaid, Course
      <4>2. CASE EndsEarly(q)
        BY <4>2 DEF EndsEarly, Unasked
      <4>3. CASE Leaves(q)
        BY <4>3 DEF Leaves, Unasked, Success
      <4> QED  BY <1>4, <4>1, <4>2, <4>3 DEF Proceeds, Nears, AsksFirst, AsksAgain, AsksFor, Learns, Turns, Unasked
    <3> QED  BY <1>1, <3>1, <3>2 DEF Graphs, Done, Success, Sketch
  <2> QED  BY <2>1, <2>2
<1>5. CASE Stores(q)
  <2>1. UNCHANGED <<graph, phase, doc, reply>>
    BY <1>5 DEF Stores, served
  <2> QED  BY <1>1, <2>1 DEF Graphs, Done, Drawn, Sketch
<1> QED  BY <1>2, <1>3, <1>4, <1>5, NextBeside

-----------------------------------------------------------------------------
(* What is deleted *)

\* A deletion leaves nothing of its source, and tells how much it removed; of the old
\* TurboVec files, unless it had company, and so of the count of Qdrant.
Cleared(q, i) ==
    /\ Modelled(q)
    /\ Gone(q) = {} \/ Rewritten(q, i) \/ (call[q].via = "files" /\ Overlapped(q))
    /\ Out(q).ok => Out(q).n = effects[i].n \/ (call[q].via = "qdrant" /\ Overlapped(q))
Deletes(q) == call[q].op = "delete" =>
    /\ \A i \in Acts(q) : Cleared(q, i)
    /\ At(q, "qdrant", "delete", "delete") => call[q].memo = Cardinality(Gone(q)) \/ Overlapped(q)
    /\ At(q, "files", "delete", "load") => call[q].memo = Gone(q) \/ Overlapped(q)
    /\ At(q, "files", "delete", "dump") =>
         (\A x \in call[q].memo.rows : x.source # request[q].source) \/ Overlapped(q)

\* What another deletion puts back is none of what this one has removed.
Spares(q, p) ==
    call[q].op = "delete" /\ call[q].via = "files" /\ At(p, "files", "delete", "dump") /\ Same(q, p) =>
        \A i \in Acts(q) :
            Overlapped(q) \/ Rewritten(q, i) \/ \A x \in call[p].memo.rows : x.source # request[q].source
Deletions == \A q \in Requests : Deletes(q) /\ \A p \in Requests : p # q => Spares(q, p)

\* While others work, what was removed does not come back.
LEMMA UnmovedDeletes ==
    ASSUME Base, Deletions, [Next]_vars, NEW q \in Requests, Unmoved(q) PROVE Deletes(q)'
<1> USE DEF Base, IInv
<1>1. UNCHANGED fixed /\ Recalls /\ met \subseteq met' /\ request' = request /\ Deletes(q)
  BY NextBase, PlayStays DEF Deletions
<1>2. /\ call'[q] = call[q] /\ Acts(q)' = Acts(q) /\ (Modelled(q) => Shelf(q)' = Shelf(q) \/ Disturbed(q))
      /\ (Overlapped(q) => Overlapped(q)') /\ \A i : Rewritten(q, i) => Rewritten(q, i)'
      /\ Gone(q)' = Of(Shelf(q)', request[q].source)
  <2>1. Gone(q)' = Of(Shelf(q)', request[q].source)
    BY <1>1 DEF Gone, Of
  <2> QED  BY <1>1, <2>1, SaidStays DEF Unmoved
<1> SUFFICES ASSUME call[q].op = "delete" PROVE Deletes(q)'
  BY <1>2 DEF Deletes
<1>3. ASSUME NEW i \in Acts(q) PROVE Cleared(q, i)'
  <2>1. Cleared(q, i) /\ Modelled(q)
    BY <1>1, <1>3 DEF Deletes, Cleared
  <2>2. effects'[i] = effects[i]
    BY <1>1, <1>3 DEF Acts, Recalls
  <2>3. Gone(q)' = {} \/ Rewritten(q, i)' \/ (call[q].via = "files" /\ Overlapped(q)')
    <3>1. CASE Rewritten(q, i) \/ (call[q].via = "files" /\ Overlapped(q))
      BY <1>2, <3>1
    <3>2. CASE Gone(q) = {} /\ Shelf(q)' = Shelf(q)
      BY <1>2, <3>2 DEF Gone
    <3>3. CASE Gone(q) = {} /\ Disturbed(q) /\ ~Rewritten(q, i)' /\ ~(call[q].via = "files" /\ Overlapped(q))
      <4>1. ASSUME NEW x \in Shelf(q)', x.source = request[q].source PROVE FALSE
        <5>1. x \notin Shelf(q)
          BY <3>3, <4>1 DEF Gone, Of
        <5>2. Dumped(q, x)
          BY <1>3, <3>3, <4>1, <5>1 DEF Disturbed
        <5>3. PICK p \in Requests : /\ p # q /\ At(p, "files", "delete", "dump") /\ call[q].via = "files" /\ Same(q, p)
                                    /\ x \in call[p].memo.rows
          BY <5>2 DEF Dumped
        <5>4. Overlapped(q) \/ Rewritten(q, i) \/ \A y \in call[p].memo.rows : y.source # request[q].source
          BY <1>3, <5>3 DEF Deletions, Spares
        <5>5. ~Overlapped(q) /\ ~Rewritten(q, i)
          BY <1>2, <3>3, <5>3
        <5> QED  BY <4>1, <5>3, <5>4, <5>5
      <4> QED  BY <1>2, <4>1 DEF Of
    <3> QED  BY <1>2, <2>1, <3>1, <3>2, <3>3 DEF Cleared
  <2> QED  BY <1>2, <2>1, <2>2, <2>3 DEF Cleared, Modelled, Out
<1>4. ASSUME Loose(q), Modelled(q) PROVE Gone(q)' = Gone(q) \/ Overlapped(q)'
  <2>1. CASE Shelf(q)' = Shelf(q)
    BY <1>2, <2>1 DEF Gone
  <2>2. CASE Disturbed(q)
    BY <1>2, <1>4, <2>2 DEF Disturbed, InFlight, Loose
  <2> QED  BY <1>2, <1>4, <2>1, <2>2
<1>5. \A via, step : At(q, via, "delete", step)' <=> At(q, via, "delete", step)
  BY <1>2 DEF At
<1>6. At(q, "qdrant", "delete", "delete") \/ At(q, "files", "delete", "load") => Loose(q) /\ Modelled(q)
  BY DEF At, Loose, Modelled, Vendors
<1>7. At(q, "qdrant", "delete", "delete") => call'[q].memo = Cardinality(Gone(q)') \/ Overlapped(q)'
  <2>1. CASE Gone(q)' = Gone(q)
    BY <1>1, <1>2, <2>1 DEF Deletes
  <2> QED  BY <1>4, <1>6, <2>1
<1>8. At(q, "files", "delete", "load") => call'[q].memo = Gone(q)' \/ Overlapped(q)'
  BY <1>1, <1>2, <1>4, <1>6 DEF Deletes
<1>9. At(q, "files", "delete", "dump") =>
        (\A x \in call'[q].memo.rows : x.source # request'[q].source) \/ Overlapped(q)'
  BY <1>1, <1>2 DEF Deletes
<1> QED  BY <1>2, <1>3, <1>5, <1>7, <1>8, <1>9 DEF Deletes

\* A deletion removes what is of its source.
LEMMA StoresDeletes ==
    ASSUME Base, Deletions, [Next]_vars, NEW q \in Requests, Stores(q) PROVE Deletes(q)'
<1> USE DEF Base, IInv
<1>1. UNCHANGED fixed /\ Recalls /\ met \subseteq met' /\ request' = request /\ Deletes(q)
  BY NextBase, PlayStays DEF Deletions
<1>2. /\ call'[q].op = call[q].op /\ call'[q].via = call[q].via
      /\ (Overlapped(q) => Overlapped(q)') /\ \A i : Rewritten(q, i) => Rewritten(q, i)'
      /\ Gone(q)' = Of(Shelf(q)', request[q].source) /\ (Modelled(q)' <=> Modelled(q))
  <2>1. Gone(q)' = Of(Shelf(q)', request[q].source)
    BY <1>1 DEF Gone, Of
  <2> QED  BY <1>1, <2>1, SaidStays DEF Stores, Moves, Modelled
<1> SUFFICES ASSUME call[q].op = "delete" PROVE Deletes(q)'
  BY <1>2 DEF Deletes
<1>3. CASE Quiet(q)
  <2>0. Acts(q)' = Acts(q) /\ effects' = effects
    BY <1>3 DEF Quiet, Acts
  <2>s. Modelled(q) => Shelf(q)' = Shelf(q)
    <3>1. PICK v, c : v = call[q].via /\ c = Coll(q)
      OBVIOUS
    <3>2. Shelf(q)' = Held(v, c)' /\ Shelf(q) = Held(v, c) /\ c \in Collections /\ (Modelled(q) => v \in Vendors)
      BY <1>1, <1>2, <3>1 DEF Shelf, Coll, Modelled, Asks
    <3> QED  BY <1>3, <3>2 DEF Quiet
  <2>1. CASE Missed(q)
    <3>1. ASSUME NEW i \in Acts(q)' PROVE Cleared(q, i)'
      <4>1. Cleared(q, i) /\ Modelled(q)
        BY <1>1, <2>0, <3>1 DEF Deletes, Cleared
      <4>2. Gone(q)' = Gone(q)
        BY <1>2, <2>s, <4>1 DEF Gone
      <4> QED  BY <1>2, <2>1, <4>1, <4>2 DEF Cleared, Missed
    <3> QED  BY <2>1, <3>1 DEF Missed, Deletes, At
  <2>2. CASE Halfway(q)
    <3>1. Acts(q) = {}
      BY <2>2, Unacted DEF Halfway
    <3>2. At(q, "qdrant", "delete", "delete")' => call'[q].memo = Cardinality(Gone(q))
      BY <1>2, <2>2 DEF Halfway, At
    <3>3. At(q, "files", "delete", "load")' => call'[q].memo = Gone(q)
      BY <1>2, <2>2 DEF Halfway, At
    <3>4. At(q, "files", "delete", "dump")' =>
            (\A x \in call'[q].memo.rows : x.source # request[q].source) \/ Overlapped(q)
      <4>1. SUFFICES ASSUME At(q, "files", "delete", "dump")', ~Overlapped(q)
                     PROVE  \A x \in call'[q].memo.rows : x.source # request[q].source
        OBVIOUS
      <4>2. call[q].step = "load" /\ call[q].via = "files" /\ call'[q].memo.rows = Shelf(q) \ call[q].memo
        BY <1>2, <2>2, <4>1 DEF Halfway, At
      <4>3. call[q].memo = Gone(q)
        BY <1>1, <4>1, <4>2 DEF Deletes, At
      <4> QED  BY <4>2, <4>3 DEF Gone, Of
    <3>5. Modelled(q) => Gone(q)' = Gone(q)
      BY <1>2, <2>s DEF Gone
    <3>6. \A step : At(q, "qdrant", "delete", step)' \/ At(q, "files", "delete", step)' => Modelled(q)
      BY <1>2 DEF At, Modelled, Vendors
    <3>7. At(q, "qdrant", "delete", "delete")' => call'[q].memo = Cardinality(Gone(q)')
      BY <3>2, <3>5, <3>6
    <3>8. At(q, "files", "delete", "load")' => call'[q].memo = Gone(q)'
      BY <3>3, <3>5, <3>6
    <3> QED  BY <1>1, <1>2, <2>0, <3>1, <3>4, <3>7, <3>8 DEF Deletes
  <2>3. CASE Informs(q)
    <3>1. Acts(q) = {}
      BY <2>3, Unacted DEF Informs, Closed
    <3> QED  BY <2>0, <2>3, <3>1 DEF Informs, Closed, Deletes, At
  <2> QED  BY <1>3, <2>1, <2>2, <2>3 DEF Quiet
<1>4. CASE Performs(q)
  <2>1. PICK k \in DOMAIN effects' :
          Acts(q)' = {k} /\ (Puts(q) \/ Takes(q, effects'[k].n) \/ Drops(q) \/ Lists(q) \/ Searches(q))
    BY <1>4, PerformsActs
  <2>2. Takes(q, effects'[k].n) /\ Modelled(q) /\ call'[q].step = "answered"
    BY <1>4, <2>1 DEF Puts, Drops, Lists, Searches, Performs, Closed, Modelled
  <2>3. Gone(q) \subseteq Shelf(q) /\ Of(Shelf(q) \ Gone(q), request[q].source) = {}
    BY DEF Gone, Of
  <2>4. CASE Shelf(q)' = Shelf(q) \ Gone(q)
    <3>1. Gone(q)' = {}
      BY <1>2, <2>3, <2>4
    <3>2. Out(q)'.ok => Out(q)'.n = effects'[k].n \/ (call[q].via = "qdrant" /\ Overlapped(q))
      <4>1. CASE call[q].via # "qdrant"
        BY <2>2, <4>1 DEF Takes
      <4>2. CASE call[q].via = "qdrant"
        <5>1. call[q].step = "delete" /\ effects'[k].n = Cardinality(Shelf(q) \ (Shelf(q) \ Gone(q)))
          BY <2>2, <4>2 DEF Takes
        <5>2. Shelf(q) \ (Shelf(q) \ Gone(q)) = Gone(q)
          BY <2>3
        <5>3. call[q].memo = Cardinality(Gone(q)) \/ Overlapped(q)
          BY <1>1, <4>2, <5>1 DEF Deletes, At
        <5> QED  BY <2>2, <4>2, <5>1, <5>2, <5>3 DEF Takes
      <4> QED  BY <4>1, <4>2
    <3> QED  BY <1>2, <2>1, <2>2, <3>1, <3>2 DEF Deletes, Cleared, At
  <2>5. CASE call[q].via = "files"
    <3>1. Gone(q)' = {} \/ Overlapped(q)
      <4>1. CASE Gone(q) = {} /\ Shelf(q)' = Shelf(q)
        BY <1>2, <4>1 DEF Gone
      <4>2. CASE call[q].step = "dump" /\ Shelf(q)' = call[q].memo.rows
        <5>1. (\A x \in call[q].memo.rows : x.source # request[q].source) \/ Overlapped(q)
          BY <1>1, <2>5, <4>2 DEF Deletes, At
        <5> QED  BY <1>2, <4>2, <5>1 DEF Of
      <4> QED  BY <2>2, <2>5, <4>1, <4>2 DEF Takes
    <3>2. Out(q)'.n = effects'[k].n
      BY <2>2, <2>5 DEF Takes
    <3> QED  BY <1>2, <2>1, <2>2, <2>5, <3>1, <3>2 DEF Deletes, Cleared, At
  <2> QED  BY <2>2, <2>4, <2>5 DEF Takes
<1> QED  BY <1>3, <1>4 DEF Stores

\* What a deletion is about to put back is what is there, or somebody it has met has
\* removed it meanwhile.
LEMMA NextSpares ==
    ASSUME Base, Carried, Deletions, [Next]_vars, NEW q \in Requests, NEW p \in Requests, p # q PROVE Spares(q, p)'
<1> USE DEF Base, IInv
<1>1. /\ UNCHANGED fixed /\ Recalls /\ met \subseteq met' /\ request' = request /\ Deletes(q) /\ Spares(q, p)
      /\ Same(q, p)' = Same(q, p)
  BY NextBase, PlayStays DEF Deletions, Same
<1>2. (Overlapped(q) => Overlapped(q)') /\ (call'[q].via = call[q].via => \A i : Rewritten(q, i) => Rewritten(q, i)')
  BY <1>1, SaidStays
<1> SUFFICES ASSUME (call[q].op = "delete" /\ call[q].via = "files" /\ At(p, "files", "delete", "dump"))', Same(q, p),
                    NEW i \in Acts(q)'
             PROVE  (Overlapped(q) \/ Rewritten(q, i) \/ \A x \in call[p].memo.rows : x.source # request[q].source)'
  BY <1>1 DEF Spares
<1>3. CASE Renewed(q)
  BY <1>3 DEF Renewed
<1>4. CASE Stores(q) /\ Performs(q)
  <2>1. At(p, "files", "delete", "dump") /\ Same(q, p)
    BY <1>4 DEF Stores, Moves, At
  <2>2. InFlight(p) /\ InFlight(q)
    BY <1>4, <2>1 DEF At, InFlight, Performs, Closed, Loose
  <2> QED  BY <1>2, <2>1, <2>2, Overlap
<1>5. ASSUME call'[q].op = call[q].op, call'[q].via = call[q].via, Acts(q)' = Acts(q)
      PROVE  Overlapped(q)' \/ Rewritten(q, i)' \/ \A x \in call'[p].memo.rows : x.source # request[q].source
  <2>1. CASE At(p, "files", "delete", "dump") /\ call'[p].memo = call[p].memo
    BY <1>1, <1>2, <1>5, <2>1 DEF Spares
  <2>2. CASE Stores(p) /\ Halfway(p)
    <3>1. call[p].step = "load" /\ call'[p].memo.rows = Shelf(p) \ call[p].memo /\ call[p].via = "files"
      BY <2>2 DEF Halfway, Stores, Moves, At
    <3>2. Shelf(p) = Shelf(q)
      BY <1>5, <3>1 DEF Shelf, Same, Coll
    <3>3. Cleared(q, i)
      BY <1>1, <1>5 DEF Deletes
    <3> QED  BY <1>2, <1>5, <3>1, <3>2, <3>3 DEF Cleared, Gone, Of
  <2>3. CASE Unmoved(p)
    BY <2>1, <2>3 DEF Unmoved, At
  <2>4. CASE Renewed(p)
    BY <2>4, NoOperation DEF Renewed, At
  <2>5. CASE Stores(p) /\ ~Halfway(p)
    BY <2>5 DEF Stores, Quiet, Missed, Informs, Performs, Closed, At
  <2> QED  BY <2>2, <2>3, <2>4, <2>5, NextCall DEF Carried
<1>6. CASE Unmoved(q)
  BY <1>1, <1>5, <1>6 DEF Unmoved
<1>7. CASE Stores(q) /\ Quiet(q)
  BY <1>1, <1>5, <1>7 DEF Stores, Moves, Quiet, Acts
<1> QED  BY <1>3, <1>4, <1>6, <1>7, NextCall DEF Stores, Carried

\* So what a deletion has removed stays away.
LEMMA NextDeletions == ASSUME Base, Carried, Deletions, [Next]_vars PROVE Deletions'
<1> SUFFICES ASSUME NEW q \in Requests PROVE Deletes(q)'
  BY NextSpares, NextBase, PlayStays DEF Deletions
<1>1. CASE Renewed(q)
  BY <1>1, NoOperation DEF Renewed, Deletes, At
<1> QED  BY <1>1, UnmovedDeletes, StoresDeletes, NextCall DEF Carried

-----------------------------------------------------------------------------
(* Filters that the stores agree on *)

\* A condition on a field that has the type asked for comes to the same everywhere.
LEMMA TypedCondition ==
    ASSUME NEW meta, NEW e, Typed(meta, e), e.kind \in {"equals", "in", "range"}
    PROVE  /\ CompiledCondition(meta, e) = {Truth(Satisfies(meta, e))}
           /\ PayloadSatisfies(meta, e) <=> Satisfies(meta, e)
<1>0. e.field \in DOMAIN meta
  BY DEF Typed
<1>1. CASE e.kind = "equals"
  <2>1. meta[e.field].type = e.value.type
    BY <1>1 DEF Typed
  <2>2. Satisfies(meta, e) <=> EqualScalar(meta[e.field], e.value)
    BY <1>0, <1>1 DEF Satisfies
  <2>3. Condition(meta, e) <=> Satisfies(meta, e)
    BY <1>0, <1>1, <2>1, <2>2 DEF Condition, EqualScalar, IsNumber
  <2> QED  BY <1>0, <1>1, <2>3 DEF CompiledCondition, PayloadSatisfies
<1>2. CASE e.kind = "in"
  <2>1. \A v \in e.values : meta[e.field].type = v.type
    BY <1>2 DEF Typed
  <2>2. Satisfies(meta, e) <=> \E v \in e.values : EqualScalar(meta[e.field], v)
    BY <1>0, <1>2 DEF Satisfies
  <2>3. ASSUME NEW v \in e.values PROVE Condition(meta, Equals(e.field, v)) <=> EqualScalar(meta[e.field], v)
    <3>1. Equals(e.field, v).field = e.field /\ Equals(e.field, v).kind = "equals" /\ Equals(e.field, v).value = v
      BY DEF Equals
    <3>2. meta[e.field].type = v.type
      BY <2>1
    <3>3. Condition(meta, Equals(e.field, v)) <=>
            IF v.type = "float" THEN IsNumber(meta[e.field]) /\ meta[e.field].v = v.v
            ELSE meta[e.field].type = v.type /\ meta[e.field].v = v.v
      BY <1>0, <3>1 DEF Condition
    <3> QED  BY <3>2, <3>3 DEF EqualScalar, IsNumber
  <2> QED  BY <1>0, <1>2, <2>2, <2>3 DEF CompiledCondition, PayloadSatisfies
<1>3. CASE e.kind = "range"
  <2>1. IsNumber(meta[e.field]) /\ meta[e.field].type # "null"
    BY <1>3 DEF Typed, IsNumber
  <2>2. Satisfies(meta, e) <=> Within(meta[e.field].v, e.bounds)
    BY <1>0, <1>3, <2>1 DEF Satisfies
  <2>3. Condition(meta, e) <=> Satisfies(meta, e)
    BY <1>0, <1>3 DEF Condition
  <2> QED  BY <1>0, <1>3, <2>1, <2>2, <2>3 DEF CompiledCondition, CompiledRange, PayloadSatisfies, Truth
<1> QED  BY <1>1, <1>2, <1>3

\* So does a filter, for a row that is plain to it.
LEMMA PlainReads ==
    ASSUME NEW meta, NEW e, Plain(meta, e), Bounded(e)
    PROVE  /\ "true" \in Compiled(meta, e) <=> Matches(meta, e)
           /\ PayloadMatches(meta, e) <=> Matches(meta, e)
<1> DEFINE mean   == [p \in Conditions(e) |-> Satisfies(meta, Part(e, p))]
           paid   == [p \in Conditions(e) |-> PayloadSatisfies(meta, Part(e, p))]
           python == [p \in DOMAIN mean |-> {Truth(mean[p])}]
           sql    == [p \in Conditions(e) |-> CompiledCondition(meta, Part(e, p))]
           qdrant == [p \in DOMAIN paid |-> {Truth(paid[p])}]
<1>1. ASSUME NEW p \in Conditions(e)
      PROVE  /\ CompiledCondition(meta, Part(e, p)) = {Truth(Satisfies(meta, Part(e, p)))}
             /\ Truth(PayloadSatisfies(meta, Part(e, p))) = Truth(Satisfies(meta, Part(e, p)))
  <2>1. Typed(meta, Part(e, p))
    BY DEF Plain
  <2>2. Part(e, p).kind \in {"equals", "in", "range"}
    BY DEF Conditions, Bounded
  <2> QED  BY <2>1, <2>2, TypedCondition DEF Truth
<1>2. python = [p \in Conditions(e) |-> {Truth(Satisfies(meta, Part(e, p)))}]
  BY DEF Truth
<1>3. qdrant = [p \in Conditions(e) |-> {Truth(PayloadSatisfies(meta, Part(e, p)))}]
  BY DEF Truth
<1>4. python = sql
  BY <1>1, <1>2
<1>5. python = qdrant
  BY <1>1, <1>2, <1>3
<1>6. Matches(meta, e) <=> "true" \in Combined(e, python)
  BY DEF Matches, Holds
<1>7. PayloadMatches(meta, e) <=> "true" \in Combined(e, qdrant)
  BY DEF PayloadMatches, Holds
<1>8. Compiled(meta, e) = Combined(e, sql)
  BY DEF Compiled
<1> HIDE DEF python, sql, qdrant
<1> QED  BY <1>4, <1>5, <1>6, <1>7, <1>8

\* A conjunction of conditions has its root and a place for each of them.
Conjunct(e, n) == e.kind = "and" /\ Compound(e) /\ DOMAIN e.of = 1 .. n /\ \A i \in 1 .. n : Named(e.of[i])
\* The places of a conjunction are its root and one for each condition.
LEMMA ConjunctPlaces ==
    ASSUME NEW e, NEW n \in 0 .. Widest, Conjunct(e, n), 0 < Deepest
    PROVE  /\ Inside(e) = {Root} \cup {<<i>> : i \in 1 .. n}
           /\ Conditions(e) = {<<i>> : i \in 1 .. n}
           /\ Part(e, Root) = e /\ \A i \in 1 .. n : Part(e, <<i>>) = e.of[i] /\ <<i>> # Root
<1>0. Widest \in Nat /\ Deepest \in Nat /\ n \in Nat /\ 1 .. n \subseteq 1 .. Widest
  BY BoundAssumption
<1>1. /\ Part(e, Root) = e /\ Len(Root) = 0
      /\ \A i \in 1 .. n : Part(e, <<i>>) = e.of[i] /\ <<i>> # Root /\ Len(<<i>>) = 1 /\ <<i>>[1] = i
  <2>1. Part(e, Root) = e /\ Len(Root) = 0 /\ Root = <<>>
    BY RootPart
  <2>2. ASSUME NEW i \in 1 .. n PROVE Part(e, <<i>>) = e.of[i] /\ <<i>> # Root /\ Len(<<i>>) = 1 /\ <<i>>[1] = i
    <3>1. i \in Nat
      BY <1>0
    <3>2. Len(<<i>>) = 1 /\ Part(e, <<i>>) = e.of[i]
      BY <3>1, NextPart
    <3> QED  BY <2>1, <3>2
  <2> QED  BY <2>1, <2>2
<1>2. ASSUME NEW i \in 1 .. n PROVE ~Compound(e.of[i])
  <2>1. PICK x : x = e.of[i]
    OBVIOUS
  <2>2. x = Equals(x.field, x.value)
    BY <2>1 DEF Conjunct, Named
  <2>3. DOMAIN x = {"kind", "field", "value"}
    BY <2>2 DEF Equals
  <2> QED  BY <2>1, <2>3 DEF Compound
<1>3. Root \in Inside(e)
  <2>1. <<>> \in [1 .. 0 -> 1 .. Widest]
    OBVIOUS
  <2>2. Root \in Places
    BY <1>0, <2>1 DEF Places, Root
  <2> QED  BY <1>1, <2>2 DEF Inside
<1>4. ASSUME NEW i \in 1 .. n PROVE <<i>> \in Inside(e)
  <2>1. <<i>> \in [1 .. 1 -> 1 .. Widest] /\ 1 \in 0 .. Deepest
    BY <1>0
  <2>2. <<i>> \in Places
    BY <2>1 DEF Places
  <2>3. SubSeq(<<i>>, 1, 0) = Root
    BY SubSeqEmpty DEF Root
  <2>4. ASSUME NEW m \in 1 .. Len(<<i>>)
        PROVE  Compound(Part(e, SubSeq(<<i>>, 1, m - 1))) /\ <<i>>[m] \in DOMAIN Part(e, SubSeq(<<i>>, 1, m - 1)).of
    <3>1. m = 1 /\ m - 1 = 0
      BY <1>1
    <3>2. Part(e, SubSeq(<<i>>, 1, m - 1)) = e /\ <<i>>[m] = i
      BY <1>1, <2>3, <3>1
    <3> QED  BY <3>2 DEF Conjunct
  <2> QED  BY <2>2, <2>4 DEF Inside
<1>5. ASSUME NEW p \in Inside(e), p # Root PROVE \E i \in 1 .. n : p = <<i>>
  <2>1. PICK m \in 0 .. Deepest : p \in [1 .. m -> 1 .. Widest]
    BY DEF Inside, Places
  <2>2. m # 0
    BY <1>5, <2>1 DEF Root
  <2>3. p \in Seq(1 .. Widest) /\ Len(p) = m /\ m \in Nat
    BY <1>0, <2>1
  <2>4. SubSeq(p, 1, 1 - 1) = Root /\ 1 \in 1 .. Len(p)
    BY <1>0, <2>2, <2>3, SubSeqEmpty DEF Root
  <2>5. p[1] \in 1 .. n
    <3>1. \A m_1 \in 1 .. Len(p) : p[m_1] \in DOMAIN Part(e, SubSeq(p, 1, m_1 - 1)).of
      BY DEF Inside
    <3>2. p[1] \in DOMAIN Part(e, SubSeq(p, 1, 1 - 1)).of
      BY <2>4, <3>1
    <3> QED  BY <1>1, <2>4, <3>2 DEF Conjunct
  <2>6. CASE m = 1
    <3>1. p = <<p[1]>>
      BY <2>1, <2>6
    <3> QED  BY <2>5, <3>1
  <2>7. CASE m # 1
    <3>1. 2 \in 1 .. Len(p) /\ 2 - 1 = 1 /\ \A j \in 1 .. 1 : p[j] \in 1 .. Widest
      BY <1>0, <2>2, <2>3, <2>4, <2>7
    <3>2. Compound(Part(e, SubSeq(p, 1, 1)))
      <4>1. \A m_1 \in 1 .. Len(p) : Compound(Part(e, SubSeq(p, 1, m_1 - 1)))
        BY DEF Inside
      <4> QED  BY <3>1, <4>1
    <3>3. SubSeq(p, 1, 1) = <<p[1]>>
      <4> DEFINE t == SubSeq(p, 1, 1)
      <4>1. t \in Seq(1 .. Widest) /\ Len(t) = 1 - 1 + 1 /\ t[1] = p[1]
        <5>1. /\ t \in Seq(1 .. Widest) /\ Len(t) = IF 1 <= 1 THEN 1 - 1 + 1 ELSE 0
              /\ \A j \in 1 .. 1 - 1 + 1 : t[j] = p[1 + j - 1]
          BY <3>1, SubSeqProperties
        <5> QED  BY <5>1
      <4> HIDE DEF t
      <4>2. t = <<t[1]>>
        BY <4>1
      <4> QED  BY <4>1, <4>2 DEF t
    <3> QED  BY <1>1, <1>2, <2>5, <3>2, <3>3
  <2> QED  BY <2>6, <2>7
<1>6. Inside(e) = {Root} \cup {<<i>> : i \in 1 .. n}
  BY <1>3, <1>4, <1>5
<1>7. Conditions(e) = {<<i>> : i \in 1 .. n}
  BY <1>1, <1>2, <1>6 DEF Conditions, Conjunct
<1> QED  BY <1>1, <1>6, <1>7

\* What a conjunction comes to.
Junction(child) == UNION {Decided(s, "false", "true") : s \in Chosen(child)}

\* If each of its parts comes to one truth value, it is true when they all are.
Singles(n, v) == [i \in 1 .. n |-> {v[i]}]
Definite(n, v) == \A i \in 1 .. n : v[i] \in {"true", "false", "null"}
\* A conjunction of values that are known is true when all of them are.
LEMMA JunctionTrue ==
    ASSUME NEW n \in Nat, NEW v, Definite(n, v)
    PROVE  "true" \in Junction(Singles(n, v)) <=> \A i \in 1 .. n : v[i] = "true"
<1> USE DEF Singles, Definite
<1> DEFINE child == [i \in 1 .. n |-> {v[i]}]
           s == {v[i] : i \in 1 .. n}
<1>1. DOMAIN child = 1 .. n /\ \A i \in 1 .. n : child[i] = {v[i]}
  OBVIOUS
<1> HIDE DEF child
<1>2. Chosen(child) = {s}
  <2>1. ASSUME NEW g \in [DOMAIN child -> UNION {child[i] : i \in DOMAIN child}], \A i \in DOMAIN child : g[i] \in child[i]
        PROVE  {g[i] : i \in DOMAIN child} = s
    BY <1>1, <2>1
  <2> DEFINE h == [i \in 1 .. n |-> v[i]]
  <2>2. h \in [DOMAIN child -> UNION {child[i] : i \in DOMAIN child}] /\ \A i \in DOMAIN child : h[i] \in child[i]
    BY <1>1
  <2>3. {h[i] : i \in DOMAIN child} = s
    BY <1>1
  <2> HIDE DEF h, s
  <2>4. s \in Chosen(child)
    BY <2>2, <2>3 DEF Chosen
  <2>5. \A c \in Chosen(child) : c = s
    BY <2>1 DEF Chosen
  <2> QED  BY <2>4, <2>5
<1>3. Junction(child) = Decided(s, "false", "true")
  BY <1>2 DEF Junction
<1>4. "true" \in Decided(s, "false", "true") <=> "false" \notin s /\ "error" \notin s /\ "null" \notin s
  BY DEF Decided
<1>5. "error" \notin s
  OBVIOUS
<1> QED  BY <1>3, <1>4, <1>5 DEF child

\* So the conjunction is true when its conditions are.
Given(values, n, v) == \A i \in 1 .. n : values[<<i>>] = {v[i]}
\* So the value of a conjunction is that of its conditions.
LEMMA ConjunctValue ==
    ASSUME NEW e, NEW n \in 0 .. Widest, Conjunct(e, n), 0 < Deepest, NEW values, NEW v, Definite(n, v),
           Given(values, n, v)
    PROVE  "true" \in Combined(e, values) <=> \A i \in 1 .. n : v[i] = "true"
<1>0. /\ Inside(e) = {Root} \cup {<<i>> : i \in 1 .. n}
      /\ Part(e, Root) = e /\ \A i \in 1 .. n : Part(e, <<i>>) = e.of[i] /\ <<i>> # Root
      /\ \A i \in 1 .. n : Append(Root, i) = <<i>>
  BY ConjunctPlaces DEF Root
<1>n. n \in Nat /\ DOMAIN e.of = 1 .. n /\ e.kind = "and" /\ \A i \in 1 .. n : e.of[i].kind = "equals"
  BY BoundAssumption DEF Conjunct, Named
<1> USE DEF Given
<1>m. PICK top : top = Junction(Singles(n, v))
  OBVIOUS
<1> DEFINE g == [p \in Inside(e) |-> IF p = Root THEN top ELSE values[p]]
           f == CHOOSE f : CombinedFrom(f, e, values)
<1>l. /\ \A child, value : Level(e, child, value) = Junction(child)
      /\ \A i \in 1 .. n : \A child, value : Level(e.of[i], child, value) = value
  BY <1>n DEF Level, Junction
<1>1. CombinedFrom(g, e, values)
  <2>0. /\ g[Root] = top /\ \A i \in 1 .. n : g[<<i>>] = values[<<i>>]
        /\ g = [p \in Inside(e) |-> g[p]]
    BY <1>0
  <2> HIDE DEF g
  <2>1. ASSUME NEW p \in Inside(e)
        PROVE  g[p] = Level(Part(e, p), Below(g, e, p), values[p])
    <3>1. CASE p = Root
      <4>1. \A i \in 1 .. n : g[Append(Root, i)] = {v[i]}
        BY <1>0, <2>0
      <4>2. Below(g, e, Root) = Singles(n, v)
        BY <1>0, <1>n, <4>1 DEF Below, Singles
      <4> QED  BY <1>0, <1>m, <1>l, <2>0, <3>1, <4>2
    <3>2. CASE p # Root
      <4>1. PICK i \in 1 .. n : p = <<i>>
        BY <1>0, <3>2
      <4>2. Part(e, p) = e.of[i] /\ g[p] = values[p]
        BY <1>0, <2>0, <4>1
      <4>3. PICK child, value : child = Below(g, e, p) /\ value = values[p]
        OBVIOUS
      <4> QED  BY <1>l, <4>2, <4>3
    <3> QED  BY <3>1, <3>2
  <2> QED  BY <2>0, <2>1, Zenon DEF CombinedFrom
<1> HIDE DEF g
<1>2. CombinedFrom(f, e, values)
  BY <1>1
<1>3. Combined(e, values) = f[Root]
  BY DEF Combined, CombinedFrom, Level, Below, Chosen
<1> HIDE DEF f
<1>4. ASSUME NEW i \in 1 .. n PROVE f[Append(Root, i)] = {v[i]}
  <2>1. Part(e, <<i>>) = e.of[i] /\ <<i>> \in Inside(e) /\ Append(Root, i) = <<i>>
    BY <1>0
  <2>2. f[<<i>>] = Level(e.of[i], Below(f, e, <<i>>), values[<<i>>])
    BY <1>2, <2>1 DEF CombinedFrom
  <2> QED  BY <1>l, <2>1, <2>2
<1>5. f[Root] = Level(e, Below(f, e, Root), values[Root])
  BY <1>0, <1>2 DEF CombinedFrom
<1>6. Below(f, e, Root) = Singles(n, v)
  BY <1>0, <1>n, <1>4 DEF Below, Singles
<1> QED  BY <1>n, <1>l, <1>3, <1>5, <1>6, JunctionTrue

\* PostgreSQL finds what the filter of a request means.
LEMMA RequestReads ==
    ASSUME NEW meta, NEW e, OfRequest(e), Bounded(e)
    PROVE  "true" \in Compiled(meta, e) <=> Matches(meta, e)
<1>1. CASE Named(e)
  <2>1. /\ Compiled(meta, e) = {IF e.field \in DOMAIN meta THEN Truth(Satisfies(meta, e)) ELSE "null"}
        /\ Matches(meta, e) <=> Satisfies(meta, e)
    BY <1>1, NamedMatches
  <2> QED  BY <2>1 DEF Truth, Satisfies
<1>2. CASE e.kind = "and" /\ e = And(e.of) /\ \E n \in 0 .. Widest : DOMAIN e.of = 1 .. n /\ \A i \in 1 .. n : Named(e.of[i])
  <2>1. PICK n \in 0 .. Widest : DOMAIN e.of = 1 .. n /\ \A i \in 1 .. n : Named(e.of[i])
    BY <1>2
  <2>2. Compound(e)
    BY <1>2 DEF And, Compound
  <2>3. Conjunct(e, n)
    BY <1>2, <2>1, <2>2 DEF Conjunct
  <2>4. 0 < Deepest
    <3>1. Root \in Inside(e)
      <4>1. <<>> \in [1 .. 0 -> 1 .. Widest] /\ 0 \in 0 .. Deepest
        BY BoundAssumption
      <4>2. Root \in Places
        BY <4>1 DEF Places, Root
      <4> QED  BY <4>2, RootPart DEF Inside
    <3> QED  BY <2>2, <3>1, RootPart DEF Bounded
  <2>5. Conditions(e) = {<<i>> : i \in 1 .. n} /\ \A i \in 1 .. n : Part(e, <<i>>) = e.of[i]
    BY <2>3, <2>4, ConjunctPlaces
  <2> DEFINE sql    == [p \in Conditions(e) |-> CompiledCondition(meta, Part(e, p))]
             mean   == [p \in Conditions(e) |-> Satisfies(meta, Part(e, p))]
             python == [p \in DOMAIN mean |-> {Truth(mean[p])}]
             v == [i \in 1 .. n |-> IF e.of[i].field \in DOMAIN meta THEN Truth(Satisfies(meta, e.of[i])) ELSE "null"]
             w == [i \in 1 .. n |-> Truth(Satisfies(meta, e.of[i]))]
  <2>6. ASSUME NEW i \in 1 .. n
        PROVE  /\ sql[<<i>>] = {v[i]} /\ v[i] \in {"true", "false", "null"}
               /\ python[<<i>>] = {w[i]} /\ w[i] \in {"true", "false", "null"}
               /\ v[i] = "true" <=> w[i] = "true"
    <3>1. e.of[i].kind = "equals" /\ Part(e, <<i>>) = e.of[i] /\ <<i>> \in Conditions(e)
      BY <2>1, <2>5 DEF Named
    <3>2. sql[<<i>>] = {v[i]}
      BY <3>1 DEF CompiledCondition
    <3>3. python[<<i>>] = {w[i]}
      BY <3>1 DEF Truth
    <3>4. Satisfies(meta, e.of[i]) => e.of[i].field \in DOMAIN meta
      BY DEF Satisfies
    <3> QED  BY <3>2, <3>3, <3>4 DEF Truth
  <2>7. Matches(meta, e) <=> "true" \in Combined(e, python)
    BY DEF Matches, Holds
  <2>8. Compiled(meta, e) = Combined(e, sql)
    BY DEF Compiled
  <2> HIDE DEF sql, python, v, w
  <2>9. "true" \in Combined(e, sql) <=> \A i \in 1 .. n : v[i] = "true"
    <3>1. Definite(n, v) /\ Given(sql, n, v)
      BY <2>6 DEF Definite, Given
    <3> QED  BY <2>3, <2>4, <3>1, ConjunctValue
  <2>10. "true" \in Combined(e, python) <=> \A i \in 1 .. n : w[i] = "true"
    <3>1. Definite(n, w) /\ Given(python, n, w)
      BY <2>6 DEF Definite, Given
    <3> QED  BY <2>3, <2>4, <3>1, ConjunctValue
  <2> QED  BY <2>6, <2>7, <2>8, <2>9, <2>10
<1> QED  BY <1>1, <1>2 DEF OfRequest

-----------------------------------------------------------------------------
(* What is found *)

Unique == \A via \in {"pgvector", "qdrant"}, c \in Collections : OneEach(Held(via, c))

\* Rows that are written replace those that had their ids.
LEMMA MergedOneEach == ASSUME NEW old, NEW new, OneEach(old), OneEach(new) PROVE OneEach(Merged(old, new))
BY DEF OneEach, Merged

\* Every step keeps an id to its record.
LEMMA NextUnique == ASSUME Base, Carried, Unique, [Next]_vars PROVE Unique'
<1> USE DEF Base, IInv
<1> SUFFICES ASSUME NEW via \in {"pgvector", "qdrant"}, NEW c \in Collections PROVE OneEach(Held(via, c)')
  BY DEF Unique, OneEach
<1>0. via \in Vendors /\ OneEach(Held(via, c)) /\ UNCHANGED fixed /\ request' = request
  BY NextBase, PlayStays DEF Vendors, Unique
<1>1. CASE Held(via, c)' = Held(via, c)
  BY <1>0, <1>1
<1>2. CASE \E r \in Requests : Stores(r) /\ Performs(r)
  <2>1. PICK r \in Requests : Stores(r) /\ Performs(r)
    BY <1>2
  <2>2. CASE via = call[r].via /\ c = Coll(r)
    <3>1. Shelf(r) = Held(via, c) /\ Shelf(r)' = Held(via, c)'
      BY <1>0, <2>1, <2>2 DEF Shelf, Coll, Stores, Moves
    <3>2. \E n : Puts(r) \/ Takes(r, n) \/ Drops(r) \/ Lists(r) \/ Searches(r)
      BY <2>1 DEF Performs
    <3>3. CASE Puts(r)
      <4>1. call[r].rows \subseteq Rows(r, hash[r])
        BY <3>3 DEF Puts, Carried, Carries
      <4>2. OneEach(call[r].rows)
        BY <4>1, RowsOneEach DEF OneEach
      <4>3. Shelf(r)' = Merged(Shelf(r), call[r].rows)
        BY <2>2, <3>3 DEF Puts
      <4> QED  BY <1>0, <3>1, <4>2, <4>3, MergedOneEach
    <3>4. CASE Shelf(r)' \subseteq Shelf(r)
      BY <1>0, <3>1, <3>4 DEF OneEach
    <3> QED  BY <2>2, <3>2, <3>3, <3>4 DEF Takes, Drops, Lists, Searches
  <2> QED  BY <1>0, <1>1, <2>1, <2>2 DEF Performs, Elsewhere
<1> QED  BY <1>0, <1>1, <1>2, HeldChanges

\* A record that is there is found if the filter means it, where the store reads the
\* filter so.
Settled(q, x) ==
    Plain(Metadata(x), Q(q).filter) \/ (call[q].via = "pgvector" /\ InServer(q))
Finds(q, x, found) ==
    IF Q(q).filter = None THEN found ELSE Settled(q, x) => (found <=> Matches(Metadata(x), Q(q).filter))
Searched ==
    \A q \in Requests : AnsweredOk(q, "search") =>
        Acts(q) # {} /\ (Later(q) \/ \A x \in Shelf(q) : Finds(q, x, x.id \in Out(q).list))

\* The filter of a request is bounded, and what the server lets pass if it is its.
LEMMA FilterIs ==
    ASSUME Played, NEW q \in Requests, Q(q).filter # None
    PROVE  Bounded(Q(q).filter) /\ (InServer(q) => OfRequest(Q(q).filter))
BY RequestAssumption DEF Played, Q, InServer

\* What the statement of a search selects.
LEMMA SelectionIs ==
    ASSUME NEW r, NEW rows, NEW found \in Selection(r, rows), found # Broken
    PROVE  found = {x \in rows : Unfiltered(r) \/ "true" \in Compiled(Metadata(x), FilterOf(r))}
BY DEF Selection

\* So a search finds what its filter means.
LEMMA HitsFind ==
    ASSUME Played, NEW q \in Requests, call[q].op = "search", call[q].via \in {"pgvector", "qdrant"},
           NEW rows, Hits(q, rows)
    PROVE  rows \subseteq Shelf(q) /\ \A x \in Shelf(q) : Finds(q, x, x \in rows)
<1>1. FilterOf(q) = Q(q).filter /\ (Unfiltered(q) <=> Q(q).filter = None)
  BY DEF FilterOf, Unfiltered, Q
<1>2. CASE call[q].via = "pgvector"
  <2>1. rows = {x \in Shelf(q) : Unfiltered(q) \/ "true" \in Compiled(Metadata(x), FilterOf(q))}
    BY <1>2, SelectionIs DEF Hits
  <2>2. ASSUME NEW x \in Shelf(q), Q(q).filter # None, Settled(q, x)
        PROVE  "true" \in Compiled(Metadata(x), Q(q).filter) <=> Matches(Metadata(x), Q(q).filter)
    BY <2>2, FilterIs, PlainReads, RequestReads DEF Settled
  <2> QED  BY <1>1, <2>1, <2>2 DEF Finds
<1>3. CASE call[q].via = "qdrant"
  <2>1. rows = {x \in Shelf(q) : Unfiltered(q) \/ PayloadMatches(Metadata(x), FilterOf(q))}
    BY <1>3 DEF Hits
  <2>2. ASSUME NEW x \in Shelf(q), Q(q).filter # None, Settled(q, x)
        PROVE  PayloadMatches(Metadata(x), Q(q).filter) <=> Matches(Metadata(x), Q(q).filter)
    BY <1>3, <2>2, FilterIs, PlainReads DEF Settled
  <2> QED  BY <1>1, <2>1, <2>2 DEF Finds
<1> QED  BY <1>2, <1>3

\* Every step keeps what was found.
LEMMA NextSearched == ASSUME Base, Carried, Played, Unique, Searched, [Next]_vars PROVE Searched'
<1> USE DEF Base, IInv
<1> SUFFICES ASSUME NEW q \in Requests, AnsweredOk(q, "search")'
             PROVE  Acts(q)' # {} /\ (Later(q)' \/ \A x \in Shelf(q)' : Finds(q, x, x.id \in Out(q).list)')
  BY DEF Searched
<1>1. UNCHANGED fixed /\ Recalls /\ met \subseteq met' /\ request' = request /\ Q(q)' = Q(q)
  BY NextBase, PlayStays DEF Q
<1>2. CASE Unmoved(q)
  <2>1. call'[q] = call[q] /\ Acts(q)' = Acts(q) /\ AnsweredOk(q, "search") /\ Out(q)' = Out(q)
    BY <1>2 DEF Unmoved, AnsweredOk, Loose, Out, Modelled
  <2>2. Later(q) => Later(q)'
    BY <1>1, <2>1, SaidStays
  <2>3. Acts(q)' # {} /\ (Later(q)' \/ Shelf(q)' = Shelf(q))
    BY <1>2, <2>1 DEF Unmoved, AnsweredOk, Disturbed, Searched
  <2>4. \A x : Finds(q, x, x.id \in Out(q).list) => Finds(q, x, x.id \in Out(q).list)'
    BY <1>1, <2>1 DEF Finds, Settled, InServer, Out
  <2>5. Later(q) \/ \A x \in Shelf(q) : Finds(q, x, x.id \in Out(q).list)
    BY <2>1 DEF Searched
  <2>6. CASE Shelf(q)' = Shelf(q) /\ ~Later(q)
    <3>1. SUFFICES ASSUME NEW x \in Shelf(q)' PROVE Finds(q, x, x.id \in Out(q).list)'
      BY <2>3
    <3>2. Finds(q, x, x.id \in Out(q).list)
      BY <2>5, <2>6
    <3> QED  BY <2>4, <3>2
  <2> QED  BY <2>2, <2>3, <2>6
<1>3. CASE Renewed(q)
  BY <1>3, NoOperation DEF Renewed, AnsweredOk, Loose, Out, NoCall, Operations
<1>4. CASE Stores(q)
  <2>1. call'[q].op = "search" /\ call'[q].step = "answered" /\ Out(q)'.ok /\ call'[q].via \in Vendors
    BY DEF AnsweredOk, Loose, Modelled, Out
  <2>2. call[q].op = "search" /\ call[q].via = call'[q].via
    BY <1>4, <2>1 DEF Stores, Moves
  <2>3. CASE Performs(q)
    <3>1. Searches(q)
      BY <2>2, <2>3 DEF Performs, Puts, Takes, Drops, Lists
    <3>2. PICK rows : Hits(q, rows) /\ Out(q)'.list = {x.id : x \in rows}
      BY <3>1 DEF Searches
    <3>3. rows \subseteq Shelf(q) /\ \A x \in Shelf(q) : Finds(q, x, x \in rows)
      BY <2>2, <3>1, <3>2, HitsFind DEF Searches
    <3>4. OneEach(Shelf(q)) /\ Shelf(q)' = Shelf(q)
      BY <3>1 DEF Searches, Unique, Shelf, Asks
    <3>5. \A x \in Shelf(q) : x.id \in Out(q)'.list <=> x \in rows
      BY <3>2, <3>3, <3>4 DEF OneEach
    <3>6. Acts(q)' # {}
      BY <1>4, <2>3, PerformsActs
    <3> QED  BY <1>1, <2>2, <3>3, <3>4, <3>5, <3>6 DEF Finds, Settled, InServer, Out
  <2>4. CASE Quiet(q)
    BY <2>1, <2>2, <2>4 DEF Quiet, Missed, Halfway, Informs
  <2> QED  BY <1>4, <2>3, <2>4 DEF Stores
<1> QED  BY <1>2, <1>3, <1>4, NextCall DEF Carried

-----------------------------------------------------------------------------
(* Listings *)

\* An image of a finite set is finite.
LEMMA FiniteImage == ASSUME NEW S, IsFiniteSet(S), NEW f PROVE IsFiniteSet({f[x] : x \in S})
<1> DEFINE T == {f[x] : x \in S}
           h == [x \in S |-> f[x]]
<1>1. h \in Surjection(S, T)
  BY DEF Surjection
<1> HIDE DEF h, T
<1>2. IsFiniteSet(T)
  BY <1>1, FS_Surjection
<1> QED  BY <1>2 DEF T

\* The group of a record, and the records whose groups are in T.
Group(S, x)   == [source |-> x.source, n |-> Cardinality(Of(S, x.source))]
Members(S, T) == {x \in S : Group(S, x) \in T}

\* A group has as many records as it says.
LEMMA OneGroupMore ==
    ASSUME NEW S, IsFiniteSet(S), NEW T \in SUBSET Grouped(S), NEW g \in T
    PROVE  Cardinality(Members(S, T)) = g.n + Cardinality(Members(S, T \ {g}))
<1>1. PICK x \in S : g = Group(S, x)
  BY DEF Grouped, Group
<1>2. Members(S, T) = Of(S, x.source) \cup Members(S, T \ {g}) /\ Of(S, x.source) \cap Members(S, T \ {g}) = {}
  BY <1>1 DEF Members, Group, Of
<1>3. IsFiniteSet(Of(S, x.source)) /\ IsFiniteSet(Members(S, T \ {g}))
  BY FS_Subset DEF Members, Of
<1>4. Cardinality(Members(S, T)) = Cardinality(Of(S, x.source)) + Cardinality(Members(S, T \ {g})) - Cardinality({})
  BY <1>2, <1>3, FS_Union
<1>5. Cardinality({}) = 0 /\ g.n = Cardinality(Of(S, x.source))
  BY <1>1, FS_EmptySet DEF Group
<1>6. Cardinality(Of(S, x.source)) \in Nat /\ Cardinality(Members(S, T \ {g})) \in Nat
  BY <1>3, FS_CardinalityType
<1> QED  BY <1>4, <1>5, <1>6

\* What adds up the groups of S, one after the other.
Totals(f, S) ==
    f = [s \in SUBSET Grouped(S) |-> IF s = {} THEN 0 ELSE (CHOOSE g \in s : TRUE).n + f[s \ {CHOOSE g \in s : TRUE}]]

\* A finite shelf can be counted group by group: by what is in the groups.
LEMMA TotalsExist == ASSUME NEW S, IsFiniteSet(S) PROVE \E f : Totals(f, S)
<1> DEFINE f == [s \in SUBSET Grouped(S) |-> Cardinality(Members(S, s))]
<1>1. ASSUME NEW s \in SUBSET Grouped(S), s # {}
      PROVE  Cardinality(Members(S, s)) = (CHOOSE g \in s : TRUE).n + Cardinality(Members(S, s \ {CHOOSE g \in s : TRUE}))
  <2>1. PICK h : h = CHOOSE g \in s : TRUE
    OBVIOUS
  <2>2. h \in s
    BY <1>1, <2>1
  <2>3. Cardinality(Members(S, s)) = h.n + Cardinality(Members(S, s \ {h}))
    BY <2>2, OneGroupMore
  <2> QED  BY <2>1, <2>3
<1>2. Cardinality(Members(S, {})) = 0
  BY FS_EmptySet DEF Members
<1>3. Totals(f, S)
  BY <1>1, <1>2 DEF Totals
<1> QED  BY <1>3

\* The groups of S add up to it.
LEMMA TotalsAre ==
    ASSUME NEW S, IsFiniteSet(S), NEW f, Totals(f, S) PROVE f[Grouped(S)] = Cardinality(S)
<1> DEFINE W == {k \in Nat : \A s \in SUBSET Grouped(S) : Cardinality(s) = k => f[s] = Cardinality(Members(S, s))}
           n == Cardinality(Grouped(S))
<1>1. Grouped(S) = {Group(S, x) : x \in S}
  BY DEF Grouped, Group
<1>2. IsFiniteSet(Grouped(S)) /\ n \in Nat
  <2> DEFINE of == [x \in S |-> Group(S, x)]
  <2>1. Grouped(S) = {of[x] : x \in S}
    BY <1>1
  <2> HIDE DEF of
  <2> QED  BY <2>1, FiniteImage, FS_CardinalityType
<1>3. \A s \in SUBSET Grouped(S) : IsFiniteSet(s) /\ Cardinality(s) \in Nat
  BY <1>2, FS_Subset, FS_CardinalityType
<1>4. 0 \in W
  <2>1. \A s \in SUBSET Grouped(S) : Cardinality(s) = 0 => s = {}
    BY <1>3, FS_EmptySet
  <2>2. Cardinality(Members(S, {})) = 0 /\ f[{}] = 0
    BY FS_EmptySet DEF Members, Totals
  <2> QED  BY <2>1, <2>2
<1>5. ASSUME NEW k \in 0 .. n - 1, k \in W PROVE k + 1 \in W
  <2>1. SUFFICES ASSUME NEW s \in SUBSET Grouped(S), Cardinality(s) = k + 1 PROVE f[s] = Cardinality(Members(S, s))
    OBVIOUS
  <2>2. s # {}
    BY <2>1, FS_EmptySet
  <2>3. PICK g \in s : g = CHOOSE h \in s : TRUE
    BY <2>2
  <2>4. f[s] = g.n + f[s \ {g}]
    BY <2>2, <2>3 DEF Totals
  <2>5. Cardinality(s \ {g}) = k
    BY <1>3, <2>1, FS_RemoveElement
  <2>6. f[s \ {g}] = Cardinality(Members(S, s \ {g}))
    BY <1>5, <2>5
  <2> QED  BY <2>4, <2>6, OneGroupMore
<1>6. n \in W
  <2> HIDE DEF W, n
  <2> QED  BY <1>2, <1>4, <1>5, Counting
<1>7. Members(S, Grouped(S)) = S
  BY <1>1 DEF Members
<1> QED  BY <1>6, <1>7

\* The counts of the groups add up to the records of the shelf.
LEMMA GroupsAddUp ==
    ASSUME NEW S, IsFiniteSet(S) PROVE FoldSet(LAMBDA g, sum : g.n + sum, 0, Grouped(S)) = Cardinality(S)
<1> DEFINE f == CHOOSE f : Totals(f, S)
<1>1. Totals(f, S)
  BY TotalsExist, Zenon
<1>2. f[Grouped(S)] = Cardinality(S)
  <2> HIDE DEF f
  <2> QED  BY <1>1, TotalsAre
<1>3. FoldSet(LAMBDA g, sum : g.n + sum, 0, Grouped(S)) = f[Grouped(S)]
  BY Zenon DEF FoldSet, MapThenFoldSet, Totals
<1> QED  BY <1>2, <1>3

\* Sources have texts, and so has what is parsed and what is cached.
Texted ==
    /\ content \in [Sources -> Texts]
    /\ \A r \in Requests : doc[r] \in Texts \cup {None}
    /\ \A k \in DOMAIN cached : cached[k] \in Texts \cup {None}

\* It is so before the first request.
LEMMA InitTexted == PlatformInit => Texted
BY SourceAssumption DEF PlatformInit, ServiceInit, Texted

\* They are read and parsed as they are.
LEMMA NextTexted == ASSUME Base, Played, Texted, [Next]_vars PROVE Texted'
<1> USE DEF Base
<1>1. CASE UNCHANGED <<content, cached, doc>>
  BY <1>1 DEF Texted
<1>2. ASSUME NEW r \in Requests PROVE Q(r).source \in Sources
  BY SourceAssumption DEF Played, Q
<1>3. CASE Edit
  <2>1. doc' = doc
    BY <1>3 DEF Edit
  <2>2. CASE \E s \in Sources : \E t \in Texts \ {content[s]} : content' = [content EXCEPT ![s] = t] /\ UNCHANGED cached
    BY <2>1, <2>2 DEF Texted
  <2>3. CASE \E k \in DOMAIN cached : cached' = [l \in DOMAIN cached \ {k} |-> cached[l]] /\ UNCHANGED content
    BY <2>1, <2>3 DEF Texted
  <2> QED  BY <1>3, <2>2, <2>3 DEF Edit
<1>4. ASSUME NEW r \in Requests, content' = content,
             doc' = [doc EXCEPT ![r] = doc'[r]], doc'[r] \in Texts \cup {None},
             \A k \in DOMAIN cached' : cached'[k] \in Texts \cup {None}
      PROVE  Texted'
  BY <1>4 DEF Texted, Listed
<1>5. ASSUME NEW r \in Requests, Arrive(r) PROVE Texted'
  <2>1. /\ content' = content /\ cached' = cached
        /\ doc' = [doc EXCEPT ![r] = IF Q(r).kind = "ingest" /\ ~InServer(r) THEN content[Q(r).source] ELSE None]
    BY <1>5 DEF Arrive, Begin
  <2>2. doc'[r] \in Texts \cup {None}
    BY <1>2, <2>1 DEF Texted, Listed
  <2>3. doc' = [doc EXCEPT ![r] = doc'[r]]
    BY <2>1 DEF Listed
  <2> QED  BY <1>4, <2>1, <2>2, <2>3 DEF Texted
<1>6. ASSUME NEW r \in Requests, GetParser(r) PROVE Texted'
  <2>1. CASE UNCHANGED doc
    BY <1>1, <1>6, <2>1 DEF GetParser
  <2>2. CASE \E k \in DOMAIN cached : doc' = [doc EXCEPT ![r] = cached[k]]
    <3>1. PICK k \in DOMAIN cached : doc' = [doc EXCEPT ![r] = cached[k]]
      BY <2>2
    <3>2. doc'[r] = cached[k] /\ doc' = [doc EXCEPT ![r] = doc'[r]] /\ content' = content /\ cached' = cached
      BY <1>6, <3>1 DEF GetParser, Listed
    <3> QED  BY <1>4, <3>2 DEF Texted
  <2> QED  BY <1>6, <2>1, <2>2 DEF GetParser
<1>7. ASSUME NEW r \in Requests, Parse(r) PROVE Texted'
  <2>1. CASE doc' = [doc EXCEPT ![r] = content[Q(r).source]] /\ UNCHANGED cached
    <3>1. doc'[r] = content[Q(r).source] /\ doc' = [doc EXCEPT ![r] = doc'[r]] /\ content' = content
      BY <1>7, <2>1 DEF Parse, Listed
    <3> QED  BY <1>2, <1>4, <2>1, <3>1 DEF Texted
  <2>2. CASE doc' = doc /\ cached' # cached
    <3>1. \E key : cached' = [k \in DOMAIN cached \cup {key} |-> IF k = key THEN doc[r] ELSE cached[k]]
      BY <1>7, <2>2 DEF Parse
    <3>2. \A k \in DOMAIN cached' : cached'[k] \in Texts \cup {None}
      BY <3>1 DEF Texted
    <3> QED  BY <1>7, <2>2, <3>2 DEF Parse, Texted
  <2> QED  BY <1>1, <1>7, <2>1, <2>2 DEF Parse
<1>8. ASSUME NEW r \in Requests, Progress(r) PROVE Texted'
  BY <1>1, <1>6, <1>7, <1>8
     DEF Progress, Discover1, served, Resolve, Parsed, UseTool, Compose, LookedUp, Encode, Ensured, Written,
         SyncGraph, Record, Respond
<1> QED  BY <1>1, <1>3, <1>5, <1>8
     DEF Next, vars, served, LifeCycle, Changes, Serve, Store, Lose, Leave, Disconnect

\* So there are finitely many records of a request.
LEMMA FiniteRows == ASSUME Played, Texted, NEW r \in Requests, NEW h PROVE IsFiniteSet(Rows(r, h))
<1> DEFINE row == [p \in Ids(r) |->
                     [id |-> IF Deprecated(r) THEN <<r, p>> ELSE p, source |-> Q(r).source, hash |-> h, width |-> Q(r).width]]
<1>1. IsFiniteSet(Ids(r))
  BY SourceAssumption DEF Ids, Played, Q, Texted
<1>2. Rows(r, h) = {row[p] : p \in Ids(r)}
  BY DEF Rows
<1> HIDE DEF row
<1> QED  BY <1>1, <1>2, FiniteImage

\* A record that was written is one of finitely many, and has a number if the store is
\* one of the plugins'.
LEMMA SourcedIn ==
    ASSUME Base, Carried, Recorded, Played, Texted, NEW x, NEW via, NEW c, Sourced(x, via, c)
    PROVE  /\ \E i \in DOMAIN effects : effects[i].what = "wrote" /\ x \in effects[i].rows
           /\ via = "qdrant" => x.id \in Nat
<1> USE DEF Base
<1>1. PICK i \in DOMAIN effects :
        effects[i].what = "wrote" /\ effects[i].via = via /\ x \in effects[i].rows
  BY DEF Sourced
<1>2. PICK q \in Requests : q = effects[i].by /\ call[q].op = "upsert" /\ call[q].via = via
  BY <1>1 DEF History, Doing
<1>3. x \in Rows(q, hash[q]) /\ Via(q) = via
  BY <1>1, <1>2, NoOperation, Delivers DEF Course, Operations
<1>4. via = "qdrant" => ~Deprecated(q)
  BY <1>3 DEF Via
<1>5. Ids(q) \subseteq Nat
  BY SourceAssumption DEF Ids, Played, Q, Texted
<1> QED  BY <1>1, <1>3, <1>4, <1>5 DEF Rows

\* History is finite.
LEMMA FiniteEffects == ASSUME History PROVE IsFiniteSet(DOMAIN effects)
<1>1. PICK S : effects \in Seq(S)
  BY DEF History
<1>2. DOMAIN effects = 1 .. Len(effects) /\ Len(effects) \in Nat
  BY <1>1
<1> QED  BY <1>2, FS_Interval

\* A store has finitely many records.
LEMMA FiniteShelves ==
    ASSUME Base, Carried, Recorded, Provenance, Played, Texted, NEW via \in Vendors, NEW c \in Collections
    PROVE  IsFiniteSet(Held(via, c)) /\ (via = "qdrant" => \A x \in Held(via, c) : x.id \in Nat)
<1> DEFINE wrote == {i \in DOMAIN effects : effects[i].what = "wrote"}
           of == [i \in wrote |-> effects[i].rows]
           all == {of[i] : i \in wrote}
<1>1. IsFiniteSet(wrote)
  BY FiniteEffects, FS_Subset DEF Base
<1>3. ASSUME NEW i \in wrote PROVE IsFiniteSet(of[i])
  <2>1. effects[i].by \in Requests /\ of[i] \subseteq Rows(effects[i].by, hash[effects[i].by])
    BY Delivers DEF Base
  <2> QED  BY <2>1, FiniteRows, FS_Subset
<1>4. Held(via, c) \subseteq UNION all /\ (via = "qdrant" => \A x \in Held(via, c) : x.id \in Nat)
  BY SourcedIn DEF Provenance
<1>5. IsFiniteSet(UNION all)
  <2>1. IsFiniteSet(all)
    <3> HIDE DEF wrote, of
    <3> QED  BY <1>1, FiniteImage
  <2>2. \A T \in all : IsFiniteSet(T)
    BY <1>3
  <2> HIDE DEF all
  <2> QED  BY <2>1, <2>2, FS_UNION
<1> HIDE DEF all
<1> QED  BY <1>4, <1>5, FS_Subset

\* The least of a set of numbers.
LEMMA LeastOf == ASSUME NEW S \in SUBSET Nat, S # {} PROVE Min(S) \in S /\ \A y \in S : Min(S) <= y
<1>1. \E x \in S : \A y \in S : x <= y
  BY Least
<1> QED  BY <1>1, Zenon DEF Min

\* The size of a page is a number.
LEMMA LeastOfTwo == ASSUME NEW a \in Int, NEW b \in Int PROVE Min({a, b}) \in Int
<1>1. \E x \in {a, b} : \A y \in {a, b} : x <= y
  BY Z3
<1>2. Min({a, b}) \in {a, b}
  BY <1>1, Zenon DEF Min
<1> QED  BY <1>2

\* A page has the records before the first that it leaves out.
Before(S, n) == {x \in S : x.id < n}
\* After a page, what is before the next one is what was before it and the page.
LEMMA NextPage ==
    ASSUME NEW S, IsFiniteSet(S), \A x \in S : x.id \in Nat, NEW next \in Nat, NEW size \in Int,
           First(size, Rest(S, next)) # Rest(S, next)
    PROVE  LET page == First(size, Rest(S, next))
               n    == Min({x.id : x \in Rest(S, next) \ page})
           IN  n \in Nat /\ Before(S, n) = Before(S, next) \cup page
<1> DEFINE rest == Rest(S, next)
           page == First(size, rest)
           left == {x.id : x \in rest \ page}
           below(x) == {y \in rest : y.id < x.id}
<1>1. rest = {x \in S : x.id >= next} /\ page = {x \in rest : Cardinality(below(x)) < size}
  BY DEF Rest, First
<1>0. page \subseteq rest /\ rest \subseteq S /\ \A x \in rest : x.id \in Nat
  <2>1. rest \subseteq S
    BY DEF Rest
  <2>2. page \subseteq rest
    BY DEF First
  <2> QED  BY <2>1, <2>2
<1>2. left \in SUBSET Nat /\ left # {}
  BY <1>1
<1>3. Min(left) \in left /\ \A y \in left : Min(left) <= y
  <2> HIDE DEF left
  <2> QED  BY <1>2, LeastOf
<1>4. PICK n \in Nat : n = Min(left)
  BY <1>2, <1>3
<1>5. \A x \in rest \ page : n <= x.id
  BY <1>3, <1>4
<1>6. PICK z \in rest \ page : z.id = n
  BY <1>3, <1>4
<1>7. ASSUME NEW x \in page PROVE x.id < n
  <2>0. x \in rest /\ x.id \in Nat
    <3> HIDE DEF page, rest
    <3> QED  BY <1>0
  <2>1. SUFFICES ASSUME n <= x.id PROVE FALSE
    BY <2>0
  <2>2. below(z) \subseteq below(x)
    <3>1. SUFFICES ASSUME NEW y \in rest, y.id < z.id PROVE y.id < x.id
      OBVIOUS
    <3>2. y.id \in Nat /\ z.id = n
      <4> HIDE DEF page, rest
      <4> QED  BY <1>0, <1>6
    <3> HIDE DEF page, rest
    <3> QED  BY <2>0, <2>1, <3>1, <3>2
  <2>3. IsFiniteSet(below(x)) /\ IsFiniteSet(below(z))
    <3>1. IsFiniteSet(rest)
      BY <1>0, FS_Subset
    <3> HIDE DEF rest
    <3> QED  BY <3>1, FS_Subset
  <2>4. Cardinality(below(z)) <= Cardinality(below(x)) /\ Cardinality(below(z)) \in Nat /\ Cardinality(below(x)) \in Nat
    <3> HIDE DEF below
    <3> QED  BY <2>2, <2>3, FS_Subset, FS_CardinalityType
  <2>5. Cardinality(below(x)) < size /\ ~(Cardinality(below(z)) < size)
    BY <1>1, <1>6, Zenon
  <2> HIDE DEF below
  <2> QED  BY <2>4, <2>5
<1>8. next <= n
  BY <1>1, <1>6
<1>9. Before(S, n) = Before(S, next) \cup page
  <2>1. \A x \in S : x.id < n <=> x.id < next \/ x \in page
    <3> HIDE DEF page
    <3> SUFFICES ASSUME NEW x \in S PROVE x.id < n <=> x.id < next \/ x \in page
      OBVIOUS
    <3>1. x.id \in Nat /\ (x \in rest <=> ~(x.id < next))
      BY <1>1
    <3> HIDE DEF rest
    <3> QED  BY <1>5, <1>7, <1>8, <3>1
  <2>2. page \subseteq S
    BY <1>1
  <2> HIDE DEF page
  <2> QED  BY <2>1, <2>2 DEF Before
<1> QED  BY <1>4, <1>9

\* A listing that is on its way has seen what comes before where it is, and one that is
\* answered has added up what there is, unless it had company or somebody came later.
AddsUp(n, list) == \E S : IsFiniteSet(S) /\ n = Cardinality(S) /\ list = Grouped(S)
Tallies(q) ==
    /\ At(q, "langchain", "list", "groups") => call[q].memo = Cardinality(Shelf(q)) \/ Overlapped(q)
    /\ At(q, "qdrant", "list", "scroll") =>
         /\ IsFiniteSet(call[q].memo.seen) /\ call[q].memo.next \in Nat
         /\ call[q].memo.seen = Before(Shelf(q), call[q].memo.next) \/ Overlapped(q)
    /\ AnsweredOk(q, "list") =>
         /\ Acts(q) # {} /\ (AddsUp(Out(q).n, Out(q).list) \/ (call[q].via = "langchain" /\ Overlapped(q)))
         /\ Out(q).list = Grouped(Shelf(q)) \/ Later(q) \/ Overlapped(q)
Tallied == \A q \in Requests : Tallies(q)

\* What a step over the ids of Qdrant has seen.
LEMMA ScrollSees ==
    ASSUME Base, Tallied, NEW q \in Requests, At(q, "qdrant", "list", call[q].step),
           call[q].step \in {"start", "scroll"}, IsFiniteSet(Shelf(q)), \A x \in Shelf(q) : x.id \in Nat
    PROVE  /\ IsFiniteSet(Seen(q)) /\ Size(q) \in Int /\ Scrolling(q).next \in Nat
           /\ Scrolling(q).seen = Before(Shelf(q), Scrolling(q).next) \/ Overlapped(q)
<1>1. /\ IsFiniteSet(Scrolling(q).seen) /\ Scrolling(q).next \in Nat
      /\ Scrolling(q).seen = Before(Shelf(q), Scrolling(q).next) \/ Overlapped(q)
  <2>1. CASE call[q].step = "start"
    <3>1. Scrolling(q).seen = {} /\ Scrolling(q).next = 0
      BY <2>1 DEF Scrolling
    <3>2. Before(Shelf(q), 0) = {}
      BY DEF Before
    <3> QED  BY <3>1, <3>2, FS_EmptySet
  <2>2. CASE call[q].step = "scroll"
    BY <2>2 DEF Scrolling, Tallied, Tallies, At
  <2> QED  BY <2>1, <2>2
<1>2. Size(q) \in Int
  <2>1. PageSize \in Nat /\ MaxScan \in Nat
    BY RequestAssumption
  <2>2. PageSize \in Int /\ MaxScan - Cardinality(Scrolling(q).seen) \in Int
    BY <1>1, <2>1, FS_CardinalityType
  <2> QED  BY <2>2, LeastOfTwo DEF Size
<1>3. IsFiniteSet(Page(q))
  BY FS_Subset DEF Page, First, Remaining, Rest
<1> QED  BY <1>1, <1>2, <1>3, FS_Union DEF Seen

\* A step of its store keeps the tally of a listing.
LEMMA StoresTallied ==
    ASSUME Base, Carried, Recorded, Provenance, Played, Texted, Tallied, [Next]_vars, NEW q \in Requests, Stores(q)
    PROVE  Tallies(q)'
<1> USE DEF Base, IInv
<1>1. UNCHANGED fixed /\ met \subseteq met' /\ Recalls
  BY NextBase
<1>2. Overlapped(q) => Overlapped(q)'
  BY <1>1, SaidStays
<1>3. call'[q].op = call[q].op /\ call'[q].via = call[q].via /\ Coll(q) \in Collections
  BY DEF Stores, Moves, Asks
<1>4. call[q].via \in Vendors =>
        IsFiniteSet(Shelf(q)) /\ (call[q].via = "qdrant" => \A x \in Shelf(q) : x.id \in Nat)
  BY <1>3, FiniteShelves DEF Shelf
<1>5. Out(q)' = call'[q].out
  BY DEF Out
<1>6. CASE Quiet(q)
  <2>1. call[q].via \in Vendors => Shelf(q)' = Shelf(q)
    BY <1>1, <1>3, <1>6, PlayStays DEF Quiet, Shelf, Coll, Asks
  <2>2. CASE Missed(q)
    BY <2>2 DEF Missed, Tallies, At, AnsweredOk
  <2>3. CASE Informs(q)
    BY <1>3, <2>3 DEF Informs, Closed, Tallies, At, AnsweredOk, Modelled
  <2>4. CASE Halfway(q)
    <3>1. CASE call[q].op = "list" /\ call[q].via = "langchain"
      <4>1. call'[q].memo = Cardinality(Shelf(q)) /\ call'[q].step = "groups" /\ Shelf(q)' = Shelf(q)
        BY <2>1, <2>4, <3>1 DEF Halfway, Vendors
      <4> QED  BY <1>3, <3>1, <4>1 DEF Tallies, At, AnsweredOk, Loose
    <3>2. CASE call[q].op = "list" /\ call[q].via = "qdrant"
      <4>1. /\ call[q].step \in {"start", "scroll"} /\ call'[q].step = "scroll" /\ Page(q) # Remaining(q)
            /\ call'[q].memo = [seen |-> Seen(q), next |-> Min({x.id : x \in Remaining(q) \ Page(q)})]
            /\ Shelf(q)' = Shelf(q)
        BY <2>1, <2>4, <3>2 DEF Halfway, Vendors
      <4>2. /\ IsFiniteSet(Seen(q)) /\ Size(q) \in Int /\ Scrolling(q).next \in Nat
            /\ Scrolling(q).seen = Before(Shelf(q), Scrolling(q).next) \/ Overlapped(q)
            /\ IsFiniteSet(Shelf(q)) /\ \A x \in Shelf(q) : x.id \in Nat
        BY <1>4, <3>2, <4>1, ScrollSees DEF At, Vendors
      <4>3. PICK S, m, size : S = Shelf(q) /\ m = Scrolling(q).next /\ size = Size(q)
        OBVIOUS
      <4>4. PICK n : n = Min({x.id : x \in Rest(S, m) \ First(size, Rest(S, m))})
        OBVIOUS
      <4>5. n \in Nat /\ Before(S, n) = Before(S, m) \cup First(size, Rest(S, m))
        BY <4>1, <4>2, <4>3, <4>4, NextPage DEF Page, Remaining
      <4>6. call'[q].memo.seen = Seen(q) /\ call'[q].memo.next = n /\ Shelf(q)' = S
        BY <4>1, <4>3, <4>4 DEF Page, Remaining
      <4>7. Seen(q) = Before(S, n) \/ Overlapped(q)
        BY <4>2, <4>3, <4>5 DEF Seen, Page, Remaining
      <4>8. (Before(Shelf(q), call[q].memo.next))' = Before(S, n)
        BY <4>6 DEF Before
      <4> QED  BY <1>2, <1>3, <3>2, <4>1, <4>2, <4>5, <4>6, <4>7, <4>8 DEF Tallies, At, AnsweredOk, Loose
    <3>3. CASE ~(call[q].op = "list" /\ call[q].via \in {"langchain", "qdrant"})
      BY <1>3, <2>4, <3>3 DEF Halfway, Tallies, At, AnsweredOk, Loose
    <3> QED  BY <3>1, <3>2, <3>3
  <2> QED  BY <1>6, <2>2, <2>3, <2>4 DEF Quiet
<1>7. CASE Performs(q)
  <2>1. call'[q].step = "answered" /\ call[q].via \in Vendors
    BY <1>7 DEF Performs, Closed
  <2>2. CASE call[q].op # "list"
    BY <1>3, <2>1, <2>2 DEF Tallies, At, AnsweredOk
  <2>3. CASE Lists(q)
    <3>0. Acts(q)' # {}
      BY <1>7, PerformsActs
    <3>1. SUFFICES /\ AddsUp(Out(q)'.n, Out(q)'.list) \/ (call[q].via = "langchain" /\ Overlapped(q))
                   /\ Out(q)'.list = Grouped(Shelf(q)) \/ Overlapped(q)
      <4>1. (Grouped(Shelf(q)))' = Grouped(Shelf(q))
        BY <2>3 DEF Lists, Grouped, Of
      <4>2. AddsUp(Out(q).n, Out(q).list)' <=> AddsUp(Out(q)'.n, Out(q)'.list)
        BY DEF AddsUp, Grouped, Of
      <4> QED  BY <1>2, <1>3, <2>1, <3>0, <4>1, <4>2 DEF Tallies, At, AnsweredOk
    <3>2. CASE call[q].via \in {"pgvector", "langchain"}
      <4>1. Out(q)'.list = Grouped(Shelf(q)) /\ AddsUp(Cardinality(Shelf(q)), Grouped(Shelf(q)))
        BY <1>4, <2>1, <2>3, <3>2 DEF Lists, AddsUp
      <4>2. Out(q)'.n = Cardinality(Shelf(q)) \/ (call[q].via = "langchain" /\ Overlapped(q))
        BY <2>3, <3>2 DEF Lists, Tallied, Tallies, At
      <4> QED  BY <4>1, <4>2
    <3>3. CASE call[q].via = "qdrant"
      <4>1. /\ call[q].step \in {"start", "scroll"} /\ Page(q) = Remaining(q)
            /\ Out(q)'.n = Cardinality(Seen(q)) /\ Out(q)'.list = Grouped(Seen(q)) /\ call[q].op = "list"
        BY <2>3, <3>3 DEF Lists
      <4>2. /\ IsFiniteSet(Seen(q)) /\ Scrolling(q).next \in Nat /\ \A x \in Shelf(q) : x.id \in Nat
            /\ Scrolling(q).seen = Before(Shelf(q), Scrolling(q).next) \/ Overlapped(q)
        BY <1>4, <2>1, <3>3, <4>1, ScrollSees DEF At
      <4>3. AddsUp(Out(q)'.n, Out(q)'.list)
        BY <4>1, <4>2 DEF AddsUp
      <4>4. Seen(q) = Shelf(q) \/ Overlapped(q)
        BY <4>1, <4>2 DEF Seen, Remaining, Rest, Before
      <4> QED  BY <4>1, <4>3, <4>4
    <3> QED  BY <2>3, <3>2, <3>3 DEF Lists
  <2> QED  BY <1>7, <2>2, <2>3 DEF Performs, Puts, Takes, Drops, Searches
<1> QED  BY <1>6, <1>7 DEF Stores

\* So every step keeps it.
LEMMA NextTallied ==
    ASSUME Base, Carried, Recorded, Provenance, Played, Texted, Tallied, [Next]_vars PROVE Tallied'
<1> USE DEF Base, IInv
<1> SUFFICES ASSUME NEW q \in Requests PROVE Tallies(q)'
  BY DEF Tallied
<1>1. UNCHANGED fixed /\ met \subseteq met' /\ Recalls /\ Tallies(q)
  BY NextBase DEF Tallied
<1>2. CASE Unmoved(q)
  <2>1. call'[q] = call[q] /\ Acts(q)' = Acts(q) /\ (Overlapped(q) => Overlapped(q)') /\ (Later(q) => Later(q)')
    BY <1>1, <1>2, SaidStays DEF Unmoved
  <2>2. Modelled(q) =>
          Shelf(q)' = Shelf(q) \/ ((Acts(q) # {} => Later(q)') /\ (Loose(q) => Overlapped(q)))
    BY <1>2 DEF Unmoved, Disturbed, InFlight, Loose
  <2>3. PICK S, m : S = Shelf(q)' /\ m = call[q].memo
    OBVIOUS
  <2>4. AddsUp(Out(q).n, Out(q).list)' <=> AddsUp(Out(q).n, Out(q).list)
    BY <2>1 DEF AddsUp, Out, Grouped, Of
  <2>5. At(q, "langchain", "list", "groups") => (m = Cardinality(S) \/ Overlapped(q)')
    BY <1>1, <2>1, <2>2, <2>3 DEF Tallies, At, Modelled, Loose, Vendors
  <2>6. At(q, "qdrant", "list", "scroll") =>
          IsFiniteSet(m.seen) /\ m.next \in Nat /\ (m.seen = Before(S, m.next) \/ Overlapped(q)')
    BY <1>1, <2>1, <2>2, <2>3 DEF Tallies, At, Modelled, Loose, Vendors
  <2>7. AnsweredOk(q, "list") => Out(q).list = Grouped(S) \/ Later(q)' \/ Overlapped(q)'
    BY <1>1, <2>1, <2>2, <2>3 DEF Tallies, AnsweredOk
  <2>8. (Before(Shelf(q), call[q].memo.next))' = Before(S, m.next) /\ (Grouped(Shelf(q)))' = Grouped(S)
    BY <2>1, <2>3 DEF Before, Grouped, Of
  <2>9. (\A via, op, step : At(q, via, op, step)' <=> At(q, via, op, step)) /\ (AnsweredOk(q, "list")' <=> AnsweredOk(q, "list"))
    BY <2>1 DEF At, AnsweredOk, Loose, Out, Modelled
  <2> QED  BY <1>1, <2>1, <2>3, <2>4, <2>5, <2>6, <2>7, <2>8, <2>9 DEF Tallies, Out
<1>3. CASE Renewed(q)
  BY <1>3, NoOperation DEF Renewed, Tallies, At, AnsweredOk, Loose, Out, NoCall, Operations
<1>4. CASE Stores(q)
  BY <1>4, StoresTallied
<1> QED  BY <1>2, <1>3, <1>4, NextCall DEF Carried

\* A listing that succeeded adds up, and says what is there.
LEMMA Listing ==
    ASSUME Base, Ended, Tallied, NEW r \in Requests PROVE ListHolds(r)
<1> SUFFICES ASSUME request[r].kind = "list", Done(r), Modelled(r)
             PROVE  /\ AddsUp(reply[r].n, reply[r].list) \/ (call[r].via = "langchain" /\ Overlapped(r))
                    /\ reply[r].list = Grouped(Shelf(r)) \/ Later(r) \/ Overlapped(r)
  <2>1. ASSUME AddsUp(reply[r].n, reply[r].list)
        PROVE  reply[r].n = FoldSet(LAMBDA g, sum : g.n + sum, 0, reply[r].list)
    <3>1. PICK S : IsFiniteSet(S) /\ reply[r].n = Cardinality(S) /\ reply[r].list = Grouped(S)
      BY <2>1 DEF AddsUp
    <3>2. FoldSet(LAMBDA g, sum : g.n + sum, 0, Grouped(S)) = Cardinality(S)
      BY <3>1, GroupsAddUp
    <3> QED  BY <3>1, <3>2, Zenon
  <2> QED  BY <2>1, Zenon DEF ListHolds, Shelf
<1>1. call[r].op = "list" /\ Out(r).ok /\ reply[r].n = Out(r).n /\ reply[r].list = Out(r).list /\ ~Loose(r)
  BY DEF Ended, Ends, Done
<1> QED  BY <1>1 DEF Tallied, Tallies, AnsweredOk

-----------------------------------------------------------------------------
(* Parsers *)

\* The default registry has found its entry points.
Default  == registry["default"]
Complete == Default.started /\ Default.loader = None

\* Who asks it first loads them, before anything else, in their order.
Missing(i) == \A j \in DOMAIN Default.todo : Default.todo[j] # site.entryPoints[i]
Present(i) == \E p \in Default.loaded : p.group = site.entryPoints[i].group /\ p.name = site.entryPoints[i].name
Registering ==
    /\ Default.loader # None =>
         /\ Default.started /\ Default.todo # <<>>
         /\ Default.loader \in Requests /\ phase[Default.loader] \in {"resolve", "tool"}
    /\ Default.started /\ Default.loader = None => Default.todo = <<>>
    /\ \E S : Default.todo \in Seq(S)
    /\ Default.started => \A i \in DOMAIN site.entryPoints : site.entryPoints[i].loads /\ Missing(i) => Present(i)

\* At first nothing is to be loaded.
LEMMA InitRegistering == PlatformInit => Registering
<1> SUFFICES ASSUME PlatformInit PROVE Registering
  OBVIOUS
<1>1. Default = [started |-> FALSE, loader |-> None, todo |-> <<>>, loaded |-> {}]
  BY DEF PlatformInit, RegistryInit, Registries, Default
<1>2. <<>> \in Seq({})
  OBVIOUS
<1> QED  BY <1>1, <1>2 DEF Registering

\* A request that is about to resolve its parser, or a tool, goes on when nothing is
\* left to it to load; and others do nothing to the registry.
Passes(r) ==
    /\ phase' = [phase EXCEPT ![r] = phase'[r]] /\ reply' = [reply EXCEPT ![r] = reply'[r]]
    /\ registry' = registry /\ parser' = parser
    /\ phase'[r] \notin {"idle", "resolve", "tool"}
    /\ \/ phase[r] \notin {"idle", "resolve", "tool", "ended"}
       \/ phase[r] = "resolve" /\ phase'[r] = "ended" /\ reply'[r].status = "closed" /\ Default.loader # r
Keeps(r) == Default' = Default /\ UNCHANGED <<phase, parser, reply>>
Resolves(r) ==
    Runs(r) /\ (Resolve(r) \/ UseTool(r) \/ (Discover1(r) /\ EnsureDiscovered(r, "default")) \/ Passes(r) \/ Keeps(r))

\* A step of the service resolves a parser, loads an entry point, passes or keeps still.
LEMMA ProgressResolves ==
    ASSUME Base, NEW r \in Requests, Progress(r) PROVE Resolves(r)
<1> USE DEF Base, IInv
<1>0. Runs(r)
  BY DEF Progress
<1>1. CASE Discover1(r)
  <2>1. CASE EnsureDiscovered(r, "runtime")
    BY <1>0, <1>1, <2>1 DEF Resolves, Discover1, served, EnsureDiscovered, Start, LoadEntry, Kept, Registries, Default, Keeps
  <2> QED  BY <1>0, <1>1, <2>1 DEF Discover1, Resolves
<1>2. CASE Resolve(r) \/ UseTool(r)
  BY <1>0, <1>2 DEF Resolves
<1>3. ASSUME Proceeds(r), registry' = registry, parser' = parser,
             phase[r] \notin {"idle", "resolve", "tool", "ended"}, phase'[r] \notin {"idle", "resolve", "tool"}
      PROVE  Resolves(r)
  BY <1>0, <1>3 DEF Resolves, Passes, Proceeds, Apart, Rewords
<1> DEFINE Other ==
        GetParser(r) \/ Parse(r) \/ Parsed(r) \/ Compose(r) \/ LookedUp(r) \/ Encode(r) \/ Ensured(r) \/ Written(r)
        \/ SyncGraph(r) \/ Record(r) \/ Respond(r)
<1>4. CASE Other
  <2>1. registry' = registry /\ parser' = parser
    BY <1>4 DEF GetParser, Parse, Parsed, Compose, LookedUp, Encode, Ensured, Written, SyncGraph, Record, Respond, backends
  <2>2. phase[r] \in {"registry", "parsing", "store", "parsed", "compose", "lookup", "encode", "ensure", "upsert",
                      "next", "finish", "record", "answer"}
    BY <1>4 DEF GetParser, Parse, Parsed, Compose, LookedUp, Encode, Ensured, Written, SyncGraph, Record, Respond, Answered
  <2>4. Proceeds(r)
    BY <1>4, GetParserProceeds, ParseProceeds, ParsedProceeds, ComposeProceeds, LookedUpProceeds, EncodeProceeds,
       EnsuredProceeds, WrittenProceeds, SyncGraphProceeds, RecordProceeds, RespondProceeds
  <2>5. phase'[r] \notin {"idle", "resolve", "tool"}
    BY <2>2, <2>4
       DEF Proceeds, Nears, EndsEarly, AsksFirst, AsksAgain, AsksFor, Learns, Finishes, Leaves, Turns, Unasked,
           Accepts, Draws
  <2> QED  BY <1>3, <2>1, <2>2, <2>4, <2>5
<1> QED  BY <1>1, <1>2, <1>4 DEF Progress

\* Who asks early is marked.
Marks(r) == early' = IF Premature(r) THEN early \cup {r} ELSE early

\* So does every step of the process, but for arrivals, and it marks who asks early.
LEMMA NextResolves ==
    ASSUME Base, [Next]_vars
    PROVE  \/ \E r \in Requests : Arrive(r)
           \/ \E r \in Requests : (Resolves(r) /\ Marks(r)) \/ (Passes(r) /\ early' = early)
           \/ UNCHANGED <<registry, phase, parser, reply, early>>
<1> USE DEF Base, IInv
<1>1. ASSUME NEW r \in Requests, Leave(r) PROVE Passes(r)
  <2>1. /\ registry' = registry /\ parser' = parser /\ Go(r, "ended")
        /\ reply' = [reply EXCEPT ![r].status = "closed"] /\ registry["default"].loader # r
        /\ phase[r] \in {"resolve", "parsing", "store", "parsed", "compose", "lookup", "encode", "ensure", "upsert",
                         "next"}
    BY <1>1 DEF Leave, Disconnect, Registries
  <2>2. phase'[r] = "ended" /\ phase' = [phase EXCEPT ![r] = phase'[r]]
    BY <2>1 DEF Go, Calls
  <2>3. reply'[r].status = "closed" /\ reply' = [reply EXCEPT ![r] = reply'[r]]
    BY <2>1 DEF Listed
  <2> QED  BY <2>1, <2>2, <2>3 DEF Passes, Default
<1>2. CASE UNCHANGED <<registry, phase, parser, reply, early>>
  BY <1>2
<1>3. ASSUME NEW r \in Requests, Serve(r) PROVE Resolves(r) /\ Marks(r)
  BY <1>3, ProgressResolves DEF Serve, Marks
<1>4. ASSUME NEW r \in Requests, Leave(r) PROVE early' = early
  BY <1>4 DEF Leave
<1> QED  BY <1>1, <1>2, <1>3, <1>4 DEF Next, vars, served, LifeCycle, Changes, Edit, Store, Lose

\* What is loaded is found, and what is left is left to the one who loads.
LEMMA LoadsEntry ==
    ASSUME Base, Registering, NEW r \in Requests, LoadEntry(r, "default"), UNCHANGED fixed, phase' = phase
    PROVE  Registering' /\ Default.loader = r
<1> USE DEF Base, IInv
<1> DEFINE e == Head(Default.todo)
           taken == \E p \in Default.loaded : p.group = e.group /\ p.name = e.name
           new == [group |-> e.group, name |-> e.name, available |-> e.available]
<1>1. Default.loader = r /\ Default.started /\ r # None
  BY RequestAssumption DEF LoadEntry, Registering, Default
<1>2. Default' = [Default EXCEPT !.todo = Tail(@), !.loader = IF Len(Default.todo) = 1 THEN None ELSE @,
                                 !.loaded = IF taken \/ ~e.loads THEN @ ELSE @ \cup {new}]
  BY DEF LoadEntry, Kept, Registries, Default
<1>3. DOMAIN Default = {"started", "loader", "todo", "loaded"}
  BY DEF Kept, Registries, Default
<1>4. /\ Default'.todo = Tail(Default.todo) /\ Default'.started
      /\ Default'.loader = IF Len(Default.todo) = 1 THEN None ELSE r
      /\ Default'.loaded = IF taken \/ ~e.loads THEN Default.loaded ELSE Default.loaded \cup {new}
  BY <1>1, <1>2, <1>3
<1>5. PICK S : Default.todo \in Seq(S)
  BY DEF Registering
<1>6. /\ Len(Default.todo) \in Nat /\ Len(Default.todo) # 0 /\ Tail(Default.todo) \in Seq(S)
      /\ DOMAIN Default.todo = 1 .. Len(Default.todo) /\ Len(Tail(Default.todo)) = Len(Default.todo) - 1
      /\ e = Default.todo[1] /\ \A j \in 1 .. Len(Default.todo) - 1 : Tail(Default.todo)[j] = Default.todo[j + 1]
      /\ DOMAIN Tail(Default.todo) = 1 .. Len(Default.todo) - 1
  <2>1. Default.todo # <<>>
    BY <1>1 DEF Registering
  <2> QED  BY <1>5, <2>1
<1>7. Len(Default.todo) = 1 => Tail(Default.todo) = <<>>
  <2>1. PICK t : t = Tail(Default.todo)
    OBVIOUS
  <2>2. t \in Seq(S) /\ Len(t) = Len(Default.todo) - 1
    BY <1>6, <2>1
  <2>3. Len(t) = 0 => t = <<>>
    BY <2>2
  <2> QED  BY <1>6, <2>1, <2>2, <2>3
<1>8. Len(Default.todo) # 1 => Tail(Default.todo) # <<>>
  <2>1. PICK t : t = Tail(Default.todo)
    OBVIOUS
  <2>2. Len(t) = Len(Default.todo) - 1
    BY <1>6, <2>1
  <2>3. t = <<>> => Len(t) = 0
    OBVIOUS
  <2> QED  BY <1>6, <2>1, <2>2, <2>3
<1>9. ASSUME NEW i \in DOMAIN site.entryPoints, site.entryPoints[i].loads, Missing(i)'
      PROVE  Present(i)'
  <2>0. site' = site
    BY DEF fixed
  <2> SUFFICES \E p \in Default'.loaded : p.group = site.entryPoints[i].group /\ p.name = site.entryPoints[i].name
    BY <2>0 DEF Present
  <2>1. CASE Missing(i)
    <3>1. Present(i)
      BY <1>1, <1>9, <2>1 DEF Registering
    <3> QED  BY <1>4, <3>1 DEF Present
  <2>2. CASE ~Missing(i)
    <3>1. PICK j \in DOMAIN Default.todo : Default.todo[j] = site.entryPoints[i]
      BY <2>2 DEF Missing
    <3>2. \A k \in DOMAIN Tail(Default.todo) : Tail(Default.todo)[k] # site.entryPoints[i]
      BY <1>4, <1>9, <2>0 DEF Missing
    <3>3. j = 1
      <4>1. SUFFICES ASSUME j # 1 PROVE FALSE
        OBVIOUS
      <4>2. j - 1 \in 1 .. Len(Default.todo) - 1 /\ (j - 1) + 1 = j
        BY <1>6, <4>1
      <4> QED  BY <1>6, <3>1, <3>2, <4>2
    <3>4. e = site.entryPoints[i]
      BY <1>6, <3>1, <3>3
    <3>5. e.loads
      BY <1>9, <3>4
    <3>6. taken => \E p \in Default.loaded : p.group = e.group /\ p.name = e.name
      OBVIOUS
    <3>7. new.group = e.group /\ new.name = e.name
      OBVIOUS
    <3> HIDE DEF e, new, taken
    <3>8. \E p \in Default'.loaded : p.group = e.group /\ p.name = e.name
      <4>1. CASE taken
        BY <1>4, <3>6, <4>1
      <4>2. CASE ~taken
        <5>1. new \in Default'.loaded
          BY <1>4, <3>5, <4>2
        <5> QED  BY <3>7, <5>1
      <4> QED  BY <4>1, <4>2
    <3> QED  BY <3>4, <3>8
  <2> QED  BY <2>1, <2>2
<1>10. /\ Default'.loader # None =>
            /\ Default'.started /\ Default'.todo # <<>>
            /\ Default'.loader \in Requests /\ phase'[Default'.loader] \in {"resolve", "tool"}
       /\ Default'.started /\ Default'.loader = None => Default'.todo = <<>>
       /\ \E T : Default'.todo \in Seq(T)
  BY <1>1, <1>4, <1>6, <1>7, <1>8 DEF Registering
<1>12. site' = site
  BY DEF fixed
<1>11. \A i \in DOMAIN site'.entryPoints : site'.entryPoints[i].loads /\ Missing(i)' => Present(i)'
  BY <1>9, <1>12
<1> QED  BY <1>1, <1>10, <1>11 DEF Registering

\* Who starts the discovery has everything to load.
LEMMA StartsLoading ==
    ASSUME Base, Played, Registering, NEW r \in Requests, Start(r, "default"), UNCHANGED fixed, phase' = phase,
           phase[r] \in {"resolve", "tool"}
    PROVE  Registering' /\ ~Default.started
<1> USE DEF Base, IInv
<1>1. /\ ~Default.started /\ Default'.started /\ Default'.todo = site.entryPoints
      /\ Default'.loader = IF site.entryPoints = <<>> THEN None ELSE r
  BY DEF Start, Kept, Registries, Default
<1>2. \E S : site.entryPoints \in Seq(S)
  BY PlayedIs
<1>4. site' = site
  BY DEF fixed
<1>3. \A i \in DOMAIN site.entryPoints : ~Missing(i)'
  <2>1. ASSUME NEW i \in DOMAIN site.entryPoints PROVE ~Missing(i)'
    <3>1. i \in DOMAIN Default'.todo /\ Default'.todo[i] = site'.entryPoints[i]
      BY <1>1, <1>4
    <3> QED  BY <3>1 DEF Missing
  <2> QED  BY <2>1
<1>5. r # None
  BY RequestAssumption
<1>6. /\ Default'.loader # None =>
           /\ Default'.started /\ Default'.todo # <<>>
           /\ Default'.loader \in Requests /\ phase'[Default'.loader] \in {"resolve", "tool"}
      /\ Default'.started /\ Default'.loader = None => Default'.todo = <<>>
      /\ \E T : Default'.todo \in Seq(T)
  BY <1>1, <1>2, <1>5
<1> QED  BY <1>1, <1>3, <1>4, <1>6 DEF Registering

\* Every step leaves what is to be loaded to its loader, and what is complete as it is.
LEMMA NextRegistering ==
    ASSUME Base, Played, Registering, [Next]_vars
    PROVE  Registering' /\ (Complete => Default'.loaded = Default.loaded /\ Complete')
<1> USE DEF Base, IInv
<1>0. UNCHANGED fixed /\ site' = site
  BY NextBase DEF fixed
<1>1. ASSUME Default' = Default,
             Default.loader # None => phase'[Default.loader] \in {"resolve", "tool"}
      PROVE  Registering' /\ (Complete => Default'.loaded = Default.loaded /\ Complete')
  <2>1. \A i : (Missing(i) <=> Missing(i)') /\ (Present(i) <=> Present(i)')
    BY <1>0, <1>1 DEF Missing, Present
  <2> QED  BY <1>0, <1>1, <2>1 DEF Registering, Complete
<1>2. ASSUME NEW r \in Requests, Arrive(r)
      PROVE  Default' = Default /\ (Default.loader # None => phase'[Default.loader] \in {"resolve", "tool"})
  <2>1. registry' = registry /\ phase[r] = "idle" /\ \E p : phase' = [phase EXCEPT ![r] = p]
    BY <1>2 DEF Arrive, Begin, Go
  <2> QED  BY <2>1 DEF Registering, Calls, Default
<1>3. ASSUME NEW r \in Requests, Passes(r)
      PROVE  Default' = Default /\ (Default.loader # None => phase'[Default.loader] \in {"resolve", "tool"})
  BY <1>3 DEF Passes, Registering, Calls, Default
<1>4. ASSUME NEW r \in Requests, Resolve(r) \/ UseTool(r)
      PROVE  Default' = Default /\ (Default.loader # None => phase'[Default.loader] \in {"resolve", "tool"})
  <2>1. registry' = registry /\ Default.loader # r /\ \E p : phase' = [phase EXCEPT ![r] = p]
    BY <1>4 DEF Resolve, UseTool, Discovered, Refuse, Reply, Go, Default
  <2> QED  BY <2>1 DEF Registering, Calls, Default
<1>5. ASSUME NEW r \in Requests, Discover1(r), EnsureDiscovered(r, "default")
      PROVE  Registering' /\ (Complete => Default'.loaded = Default.loaded /\ Complete')
  <2>1. phase' = phase /\ r # None
    BY <1>5, RequestAssumption DEF Discover1, served
  <2>2. CASE LoadEntry(r, "default")
    BY <1>0, <2>1, <2>2, LoadsEntry DEF Complete
  <2>3. CASE Start(r, "default") /\ phase[r] \in {"resolve", "tool"}
    BY <1>0, <2>1, <2>3, StartsLoading DEF Complete
  <2>4. CASE Start(r, "default") /\ phase[r] = "registry"
    <3>1. ~Default.started /\ Default'.started
      BY <2>4 DEF Start, Default, Kept, Registries
    <3>2. EnsureDiscovered(r, "runtime")
      BY <1>5, <2>4 DEF Discover1
    <3>3. \E t : registry' = [registry EXCEPT !["runtime"] = t]
      BY <3>2 DEF EnsureDiscovered, Start, LoadEntry
    <3> QED  BY <3>1, <3>3 DEF Default, Kept, Registries
  <2> QED  BY <1>5, <2>2, <2>3, <2>4 DEF EnsureDiscovered, Discover1
<1>6. ASSUME NEW r \in Requests, Keeps(r)
      PROVE  Default' = Default /\ (Default.loader # None => phase'[Default.loader] \in {"resolve", "tool"})
  BY <1>6 DEF Keeps, Registering
<1>7. CASE UNCHANGED <<registry, phase, parser, reply>>
  BY <1>1, <1>7 DEF Registering, Default
<1> QED  BY <1>1, <1>2, <1>3, <1>4, <1>5, <1>6, <1>7, NextResolves DEF Resolves

\* A parser that is refused is refused with everything discovered, and stays so.
Companions(r) == \E q \in Requests : Together(r, q) /\ (Threaded(q) \/ Threaded(r))
Resolving(r)  == Q(r).kind \in {"ingest", "parse"} /\ InServer(r)
Refused(r)    == "refused" \in DOMAIN ResolvePlugins(Q(r))
Offered(r)      == \E i \in DOMAIN site.entryPoints :
    LET e == site.entryPoints[i] IN e.group = "parsers" /\ e.name = Q(r).parser /\ e.loads

Guards(r) ==
    /\ Resolving(r) /\ phase[r] \notin {"idle", "resolve", "ended"} => parser[r] # None
    /\ Resolving(r) /\ phase[r] = "ended" /\ parser[r] = None /\ reply[r].status # "closed" =>
         r \in early \/ (Complete /\ Refused(r))
    /\ Q(r).kind = "tool" => phase[r] \in {"idle", "tool", "ended"}
    /\ Q(r).kind = "tool" /\ phase[r] = "ended" => r \in early \/ Done(r) \/ ~Offered(r)
    /\ r \in early => Companions(r)
Guarding == parser = [r \in Requests |-> parser[r]] /\ \A r \in Requests : Guards(r)

\* At first nothing is refused.
LEMMA InitGuarding == PlatformInit => Guarding
<1> SUFFICES ASSUME PlatformInit PROVE Guarding
  OBVIOUS
<1>1. parser = [r \in Requests |-> None] /\ early = {} /\ \A r \in Requests : phase[r] = "idle"
  BY DEF PlatformInit, ServiceInit
<1> QED  BY <1>1 DEF Guarding, Guards

\* What is refused depends on what is loaded.
LEMMA RefusedStays ==
    ASSUME UNCHANGED fixed, Default'.loaded = Default.loaded, NEW r \in Requests
    PROVE  Refused(r)' <=> Refused(r)
<1>1. site' = site /\ Q(r)' = Q(r) /\ registry'["default"].loaded = registry["default"].loaded
  BY DEF fixed, Q, Default
<1>2. \A group, name : Has("default", group, name)' <=> Has("default", group, name)
  BY <1>1 DEF Has
<1>3. Usable' = Usable
  BY <1>1, <1>2 DEF Usable
<1>4. \A name, tier, suffix : ResolveParser(name, tier, suffix)' = ResolveParser(name, tier, suffix)
  BY <1>1, <1>3 DEF ResolveParser
<1>5. \A q, f : Field(q, f)' = Field(q, f)
  BY <1>1 DEF Field
<1>6. \A q, group, name : Guarded(q, group, name)' = Guarded(q, group, name)
  BY <1>1 DEF Guarded
<1> QED  BY <1>1, <1>4, <1>5, <1>6 DEF Refused, ResolvePlugins

\* Who asks the registry while another fills it has company: the one who does.
LEMMA Attended ==
    ASSUME Base, Registering, NEW r \in Requests, Runs(r), Premature(r)
    PROVE  Companions(r)
<1> USE DEF Base, IInv
<1>1. PICK q \in Requests : q = Default.loader /\ q # r /\ phase[q] \in {"resolve", "tool"}
  BY DEF Registering, Discovered, Default, Premature
<1>2. Together(r, q)
  BY <1>1 DEF Company, InFlight, Premature
<1>3. Threaded(r) \/ Threaded(q)
  BY <1>1 DEF Runs, Default, Registries
<1> QED  BY <1>2, <1>3 DEF Companions

\* Then nothing that loads is missing.
LEMMA AllPresent ==
    ASSUME Registering, Complete, NEW i \in DOMAIN site.entryPoints, site.entryPoints[i].loads
    PROVE  Present(i)
<1>1. Default.todo = <<>> /\ Default.started
  BY DEF Registering, Complete
<1>2. Missing(i)
  BY <1>1 DEF Missing
<1> QED  BY <1>1, <1>2 DEF Registering

\* What is not refused is a parser.
LEMMA ResolvesOne == ASSUME NEW q PROVE "refused" \in DOMAIN ResolvePlugins(q) \/ ResolvePlugins(q).parser # None
<1> DEFINE name == ResolveParser(Field(q, "parser"), Field(q, "tier"), q.suffix)
           some == [parser |-> name]
<1>1. \/ \E s : ResolvePlugins(q) = [refused |-> s]
      \/ name # None /\ ResolvePlugins(q) = some
  BY DEF ResolvePlugins
<1>2. some.parser = name
  OBVIOUS
<1> HIDE DEF name, some
<1> QED  BY <1>1, <1>2

\* Every step keeps it.
LEMMA NextGuarding ==
    ASSUME Base, Played, Registering, Guarding, [Next]_vars PROVE Guarding'
<1> USE DEF Base, IInv
<1>1. UNCHANGED fixed /\ met \subseteq met' /\ site' = site /\ request' = request
  BY NextBase DEF fixed
<1>2. \A q \in Requests :
        /\ Companions(q) => Companions(q)'
        /\ (Offered(q) <=> Offered(q)') /\ (Resolving(q) <=> Resolving(q)') /\ Q(q)' = Q(q)
  BY <1>1 DEF Companions, Together, Threaded, Offered, Resolving, InServer, Q
<1>3. ASSUME NEW q \in Requests, Complete, Refused(q) PROVE Complete' /\ Refused(q)'
  BY <1>1, <1>3, NextRegistering, RefusedStays
<1> DEFINE Kin == early \subseteq early' /\ \A q \in Requests : q \in early' => Companions(q)'
<1>12. ASSUME early' = early PROVE Kin
  BY <1>2, <1>12 DEF Guarding, Guards
<1>13. ASSUME NEW r \in Requests, Runs(r), Marks(r) PROVE Kin
  <2>1. r \in early' => r \in early \/ Companions(r)
    BY <1>13, Attended DEF Marks
  <2>2. early \subseteq early' /\ \A q \in early' : q = r \/ q \in early
    BY <1>13 DEF Marks
  <2> QED  BY <1>2, <2>1, <2>2 DEF Guarding, Guards
<1>4. ASSUME NEW q \in Requests, phase'[q] = phase[q], parser'[q] = parser[q], reply'[q] = reply[q], Kin
      PROVE  Guards(q)'
  BY <1>2, <1>3, <1>4 DEF Guarding, Guards, Done
<1> DEFINE Mine(r) == /\ \E p : phase' = [phase EXCEPT ![r] = p]
                      /\ \E s : reply' = [reply EXCEPT ![r] = s]
                      /\ \E m : parser' = [parser EXCEPT ![r] = m]
<1>0. ASSUME NEW r \in Requests, parser' = parser PROVE \E m : parser' = [parser EXCEPT ![r] = m]
  <2>1. parser = [parser EXCEPT ![r] = parser[r]]
    BY DEF Guarding
  <2> QED  BY <1>0, <2>1
<1>5. ASSUME NEW r \in Requests, Mine(r), Kin, Guards(r)' PROVE Guarding'
  <2>1. parser' = [q \in Requests |-> parser'[q]]
    BY <1>5 DEF Guarding
  <2>2. ASSUME NEW q \in Requests, q # r PROVE Guards(q)'
    BY <1>4, <1>5, <2>2 DEF Guarding, Calls, Listed
  <2> QED  BY <1>5, <2>1, <2>2 DEF Guarding
<1>6. ASSUME UNCHANGED <<phase, parser, reply>>, Kin PROVE Guarding'
  BY <1>4, <1>6 DEF Guarding
<1>7. ASSUME NEW r \in Requests, Runs(r), Resolve(r), Marks(r) PROVE Guarding'
  <2>1. Mine(r)
    BY <1>7 DEF Resolve, Refuse, Reply, Go, Guarding, Listed, Calls
  <2>2. Q(r).kind \in {"ingest", "parse"}
    BY <1>7 DEF Course, Resolve, Q
  <2>3. CASE Refused(r)
    <3>1. phase'[r] = "ended" /\ parser' = parser
      BY <1>7, <2>3 DEF Resolve, Refused, Refuse, Reply, Go, Calls
    <3>2. r \in early' \/ (Complete' /\ Refused(r)')
      <4>1. Premature(r) \/ Complete
        BY <1>7 DEF Resolve, Premature, Discovered, Complete, Default
      <4> QED  BY <1>3, <1>7, <2>3, <4>1 DEF Marks
    <3> QED  BY <1>2, <1>5, <1>7, <1>13, <2>1, <2>2, <3>1, <3>2 DEF Guards
  <2>4. CASE ~Refused(r)
    <3>1. phase'[r] = "registry" /\ parser'[r] # None
      BY <1>7, <2>4, ResolvesOne DEF Resolve, Refused, Go, Calls, Guarding
    <3> QED  BY <1>2, <1>5, <1>7, <1>13, <2>1, <2>2, <3>1 DEF Guards
  <2> QED  BY <2>3, <2>4
<1>8. ASSUME NEW r \in Requests, Runs(r), UseTool(r), Marks(r) PROVE Guarding'
  <2>1. Mine(r) /\ phase'[r] = "ended"
    <3>1. (\E p : phase' = [phase EXCEPT ![r] = p]) /\ phase'[r] = "ended" /\ parser' = parser
      BY <1>8 DEF UseTool, Refuse, Reply, Go, Calls
    <3>2. \E s : reply' = [reply EXCEPT ![r] = s]
      BY <1>8 DEF UseTool, Refuse, Reply
    <3> QED  BY <1>0, <3>1, <3>2
  <2>2. Q(r).kind = "tool"
    BY <1>8 DEF Course, UseTool, Q
  <2>3. Has("default", "parsers", Q(r).parser) => Done(r)'
    BY <1>8, <2>1 DEF UseTool, Refuse, Reply, Done, Listed
  <2>4. Complete /\ Offered(r) => Has("default", "parsers", Q(r).parser)
    BY AllPresent DEF Offered, Present, Has, Default
  <2>6. Premature(r) \/ Complete
    BY <1>8 DEF UseTool, Premature, Discovered, Complete, Default
  <2>5. r \in early' \/ Done(r)' \/ ~Offered(r)'
    BY <1>2, <1>8, <2>3, <2>4, <2>6 DEF Marks
  <2> QED  BY <1>2, <1>5, <1>8, <1>13, <2>1, <2>2, <2>5 DEF Guards, Resolving
<1>9. ASSUME NEW r \in Requests, Passes(r), Kin PROVE Guarding'
  <2>1. Mine(r)
    BY <1>0, <1>9 DEF Passes
  <2>2. Q(r).kind # "tool"
    BY <1>9 DEF Passes, Guarding, Guards, Course, Q
  <2>3. Guards(r)'
    BY <1>2, <1>9, <2>2 DEF Passes, Guarding, Guards, Resolving
  <2> QED  BY <1>5, <1>9, <2>1, <2>3
<1>10. ASSUME NEW r \in Requests, Arrive(r) PROVE Guarding'
  <2>1. reply' = reply /\ parser' = parser /\ \E p : phase' = [phase EXCEPT ![r] = p]
    BY <1>10 DEF Arrive, Begin, Go
  <2>5. Kin
    BY <1>10, <1>12 DEF Arrive
  <2>2. /\ phase'[r] \in {"resolve", "tool", "compose"} /\ (Resolving(r) => phase'[r] = "resolve")
        /\ Q(r).kind = "tool" => phase'[r] = "tool"
    BY <1>10 DEF Arrive, Begin, Go, Resolving, Calls
  <2>3. Mine(r)
    <3>1. reply = [reply EXCEPT ![r] = reply[r]]
      BY DEF Listed
    <3> QED  BY <1>0, <2>1, <3>1
  <2>4. Guards(r)'
    BY <1>2, <2>2, <2>5 DEF Guards
  <2> QED  BY <1>5, <2>3, <2>4, <2>5
<1>11. ASSUME NEW r \in Requests, Resolves(r), Marks(r) PROVE Guarding'
  <2>1. Runs(r) /\ Kin
    BY <1>11, <1>13 DEF Resolves
  <2> QED  BY <1>6, <1>7, <1>8, <1>9, <1>11, <2>1 DEF Resolves, Discover1, served, Keeps
<1> QED  BY <1>6, <1>9, <1>10, <1>11, <1>12, NextResolves

\* A parser that is refused would be refused with everything discovered.
LEMMA Parsing == ASSUME Guarding, NEW r \in Requests PROVE ParserHolds(r)
<1>1. r \in early => Companions(r)
  BY DEF Guarding, Guards
<1>2. ASSUME phase[r] = "ended", parser[r] = None, r \notin early
      PROVE  /\ Q(r).kind = "tool" => Done(r) \/ ~Offered(r)
             /\ Resolving(r) /\ reply[r].status # "closed" => Refused(r)
  BY <1>2 DEF Guarding, Guards
<1> QED  BY <1>1, <1>2, Zenon DEF ParserHolds, Companions, Offered, Resolving, Refused

-----------------------------------------------------------------------------
(* The replies *)

RInv ==
    /\ Base /\ Played /\ Carried /\ Recorded /\ Provenance /\ Skipped /\ Ended /\ Graphed /\ Deletions
    /\ Unique /\ Searched /\ Texted /\ Tallied /\ Registering /\ Guarding

\* Nothing has been asked, written or said at first.
LEMMA InitRInv == PlatformInit => RInv
<1> SUFFICES ASSUME PlatformInit PROVE RInv
  OBVIOUS
<1>1. /\ \A r \in Requests : phase[r] = "idle" /\ call[r] = NoCall /\ Acts(r) = {} /\ accepted[r] = {}
      /\ graph = {}
  BY DEF PlatformInit, ServiceInit, BackendInit, Acts
<1>2. \A via \in Vendors, c \in Collections : Held(via, c) = {}
  BY DEF PlatformInit, BackendInit, Vendors, Held
<1>3. History /\ Shelves
  <2>1. effects = <<>> /\ effects \in Seq({}) /\ DOMAIN effects = {}
    BY DEF PlatformInit, BackendInit
  <2>2. History
    BY <1>1, <2>1 DEF History, Acts
  <2> QED  BY <2>2 DEF PlatformInit, BackendInit, Shelves
<1>4. Base /\ Played
  BY <1>3, InitIInv, InitCourse, InitPlayed DEF Base
<1>5. Carried /\ Recorded /\ Skipped /\ Ended /\ Searched
  BY <1>1, NoOperation
     DEF Carried, Carries, Recorded, Writes, Skipped, Skips, Ended, Ends, Searched, AnsweredOk, At, Operations
<1>6. Provenance /\ Unique
  BY <1>1, <1>2, NoOperation DEF Provenance, Restored, Unique, OneEach, At, Operations, Vendors
<1>7. Deletions
  BY <1>1, NoOperation DEF Deletions, Deletes, Spares, At, Operations
<1>8. Tallied
  BY <1>1, NoOperation DEF Tallied, Tallies, AnsweredOk, At, Operations
<1>9. Graphed
  BY <1>1 DEF Graphed, Graphs, Drawn, Done
<1> QED  BY <1>4, <1>5, <1>6, <1>7, <1>8, <1>9, InitTexted, InitRegistering, InitGuarding DEF RInv

\* Every step keeps what was said of the calls and the stores.
LEMMA NextRInv == ASSUME RInv, [Next]_vars PROVE RInv'
<1>1. Base' /\ Played'
  BY NextBase, PlayedStays DEF RInv
<1>2. Carried' /\ Recorded' /\ Provenance' /\ Skipped' /\ Ended'
  BY NextCarried, NextWritten, NextProvenance, NextSkipped, NextEnded DEF RInv
<1>3. Graphed' /\ Deletions' /\ Unique' /\ Searched'
  BY NextGraphed, NextDeletions, NextUnique, NextSearched DEF RInv
<1>4. Texted' /\ Tallied' /\ Registering' /\ Guarding'
  BY NextTexted, NextTallied, NextRegistering, NextGuarding DEF RInv
<1> QED  BY <1>1, <1>2, <1>3, <1>4 DEF RInv

\* The second invariant holds of every behaviour.
LEMMA RInvariant == Spec => []RInv
<1>1. RInv /\ [Next]_vars => RInv'
  BY NextRInv
<1> QED  BY <1>1, InitRInv, PTL DEF Spec

\* A deletion that succeeded leaves nothing of its source.
LEMMA Deleting == ASSUME RInv, NEW r \in Requests PROVE DeleteHolds(r)
<1> SUFFICES ASSUME request[r].kind = "delete", Done(r), NEW i \in Acts(r)
             PROVE  /\ i \in Acts(r)
                    /\ Gone(r) = {} \/ (call[r].via = "files" /\ Overlapped(r)) \/ Rewritten(r, i)
                    /\ reply[r].n = effects[i].n \/ (call[r].via = "qdrant" /\ Overlapped(r))
  BY Zenon DEF DeleteHolds, Gone, Shelf, Rewritten, Q
<1>1. call[r].op = "delete" /\ Out(r).ok /\ reply[r].n = Out(r).n
  BY DEF RInv, Ended, Ends, Done
<1>2. Cleared(r, i)
  BY <1>1 DEF RInv, Deletions, Deletes
<1> QED  BY <1>1, <1>2 DEF Cleared

\* What an ingest was told is stored is stored, and what it has left it was told of.
LEMMA Ingesting == ASSUME RInv, NEW r \in Requests PROVE IngestHolds(r)
<1> SUFFICES ASSUME request[r].kind = "ingest"
             PROVE  /\ Modelled(r) /\ ~Later(r) => accepted[r] \subseteq Shelf(r)
                    /\ Done(r) => Whole(r) /\ reply[r].n = Cardinality(accepted[r])
                    /\ phase[r] = "ended" /\ ~Done(r) /\ reply[r].status # "closed" =>
                         \A i \in Acts(r) :
                             effects[i].rows \subseteq accepted[r]
                             \/ (AnswerLost(r) /\ effects[i].rows = call[r].rows)
  BY Zenon DEF IngestHolds, Shelf
<1>1. Modelled(r) /\ ~Later(r) => accepted[r] \subseteq Shelf(r)
  BY DEF RInv, Recorded, Writes, There
<1>2. Done(r) => Whole(r) /\ reply[r].n = Cardinality(accepted[r])
  BY DEF RInv, Ended, Ends, Done
<1>3. ASSUME phase[r] = "ended", ~Done(r), reply[r].status # "closed", NEW i \in Acts(r)
      PROVE  effects[i].rows \subseteq accepted[r] \/ (AnswerLost(r) /\ effects[i].rows = call[r].rows)
  <2>1. effects[i].rows \subseteq accepted[r] \/ Sent(r, i)
    BY <1>3 DEF RInv, Recorded, Writes
  <2>2. call[r].op = "upsert" /\ Out(r).ok => call[r].rows \subseteq accepted[r]
    BY <1>3 DEF RInv, Ended, Ends
  <2> QED  BY <2>1, <2>2 DEF Sent, AnswerLost
<1> QED  BY <1>1, <1>2, <1>3

\* The graph is that of the ingests that are whole, and succeed.
LEMMA Graphing == ASSUME RInv, NEW r \in Requests PROVE GraphHolds(r)
<1> SUFFICES /\ Drawn(r) # {} => request[r].kind = "ingest" /\ Whole(r)
             /\ phase[r] = "ended" /\ request[r].kind = "ingest" =>
                  Drawn(r) = IF Done(r) THEN Sketch(r) ELSE {}
  BY Zenon DEF GraphHolds, Drawn, Sketch
<1>1. Graphs(r) /\ Skips(r) /\ Ends(r)
  BY DEF RInv, Graphed, Skipped, Ended
<1>2. Drawn(r) # {} => request[r].kind = "ingest" /\ (phase[r] = "record" \/ Done(r))
  BY <1>1 DEF Graphs
<1>3. phase[r] = "record" \/ (Done(r) /\ request[r].kind = "ingest") => Whole(r)
  BY <1>1 DEF Skips, Finished, Ends, Done
<1> QED  BY <1>1, <1>2, <1>3 DEF Graphs

\* A search that succeeded found what its filter means.
LEMMA Searching == ASSUME RInv, NEW r \in Requests PROVE SearchHolds(r)
<1> SUFFICES ASSUME request[r].kind = "search", Done(r), Modelled(r), ~Later(r), NEW x \in Shelf(r)
             PROVE  Finds(r, x, x.id \in reply[r].list)
  BY DEF SearchHolds, Shelf, Finds, Settled
<1>1. call[r].op = "search" /\ Out(r).ok /\ reply[r].list = Out(r).list /\ ~Loose(r)
  BY DEF RInv, Ended, Ends, Done
<1> QED  BY <1>1 DEF RInv, Searched, AnsweredOk

\* A store that was asked is one the process and the tenant allow.
LEMMA Allowing == ASSUME RInv, NEW r \in Requests PROVE StoreHolds(r)
BY StoresAllowed DEF RInv, Base

\* Whoever is answered is told what is so: deletions, listings and searches of the stores;
\* ingests whose batches stay though a later one fails, and their graphs; the parsers that
\* are refused; and the stores that are asked, by a policy but on the deprecated paths.
THEOREM RepliesAreTrue == Spec => []RepliesHold
<1>1. RInv => RepliesHold
  <2> SUFFICES ASSUME RInv, NEW r \in Requests
               PROVE  /\ DeleteHolds(r) /\ IngestHolds(r) /\ GraphHolds(r) /\ ListHolds(r) /\ SearchHolds(r)
                      /\ ParserHolds(r) /\ StoreHolds(r)
    BY Zenon DEF RepliesHold
  <2>1. DeleteHolds(r) /\ IngestHolds(r) /\ GraphHolds(r) /\ SearchHolds(r) /\ StoreHolds(r)
    BY Deleting, Ingesting, Graphing, Searching, Allowing
  <2>2. ListHolds(r) /\ ParserHolds(r)
    BY Listing, Parsing DEF RInv
  <2> QED  BY <2>1, <2>2
<1> QED  BY <1>1, RInvariant, PTL
=============================================================================
