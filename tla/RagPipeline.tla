----------------------------- MODULE RagPipeline -----------------------------
(***************************************************************************)
(* The RAG pipeline: docpipe.rag.pipeline over its coordinator.  A call    *)
(* looks into a cache, opens an operation scope, retrieves, reranks and    *)
(* generates in it, leaves the scope and stores the answer.  A call of the *)
(* SDK owns a runtime for its time; a call of the server shares the        *)
(* application's.  Every phase is one await: between two of them others    *)
(* run, the call may be cancelled, and the collection may change.          *)
(***************************************************************************)
EXTENDS Retrieval, RagCache

CONSTANTS
    Sources, Texts,       \* what the collection holds at first
    Replacement,          \* what a source is replaced by
    Lines, Passage,       \* what the model rewrites a question to
    Selections,              \* what it names as a strategy
    MaxTokens, None

\* Whatever may be searched for scores whatever may be found.
ASSUME PipelineAssumption ==
    /\ IsFiniteSet(Sources) /\ IsFiniteSet(Texts) /\ IsFiniteSet(Replacement)
    /\ \A q \in DOMAIN Score : Score[q] \in [Texts \cup Replacement -> Nat]
    /\ Passage \in DOMAIN Score /\ Lines \in Seq(DOMAIN Score)

VARIABLES
    ask,      \* of a call: its kind, strategy, question, user, home, similarity cache, reranks
    via,      \* of a call: the cache and the tenant it was given
    app,      \* the application's runtime: active, draining (cache closed), closed
    rows,     \* source -> the texts the collection holds of it
    pc,       \* where a call is
    work,     \* of a call: its strategy, searches to do, chunks, what it has seen
    scope,    \* of a call: none, open, released
    runtime,  \* of a call of the SDK: none, open, closed
    result    \* of a call: its status, and the call whose answer it returned

pipeline == <<app, rows, pc, work, scope, runtime, result>>

NoWork == [strategy |-> "none", todo |-> <<>>, kept |-> <<>>, seen |-> {},
           retrieved |-> <<>>, context |-> <<>>, tokens |-> 0]

PipelineInit ==
    /\ via = [r \in Requests |-> [cache |-> "off", tenant |-> None]]
    /\ app = "active"
    /\ rows = [s \in Sources |-> Texts]
    /\ pc = [r \in Requests |-> "idle"]
    /\ work = [r \in Requests |-> NoWork]
    /\ scope = [r \in Requests |-> "none"]
    /\ runtime = [r \in Requests |-> "none"]
    /\ result = [r \in Requests |-> [status |-> "none", by |-> None, at |-> 0]]

Sdk(r) == ask[r].home = "sdk"
Usable(r) == IF Sdk(r) THEN runtime[r] = "open" ELSE app # "closed"

\* Mutant of Key: answers are shared between tenants.
KeyShared(r) == [tenant |-> None, config |-> ask[r].strategy, question |-> ask[r].question]

Key(r) == [tenant |-> via[r].tenant, config |-> ask[r].strategy, question |-> ask[r].question]

After(r) == IF Sdk(r) THEN "leave" ELSE "ended"
Goto(r, p) == pc' = [pc EXCEPT ![r] = p]
Put(r, f) == work' = [work EXCEPT ![r] = f]
Result(r, status, by) ==
    result' = [result EXCEPT ![r] =
                  [status |-> status, by |-> by,
                   at |-> IF status = "hit" \/ pc[r] = "store" THEN now ELSE 0]]

-----------------------------------------------------------------------------
(* Entering a call *)

\* A call of the SDK builds its runtime; a shared one must be active.
Begin(r, cache, tenant) ==
    /\ pc[r] = "idle"
    /\ via' = [via EXCEPT ![r] = [cache |-> cache, tenant |-> tenant]]
    /\ IF ~Sdk(r) /\ app = "closed"
       THEN Result(r, "failed", None) /\ Goto(r, "ended") /\ UNCHANGED runtime
       ELSE /\ Goto(r, IF cache # "off" THEN "lookup" ELSE "open")
            /\ runtime' = IF Sdk(r) THEN [runtime EXCEPT ![r] = "open"] ELSE runtime
            /\ UNCHANGED result
    /\ UNCHANGED <<app, rows, work, scope, caches>>

Lookup(r) ==
    /\ pc[r] = "lookup"
    /\ IF via[r].cache = "similar"
       THEN /\ Usable(r)
            /\ IF SimilarTo(ask[r].question) # {}
               THEN Result(r, "hit", FirstSimilar(ask[r].question).by) /\ Goto(r, After(r))
               ELSE Goto(r, "open") /\ UNCHANGED result
            /\ UNCHANGED caches
       ELSE /\ \/ /\ Hit(Key(r))
                  /\ Result(r, "hit", HitEntry(Key(r)).by)
                  /\ Goto(r, After(r))
               \/ /\ Miss(Key(r)) \/ ReadFails
                  /\ Goto(r, "open")
                  /\ UNCHANGED result
            /\ UNCHANGED similar
    /\ UNCHANGED <<app, rows, work, scope, runtime>>

\* The scope is opened whatever the plugin then says; the build is inside it.
Open(r) ==
    /\ pc[r] = "open" /\ Usable(r)
    /\ scope' = [scope EXCEPT ![r] = "open"]
    /\ Put(r, [NoWork EXCEPT !.strategy = ask[r].strategy])
    /\ Goto(r, "build")
    /\ UNCHANGED <<app, rows, runtime, result, caches>>

\* Mutant of Fail: a call that fails does not go back through its scope.
FailOutside(r) ==
    /\ pc[r] \in {"open", "build", "ask_model", "graph", "search", "rerank", "generate"}
       \/ (via[r].cache = "similar" /\ pc[r] \in {"lookup", "store"})
    /\ Result(r, "failed", None)
    /\ Goto(r, After(r)) /\ Put(r, NoWork)
    /\ UNCHANGED <<app, rows, scope, runtime, caches>>

Unwind(r) == Goto(r, IF scope[r] = "open" THEN "release" ELSE After(r)) /\ Put(r, NoWork)

\* Anything inside the scope may raise; the similarity list lets its encoder raise.
Fail(r) ==
    /\ pc[r] \in {"open", "build", "ask_model", "graph", "search", "rerank", "generate"}
       \/ (via[r].cache = "similar" /\ pc[r] \in {"lookup", "store"})
    /\ Result(r, "failed", None)
    /\ Unwind(r)
    /\ UNCHANGED <<app, rows, scope, runtime, caches>>

\* A write that is cancelled may have reached Redis.
Cancel(r) ==
    /\ pc[r] \notin {"idle", "release", "leave", "yielded", "abandoned", "ended"}
    /\ Result(r, "cancelled", None)
    /\ Unwind(r)
    /\ \/ UNCHANGED entries
       \/ pc[r] = "store" /\ via[r].cache = "kv" /\ backend = "redis" /\ Set(Key(r), r)
    /\ UNCHANGED <<app, rows, scope, runtime, similar>>

-----------------------------------------------------------------------------
(* Retrieving *)

Inside(r, p) ==
    /\ pc[r] = p /\ Usable(r)
    /\ UNCHANGED <<app, rows, scope, runtime, result, caches>>

\* The first step of a strategy: ask the model, ask the graph or search.
Dispatch(r, strategy) ==
    LET question == ask[r].question
        w == [work[r] EXCEPT !.strategy = strategy]
    IN  CASE strategy \in {"hyde", "multi_query", "auto"} -> Goto(r, "ask_model") /\ Put(r, w)
          [] strategy = "lightrag" -> Goto(r, "graph") /\ Put(r, w)
          [] OTHER -> /\ Goto(r, "search")
                      /\ Put(r, [w EXCEPT !.todo = <<Search(question, Anywhere)>>])

Allowed(strategy) == Requires(strategy) \subseteq Capabilities

Build(r) ==
    /\ Inside(r, "build")
    /\ Buildable(work[r].strategy)
    /\ Dispatch(r, work[r].strategy)

AskModel(r) ==
    /\ Inside(r, "ask_model")
    /\ \/ /\ work[r].strategy = "auto"
          /\ \E choice \in Selections : Dispatch(r, Routed(choice))
       \/ /\ work[r].strategy = "hyde"
          /\ Put(r, [work[r] EXCEPT !.todo = <<Search(Passage, Anywhere)>>])
          /\ Goto(r, "search")
       \/ /\ work[r].strategy = "multi_query"
          /\ Put(r, [work[r] EXCEPT !.todo = [i \in DOMAIN Queries(ask[r].question, Lines) |->
                                                 Search(Queries(ask[r].question, Lines)[i], Anywhere)]])
          /\ Goto(r, "search")

\* What a strategy returned is reranked, or cut to the context at once.
Retrieve(r, w, chunks) ==
    IF ask[r].reranks
    THEN Goto(r, "rerank") /\ Put(r, [w EXCEPT !.kept = chunks])
    ELSE Goto(r, "generate") /\ Put(r, [w EXCEPT !.retrieved = chunks, !.context = Context(chunks)])

\* The graph answers with one chunk of its own, or with nothing: then search.
QueryGraph(r) ==
    /\ Inside(r, "graph")
    /\ GraphDir
    /\ \/ Retrieve(r, work[r], <<[source |-> "lightrag", text |-> "answer", score |-> 1]>>)
       \/ Put(r, [work[r] EXCEPT !.todo = <<Search(ask[r].question, Anywhere)>>]) /\ Goto(r, "search")

\* Mutant of Searched: every search of parent_document adds more.
SearchedAgain(w, question, found) ==
    LET more == IF w.strategy = "parent_document"
                THEN [i \in DOMAIN SourcesOf(found) |-> Search(question, SourcesOf(found)[i])]
                ELSE <<>>
    IN  [w EXCEPT !.todo = Tail(w.todo) \o more, !.kept = Merge(w.kept, found),
                  !.seen = w.seen \cup ToSet(found)]

\* The first search of parent_document adds one for every source it found.
Searched(w, question, found) ==
    LET more == IF w.strategy = "parent_document" /\ Head(w.todo).source = Anywhere
                THEN [i \in DOMAIN SourcesOf(found) |-> Search(question, SourcesOf(found)[i])]
                ELSE <<>>
    IN  [w EXCEPT !.todo = Tail(w.todo) \o more, !.kept = Merge(w.kept, found),
                  !.seen = w.seen \cup ToSet(found)]

Returned(w) == IF w.strategy \in {"multi_query", "parent_document"} THEN Ranked(w.kept) ELSE w.kept

\* A search reads the collection as it is now.
RunSearch(r) ==
    /\ Inside(r, "search")
    /\ Allowed(work[r].strategy)
    /\ \E found \in {Found(rows, Head(work[r].todo))} :
       \E next \in {Searched(work[r], ask[r].question, found)} :
           IF next.todo # <<>> THEN Put(r, next) /\ Goto(r, "search")
           ELSE \E chunks \in {Returned(next)} : Retrieve(r, next, chunks)

\* The reranker returns its choice of the chunks in its order.
Rerank(r) ==
    /\ Inside(r, "rerank")
    /\ LET chunks == FirstOf(Reverse(work[r].kept), TopK)
       IN  Put(r, [work[r] EXCEPT !.retrieved = chunks, !.context = Context(chunks)])
    /\ Goto(r, "generate")

-----------------------------------------------------------------------------
(* Answering and leaving *)

Leaving(r) == UNCHANGED <<app, rows, work, caches>>

\* One call of the model; retrieval alone has none to wait for.
Generate(r) ==
    /\ pc[r] = "generate" /\ ask[r].kind # "stream"
    /\ ask[r].kind = "query" => Usable(r)
    /\ Result(r, "answered", r)
    /\ Goto(r, "release")
    /\ Leaving(r) /\ UNCHANGED <<scope, runtime>>

\* A stream is suspended at every token until its consumer asks for the next.
NextToken(r) ==
    /\ Inside(r, "generate") /\ ask[r].kind = "stream"
    /\ work[r].tokens < MaxTokens
    /\ Put(r, [work[r] EXCEPT !.tokens = @ + 1])
    /\ Goto(r, "yielded")

Pull(r) ==
    /\ pc[r] = "yielded"
    /\ Goto(r, "generate")
    /\ Leaving(r) /\ UNCHANGED <<scope, runtime, result>>

EndStream(r) ==
    /\ pc[r] = "generate" /\ ask[r].kind = "stream" /\ Usable(r)
    /\ Result(r, "answered", r)
    /\ Goto(r, "release")
    /\ Leaving(r) /\ UNCHANGED <<scope, runtime>>

\* The consumer closes the outer generator: the runtime it owns is left, the inner
\* generator stays suspended with its scope.
CloseEarly(r) ==
    /\ pc[r] = "yielded"
    /\ Result(r, "closed", None)
    /\ Goto(r, "abandoned")
    /\ runtime' = IF Sdk(r) THEN [runtime EXCEPT ![r] = "closed"] ELSE runtime
    /\ Leaving(r) /\ UNCHANGED scope

\* The event loop, when it still runs, closes a generator that was collected.
Finalize(r) ==
    /\ pc[r] = "abandoned"
    /\ scope' = [scope EXCEPT ![r] = "released"]
    /\ Goto(r, "ended")
    /\ Leaving(r) /\ UNCHANGED <<runtime, result>>

Release(r) ==
    /\ pc[r] = "release"
    /\ Put(r, NoWork)
    /\ scope' = [scope EXCEPT ![r] = "released"]
    /\ Goto(r, IF result[r].status = "answered" /\ via[r].cache # "off"
               THEN "store" ELSE After(r))
    /\ UNCHANGED <<app, rows, caches, runtime, result>>

Store(r) ==
    /\ pc[r] = "store"
    /\ IF via[r].cache = "similar"
       THEN Usable(r) /\ Remember(ask[r].question, r) /\ UNCHANGED entries
       ELSE (Set(Key(r), r) \/ NotWritten) /\ UNCHANGED similar
    /\ result' = [result EXCEPT ![r].at = now]
    /\ Goto(r, After(r))
    /\ UNCHANGED <<app, rows, work, scope, runtime>>

Leave(r) ==
    /\ pc[r] = "leave"
    /\ runtime' = IF Sdk(r) THEN [runtime EXCEPT ![r] = "closed"] ELSE runtime
    /\ Goto(r, "ended")
    /\ Leaving(r) /\ UNCHANGED <<scope, result>>

-----------------------------------------------------------------------------
(* The surroundings *)

Ingest(s) ==
    /\ \A other \in Sources : rows[other] = Texts  \* BOUND: one replacement
    /\ rows' = [rows EXCEPT ![s] = Replacement]
    /\ UNCHANGED <<app, pc, work, scope, runtime, result, caches>>

\* lifespan: the cache is closed before the runtime is left.
Shutdown ==
    /\ \/ app = "active" /\ CloseBackend /\ app' = "draining"
       \/ app = "draining" /\ UNCHANGED entries /\ app' = "closed"
    /\ UNCHANGED <<rows, pc, work, scope, runtime, result, similar>>

Step(r) ==
    \/ Fail(r) \/ Lookup(r) \/ Open(r) \/ Build(r) \/ AskModel(r) \/ QueryGraph(r) \/ RunSearch(r)
    \/ Rerank(r) \/ Generate(r) \/ NextToken(r) \/ EndStream(r) \/ Release(r)
    \/ Store(r) \/ Leave(r)

Consumer(r) == Pull(r) \/ CloseEarly(r) \/ Finalize(r) \/ Cancel(r)
=============================================================================
