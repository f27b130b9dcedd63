# A TLA+ development of docpipe

docpipe parses documents, cuts and embeds them into vector collections, and answers questions over
them; it runs as a library, a server, a command line tool and an MCP server. This directory holds
TLA+ specifications of the parts of `src/docpipe` whose correctness depends on the *order* in which
things happen, the TLC configurations that check them on small instances, and proofs, checked by
TLAPS, of the properties that matter most. Paths below are relative to `src/docpipe`.

    tlc -workers 2 -config MCIngestion.cfg MCIngestion      # check one instance
    tlapm IngestionProofs.tla                               # check the proofs of a module

## 1. The system

| component | state it keeps | operations | how it is reached |
|---|---|---|---|
| blocking runner, `core/blocking.py` | closed flag, semaphore, thread pool and its queue | `run`, `close` | every adapter that calls blocking code; one per runtime |
| plugin scopes, `plugins/lifecycle.py` | tree of scopes: instances, exit stack, lock, closed flag | `acquire`, entering and leaving scopes | request handlers, RAG and ingestion composition |
| runtime, `bootstrap/runtime.py` | plugin runtime and blocking runner on one exit stack | enter, exit, `load_plugin` | the server's lifespan, the SDK |
| TurboVec store, `vectorstores/turbovec/` | one directory per collection; an asyncio lock and an RLock per adapter | ensure, delete, upsert, search, delete by source, aggregate | ingestion, search and RAG, through the blocking runner |
| pgvector, Qdrant, `vectorstores/{pgvector,qdrant}/` | tables, or a remote collection | the same, and drop; filters of `plugins/contracts/vectorstore/filters.py` | the same |
| deprecated stores, `vectorstores/factory.py`, `turbovec_store.py` | LangChain's tables, or a dump of a TurboVec index | write, look up, delete by source, list | ingests with the foundation off; deletions and listings that name no store |
| ingestion, `ingestion/` | per job: batches, their tasks, a semaphore; in the store: chunks with `source_hash` | `ingest`, delete, list, search | `server/services/ingest.py`, SDK, command line |
| parser cache, `server/parser_cache.py` | parses with an expiry | get, store | ingest and document services |
| RAG, `rag/` | similarity list or key-value cache of answers | query, retrieval, stream, cache lookup and store | RAG service, agents |
| tool agent, `agents/` | graph state and checkpoints per session, session order | execute, resume, session touch and evict | agent service |
| sources, `sources/`, `plugins/contracts/source/` | handle state, temporary artifact | resolve, open, materialize, close | source parser |
| plugin catalog, `plugins/`, `profiles/guardrails.py` | an immutable catalog; process and tenant policies | discover, load, allow | runtime, guardrails |
| registry, `registry/`, `parsers/router.py` | per registry: a discovered flag and what was found | discover, get, route | guardrails, runtime, the agent's tools |
| rate limit, `server/rate_limit.py` | sliding windows in a bounded table | check | middleware |
| answer stream, `server/services/rag.py`, `http/client.py` | an open response; the event name between lines | generate, iterate, close | `POST /rag/stream`, `DocpipeClient.rag_stream` |
| application, `server/app.py`, `bootstrap/`, `db/` | runtime, RAG cache, engine of the control database | create, start, serve, stop | the ASGI server |

Everything else (parsers, chunkers, extractors, rerankers, evaluation, observability, the
MCP server) is stateless or a thin wrapper; `PROJECT.json` lists it with the reason it is left out.

What is hard here, and what makes each part correct:

* **Cancellation.** asyncio can cancel a coroutine at any await, and cannot stop a thread. The
  runner, the TurboVec adapter and the coordinator each hold a resource (permit, lock, task) whose
  release and whose real use part company when the caller goes away. *Correct* means: limits hold
  for threads and not just for permits, no work starts for a caller that was told it failed, two
  threads are never at one collection, no task outlives its coordinator.
* **Failure half way.** A publication is two renames and a delete; an ingest is many batches;
  closing a scope is many exits. *Correct* means: a reader finds a whole generation, a result that
  says "created" is true, everything entered is exited once.
* **State used after an await.** The closed flag of a scope, the fingerprint of a file, the answer
  of an incremental lookup. Three of the four disagreements with a run in section 4 are of this kind.
* **Things that must end.** Calls behind hanging calls, coordinators that drain, acquires that
  queue, agents that repeat themselves, downloads from servers that owe nothing.
* **Two requests and one store.** Check-then-create, count-then-delete, pages of a listing, a table
  that is dropped under a writer, an answer that is lost after the write. *Correct* means: a reply
  says what happened to the store, whoever else was there.
* **One meaning, several implementations.** A filter, an option and an allowlist are each read by
  more than one piece of code. *Correct* means: for the inputs a request can carry they agree.

## 2. Modules

| module | models | corresponds to the code by |
|---|---|---|
| `BlockingRunner` | the runner over asyncio and the thread pool | `phase` is the coroutine inside `run`, `item` its work item; `Submit` is the entry of `_run_bounded`, `Queue` the executor's `_work_queue`, `Abandon` what a cancellation or the deadline does to coroutine and item (a cancelled item stays in the queue until `TakeItem`), `Close` is `close` |
| `BlockingRunnerProofs` | theorems about it | |
| `AtomicCollection` | abstract: what a collection promises | each operation is one step between request and answer; states what an error and a crash leave open |
| `TurboVecStore` | adapter, repository and publication | `pc` walks through `_locked`, `_load`, the edit and `atomic_publish`; `target` and `backup` are directories; `awaited` is the coroutine. Refines `AtomicCollection` |
| `TurboVecStoreProofs` | theorems about it, and its refinement of `AtomicCollection` | |
| `Ingestion` | `IngestionCoordinator` behind `IngestService` and the parser cache | `phase` walks through `_run` and `_write_batches`, `task` is the state of each batch; `Raise`, `Drop`, `Conclude` are the `except` branch of `_write_batches` |
| `IngestionProofs` | theorems about it | |
| `PluginScope` | `_ScopeNode`, its handles and contexts | `Ask`, `Wake`, `Build`, `Enter`, `Fail` are the awaits of `acquire`; `Close`, `Exited` those of `close` and of its `AsyncExitStack` |
| `PluginScopeProofs` | theorems about it | |
| `LoopGuard`, `ToolAgent`, `AgentSessions` | the agent graph, its guards and checkpoints; the sessions that are kept | a node of the graph is an action; `saver` is the checkpointer, `run` the copy a request works on, `order` the session store |
| `AgentSessionsProofs` | theorems about `AgentSessions` and the two modules it extends | |
| `Clock`, `RagCache`, `RateLimit`, `Retrieval`, `RagPipeline`, `AnswerStream`, `RagService` | caches, limiter, strategies, pipeline, the response that carries a stream to the client's iterator, and the server around them | `pc` walks through the awaits of `aquery`, `aretrieve` and `astream_query`; `told` through the end of `generate`, `at` through `rag_stream`, and `wire` holds the lines between them; the components share `Requests` and `now` and are composed by `EXTENDS` |
| `RagServiceProofs` | theorems about `RagService`: its calls, caches and streams; its limiter | |
| `Artifact`, `NetworkPolicy`, `HttpDownload`, `StoredSource`, `SourceHandle`, `SourceOperation` | a source from its name to the parsed document | one hop, one fragment, one callback, one blocking call a step; `SourceOperation` is the selector, the operation scope and the parser adapter around the handle |
| `SourceOperationProofs` | theorems about `SourceOperation` and the modules it extends | |
| `PluginCatalog`, `VectorOptions`, `MetadataFilter` | operators: discovery, policies, guardrails; options of a store; filters in three stores | one operator per function of the code |
| `ParserRegistry` | discovery of parsers and chunkers, routing, presets | `Start` and `LoadEntry` are the halves of `_ensure_discovered` |
| `VectorBackends` | PostgreSQL, Qdrant and the deprecated stores under concurrent calls | one statement, client call or file operation a step; `call` is what a request waits for |
| `IngestService` | requests from arrival to reply | `phase` walks through `IngestService`, `DocumentService.parse`, `IngestionPipeline` and `collection_operations` |
| `Platform` | the application's life around them | `life` is `create_app` and the lifespan |
| `PlatformProofs` | theorems about `Platform` and the four modules below it | |

Each `MC...` module names the values of an instance; its `.cfg` assigns them. Definitions called
"Mutant of ..." are single plausible mistakes in the code; `PROJECT.json` pairs each property with
the mutant that breaks it, so that no property is checked that could not fail. Modelled without a
line of the repository to point to are the thread pool, asyncio's locks and exit stack, the source
and a vector store's late writes, as the code uses them; they are marked external in the map.

Step granularity: one action is one stretch of code between two points at which something else can
run, that is awaits for coroutines, and file-system calls for the repository's threads.

What data becomes: a document is a *version*, a version is a sequence of batches, a batch one chunk,
a chunk the fingerprint it was stored with (`Ingestion`); a record is the operation that wrote it,
and an index digest is the contents of the index (`TurboVecStore`); a resource is the task whose
acquire built it (`PluginScope`); a message is its tool calls (`ToolAgent`); a chunk is its source,
its text and a score (`Retrieval`); a file is a sequence of fragments (`StoredSource`); a URL is what
the network policy looks at (`NetworkPolicy`); what is installed and configured is a record, the
*site*, and a request is a record of its fields (`Platform`). Prompts, wording and vectors are left
out: no control depends on them.

## 3. Runs that pass

**`blocking_runner`** (four calls, two threads; `c1` and `c2` hang for ever, `c3` has a deadline). Two
hanging calls can hold every permit, and, when they are given up, every thread while the permits are
free again; the other two are then a call at the semaphore and one that leaves its item in the queue.
`RunnerInv` (limits on permits and on threads, correspondence of coroutine and work item),
`QueueDrains` (the items of given-up calls, which stay in the executor's queue, are taken out unless
every thread hangs; in that case the queue does grow with each call whose deadline passes, and nothing
in the code bounds it), `StartsOnlyWanted`, `CallsReturn` (unless every thread hangs),
`CloseReleasesCallers` (all but the waiters of a semaphore whose permits are all held by calls that
await hanging functions: `close` does not touch the semaphore). `ThreadsHang` and `PermitsHang` name
the two exceptions, and the run reaches both.

**`turbovec_shared`** (three operations of any kind on two records of two sources, one adapter
instance; at most `MaxCrashes` = 1 crash and `MaxFaults` = 1 file-system error). Three operations
are a writer, a rival and an observer; one crash and one fault can each hit every point. Operations
are interchangeable, hence the symmetry. `AtomicOperations` is the refinement of `AtomicCollection`;
`StoreInv` is mutual exclusion of threads and agreement of docstore and index; `PreviousKept` says
that the previous generation is deleted only when the next is in place. What the abstraction admits
is the honest statement of the limits: after a crash a collection that was being written may be
hidden under its backup name (nothing in the code looks for it), an interrupted removal leaves a
directory that only a removal can clear, and an error does not say whether the write took place.

**`ingestion`** (two jobs on one local file; versions of three batches and of one batch they share;
`MaxInFlight` = 1, so two batches compete for one permit; `MaxEdits` = 1; job `j1` asks for a
fail-closed incremental ingest, `j2` for a full or a lenient one). Every step of a provider may
fail, every write may succeed without saying so, either caller may cancel at any await, and a
cancelled write may land later. `IngestInv` (no task outlives the coordinator: drain before raise),
`InFlightBounded`, `ReportedMeansStored`, `FailClosed` (a fail-closed job that has changed the store in
any way, by a late write too, had the answer that its fingerprint is not there; the ghost `wrote` says
who changed it), `JobsEnd`. `Requests` limits which job asks for what, and a document that yields no chunk at all is reached through the chunker that finds
nothing.

**`plugin_scopes`** (a process, a request and an operation scope; two tasks in the request, one in
the operation; two keys). `ScopeInv` (who builds holds the lock; the exit stack is exactly what is
entered), `OneInstancePerKey`, `NestedScopesRelease`, `AcquiredIsUsable`, `AcquiresReturn`. The
nested scopes are left as `async with` blocks are, after the work in them has ended; the process
scope may be left at any time. The first four hold for that reason on nested scopes, and
`AcquiredIsUsable` exempts the process scope while it is being left, which is finding 4 below.

**`agent_sessions`** (two questions and a reviewer's decision on two sessions, `MaxSessions` = 1 so
that each question evicts the other; a searching and a writing tool; `MaxSteps` = 2,
`RecursionLimit` = 5, `RepeatCap` = 1, so that budget, recursion limit, loop guard and verifier each
end some run; the model answers anything in `Responses`, or fails; a run is cancelled at any node).
`ApprovalGuardsTools`,
`RepeatsBounded`, `AnsweredUnlessRejected`, `WedgeExplained` (a session is blocked by nothing but a
gate or a failed or cancelled run), `PausedUntilDecided`, `QueriesEnd`.

**`rag_service`** (nine scenarios of two to four calls: two tenants and one question, no tenant, users
that are refused and a shutdown, the SDK's similarity list, streams that are closed early, all
strategies over a collection that is replaced once, and clients that ask on both of the limiter's RAG
paths; time advances by at most 2 with a lifetime and a window of 1, caches hold 1, and the bucket table
holds 2, so that one client can fill it with its two paths and a third pair is refused; answers have up to `MaxTokens` = 2 tokens, a word
and two lines after a space; a server waits when `HighWater` = 0 lines are exceeded, and a connection
may break at any point, after any part of what is on its way). `LimiterHolds`, of the parts
`QuotaHolds` and `RefusalExplained`, relates the limiter's decisions to the true origin and the path of a request (a client has a quota on
each path), whatever forwarding entries it brings; `CachedAnswersAreOwn` covers tenant, configuration, question and age; `EndedMeansReleased` exempts abandoned streams
(section 4); `ContextBest` compares the merged context with what the searches found;
`OutcomeTrue` says that a client's iterator is exhausted by a whole answer only, although a failure
comes after status 200, and that each exception has its documented cause; `CallsEnd` is about the calls
and the clients that wait for them.

**`source_operation`** (a local file, a URL or an S3 object; two redirects, name servers that answer a
public and a private address, two fragments and `MaxBytes` = 2, so a third is one too many;
`MaxChanges` = 1 change of the source at any time, which meets every point of a reading once; the proofs
are about any number; two tasks of the parser, one of which may outlive
it; one cancellation at any point). `SafeContacts` (no address is contacted that the policy forbids,
on any hop), `FingerprintHolds`, `ArtifactsReleased`, `OperationsEnd`, `SourceInv`.

**`platform`** (up to three requests against one site, 33 plays: a play fixes what is installed, what is
asked and what the source says). The plays are chosen so that each pair of operations meets on each
store: ensures of different widths, a writer under a drop, a deletion beside a listing, an ingest
that is repeated while the source changes (`MaxEdits` = 1), parser threads beside the event loop,
every way a request is refused. Five plays have an ingest of two batches (`batch` = 1), the second of
which may meet the fault after the first was confirmed, and one has two incremental ingests of one
document with a graph, the second of which may skip its vectors. `MaxFaults` = 1 lost connection, lost answer, uncertain update,
failed embedding or failed parse per behaviour, at any step; the application may be started twice.
`PageSize` = 1 and `MaxScan` = 3 stand for 256 and 100,000 and make a listing take several pages and
reach its limit, and `Deepest` = `Widest` = 2 fit the filters. Five filters per store run over rows with an absent, an integer, a word, a numeric
string and a null value. `RepliesHold` is the conjunction of what a deletion, an ingest, its graph, a listing, a
search, a refusal and the choice of a store promise, with the exceptions the code makes necessary.
`IngestHolds` does not claim that a failed ingest has written nothing: the batches it was told of stay,
and at most one more, whose answer was lost. `GraphHolds` says that the graph has what succeeded and no
more, through retries that skip. `StoreHolds` claims a policy for the plugins only, and of the deprecated
paths just where they lead (section 4). `ParserHolds` exempts the requests that asked the registry while
another was filling it (`early`): the code has that race, and the property says who can meet it.
`PlatformInv` relates rows to collections and resources to the application's life; `RequestsEnd`.
The status 400 stands for every 4xx or 502 that a mapped failure becomes.

### Fairness

* `BlockingRunner`: strong fairness of `Submit` and `TakeItem`, because `asyncio.Semaphore` and the
  executor's queue are first-in first-out, so that a call cannot be overtaken for ever; weak
  fairness of delivery, of the deadline timer, and of functions that do not hang.
* `Ingestion`: weak fairness of each job's own next step. Provider calls are assumed to return or
  raise. Edits, expiry, new requests, cancellations and orphaned writes are never assumed.
* `PluginScope`: weak fairness of an acquire's next step and of exits: factories, entries and exits
  return or raise.
* `TurboVecStore` states no liveness: it has safety properties only.
* `AgentSessions`, `RagService`, `Platform`: weak fairness of the next step of each request. The event
  loop runs what can run, threads run, and models, stores and providers answer or fail. Arrivals,
  cancellations, consumers of a stream, the clock, edits and faults are never assumed. In `RagService` a stream that
  waits for its consumer owes nothing; a client's read returns or times out, and a server is told that
  its client is gone. `RequestsEnd` is `[]<>` of "none is under way", which says the
  same as an answer for each: a request arrives once.
* `SourceOperation`: weak fairness of the operation's own steps, of the deletion of its file and of
  the tasks of the parser. Servers owe nothing; the deadline of a download does.

`CHECK_DEADLOCK FALSE` stands in every configuration because in each of these systems everything may
end: all calls returned, all jobs over, all scopes closed.

## 4. Runs that show a disagreement

1. **`turbovec_instances`**: each request builds its own adapter, repository and locks over the same
   directory, so of two concurrent upserts in one process one acknowledged write is lost. The class
   says calls are thread-safe within one process.
2. **`ingestion_partial_skip`**: `contains` is documented as "a complete prior write has this
   fingerprint" and is satisfied by any one record. After an ingest that failed half way, the next
   incremental ingest skips the document.
3. **`ingestion_stale_text`**: a local file is fingerprinted after it was parsed (or taken from the
   parser cache), so old text is stored under the fingerprint of the new bytes, and the design's
   "digest of resolved content" is not what is stored.
4. **`plugin_scopes_shutdown`**: `acquire` tests `closed` before it waits for the lock and the
   factory; when the process scope is left meanwhile the resource is entered afterwards and never
   exited.

The modelling of agents, RAG, sources and the platform met further disagreements. They have no run
of their own: the models follow the code, and the properties name the exception.

* *A stream that is closed early keeps its operation scope.* `astream_query` leaves its inner
  generator suspended (`rag/pipeline.py:223`), although the class promises release "including on
  cancellation or early stream closure" (`rag/pipeline.py:32`). `EndedMeansReleased` speaks of calls
  that ended, and `abandoned` ones are not among them.
* *Not only exact questions.* `aquery` says its cache is "exact-question only" (`rag/pipeline.py:94`);
  an SDK pipeline answers from a list of similar questions (`CachedAnswersAreOwn`, last line).
* *What is ingested cannot be deleted or listed by default.* Ingest writes through the plugin's table
  `docpipe_vectors`; `DELETE /ingest` without an envelope deletes from a table called like the
  collection and answers 404, and the listing reads LangChain's tables and answers 500. The
  deprecated deletion raises `AttributeError` over a directory that the TurboVec plugin wrote
  (`LcDelete`, `LcList`, `TvScan`).
* *The deprecated paths ask no policy.* `DELETE /ingest` and the listing without an envelope, and ingests
  of the SDK with the foundation off, go to LangChain's tables or to the TurboVec files whatever
  `DOCPIPE_DISABLED_PLUGINS` and the tenant's list say (`server/services/ingest.py:240-258`), where
  `docs/plugins/configuration.md:11` has them narrow what a request can reach (`StoreHolds`, first case).
* *Wrong refusals.* A parser that is installed is refused when its request asks the registry while
  another thread, an agent's tool for instance, is still filling it: the flag is set first
  (`registry/registry.py:225`; `Premature`, `ParserHolds`).
* *Permits and close.* `close` of the blocking runner leaves the callers at the semaphore waiting when
  every permit is held by a call that awaits a hanging function. A deadline gives the permit back but
  leaves the item in the executor's queue, which therefore grows without a bound while every thread
  hangs (`CloseReleasesCallers`, `QueueDrains`).
* *Rollback is for the SDK only.* With `DOCPIPE_PLUGIN_FOUNDATION_ENABLED=false` every ingest of the
  server fails: `_build_config` always sets an envelope, which the legacy executor rejects
  (`RolledBack`, `Refusal`). Likewise a TurboVec envelope is a configuration error for the server's
  ingests and searches (`VectorPluginConfig`), while it deletes and lists.
* *A tenant's list replaces the process's* for parsers and chunkers (`EnabledPlugins`), where
  `docs/plugins/configuration.md:11` lets it narrow only; and an empty list denies everything in the
  catalog's policy and allows everything in the guardrails (`ProcessPolicy`, `ParseCsv`).
* *One ill-formed entry point ends discovery* (`AddEntry`) and so `create_app`, where the design says
  that failures "are isolated per plugin" (docs/superpowers/specs/2026-09-13-plugin-foundation-design.md:370).
* *An ingest's Qdrant client is never closed* (`PlatformInv` exempts it), where
  `docs/architecture/plugins.md:9` says that scopes close resources.
* *A file may outlive its source.* `cleanup` reads the artifact without the lock under which S3's
  `materialize` creates it, and is not repeated when it fails (`overtaken`, `lost`). A local file is
  verified when it is opened, and not while it is read (`FingerprintHolds` names both).
* *A stream that its client left counts as ok* in the metrics, which are not modelled: `observe_rag`
  looks for `Exception` and a cancellation is none, although it records "`error` if an exception escapes"
  (`observability/metrics.py:107`).
* *The client does not read what the model said.* A token is written as one `data:` field whatever it
  holds (`server/services/rag.py:119`), and the client takes one line of it and strips it
  (`http/client.py:262`): the space in front of a word is lost, so that words run together, and so is
  all but the first line of a token. `rag_stream` promises the chunks of the answer, and
  `tests/unit/rag_stream_spec.py:46` streams `"Hello"`, `" world"`. `OutcomeTrue` claims first lines
  without white space (`TokenEvent`).
* *Filters differ between stores.* `Not` over an absent field matches in TurboVec and Qdrant and never
  in pgvector; a range over a field that holds words in some row fails the whole search in pgvector;
  numeric strings are in range there only; in Qdrant an integer does not equal the same float.
  `SearchHolds` claims agreement for rows without such a field, and for every filter a request of
  the server can carry on pgvector.

## 5. Proofs

`BlockingRunnerProofs` proves for every finite set of calls, every `MaxConcurrency` of at least 1
and every choice of bounded and hanging calls (`RunnerAssumption`):

* `RunnerInvariant`: `Spec => []RunnerInv`. `RunnerInv` is inductive as it stands. The argument has
  two layers: `NextCorrespondence` shows action by action that coroutines and work items stay in
  step, without any counting; then `NextHolders` and `NextRunning` show that only `Submit` adds a
  permit holder and only `TakeItem` a running function, one at a time and below the limit
  (`OneMoreFits`), while every other step shrinks those sets (`FewerFit`). The two layers need
  nothing of each other.
* `WantedItems` needs both: by the correspondence the items that are still wanted are those of permit
  holders, and the limit on permits then bounds them. It says nothing of the items of given-up calls,
  which are in the queue too and which nothing bounds while every thread hangs.
* `OnlyWantedStart`: from the invariant, an item is queued only while its call holds a permit and
  the runner is open.

`IngestionProofs` proves for all jobs, versions, plans and limits that `IngestionAssumption` admits:

* `JobsDrain`: `Spec => []IngestInv`. `IngestInv` is not inductive: that "created" means all batches
  are stored depends on which batches have a task during the fan-out, and on no write being orphaned
  before something was cancelled. `IInv` adds that, and what a job knows of its text and fingerprint
  in each phase (`JobInv`). Each action has a lemma that it keeps `JobInv` of the job that acts,
  most of them by way of `BatchMoves`, which states once what moving one batch disturbs.
  `StepOthers` and `Frame` show that the other jobs are left alone but for records that appear in
  the store (`Grows`), and `NextIInv` puts the two together.
* `ReportedIsStored`: from `JobInv`, whose last part says that a confirmed batch is in the store; it
  is kept because records are replaced and never removed.
* `BoundedInFlight`: only `Start` adds to the batches in flight, when it found a permit
  (`StepFlying`).
* `WritesAreAnswered`: the invariant ties what a job has changed in the store to its phase and its
  batches, and those to the answer of its lookup: a fail-closed job gets to its first batch only when
  the answer was that the store has nothing, a job that skips or is refused has no batch that could
  still be written, and what an orphaned write changes later was begun by a job that had the answer.

`IngestionProofs` says of the store only what the model lets happen to it: no deletion of the source
meanwhile (section 6).

`PluginScopeProofs` proves for every tree of scopes, all tasks and all keys (`ScopeAssumption`):

* `ScopeInvariant`, `OneInstance`, `NestedRelease`: none of the three properties is inductive. `IInv`
  adds that a lock and the task inside it name each other, that whatever is held is cached under its
  own key, that who is inside is there because nothing was cached, and (`Blocks`) that work in a
  nested scope finds all scopes around it open. An acquire changes the world only through the lock
  it holds (`Moves`, `Settles`); a closing only through its own stack (`Unwinds`).
* `UsableAcquired` is an action property: an acquire returns what is cached, and by `Caches` a cached
  resource is usable until its scope is left.

`TurboVecStoreProofs` proves for all operations, records and batches (`StoreAssumption`: the values
that stand for "no directory" and "damaged" are no generations):

* `LocksExclude`, whoever shares an adapter: at most one thread of an adapter is past its lock.
* `StoreInvariant`, `PreviousGeneration`, `Atomicity`, for the operations of one adapter (`OneAdapter`):
  with several on one directory they are false, which is finding 1. `Knows` states what the thread
  with the lock knows of the files at each point, and `Prepared` what it is about to publish in
  place of what. `FilesMove` and `FilesRest` split each step into what the lock's holder does and
  what the others cannot notice.
* `Atomicity` is the refinement. Its mapping shows a collection as it is before the swap and after
  it; a lemma for each action says whether it is a stutter (`Silent`), the operation's one step
  (`Performs`), its answer (`Responds`) or a lost answer, and `CrashRefines` that a crash leaves what
  the abstraction allows.

`AgentSessionsProofs` proves for all models, tools, threads and limits (`ToolAgentAssumption`: a model
has finitely many responses; `SessionsAssumption`: a thread is shared only by requests of a session):

* `AgentInvariant`, `GateGuardsTools`, `RepeatsAreBounded`, `OpenCallsWereRejected`,
  `WedgesAreExplained`, `PausedStaysDecidable`. `Legal` says of a state between two nodes, in a run or
  in a checkpoint, which calls may be open at which node, and that tools with a gate are reached with
  an approval; `Held` that a checkpoint is its run's own until another worked on the thread. The
  bound on repetitions is a count over the turn: `CountIsMarks` turns the loop guard's count into the
  positions after the last write, and `AnsweringIsBounded` adds the calls of one response.
* The calls that a rejection leaves open are a `SelectSeq`, about which the provers know nothing: what
  type they have in a checkpoint that ended is not proved, and no property speaks of it.

`RagServiceProofs` proves for all calls, settings, backends and limits (`ScenariosAssumption`,
`AnswerAssumption`, `PipelineAssumption`: a server's backend and its strategies are registered, an
answer has lines, the collection is finite and whatever may be searched for scores what it holds):

* `CallsAndCaches`: `Spec => []IInv`, where `Control` ties the point of a call to its scope, its runtime
  and its status, `Own` says whose answer a hit is, and `Caching` of which call an entry is. From it
  follow `CachedAnswers` and `Released`. A cached answer stays its own when its entry is replaced,
  for the call that stored it is over (`OwnStays`).
* `StreamsAgree`: `Follows` reads the lines on the wire as a suffix of what the generator said, and
  `Told` relates how an iterator ended to it. With `CallsAndCaches` it gives `RagInvariant` and
  `Outcomes`. `Outcomes` has the hypothesis `NoMark`: no token begins with `[DONE]`. The marker is sent
  in band, and a model that writes it ends its own stream at the client; the run's answers have none.
* `LimiterCounts`, for all limits, windows and tables (`LimitAssumption`): from any instant of the
  current window on, the bucket of a client and path has exactly as many hits as the two have had admissions (`Splits`),
  although the table forgets buckets and buckets forget hits at different times. `KeyQuota` and
  `KeyExplained` are the property said of keys.
* `LimiterCorrect` is the property said of clients and paths. It needs `Honest`: the trusted proxies report who
  called them, and a client is not itself a trusted proxy. What a client writes in front of that is
  anybody's; `KeyIsOrigin` shows that it makes no difference.
* `ContextIsBest`, from `ContextsPicked`: while a call searches, what it merged has no chunk twice and
  covers everything it saw (`Covers`), whatever is ingested between two searches; from then on each
  chunk has the best score it was seen with (`Best`), through the ranking, the reranker's choice and
  the cuts. `ContextPicks` is about one list: capping keeps the places of `Choice` in their order
  (`CapPlaces`), so that a place is in the context just when fewer than `TopK` chosen ones are in
  front of it. Merging, capping, rewriting and listing sources are folds, whose definition is a
  recursive function on the subsets of the places of a list. `FoldUpTo` shows once that there is such
  a function, by the least subset for which there would be none, and `FoldRuns` reads a fold as a run
  through the list; each lemma on a fold (`MergeSteps`, `CapSteps`, `VariantsListed`) starts there.
* A sort is a permutation only if ties are broken: `Ranked` says so with `Above`, where `SortSeq` over
  an order with ties would have had no value to reason about.

`SourceOperationProofs` proves for all URLs, name servers, contents, tasks and limits
(`DownloadAssumption`, `OperationAssumption`) and any number of changes:

* `ContactsAreSafe`: `Chain` adds to the property where the URL of the next hop has been.
* `SourceInvariant`, `FingerprintsHold`, `NothingIsLeft`: `HInv` has a part for each thing that must
  agree with the point of a task or of the operation: `Life` for the handle, `OnDisk` for the file,
  `Hashed` and `Described` for the fingerprint, `AsRead` and `AsStored` for what has been read. Every
  step of a task is brought to one form (`TaskStep`: it moves, reads, enters the artifact, writes,
  completes or discards it), and each part is shown once of that form.
* The proof of `FingerprintsHold` failed at first, because it was false with two changes of a local
  file: rewritten in place to another length and back within one time stamp, it passes every check
  with a content that was not fingerprinted. `quiet` marks a content that looks like any earlier one,
  and not just like the last; the exception in the property is the wider for it.

`PlatformProofs` proves for every play (what is installed, configured, asked for and said by the
sources). `RequestAssumption`: a request is of a known kind, for a known collection, with vectors of
some positive width and a filter that is finite (`Deepest` and `Widest` bound it, at any numbers), and
of the server's form if it came that way. `SiteAssumption`, `SourceAssumption`, `NameAssumption`: what
is installed comes in finite sequences, what a source says yields finitely many records with numbers,
and the values that stand for nothing are not among the names.

* `PlatformInvariant`: `Spec => []PlatformInv`. That records fit their collection is not inductive: an
  ensure looks first and inserts later, and the write comes after both. `Ensuring` says what a request
  may rely on at each statement: the collection has its width, or somebody else was about; and
  `Company`, that requests under way together have met, which is where the exception in the property
  comes from (`Overlap`). Qdrant needs none of it: a write looks at the width in its own call. Every
  step of the service is brought to one form (`Serves`), every step of a store, and a lost connection,
  to another (`Answers`), and each part of the invariant is kept by each of the two.
* `RepliesAreTrue`: `Spec => []RepliesHold`, from the second invariant `RInv`. `Course` and `History` tie
  the phase of a request to its call and the call to what the history says it did. `Proceeds` and
  `Stores` refine the two forms of a step, and `Beside` is what a request notices of another's
  (`NextBeside`, `NextCall`): its shelf is `Disturbed` only by an effect that `Later` or `Overlapped`
  will name. Each part of the invariant is then kept step by step:
  * *deletions* (`Deletions`): what the statements of a deletion have seen so far, and that once it took
    effect nothing of its source is left that was not written since;
  * *ingests* (`Carried`, `Recorded`, `Provenance`, `Skipped`, `Ended`): what a call carries is the next
    batch, of the fingerprint it asked about and not confirmed before; what was confirmed is on the shelf
    until somebody else changes it, and the dump of a file puts it back; every effect of an ingest is of a
    batch that was confirmed or is the one whose answer is still to be heard or was lost (`Writes`); every
    row that is there, or that a dump will put back, was written by a request that carried it, and so a
    lookup that finds a fingerprint may be believed;
  * *graphs* (`Graphed`): what is drawn of a request is what its phase says, so that with `Skipped` and
    `Ended` nothing is drawn of an ingest that is not whole, and nothing stays of one that fails;
  * *listings* (`Tallied`, `Texted`): a scroll has seen exactly the records before its next one
    (`NextPage`), and counts of groups add up to the records (`GroupsAddUp`, along the recursive function
    behind the fold);
  * *searches* (`Unique`, `Searched`): an id has one row, and a hit is a row that the store's reading of
    the filter admits. On rows that have the fields it names the three readings give every condition
    one value, and the model combines values in one way, so filters of any depth agree (`PlainReads`);
    the filters of a request are conjunctions of equalities, and for these PostgreSQL's null comes to
    the same as false on any row (`RequestReads`);
  * *parsers* (`Registering`, `Guarding`): who loads the entry points is about, and what it has not yet
    looked at is still to be loaded, so that whoever finds the registry started while it is being filled has company (`Attended`) and is
    marked `early`, and anybody else finds it complete; what is refused then stays refused;
  * *policies* (`StoresAllowed`): but for the deprecated paths a call is made only with a plugin that was
    loaded under both policies.

All of these hold for any sequence of cancellations, failures and crashes, without fairness (the
agent's are stated of `FairSpec`, whose fairness they do not use). Every inductive invariant was
checked by TLC on the instance of its run, but for quantifiers that TLC cannot bound ("is a sequence
over some set").

Only model-checked:

* All liveness properties (`QueueDrains`, `CallsReturn`, `CloseReleasesCallers`, `JobsEnd`, `AcquiresReturn`, `QueriesEnd`,
  `CallsEnd`, `OperationsEnd`, `RequestsEnd`): fairness and `ENABLED` are beyond the prover.
* What the external systems do (PostgreSQL, Qdrant, LangChain, asyncio) is assumed as modelled, and is
  neither checked nor proved.

Every other property of a passing run is a theorem above, for all values of the constants.

## 6. Not modelled, and why

* Vectors, distances, result limits, prompts, wording: data on which no control path depends.
* Lists in metadata, which only Qdrant's filters look into, and Qdrant's in-memory mode, which is a
  store of its own per adapter.
* In `TurboVecStore`: the failure of the rename that restores the old generation after a failed swap
  (two faults in one publication), and a second process. The class rules the second out in words.
* A crash of the process outside `TurboVecStore`: what the other components keep in memory is gone
  then, and what the external stores keep is theirs.
* In `Platform`: the order in which a runtime closes its runner and its plugins, users, keys and costs
  of the control database, and batches side by side: an ingest writes its batches one after the other
  here, as one with `max_in_flight` 1 does, and how they run beside each other is in `Ingestion`.
* A request of the agent that is cancelled before its graph is invoked: it has changed nothing. One that
  is cancelled later, or whose verifier raises, ends at the node it has reached (`Cancel`); what a tool
  raises is a result like any other (`tool_agent.py:83`, `:282`).
* Parsers, chunkers, embeddings, rerankers and evaluators, LLMs and LightRAG are calls that answer or
  fail. The MCP server, the command line and the other calls of the
  clients are callers of the services modelled here.
* `PROJECT.json` gives the reason for each other component.

## 7. Plan

1. Done: `BlockingRunner`, `Ingestion`, `TurboVecStore` over `AtomicCollection`, `PluginScope`, the
   agent's sessions, the RAG service with its answer stream and its limiter, sources, and the
   platform, each with its proofs.
2. Done: a theorem for every safety property that a passing run checks. Liveness stays with TLC, under
   the fairness of section 3.
3. To model, if the code grows there: the order of closing in a runtime as a composition of
   `PluginScope` with `BlockingRunner`; batches side by side in `VectorBackends`; failures of the agent's
   graph at its other nodes.
