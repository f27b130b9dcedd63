---------------------------- MODULE IngestService ----------------------------
(***************************************************************************)
(* Requests from their arrival to their reply: ingests (plain, streamed,   *)
(* or by an SDK caller), deletions, listings and searches of               *)
(* docpipe.server.services.ingest, the parse requests that share the       *)
(* parser cache with them, the parse tool of an agent, and an SDK caller   *)
(* who drops a collection. The batches of an ingest go one by one here     *)
(* (max_in_flight = 1); how they run side by side is in Ingestion.         *)
(***************************************************************************)
EXTENDS VectorBackends

CONSTANTS
    Sources,
    Texts,        \* what a source may say; "blank" is one of them
    Pages(_, _),  \* of a source and a text: the ids of its records, which are its own
    MaxEdits      \* BOUND: changes of sources, expirations of the cache

\* Requests are about sources, and records have numbers, for the order of their ids.
ASSUME SourceAssumption ==
    /\ \A p \in DOMAIN Plays :
         /\ Plays[p].content \in [Sources -> Texts]
         /\ \A r \in Requests : Plays[p].request[r].source \in Sources
    /\ \A s \in Sources, t \in Texts \cup {None} : IsFiniteSet(Pages(s, t)) /\ Pages(s, t) \subseteq Nat

VARIABLES
    content,  \* of each source, now
    cached,   \* the parser cache: <<source, parser>> -> text
    phase,    \* of each request
    parser,   \* the one it resolved
    doc,      \* what it parsed
    hash,     \* the fingerprint its records carry
    accepted, \* the records that its store confirmed, batch by batch
    graph,    \* the texts LightRAG was given, and by whom
    jobs,     \* the ingest jobs in the control database
    clients,  \* Qdrant clients that are open, by request
    reply,
    edits

served == <<content, cached, phase, parser, doc, hash, accepted, graph, jobs, clients, reply, edits>>

NoReply == [status |-> None, n |-> 0, list |-> {}]

ServiceInit ==
    /\ cached = <<>>
    /\ phase = [r \in Requests |-> "idle"] /\ parser = [r \in Requests |-> None]
    /\ doc = [r \in Requests |-> None] /\ hash = [r \in Requests |-> None]
    /\ accepted = [r \in Requests |-> {}]
    /\ graph = {} /\ jobs = {} /\ clients = {} /\ reply = [r \in Requests |-> NoReply]

Q(r)        == request[r]
InServer(r) == Q(r).via = "server"
Go(r, p)    == phase' = [phase EXCEPT ![r] = p]

\* A stream reports success and failure in its last event.
Reply(r, status, n, list) ==
    /\ Go(r, "ended")
    /\ reply' = [reply EXCEPT ![r] = [n |-> n, list |-> list,
           status |-> IF Q(r).stream THEN (IF status = "200" THEN "done" ELSE "error") ELSE status]]

Refuse(r, status) == Reply(r, status, 0, {})

-----------------------------------------------------------------------------
(* The plugins and the parsed document *)

Begin(r) ==
    /\ phase[r] = "idle"
    /\ CASE Q(r).kind \in {"ingest", "parse"} /\ InServer(r) -> Go(r, "resolve")
         [] Q(r).kind = "tool" -> Go(r, "tool")
         [] OTHER -> Go(r, "compose")
    /\ doc' = [doc EXCEPT ![r] = IF Q(r).kind = "ingest" /\ ~InServer(r) THEN content[Q(r).source] ELSE None]
    /\ UNCHANGED <<content, cached, parser, hash, accepted, graph, jobs, clients, reply, edits, registry, backends>>

Discover1(r) ==
    /\ \/ phase[r] \in {"resolve", "tool"} /\ EnsureDiscovered(r, "default")
       \/ phase[r] = "registry" /\ EnsureDiscovered(r, "runtime")
    /\ UNCHANGED <<served, backends>>

Resolve(r) ==
    /\ phase[r] = "resolve" /\ Discovered(r, "default")
    /\ LET found == ResolvePlugins(Q(r))
       IN  IF "refused" \in DOMAIN found THEN Refuse(r, found.refused) /\ UNCHANGED parser
           ELSE Go(r, "registry") /\ parser' = [parser EXCEPT ![r] = found.parser] /\ UNCHANGED reply
    /\ UNCHANGED <<content, cached, doc, hash, accepted, graph, jobs, clients, edits, registry, backends>>

\* get_parser of the other registry, then the parser cache.
GetParser(r) ==
    /\ phase[r] = "registry" /\ Discovered(r, "runtime")
    /\ LET key == <<Q(r).source, parser[r]>>
       IN  IF ~Has("runtime", "parsers", parser[r]) THEN Refuse(r, "400") /\ UNCHANGED doc
           ELSE IF key \in DOMAIN cached
                THEN Go(r, "parsed") /\ doc' = [doc EXCEPT ![r] = cached[key]] /\ UNCHANGED reply
                ELSE Go(r, "parsing") /\ UNCHANGED <<doc, reply>>
    /\ UNCHANGED <<content, cached, parser, hash, accepted, graph, jobs, clients, edits, registry, backends>>

\* The source is read, then parsed; what comes of it is cached, if anything is.
Parse(r) ==
    /\ \/ /\ phase[r] = "parsing" /\ Go(r, "store") /\ doc' = [doc EXCEPT ![r] = content[Q(r).source]]
          /\ UNCHANGED <<cached, reply, faults>>
       \/ /\ phase[r] = "parsing" /\ faults < MaxFaults /\ faults' = faults + 1 /\ Refuse(r, "400")
          /\ UNCHANGED <<cached, doc>>
       \/ /\ phase[r] = "store" /\ Go(r, "parsed")
          /\ LET key == <<Q(r).source, parser[r]>>
             IN  cached' = IF ~site.caches THEN cached
                           ELSE [k \in DOMAIN cached \cup {key} |-> IF k = key THEN doc[r] ELSE cached[k]]
          /\ UNCHANGED <<doc, reply, faults>>
    /\ UNCHANGED <<content, parser, hash, accepted, graph, jobs, clients, edits, registry, stores, call, effects>>

Parsed(r) ==
    /\ phase[r] = "parsed"
    /\ IF Q(r).kind = "parse" THEN Reply(r, "200", 0, {doc[r]}) ELSE Go(r, "compose") /\ UNCHANGED reply
    /\ UNCHANGED <<content, cached, parser, doc, hash, accepted, graph, jobs, clients, edits, registry, backends>>

\* The client of a stream goes away: the request does nothing more, but a thread
\* that works for it finishes the operation.
Disconnect(r) ==
    /\ Q(r).stream /\ \A id \in Registries : registry[id].loader # r
    /\ phase[r] \in {"resolve", "parsing", "store", "parsed", "compose", "lookup", "encode", "ensure", "upsert", "next"}
    /\ Go(r, "ended") /\ reply' = [reply EXCEPT ![r].status = "closed"]
    /\ IF call[r].via = "qdrant" /\ call[r].step # "answered" THEN Fail(r, "closed") ELSE UNCHANGED call
    /\ UNCHANGED <<content, cached, parser, doc, hash, accepted, graph, jobs, clients, edits, registry,
                   stores, effects, faults>>

\* make_parse_tool asks the default registry, and no guardrail.
UseTool(r) ==
    /\ phase[r] = "tool" /\ Discovered(r, "default")
    /\ Refuse(r, IF Has("default", "parsers", Q(r).parser) THEN "200" ELSE "unknown parser")
    /\ UNCHANGED <<content, cached, parser, doc, hash, accepted, graph, jobs, clients, edits, registry, backends>>

-----------------------------------------------------------------------------
(* The store: which path, which plugin, with which options *)

Facets(provider) ==
    IF <<"vectorstore", provider>> \in Official THEN {"ingest", "delete", "list", "search", "filter"}
    ELSE site.facets

\* The options of the plugin: a deletion and a listing take those of the request.
Config(r) ==
    IF ~InServer(r) THEN ResolveVectorOptions(Q(r).backend, Q(r), site, Q(r).store, Q(r).explicit)
    ELSE IF Q(r).kind \in {"delete", "list"} THEN VectorFields(Q(r), site)
    ELSE VectorPluginConfig(Q(r), site)

Provider(r) ==
    IF InServer(r) THEN VectorFields(Q(r), site).provider
    ELSE IF Q(r).store # None THEN Q(r).store.provider
    ELSE IF Q(r).backend # None THEN Q(r).backend ELSE "pgvector"

\* The plugin foundation is off: the executor of before, which knows no envelope.
RolledBack(r) == Q(r).kind = "ingest" /\ ~site.foundation

\* Requests that name no envelope delete and list without a plugin.
Deprecated(r) ==
    \/ Q(r).kind \in {"delete", "list"} /\ ~Selected(Q(r), site)
    \/ RolledBack(r) /\ ~InServer(r) /\ Q(r).store = None

Loading(r) == LoadPlugin(known.catalog, <<"vectorstore", Provider(r)>>, ProcessPolicy(site),
                         TenantPolicy(site, Q(r).tenant), site)

Unsearchable(r) ==
    /\ Q(r).kind = "search"
    /\ ~({"search"} \cup (IF Q(r).filter # None THEN {"filter"} ELSE {}) \subseteq Facets(Provider(r)))

Unsupported(r) ==
    \/ Q(r).kind \in {"delete", "list", "ingest"} /\ Q(r).kind \notin Facets(Provider(r))
    \/ Unsearchable(r)

\* How a request is refused before the store is asked.
Refusal(r) ==
    IF Deprecated(r)
    THEN IF Q(r).dsn = None \/ (Q(r).kind = "list" /\ Backend(Q(r), site) # "pgvector") THEN "400" ELSE None
    ELSE IF \/ InServer(r) /\ VectorFields(Q(r), site) = None
            \/ RolledBack(r)
            \/ known.failed # None
            \/ Q(r).kind = "delete" /\ Q(r).contains
            \/ Q(r).kind = "list" /\ Q(r).filter # None THEN "400"
    ELSE IF Loading(r) # "loaded" THEN "422"
    ELSE IF Config(r) = None THEN "400"
    ELSE IF ~Creates(Config(r)) THEN "422"
    ELSE IF Unsupported(r) THEN "400" ELSE None

Via(r) ==
    IF Deprecated(r) THEN (IF Backend(Q(r), site) = "pgvector" THEN "langchain" ELSE "files")
    ELSE Provider(r)

\* The records of a document, of one store.
Ids(r) == Pages(Q(r).source, doc[r])
Rows(r, h) ==
    {[id |-> IF Deprecated(r) THEN <<r, p>> ELSE p, source |-> Q(r).source, hash |-> h, width |-> Q(r).width]
        : p \in Ids(r)}

\* The next batch of them; the executor of before has one.
Batch(r) ==
    LET left == Rows(r, hash[r]) \ accepted[r] IN IF Deprecated(r) THEN left ELSE First(Q(r).batch, left)

Opens(r) == clients' = IF Via(r) = "qdrant" THEN clients \cup {r} ELSE clients

\* An incremental ingest asks for the fingerprint, where the store can be asked.
Asking(r) == Q(r).incremental /\ (Deprecated(r) \/ "filter" \in Facets(Provider(r)))

\* An empty document asks for nothing. The fingerprint is of the file as it is now.
Compose(r) ==
    /\ phase[r] = "compose"
    /\ IF Refusal(r) # None THEN Refuse(r, Refusal(r)) /\ UNCHANGED <<hash, clients, call>>
       ELSE /\ Opens(r)
            /\ \/ /\ Q(r).kind # "ingest"
                  /\ Go(r, "answer") /\ Call(r, Q(r).kind, Via(r), {}, None) /\ UNCHANGED <<hash, reply>>
               \/ /\ Q(r).kind = "ingest" /\ Ids(r) = {}
                  /\ Go(r, "finish") /\ UNCHANGED <<hash, reply, call>>
               \/ /\ Q(r).kind = "ingest" /\ Ids(r) # {} /\ Asking(r)
                  /\ Go(r, "lookup") /\ hash' = [hash EXCEPT ![r] = content[Q(r).source]]
                  /\ Call(r, "lookup", Via(r), {}, content[Q(r).source]) /\ UNCHANGED reply
               \/ /\ Q(r).kind = "ingest" /\ Ids(r) # {} /\ ~Asking(r) /\ UNCHANGED <<hash, call>>
                  /\ IF Q(r).incremental /\ Q(r).closed THEN Refuse(r, "400") ELSE Go(r, "encode") /\ UNCHANGED reply
    /\ UNCHANGED <<content, cached, parser, doc, accepted, graph, jobs, edits, registry, stores, effects, faults>>

-----------------------------------------------------------------------------
(* The answers *)

Answered(r, p) == phase[r] = p /\ call[r].step = "answered"
Out(r) == call[r].out

\* Mutant of LookedUp: what the store knows needs no graph either.
LookedUpForAll(r) ==
    /\ Answered(r, "lookup")
    /\ CASE ~Out(r).ok /\ Q(r).closed -> Refuse(r, "400")
         [] Out(r).ok /\ Out(r).n > 0 -> Go(r, "record") /\ UNCHANGED reply
         [] OTHER -> Go(r, "encode") /\ UNCHANGED reply
    /\ call' = [call EXCEPT ![r] = NoCall]
    /\ UNCHANGED <<content, cached, parser, doc, hash, accepted, graph, jobs, clients, edits, registry,
                   stores, effects, faults>>

LookedUp(r) ==
    /\ Answered(r, "lookup")
    /\ CASE ~Out(r).ok /\ Q(r).closed -> Refuse(r, "400")
         [] Out(r).ok /\ Out(r).n > 0 -> Go(r, "finish") /\ UNCHANGED reply
         [] OTHER -> Go(r, "encode") /\ UNCHANGED reply
    /\ call' = [call EXCEPT ![r] = NoCall]
    /\ UNCHANGED <<content, cached, parser, doc, hash, accepted, graph, jobs, clients, edits, registry,
                   stores, effects, faults>>

\* The collection is ensured before the first batch, and not for the deprecated stores;
\* the provider of the embeddings may fail.
Encode(r) ==
    /\ phase[r] \in {"encode", "next"}
    /\ \/ /\ UNCHANGED <<reply, faults>>
          /\ IF Deprecated(r) \/ phase[r] = "next"
             THEN Go(r, "upsert") /\ Call(r, "upsert", Via(r), Batch(r), None)
             ELSE Go(r, "ensure") /\ Call(r, "ensure", Via(r), {}, None)
       \/ faults < MaxFaults /\ faults' = faults + 1 /\ Refuse(r, "400") /\ UNCHANGED call
    /\ UNCHANGED <<content, cached, parser, doc, hash, accepted, graph, jobs, clients, edits, registry, stores, effects>>

Ensured(r) ==
    /\ Answered(r, "ensure")
    /\ IF Out(r).ok
       THEN Go(r, "upsert") /\ Call(r, "upsert", Via(r), Batch(r), None) /\ UNCHANGED reply
       ELSE Refuse(r, "400") /\ call' = [call EXCEPT ![r] = NoCall]
    /\ UNCHANGED <<content, cached, parser, doc, hash, accepted, graph, jobs, clients, edits, registry,
                   stores, effects, faults>>

\* Mutant of Written: a batch that fails is passed over.
WrittenInPart(r) ==
    /\ Answered(r, "upsert")
    /\ LET all == accepted[r] \cup call[r].rows
       IN  /\ accepted' = [accepted EXCEPT ![r] = IF Out(r).ok THEN all ELSE @] /\ UNCHANGED reply
           /\ Go(r, IF Rows(r, hash[r]) \subseteq all THEN "finish" ELSE "next")
    /\ UNCHANGED <<content, cached, parser, doc, hash, graph, jobs, clients, edits, registry, backends>>

\* A batch that fails ends the ingest; those before it stay.
Written(r) ==
    /\ Answered(r, "upsert")
    /\ LET all == accepted[r] \cup call[r].rows
       IN  IF Out(r).ok
           THEN /\ accepted' = [accepted EXCEPT ![r] = all] /\ UNCHANGED reply
                /\ Go(r, IF Rows(r, hash[r]) \subseteq all THEN "finish" ELSE "next")
           ELSE Refuse(r, "400") /\ UNCHANGED accepted
    /\ UNCHANGED <<content, cached, parser, doc, hash, graph, jobs, clients, edits, registry, backends>>

\* LightRAG comes after the vectors, whether they were written or skipped.
SyncGraph(r) ==
    /\ phase[r] = "finish"
    /\ \/ /\ Q(r).graph = "no directory" /\ Refuse(r, "400") /\ UNCHANGED <<graph, faults>>
       \/ /\ Q(r).graph # "no directory" /\ Go(r, "record") /\ UNCHANGED <<reply, faults>>
          /\ graph' = IF Q(r).graph = "directory" /\ doc[r] # "blank" THEN graph \cup {<<r, doc[r]>>} ELSE graph
       \/ /\ Q(r).graph = "directory" /\ faults < MaxFaults /\ faults' = faults + 1
          /\ Refuse(r, "500") /\ UNCHANGED graph
    /\ UNCHANGED <<content, cached, parser, doc, hash, accepted, jobs, clients, edits, registry, stores, call, effects>>

\* The job is stored at best. An ingest reports the sum of its batches.
Record(r) ==
    /\ phase[r] = "record"
    /\ jobs' \in IF InServer(r) /\ site.db # "off" THEN {jobs, jobs \cup {r}} ELSE {jobs}
    /\ Reply(r, "200", Cardinality(accepted[r]), {})
    /\ UNCHANGED <<content, cached, parser, doc, hash, accepted, graph, clients, edits, registry, backends>>

\* The operations of one call, whose scope closes the client.
StatusOf(r) ==
    IF Out(r).ok THEN "200" ELSE IF ~Deprecated(r) THEN "400"
    ELSE IF Out(r).why = "undefined table" /\ Q(r).kind = "delete" THEN "404" ELSE "500"

Respond(r) ==
    /\ Answered(r, "answer")
    /\ Reply(r, StatusOf(r), IF Out(r).ok THEN Out(r).n ELSE 0, IF Out(r).ok THEN Out(r).list ELSE {})
    /\ clients' = clients \ {r}
    /\ UNCHANGED <<content, cached, parser, doc, hash, accepted, graph, jobs, edits, registry, backends>>

-----------------------------------------------------------------------------
\* A source changes; an entry of the cache expires, and is dropped when it is read.
Edit ==
    /\ edits < MaxEdits /\ edits' = edits + 1
    /\ \/ \E s \in Sources : \E t \in Texts \ {content[s]} : content' = [content EXCEPT ![s] = t] /\ UNCHANGED cached
       \/ \E k \in DOMAIN cached : cached' = [l \in DOMAIN cached \ {k} |-> cached[l]] /\ UNCHANGED content
    /\ UNCHANGED <<phase, parser, doc, hash, accepted, graph, jobs, clients, reply, registry, backends>>

OnLoop(r) == Threaded(r) \/ \A q \in Requests \ {r} : ~Blocking(q)

Progress(r) ==
    /\ Runs(r) /\ OnLoop(r)
    /\ \/ Discover1(r) \/ Resolve(r) \/ GetParser(r) \/ Parse(r) \/ Parsed(r) \/ UseTool(r)
       \/ Compose(r) \/ LookedUp(r) \/ Encode(r) \/ Ensured(r) \/ Written(r)
       \/ SyncGraph(r) \/ Record(r) \/ Respond(r)
=============================================================================
