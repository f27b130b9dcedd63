------------------------------ MODULE Platform ------------------------------
(***************************************************************************)
(* A process around its requests: create_app discovers the plugins and     *)
(* builds the runtime, the lifespan starts and stops it with the cache of  *)
(* the answers and the engine of the control database (docpipe.bootstrap,  *)
(* docpipe.server.app, docpipe.db), and while it is up the requests of     *)
(* IngestService go to the stores of VectorBackends.                       *)
(***************************************************************************)
EXTENDS IngestService

VARIABLES
    life,    \* of the application: new, created, up, stopped, broken
    starts,  \* of its lifespan
    opened,  \* which of the RAG cache and the engine of the control database are open
    admins,  \* administrators in the control database
    met,     \* history: which requests were under way together
    early    \* history: who asked the default registry while another was filling it

lived == <<life, starts, opened, admins>>
vars == <<fixed, registry, backends, served, lived, met, early>>

PlatformInit ==
    /\ \E p \in DOMAIN Plays :
         FixedInit(Plays[p]) /\ content = Plays[p].content /\ edits = Plays[p].edits
    /\ RegistryInit /\ BackendInit /\ ServiceInit
    /\ life = "new" /\ starts = 0 /\ opened = {} /\ admins = 0 /\ met = {} /\ early = {}

-----------------------------------------------------------------------------
(* The application *)

\* _validate_mcp_tenant_scope: the tenant of the hosted MCP server is a known one.
McpTenantFits ==
    /\ (site.policies # None \/ site.identities # {}) => site.mcpTenant # None
    /\ IF site.policies # None THEN site.policies # Broken /\ site.mcpTenant \in DOMAIN Policies(site)
       ELSE site.identities # {} => site.mcpTenant \in site.identities

CreateApp ==
    /\ life = "new"
    /\ life' = IF known.failed # None \/ (site.mcp /\ ~McpTenantFits) THEN "broken" ELSE "created"
    /\ UNCHANGED <<starts, opened, admins>>

\* The first administrator is added to an empty table.
Seeded(n) == IF n = 0 THEN 1 ELSE n

\* A password where one is needed, an address for Redis.
Startable == site.auth # "no password" /\ site.ragCache # "no url"

\* The security check, the runtime (whose process scope opens once), the RAG cache,
\* then the control database; if that fails, what was opened is closed.
Startup ==
    /\ life \in {"created", "stopped"} /\ starts < 2 /\ starts' = starts + 1
    /\ IF ~Startable \/ starts > 0
       THEN life' = "broken" /\ UNCHANGED <<opened, admins, faults>>
       ELSE \/ /\ life' = "up" /\ UNCHANGED faults
               /\ opened' = {x \in {"rag cache"} : site.ragCache # "off"}
                            \cup {x \in {"engine"} : site.db = "migrate"}
               /\ admins' = IF site.db = "migrate" THEN Seeded(admins) ELSE admins
            \/ /\ site.db = "migrate" /\ faults < MaxFaults /\ faults' = faults + 1
               /\ life' = "broken" /\ UNCHANGED <<opened, admins>>

InFlight(r) == phase[r] \notin {"idle", "ended"} \/ call[r].step # "answered"

\* The server waits for its requests before the lifespan ends, not for their threads.
Shutdown ==
    /\ life = "up" /\ \A r \in Requests : InServer(r) => phase[r] \in {"idle", "ended"}
    /\ life' = "stopped" /\ opened' = {} /\ UNCHANGED <<starts, admins>>

\* Callers of the SDK and of an agent have no server.
Arrive(r) ==
    /\ Q(r).via = "sdk" \/ (InServer(r) /\ life = "up")
    /\ Begin(r)
    /\ met' = met \cup {{r, q} : q \in {q \in Requests \ {r} : InFlight(q)}}
    /\ UNCHANGED <<lived, early>>

\* It asks the default registry, which another request has not filled yet.
Premature(r) ==
    phase[r] \in {"resolve", "tool"} /\ Discovered(r, "default") /\ registry["default"].loader # None

\* A job is stored over an engine that is opened when it is first needed.
Serve(r) ==
    /\ Progress(r)
    /\ early' = IF Premature(r) THEN early \cup {r} ELSE early
    /\ opened' = IF jobs' # jobs THEN opened \cup {"engine"} ELSE opened
    /\ UNCHANGED <<life, starts, admins, met>>

Store(r)   == BackendStep(r) /\ UNCHANGED <<registry, served, lived, met, early>>
Lose(r)    == /\ phase[r] \in {"lookup", "ensure", "upsert", "answer"} /\ Outage(r)
              /\ UNCHANGED <<registry, served, lived, met, early>>
Leave(r)   == Disconnect(r) /\ UNCHANGED <<lived, met, early>>
Changes    == Edit /\ UNCHANGED <<lived, met, early>>
LifeCycle  ==
    \/ (CreateApp \/ Shutdown) /\ UNCHANGED <<registry, backends, served, met, early>>
    \/ Startup /\ UNCHANGED <<registry, stores, call, effects, served, met, early>>

Next ==
    /\ \/ LifeCycle \/ Changes
       \/ \E r \in Requests : Arrive(r) \/ Serve(r) \/ Store(r) \/ Lose(r) \/ Leave(r)
    /\ UNCHANGED fixed

\* Tasks and threads run, and the stores answer or fail: of a request, one at a time.
Works(r) == (Serve(r) \/ Store(r)) /\ UNCHANGED fixed
Spec == PlatformInit /\ [][Next]_vars /\ \A r \in Requests : WF_vars(Works(r))

-----------------------------------------------------------------------------
(* Properties *)

Vendors == {"pgvector", "qdrant", "langchain", "files"}
Modelled(r) == call[r].via \in Vendors
Held(via, c) ==
    CASE via = "pgvector"  -> pg.rows[c]
      [] via = "qdrant"    -> qd.rows[c]
      [] via = "langchain" -> lc.rows[c]
      [] via = "files"     -> tv[c].rows

Together(r, q) == {r, q} \in met
Same(r, q)     == request[r].collection = request[q].collection
Overlapped(r)  == \E q \in Requests : Together(r, q) /\ Same(r, q)
Done(r)        == phase[r] = "ended" /\ reply[r].status \in {"200", "done"}

\* Somebody else changed the collection of r after r was there.
Acts(r) == {i \in DOMAIN effects : effects[i].by = r}
Later(r) == \E i \in DOMAIN effects \ Acts(r) :
    /\ effects[i].what \notin {"listed", "searched"} /\ effects[i].via = call[r].via /\ Same(r, effects[i].by)
    /\ \E j \in Acts(r) : i > j

\* What the process holds and what the stores hold. Records have a collection, of
\* their width: but for the records of PostgreSQL whose collection was made or dropped
\* while they were on their way. A client of Qdrant outlives its request after an
\* ingest only; the engine and the cache of the answers are open while the
\* application is up, which happens once.
PlatformInv ==
    /\ life \in {"new", "created", "up", "stopped", "broken"}
    /\ life = "up" => starts = 1
    /\ opened # {} => life = "up"
    /\ admins \in {0, 1} /\ (life = "up" /\ site.db = "migrate" => admins = 1)
    /\ \A c \in Collections :
         /\ pg.rows[c] # {} => pg.schema /\ pg.width[c] # 0
         /\ \A x \in pg.rows[c] : x.width # pg.width[c] =>
              \E r, q \in Requests : Together(r, q) /\ Same(r, q) /\ request[r].collection = c
         /\ \A x \in qd.rows[c] : x.width = qd.width[c]
    /\ \A r \in clients : request[r].kind # "ingest" => phase[r] = "answer"
    /\ \A r \in Requests : registry["runtime"].loader = r => phase[r] = "registry"

\* A deletion that succeeded leaves nothing of its source but what was written since,
\* and tells how much it removed; unless Qdrant's count, or the old TurboVec files,
\* had company.
DeleteHolds(r) ==
    request[r].kind = "delete" /\ Done(r) /\ Acts(r) # {} =>
        \E i \in Acts(r) :
          LET left == Of(Held(call[r].via, Coll(r)), Q(r).source)
          IN  /\ left = {} \/ (call[r].via = "files" /\ Overlapped(r))
                 \/ \E j \in DOMAIN effects : /\ j > i /\ effects[j].what = "wrote"
                                              /\ effects[j].via = call[r].via /\ Same(r, effects[j].by)
              /\ reply[r].n = effects[i].n \/ (call[r].via = "qdrant" /\ Overlapped(r))

\* All records of an ingest are in the store; or none is its own, as the store knew the
\* fingerprint. Plugins of others do not say what they know.
SameHash(r) == \E i \in DOMAIN effects : effects[i].what = "wrote" /\ hash[effects[i].by] = hash[r]
Whole(r) ==
    accepted[r] = Rows(r, hash[r]) \/ (accepted[r] = {} /\ (Via(r) \in Vendors => SameHash(r)))
AnswerLost(r) == call[r].op = "upsert" /\ ~Out(r).ok /\ Out(r).why \in {"uncertain", "connection"}

\* What an ingest was told is stored is in the store until somebody else changes the
\* collection, whatever becomes of its later batches, of the graph and of its client.
\* One that succeeded reports how much that is, and it is everything or, where the
\* fingerprint was met, nothing. One that failed is not rolled back: it has left the
\* batches it was told of, and no other but one whose answer was lost.
IngestHolds(r) ==
    request[r].kind = "ingest" =>
        /\ Modelled(r) /\ ~Later(r) => accepted[r] \subseteq Held(call[r].via, Coll(r))
        /\ Done(r) => Whole(r) /\ reply[r].n = Cardinality(accepted[r])
        /\ phase[r] = "ended" /\ ~Done(r) /\ reply[r].status # "closed" =>
             \A i \in Acts(r) :
                 effects[i].rows \subseteq accepted[r] \/ (AnswerLost(r) /\ effects[i].rows = call[r].rows)

\* The graph has the texts of the ingests that asked for it, once they are in the store
\* or known there; when they end, of those that succeeded and of no other: an ingest whose
\* graph failed has failed, and one that skips its vectors afterwards still writes the graph.
GraphHolds(r) ==
    LET mine == {g \in graph : g[1] = r}
    IN  /\ mine # {} => request[r].kind = "ingest" /\ Whole(r)
        /\ phase[r] = "ended" /\ request[r].kind = "ingest" =>
             mine = IF Done(r) /\ Q(r).graph = "directory" /\ doc[r] # "blank" THEN {<<r, doc[r]>>} ELSE {}

\* A listing that succeeded adds up, and says what is there until it changes; unless
\* its two statements over LangChain's tables had company.
ListHolds(r) ==
    request[r].kind = "list" /\ Done(r) /\ Modelled(r) =>
        /\ reply[r].n = FoldSet(LAMBDA g, sum : g.n + sum, 0, reply[r].list)
             \/ (call[r].via = "langchain" /\ Overlapped(r))
        /\ reply[r].list = Grouped(Held(call[r].via, Coll(r))) \/ Later(r) \/ Overlapped(r)

\* A search that succeeded found what its filter means, among what is there until it
\* changes: in PostgreSQL if the filter is one a request can carry, and in each store
\* for the rows that have the fields it names, of the type it asks for.
SearchHolds(r) ==
    request[r].kind = "search" /\ Done(r) /\ Modelled(r) /\ ~Later(r) =>
        LET filter == Q(r).filter
        IN  \A x \in Held(call[r].via, Coll(r)) :
              IF filter = None THEN x.id \in reply[r].list
              ELSE Plain(Metadata(x), filter) \/ (call[r].via = "pgvector" /\ InServer(r)) =>
                     (x.id \in reply[r].list <=> Matches(Metadata(x), filter))

\* A parser that is refused would be refused with everything discovered: unless it was
\* asked for while another request was filling the registry, which takes a thread.
ParserHolds(r) ==
    /\ r \in early => \E q \in Requests : Together(r, q) /\ (Threaded(q) \/ Threaded(r))
    /\ phase[r] = "ended" /\ parser[r] = None /\ r \notin early =>
        CASE Q(r).kind = "tool" ->
               Done(r) \/ ~\E i \in DOMAIN site.entryPoints :
                   LET e == site.entryPoints[i] IN e.group = "parsers" /\ e.name = Q(r).parser /\ e.loads
          [] Q(r).kind \in {"ingest", "parse"} /\ InServer(r) /\ reply[r].status # "closed" ->
               "refused" \in DOMAIN ResolvePlugins(Q(r))
          [] OTHER -> TRUE

\* A plugin that was asked is one the process and the tenant allow, and official plugins
\* are what they were built to be. The deprecated paths ask no policy, neither of the
\* process nor of the tenant: all that is so of them is that only requests take them
\* which chose no plugin, and that they lead to LangChain's tables or to the old files.
StoreHolds(r) ==
    LET via == call[r].via
    IN  call[r].op # None =>
        IF Deprecated(r)
        THEN Q(r).kind \in {"ingest", "delete", "list"} /\ Q(r).store = None /\ via \in {"langchain", "files"}
        ELSE /\ via \notin site.disabled /\ (site.vectorstores = None \/ via \in site.vectorstores)
             /\ site.policies # None =>
                  /\ Q(r).tenant \in DOMAIN Policies(site)
                  /\ LET mine == Policies(site)[Q(r).tenant]
                     IN  "vectorstores" \in DOMAIN mine => via \in mine.vectorstores
             /\ <<"vectorstore", via>> \in Official =>
                  known.catalog[<<"vectorstore", via>>].target = <<"vectorstore", via>>

RepliesHold == \A r \in Requests :
    DeleteHolds(r) /\ IngestHolds(r) /\ GraphHolds(r) /\ ListHolds(r) /\ SearchHolds(r) /\ ParserHolds(r)
    /\ StoreHolds(r)

\* Every request that arrived is answered, or its client has left: a request arrives
\* once, so there are always times when none is under way.
RequestsEnd == []<>(\A r \in Requests : phase[r] \in {"idle", "ended"})
=============================================================================
