----------------------------- MODULE MCPlatform -----------------------------
EXTENDS Platform

CONSTANTS r1, r2, r3

MCPages(s, t) ==
    LET base == IF s = "s" THEN 0 ELSE 10
    IN  CASE t = "a" -> {base + 1, base + 2} [] t = "b" -> {base + 2, base + 3} [] t = "mixed" -> 21 .. 25
          [] OTHER -> {}

\* Pages have numbers; what an extractor found may be called a page too.
MCAttributes(id) ==
    CASE id = 22 -> "page" :> Value("int", 2) [] id = 23 -> "page" :> Words("ii")
      [] id = 24 -> "page" :> Value("digits", 2) [] id = 25 -> "page" :> Null
      [] OTHER -> <<>>

-----------------------------------------------------------------------------
(* What is installed *)

EP(group, name) == [group |-> group, name |-> name, loads |-> TRUE, available |-> TRUE]
Dist(key, target) ==
    [name |-> "ext", entries |-> <<[key |-> key, target |-> target, wellFormed |-> TRUE]>>, manifest |-> <<>>]
Milvus == <<"vectorstore", "milvus">>

Site ==
    [ packages |-> {"langchain_postgres", "psycopg2", "turbovec", "qdrant_client", "httpx"}, dists |-> <<>>,
      disabled |-> {}, sources |-> None, vectorstores |-> None, parsers |-> None, chunkers |-> None,
      policies |-> None, identities |-> {}, mcp |-> FALSE, mcpTenant |-> None, unloadable |-> {},
      bit_width |-> 4, backend |-> "pgvector", store |-> None, foundation |-> TRUE, caches |-> FALSE,
      facets |-> {"ingest", "delete", "search"}, directory |-> "none", db |-> "off", auth |-> "off",
      ragCache |-> "off", defaults |-> [parser |-> "docling", tier |-> "balanced", chunker |-> "semchunk"],
      entryPoints |-> <<EP("parsers", "docling"), EP("chunkers", "semchunk")>> ]

(* What is asked *)

Envelope(p) ==
    [provider |-> p, options |-> CASE p = "pgvector" -> "dsn" :> "db"
                                   [] p = "qdrant" -> "url" :> "u" [] OTHER -> <<>>]
Asked ==
    [ kind |-> "ingest", via |-> "server", tenant |-> None, source |-> "s", collection |-> "c", suffix |-> "pdf",
      explicit |-> {}, preset |-> None, parser |-> None, tier |-> None, chunker |-> None, backend |-> None,
      store |-> None, dsn |-> "db", index |-> None, width |-> 2, batch |-> 64, incremental |-> FALSE, closed |-> FALSE,
      graph |-> "none", stream |-> FALSE, filter |-> None, contains |-> FALSE ]
Ingest(p)    == [Asked EXCEPT !.store = IF p = None THEN None ELSE Envelope(p)]
Wide(q)      == [q EXCEPT !.width = 3]
Again(q)     == [q EXCEPT !.incremental = TRUE]
Streamed(q)  == [q EXCEPT !.stream = TRUE]
Paged(q)     == [q EXCEPT !.batch = 1]
Drawn(q)     == [q EXCEPT !.graph = "directory"]
Sdk(q)       == [q EXCEPT !.via = "sdk"]
Kind(k, q)   == [q EXCEPT !.kind = k]
Old(k)       == [Asked EXCEPT !.kind = k, !.backend = "turbovec", !.explicit = {"vector_backend"}]
Tool         == [Sdk(Asked) EXCEPT !.kind = "tool", !.parser = "docling"]
Nothing      == [Asked EXCEPT !.via = "nobody"]

Play(s, q, t) == [site |-> s, request |-> (r1 :> q[1]) @@ (r2 :> q[2]) @@ (r3 :> q[3]),
                  content |-> [x \in Sources |-> IF x = "s" THEN t ELSE "a"], edits |-> MaxEdits]
Changing(p) == [p EXCEPT !.edits = 0]

-----------------------------------------------------------------------------
\* Two ingests of different width, a deletion, a drop, a listing: of each store.
Stores ==
    << Play(Site, <<Sdk(Paged(Ingest("pgvector"))), Sdk(Wide(Ingest("pgvector"))), Kind("delete", Ingest("pgvector"))>>, "a"),
      Play(Site, <<Streamed(Paged(Ingest(None))), Sdk(Kind("drop", Ingest("pgvector"))), Kind("list", Ingest("pgvector"))>>, "a"),
      Play(Site, <<Sdk(Paged(Ingest("qdrant"))), Sdk(Wide(Ingest("qdrant"))), Kind("delete", Ingest("qdrant"))>>, "a"),
      Play(Site, <<Sdk(Ingest("qdrant")), Kind("list", Ingest("qdrant")),
                   Sdk([Ingest("qdrant") EXCEPT !.source = "z"])>>, "a"),
      Play(Site, <<Sdk(Kind("drop", Ingest("qdrant"))), Streamed(Again(Paged(Ingest("qdrant")))), Kind("search", Ingest("qdrant"))>>, "b") >>

\* The same sources again, while they change; cached texts; the graph.
Repeats ==
    << Changing(Play([Site EXCEPT !.caches = TRUE, !.db = "migrate", !.ragCache = "memory"],
           <<Again(Paged(Ingest(None))), Sdk([Again(Ingest("pgvector")) EXCEPT !.closed = TRUE]), Nothing>>, "a")),
      Changing(Play([Site EXCEPT !.caches = TRUE], <<Kind("parse", Asked), Kind("parse", Asked), Nothing>>, "a")),
      Play([Site EXCEPT !.db = "lazy"],
           <<Streamed(Drawn(Ingest(None))), [Ingest(None) EXCEPT !.graph = "no directory"], Nothing>>, "a"),
      Play(Site, <<Again(Drawn(Ingest(None))), Again(Drawn(Ingest(None))), Nothing>>, "a") >>

\* The deprecated paths.
Deprecations ==
    << Play([Site EXCEPT !.foundation = FALSE], <<Sdk(Old("ingest")), Sdk(Again(Old("ingest"))), Old("delete")>>, "a"),
      Play([Site EXCEPT !.foundation = FALSE], <<Sdk(Again(Ingest(None))), Kind("list", Asked), Kind("delete", Asked)>>, "a"),
      Play([Site EXCEPT !.foundation = FALSE], <<Ingest(None), Sdk(Ingest("pgvector")), Old("list")>>, "b"),
      Play([Site EXCEPT !.directory = "plugin", !.foundation = FALSE],
           <<Old("delete"), Sdk(Old("ingest")), [Old("delete") EXCEPT !.dsn = None]>>, "a") >>

\* Tools in threads of their own, and a request of the server.
Threads ==
    << Play([Site EXCEPT !.entryPoints = Append(@, EP("parsers", "pymupdf"))], <<Tool, Tool, Kind("parse", Asked)>>, "a") >>

\* Plugins of others, policies, and what the configuration does not allow.
Tenants == "t" :> (("vectorstores" :> {"pgvector"}) @@ ("parsers" :> {"docling"}))
Plugins ==
    << Play([Site EXCEPT !.dists = <<Dist(Milvus, Milvus)>>, !.vectorstores = {"milvus", "pgvector"}],
           <<Again(Ingest("milvus")), Kind("list", Ingest("milvus")), Ingest("qdrant")>>, "a"),
      Play([Site EXCEPT !.dists = <<Dist(<<"vectorstore", "pgvector">>, Milvus)>>],
           <<Ingest(None), Sdk(Ingest(None)), Tool>>, "a"),
      Play([Site EXCEPT !.dists = <<[Dist(Milvus, Milvus) EXCEPT !.manifest = Broken],
                                    [Dist(<<"source", "ftp">>, Milvus) EXCEPT !.manifest =
                                        <<[key |-> <<"source", "ftp">>, min |-> 2, max |-> 3]>>]>>],
           <<Ingest("milvus"), Ingest(None), Nothing>>, "a"),
      Play([Site EXCEPT !.policies = Tenants, !.mcp = TRUE, !.mcpTenant = "t"],
           <<[Ingest(None) EXCEPT !.tenant = "t"], [Ingest("qdrant") EXCEPT !.tenant = "t"],
             [Ingest(None) EXCEPT !.tenant = "u"]>>, "a"),
      Play([Site EXCEPT !.policies = Tenants, !.mcp = TRUE, !.mcpTenant = "u"], <<Ingest(None), Nothing, Nothing>>, "a"),
      Play([Site EXCEPT !.store = Envelope("turbovec"), !.entryPoints = <<EP("chunkers", "semchunk")>>],
           <<Kind("list", Asked), Kind("search", Asked), Ingest(None)>>, "a"),
      Play([Site EXCEPT !.defaults.parser = "auto", !.auth = "password"],
           <<[Asked EXCEPT !.preset = "fast"], [Asked EXCEPT !.preset = "slow"],
             [Kind("parse", Asked) EXCEPT !.preset = "balanced"]>>, "a"),
      Play([Site EXCEPT !.auth = "no password"], <<Ingest(None), Nothing, Nothing>>, "a"),
      Play([Site EXCEPT !.ragCache = "no url"], <<Ingest(None), Nothing, Nothing>>, "a") >>

\* Filters: those a request carries, and others an adapter is given.
TwoPages == Ranges("page", ("gte" :> 1) @@ ("lt" :> 3))
Searching(p, q, filter) == [Kind("search", q) EXCEPT !.filter = filter, !.store = Envelope(p)]
ByServer(p, pairs)      == Play(Site, <<Sdk(Ingest(p)), Searching(p, Asked, TypedFilters(pairs)), Nothing>>, "mixed")
BySdk(p, filter)        == Play(Site, <<Sdk(Again(Ingest(p))), Searching(p, Sdk(Asked), filter), Nothing>>, "mixed")
Filters(p) ==
    << ByServer(p, << <<"page", Value("float", 2)>> >>),
       ByServer(p, << <<"page", Null>>, <<"source", Words("s")>> >>),
       BySdk(p, Not(Equals("page", Value("int", 2)))),
       BySdk(p, And(<<Equals("source", Words("z")), Ranges("page", "lte" :> 2)>>)),
       BySdk(p, Or(<<Not(In("page", {Value("int", 1), Value("int", 2)})), TwoPages>>)) >>

MCPlays == Stores \o Repeats \o Deprecations \o Threads \o Plugins \o Filters("pgvector") \o Filters("qdrant")
=============================================================================
