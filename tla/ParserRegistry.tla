---------------------------- MODULE ParserRegistry ----------------------------
(***************************************************************************)
(* The registries of the parsers and chunkers that are installed           *)
(* (docpipe.registry): the process default, which the guardrails and the   *)
(* tools of an agent ask, and the one of the server's runtime. Each finds  *)
(* its entry points when it is first asked, and says it has found them     *)
(* before it has: another thread sees what is there so far.                *)
(***************************************************************************)
EXTENDS PluginCatalog

CONSTANTS
    Requests,
    Plays  \* BOUND: what may be installed, and asked for: [site, request, content, edits]

\* What is installed comes in sequences; a tenant's list of plugins is one, a policy is
\* a record, and a refusal is a status.
ASSUME SiteAssumption ==
    /\ None \notin {"400", "422"} /\ None # {}
    /\ \A p \in DOMAIN Plays :
         LET s == Plays[p].site
         IN  /\ s.entryPoints \in Seq({s.entryPoints[i] : i \in DOMAIN s.entryPoints}) /\ Len(s.dists) \in Nat
             /\ \A i \in 1 .. Len(s.dists) : Len(s.dists[i].entries) \in Nat
             /\ \A t \in DOMAIN Policies(s) : \A group \in DOMAIN Policies(s)[t] : Policies(s)[t][group] # None
             /\ \A r \in Requests : TenantPolicy(s, Plays[p].request[r].tenant) = None => s.policies = None

VARIABLES
    site,     \* what is installed, and the settings
    request,  \* what each request asks for
    known,    \* the catalog that discovery came to
    registry  \* of each: whether discovery started, who runs it, what is left, what is loaded

fixed == <<site, request, known>>

\* build_runtime discovers the plugins, once.
FixedInit(play) == site = play.site /\ request = play.request /\ known = Discover(play.site)

Registries == {"default", "runtime"}

\* A tool of an agent runs in a thread of its own; everything else on the event loop,
\* where nothing else runs while the modules of the entry points are imported.
Threaded(r) == request[r].kind = "tool"
Runs(r) == Threaded(r) \/ \A id \in Registries, q \in Requests \ {r} :
               registry[id].loader = q => Threaded(q)

RegistryInit == registry = [id \in Registries |->
    [started |-> FALSE, loader |-> None, todo |-> <<>>, loaded |-> {}]]

Start(r, id) ==
    /\ ~registry[id].started
    /\ registry' = [registry EXCEPT ![id].started = TRUE, ![id].todo = site.entryPoints,
                        ![id].loader = IF site.entryPoints = <<>> THEN None ELSE r]

\* One entry point: a name that is taken is passed over, an import that fails is logged.
LoadEntry(r, id) ==
    /\ registry[id].loader = r
    /\ LET e == Head(registry[id].todo)
           taken == \E p \in registry[id].loaded : p.group = e.group /\ p.name = e.name
       IN  registry' = [registry EXCEPT ![id].todo = Tail(@),
               ![id].loader = IF Len(registry[id].todo) = 1 THEN None ELSE @,
               ![id].loaded = IF taken \/ ~e.loads THEN @
                              ELSE @ \cup {[group |-> e.group, name |-> e.name, available |-> e.available]}]

EnsureDiscovered(r, id) == Start(r, id) \/ LoadEntry(r, id)

\* r does not wait for another one's discovery.
Discovered(r, id) == registry[id].started /\ registry[id].loader # r

Has(id, group, name) == \E p \in registry[id].loaded : p.group = group /\ p.name = name

-----------------------------------------------------------------------------
(* docpipe.parsers.router *)

TierParsers == [ fast     |-> <<"markitdown", "pymupdf">>,
                 balanced |-> <<"docling">>,
                 quality  |-> <<"mineru", "paddleocr", "glm-ocr", "docling">> ]

ExtensionHints == [ pdf  |-> <<"pymupdf", "docling", "mineru", "markitdown">>,
                    docx |-> <<"markitdown", "docling", "unstructured">>,
                    html |-> <<"markitdown", "docling">>,
                    png  |-> <<"glm-ocr", "docling">>,
                    txt  |-> <<>> ]

\* The parsers of the default registry that could run, by their place in its order.
Usable == {i \in DOMAIN site.entryPoints :
    LET e == site.entryPoints[i] IN e.group = "parsers" /\ e.available /\ Has("default", "parsers", e.name)}

\* None: no parser is available.
ResolveParser(name, tier, suffix) ==
    LET hints  == ExtensionHints[suffix] \o TierParsers[tier]
        wanted == {n \in DOMAIN hints : \E i \in Usable : site.entryPoints[i].name = hints[n]}
    IN  IF name # "auto" THEN name
        ELSE IF wanted # {} THEN hints[Min(wanted)]
        ELSE IF Usable # {} THEN site.entryPoints[Min(Usable)].name ELSE None

-----------------------------------------------------------------------------
(* docpipe.profiles.presets, docpipe.server.plugin_requests *)

Presets == [ fast     |-> [parser |-> "auto", tier |-> "fast", chunker |-> "recursive"],
             balanced |-> [parser |-> "auto", tier |-> "balanced", chunker |-> "semchunk"],
             quality  |-> [parser |-> "auto", tier |-> "quality", chunker |-> "chonkie-semantic"] ]

\* What is given explicitly, then the preset, then the default of the server.
Field(q, f) ==
    IF f \in q.explicit THEN q[f]
    ELSE IF q.preset # None THEN Presets[q.preset][f]
    ELSE IF q[f] = None THEN site.defaults[f] ELSE q[f]

Guarded(q, group, name) ==
    AssertPluginAllowed(site, q.tenant, group, name, registry["default"].loaded)

\* The parser of a request, or how it is refused.
ResolvePlugins(q) ==
    LET parser  == Field(q, "parser")
        name    == ResolveParser(parser, Field(q, "tier"), q.suffix)
        wrong   == /\ parser # "auto" /\ Guarded(q, "parsers", parser) # "ok"
        chunked == q.kind = "ingest" /\ Guarded(q, "chunkers", Field(q, "chunker")) # "ok"
    IN  IF q.preset \notin DOMAIN Presets \cup {None} \/ wrong \/ chunked THEN [refused |-> "422"]
        ELSE IF name = None THEN [refused |-> "500"]
        ELSE IF Guarded(q, "parsers", name) # "ok" THEN [refused |-> "400"] ELSE [parser |-> name]
=============================================================================
