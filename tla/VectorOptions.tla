---------------------------- MODULE VectorOptions ----------------------------
(***************************************************************************)
(* Which vector store a request means, and with which options: the legacy  *)
(* fields of the request and of the settings, and the envelope             *)
(* [provider, options] that replaces them (docpipe.config.compatibility,   *)
(* docpipe.server.request_mapping, docpipe.ingestion.composition).         *)
(* Operators only. An option that is not given is None.                    *)
(***************************************************************************)
EXTENDS PluginCatalog

CONSTANT DefaultRoot  \* .docpipe/indices

LegacyBackends == {"pgvector", "turbovec"}

\* The legacy fields, by the name of the option they became.
FieldOf == [dsn |-> "connection_string", collection |-> "table_name",
            index_root |-> "turbovec_index_dir", bit_width |-> "turbovec_bit_width"]

LegacyOptions(provider, q, site) ==
    CASE provider = "pgvector" ->
           ("collection" :> q.collection) @@ (IF q.dsn = None THEN <<>> ELSE "dsn" :> q.dsn)
      [] provider = "turbovec" ->
           [index_root |-> IF q.index = None THEN DefaultRoot ELSE q.index,
            collection |-> q.collection, bit_width |-> site.bit_width]
      [] OTHER -> [collection |-> q.collection]

\* The options that contradict a legacy field that was given explicitly.
Conflicts(legacy, overrides, explicit) ==
    {o \in DOMAIN overrides : /\ o \in DOMAIN FieldOf /\ FieldOf[o] \in explicit
                              /\ o \in DOMAIN legacy /\ legacy[o] # overrides[o]}

ResolveVectorOptions(provider, q, site, namespaced, explicit) ==
    LET selected  == IF namespaced # None THEN namespaced.provider
                     ELSE IF provider # None THEN provider ELSE "pgvector"
        overrides == IF namespaced # None THEN namespaced.options ELSE <<>>
        legacy    == LegacyOptions(selected, q, site)
    IN  IF \/ provider # None /\ "vector_backend" \in explicit /\ provider # selected
           \/ Conflicts(legacy, overrides, explicit) # {}
        THEN None
        ELSE [provider |-> selected, options |-> overrides @@ legacy]

Backend(q, site) == IF q.backend = None THEN site.backend ELSE q.backend

\* What the request selects; None is a ConfigurationError.
Namespaced(q, site) ==
    IF q.store # None THEN q.store
    ELSE IF "vector_backend" \in q.explicit THEN None ELSE site.store

VectorFields(q, site) ==
    IF q.backend \notin LegacyBackends \cup {None} THEN None
    ELSE ResolveVectorOptions(Backend(q, site), q, site, Namespaced(q, site), q.explicit)

\* What the plugin of an ingest or a search gets: the fields are in a configuration
\* of their own by then, where every one of them is explicit.
AllFields == {"vector_backend"} \cup {FieldOf[o] : o \in DOMAIN FieldOf}
VectorPluginConfig(q, site) ==
    LET fields == VectorFields(q, site)
        backend == IF fields.provider \in LegacyBackends THEN Backend(q, site) ELSE None
    IN  IF fields = None THEN None
        ELSE ResolveVectorOptions(backend, q, site, fields, AllFields)

\* A delete or a listing without a selection takes the deprecated path.
Selected(q, site) == Namespaced(q, site) # None

\* The factory of a plugin wants its options complete.
CreatesPgVector(options) == "dsn" \in DOMAIN options
CreatesQdrant(options) ==
    "api_key" \notin DOMAIN options /\ Cardinality({"url", "location"} \cap DOMAIN options) = 1
Creates(config) ==
    /\ config.provider = "pgvector" => CreatesPgVector(config.options)
    /\ config.provider = "qdrant" => CreatesQdrant(config.options)
=============================================================================
