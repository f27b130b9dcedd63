---------------------------- MODULE PluginCatalog ----------------------------
(***************************************************************************)
(* Which plugins a process knows and which of them it lets a request use:  *)
(* docpipe.plugins (discovery, manifest, catalog, policy, loader), the     *)
(* policies of the settings, and the guardrails of docpipe.profiles, which *)
(* read the same settings in their own way. Operators only: a site is what *)
(* is installed and how it is configured.                                  *)
(***************************************************************************)
EXTENDS Integers, Sequences, SequencesExt

CONSTANTS None, Broken  \* Broken: a text that does not parse

Api == 1  \* the plugin API of this build

Needs ==  \* what the official plugins import
    [ pgvector |-> {"langchain_postgres", "psycopg2"}, turbovec |-> {"turbovec"},
      qdrant |-> {"qdrant_client"}, local |-> {}, http |-> {"httpx"}, s3 |-> {"boto3"} ]

Official == ({"vectorstore"} \X {"pgvector", "turbovec", "qdrant"})
              \cup ({"source"} \X {"local", "http", "s3"})

Registration(dist, target, min, max, reason) ==
    [dist |-> dist, target |-> target, min |-> min, max |-> max,
     available |-> reason = None, reason |-> reason]

Builtins(site) ==
    [k \in Official |-> Registration("docpipe-sdk", k, Api, Api,
        IF Needs[k[2]] \subseteq site.packages THEN None ELSE "missing optional dependency")]

-----------------------------------------------------------------------------
(* Discovery *)

\* An entry that only repeats what is built in.
SelfRegistration(d, e) == d.name = "docpipe-sdk" /\ e.key \in Official /\ e.target = e.key

\* A manifest is a sequence of [key, min, max]; it describes each plugin once.
ParsedManifest(d) ==
    IF d.manifest = Broken THEN None
    ELSE LET named == {d.manifest[i].key : i \in DOMAIN d.manifest}
         IN  IF Cardinality(named) = Len(d.manifest) /\ \A i \in DOMAIN d.manifest :
                    d.manifest[i].min <= d.manifest[i].max
             THEN [k \in named |-> (CHOOSE i \in DOMAIN d.manifest : d.manifest[i].key = k)]
             ELSE None

Supports(reg) == reg.min <= Api /\ Api <= reg.max

Described(d, e) ==
    LET entry == ParsedManifest(d)
    IN  IF e.key \notin DOMAIN entry THEN Registration(d.name, e.target, Api, Api, None)
        ELSE LET m == d.manifest[entry[e.key]]
             IN  Registration(d.name, e.target, m.min, m.max,
                              IF Supports(m) THEN None ELSE "incompatible plugin API")

\* An entry that is ill-formed, or already known, ends the discovery as a whole.
AddEntry(found, d, e) ==
    IF found.failed # None \/ SelfRegistration(d, e) THEN found
    ELSE IF ~e.wellFormed THEN [found EXCEPT !.failed = "ValueError"]
    ELSE IF e.key \in DOMAIN found.catalog THEN [found EXCEPT !.failed = "conflict"]
    ELSE LET reg == Described(d, e)
         IN  [found EXCEPT !.catalog = [k \in DOMAIN @ \cup {e.key} |-> IF k = e.key THEN reg ELSE @[k]],
                           !.issues = IF reg.available THEN @ ELSE Append(@, "plugin_api_incompatible")]

RegisterDistribution(found, d) ==
    LET added[n \in 0 .. Len(d.entries)] == IF n = 0 THEN found ELSE AddEntry(added[n - 1], d, d.entries[n])
    IN  IF found.failed # None \/ \A i \in DOMAIN d.entries : SelfRegistration(d, d.entries[i]) THEN found
        ELSE IF ParsedManifest(d) = None THEN [found EXCEPT !.issues = Append(@, "plugin_manifest_invalid")]
        ELSE added[Len(d.entries)]

Discover(site) ==
    LET nothing == [catalog |-> Builtins(site), issues |-> <<>>, failed |-> None]
        found[n \in 0 .. Len(site.dists)] ==
          IF n = 0 THEN nothing ELSE RegisterDistribution(found[n - 1], site.dists[n])
    IN  found[Len(site.dists)]

-----------------------------------------------------------------------------
(* Policy *)

EvaluateScope(k, reg, policy) ==
    IF k[2] \in policy.deny THEN "denied"
    ELSE IF policy.allow[k[1]] # None /\ k[2] \notin policy.allow[k[1]] THEN "not-allowlisted"
    ELSE IF reg.available THEN "allowed" ELSE "unavailable"

\* The process decides first: a tenant's policy only narrows.
EvaluatePolicy(k, reg, process, tenant) ==
    LET decision == EvaluateScope(k, reg, process)
    IN  IF decision # "allowed" \/ tenant = None THEN decision ELSE EvaluateScope(k, reg, tenant)

\* A list in the settings is None or a set; the empty text is the empty set here,
\* which allows nothing ...
ProcessPolicy(site) ==
    [deny |-> site.disabled, allow |-> [source |-> site.sources, vectorstore |-> site.vectorstores]]

\* The policies of the tenants that are well-formed.
Policies(site) == IF site.policies \in {None, Broken} THEN <<>> ELSE site.policies

TenantPolicy(site, tenant) ==
    LET known == tenant \in DOMAIN Policies(site)
        Listed(group) == IF ~known THEN {}
                         ELSE IF group \in DOMAIN Policies(site)[tenant] THEN Policies(site)[tenant][group]
                         ELSE None
    IN  IF site.policies = None THEN None
        ELSE [deny |-> {}, allow |-> [source |-> Listed("sources"), vectorstore |-> Listed("vectorstores")]]

LoadPlugin(catalog, k, process, tenant, site) ==
    IF k \notin DOMAIN catalog THEN "PluginNotFoundError"
    ELSE LET reg == catalog[k]  decision == EvaluatePolicy(k, reg, process, tenant)
         IN  IF decision = "unavailable" /\ reg.reason = "missing optional dependency" THEN "PluginDependencyError"
             ELSE IF decision # "allowed" \/ ~Supports(reg) THEN "PluginPolicyError"
             ELSE IF reg.target \in site.unloadable THEN "PluginDependencyError" ELSE "loaded"

-----------------------------------------------------------------------------
(* Guardrails of the plugins that are not in the catalog: parsers, chunkers *)

\* ... and which allows everything here.
ParseCsv(raw) == IF raw = {} THEN None ELSE raw

EnabledPlugins(site, tenant, group) ==
    CASE site.policies # None /\ tenant \notin DOMAIN Policies(site) -> {}
      [] tenant \in DOMAIN Policies(site) /\ group \in DOMAIN Policies(site)[tenant] ->
           ParseCsv(Policies(site)[tenant][group])
      [] OTHER -> ParseCsv(site[group])

IsPluginAllowed(site, tenant, group, name) ==
    /\ name \notin site.disabled
    /\ LET allow == EnabledPlugins(site, tenant, group) IN allow = None \/ name \in allow

\* registered: the plugins [group, name, available] some registry knows.
AssertPluginAllowed(site, tenant, group, name, registered) ==
    LET this == {p \in registered : p.group = group /\ p.name = name}
    IN  IF this = {} THEN "unknown"
        ELSE IF ~IsPluginAllowed(site, tenant, group, name) THEN "disabled"
        ELSE IF \E p \in this : ~p.available THEN "unavailable" ELSE "ok"
=============================================================================
