------------------------------ MODULE RagService ------------------------------
(***************************************************************************)
(* The RAG endpoints of the server: a request passes the rate limiter, the *)
(* tenant middleware and the authentication, is given a cache and runs the *)
(* pipeline.  Calls of the SDK run beside them.                            *)
(***************************************************************************)
EXTENDS AnswerStream, RateLimit

CONSTANTS
    Users,          \* those with valid credentials
    PolicyTenants,  \* the tenants tenant_plugin_policies names
    MayUse,         \* those whose policy allows the vector plugin
    Scenarios,      \* calls, and a server they meet: [ask, settings, backend]
    Origin          \* [Requests -> address]: who really sent a request

\* The answers of the key-value cache are the server's.
ASSUME ScenariosAssumption ==
    \A s \in Scenarios :
        /\ s.backend \in {"disabled", "memory", "redis"} /\ s.settings.time \in Nat
        /\ \A r \in Requests : /\ s.ask[r].home = "server" => s.ask[r].kind = Path[r]
                               /\ s.ask[r].strategy \in Registered
                               /\ s.ask[r].question \in DOMAIN Score
                               /\ s.ask[r].cache \in {"off", "similar"}

VARIABLE settings
    \* auth: authentication is on; identities: tenant_identity_map; policies: tenant
    \* policies are set; and the bounds: it stops, a source is ingested, the last instant

fixed == <<ask, settings, backend>>
vars  == <<fixed, via, now, limiter, caches, pipeline, stream>>

Init ==
    /\ \E s \in Scenarios : ask = s.ask /\ settings = s.settings /\ backend = s.backend
    /\ now = 0
    /\ LimiterInit /\ CacheInit /\ PipelineInit /\ StreamInit

User(r) == ask[r].user
TenantScoped == settings.policies \/ DOMAIN settings.identities # {}
Verified(r) == User(r) \in Users
Identified(r) == TenantScoped /\ settings.auth /\ Verified(r)

\* TenantContextMiddleware: a verified user without a configured tenant is refused;
\* other credentials are left to the authentication, without a tenant.
Forbidden(r) ==
    /\ Identified(r)
    /\ ~( /\ User(r) \in DOMAIN settings.identities
          /\ settings.policies => settings.identities[User(r)] \in PolicyTenants )

Unauthorized(r) == settings.auth /\ ~Verified(r)

Tenant(r) == IF Identified(r) THEN settings.identities[User(r)] ELSE None

Cache(r) ==
    IF ask[r].home = "sdk" THEN ask[r].cache
    ELSE IF /\ ask[r].kind = "query" /\ backend # "disabled" /\ app = "active"
            /\ TenantScoped => Tenant(r) # None
         THEN "kv" ELSE "off"

\* load_plugin: where policies are set, a tenant must be allowed the plugin.
Permitted(r) == ask[r].home = "sdk" \/ (settings.policies => via[r].tenant \in MayUse)

Refuse(r, status) ==
    /\ Result(r, status, None)
    /\ Goto(r, "ended")
    /\ UNCHANGED <<fixed, via, now, caches, app, rows, work, scope, runtime>>

Receive(r) ==
    /\ ask[r].home = "server" /\ pc[r] = "idle" /\ UNCHANGED stream
    /\ \/ (RefuseCapacity(r) \/ RefuseRate(r)) /\ Refuse(r, "limited")
       \/ Admit(r) /\ Forbidden(r) /\ Refuse(r, "forbidden")
       \/ Admit(r) /\ ~Forbidden(r) /\ Unauthorized(r) /\ Refuse(r, "unauthorized")
       \/ /\ Admit(r) /\ ~Forbidden(r) /\ ~Unauthorized(r)
          /\ Begin(r, Cache(r), Tenant(r))
          /\ UNCHANGED <<fixed, now>>

Call(r) ==
    /\ ask[r].home = "sdk" /\ pc[r] = "idle"
    /\ Begin(r, Cache(r), None)
    /\ UNCHANGED <<fixed, now, limiter, stream>>

Work(r) ==
    /\ IF pc[r] = "build" /\ ~Permitted(r) THEN Fail(r) ELSE Step(r)
    /\ UNCHANGED <<fixed, via, now, limiter, stream>>

\* The consumer of a stream of the server is at the other end of a connection.
Consume(r) ==
    /\ Finalize(r) \/ (~Streams(r) /\ Consumer(r))
    /\ UNCHANGED <<fixed, via, now, limiter, stream>>

Deliver(r) == (Yield(r) \/ Iterate(r) \/ Wanders(r)) /\ UNCHANGED <<fixed, via, now, limiter>>

Surroundings ==
    /\ \/ settings.stops /\ Shutdown                      \* BOUND: a choice of scenarios
       \/ settings.ingests /\ \E s \in Sources : Ingest(s)  \* BOUND
    /\ UNCHANGED <<fixed, via, now, limiter, stream>>

Tick ==
    /\ now < settings.time  \* BOUND
    /\ now' = now + 1
    /\ UNCHANGED <<fixed, via, limiter, caches, pipeline, stream>>

Next ==
    \/ \E r \in Requests : Receive(r) \/ Call(r) \/ Work(r) \/ Consume(r) \/ Deliver(r)
    \/ Surroundings \/ Tick

\* A call that can go on does, a response is sent, and a read of the client returns or
\* times out; consumers, callers and the clock owe nothing.
Responds(r) == (Yield(r) \/ Iterate(r)) /\ UNCHANGED <<fixed, via, now, limiter>>
Spec == Init /\ [][Next]_vars /\ \A r \in Requests : WF_vars(Work(r)) /\ WF_vars(Responds(r))

-----------------------------------------------------------------------------
(* Properties *)

\* The types, and the limits of the caches under any order of their calls.
RagInv ==
    /\ app \in {"active", "draining", "closed"}
    /\ \A r \in Requests :
         /\ scope[r] \in {"none", "open", "released"} /\ runtime[r] \in {"none", "open", "closed"}
         /\ work[r].strategy \in Registered \cup {"none"} /\ work[r].tokens \in 0 .. MaxTokens
    /\ \A i, j \in DOMAIN entries : entries[i].key = entries[j].key => i = j
    /\ backend = "memory" => Len(entries) <= MaxEntries
    /\ Len(similar) <= MaxSimilar
    /\ \A r \in Requests : stream[r].link \in {"up", "cut", "left"} /\ stream[r].sent \in 0 .. MaxTokens

\* A client is admitted at most Limit times to a path in any closed window, whatever
\* the proxies between and the entries it adds to the forwarded chain itself.
QuotaHolds ==
    \A r \in Requests : Admitted(r) =>
        Cardinality({q \in Requests : /\ Admitted(q) /\ Origin[q] = Origin[r] /\ Path[q] = Path[r]
                                      /\ hit[q].at \in hit[r].at .. hit[r].at + Window}) <= Limit

\* A refusal has a cause: the client's own admissions to that path within the window,
\* or a table full of other clients and other paths, this client's among them, that
\* had admissions within it while this one had none.
RefusalExplained ==
    \A r \in Requests :
        LET recent == {q \in Requests : Admitted(q) /\ hit[q].at \in hit[r].at - Window .. hit[r].at}
            own    == {q \in recent : Origin[q] = Origin[r] /\ Path[q] = Path[r]}
        IN  CASE hit[r].outcome = "exceeded" -> Cardinality(own) >= Limit
              [] hit[r].outcome = "capacity" ->
                   /\ own = {}
                   /\ Cardinality({<<Origin[q], Path[q]>> : q \in recent}) >= MaxBuckets
              [] OTHER -> TRUE

\* The two sides of what the limiter decides.
LimiterHolds == QuotaHolds /\ RefusalExplained

\* A cached answer was computed for the same tenant, configuration and question (in the
\* similarity list: for a similar one) and stored less than its lifetime ago.
CachedAnswersAreOwn ==
    \A r \in Requests : result[r].status = "hit" =>
        LET by == result[r].by
        IN  IF via[r].cache = "kv"
            THEN /\ User(r) # User(by) => ~TenantScoped \/ settings.identities[User(r)] = settings.identities[User(by)]
                 /\ ask[by].strategy = ask[r].strategy /\ ask[by].question = ask[r].question
                 /\ result[by].at <= result[r].at /\ result[r].at < result[by].at + TTL
            ELSE ask[r].question = ask[by].question \/ <<ask[r].question, ask[by].question>> \in Similar

\* A call that ended left no operation scope and no runtime of its own open, and a
\* call that was answered from a cache never opened a scope.
EndedMeansReleased ==
    \A r \in Requests :
        /\ pc[r] = "ended" => scope[r] # "open" /\ runtime[r] # "open"
        /\ result[r].status = "hit" => scope[r] = "none"

\* The context holds what it should: every chunk left out has TopK chunks, or
\* MaxPerSource of its own source, in front of it; merged searches score a chunk
\* with the best they found and put the best in front.
ContextBest ==
    \A r \in Requests :
        LET w == work[r]
            Ahead(i) == {j \in 1 .. i - 1 : w.retrieved[j].source = w.retrieved[i].source}
            chosen == {i \in DOMAIN w.retrieved :
                           MaxPerSource = 0 \/ Cardinality(Ahead(i)) < MaxPerSource}
        IN  /\ \A i \in DOMAIN w.retrieved :
                 (i \in chosen /\ Cardinality({j \in chosen : j < i}) < TopK)
                 <=> Contains(w.context, w.retrieved[i])
            /\ \A i \in DOMAIN w.context, c \in w.seen :
                 SameChunk(w.context[i], c) => c.score <= w.context[i].score
            /\ w.strategy \in {"multi_query", "parent_document"} /\ ~ask[r].reranks =>
                 \A i \in 2 .. Len(w.context) : w.context[i].score <= w.context[i - 1].score

\* The chunks of a client are the tokens in order, each its first line, and never metadata.
\* How its iterator ends is what happened: it is exhausted by a whole answer only, never by
\* a failure after status 200 or a broken connection, and its exceptions have the causes
\* that rag_stream documents.
OutcomeTrue ==
    \A r \in Requests :
        LET f == stream[r]
        IN  /\ Len(f.got) <= f.sent /\ \A i \in DOMAIN f.got : f.got[i] = Answer[i][1].word
            /\ f.at = "ended"   => result[r].status = "answered" /\ Len(f.got) = f.sent
            /\ f.at = "failed"  => result[r].status = "failed" /\ Len(f.got) = f.sent
            /\ f.at = "refused" => scope[r] = "none" /\ f.sent = 0

\* Every call that is not waiting for its consumer ends, a client that asks for a chunk
\* gets one or learns how the stream ended, and a call whose client is gone ends.
Running(r) == pc[r] \notin {"idle", "yielded", "abandoned", "ended"}
Asking(r)  == stream[r].at = "reading"
Gone(r)    == stream[r].at \in {"ended", "failed", "refused", "broken", "closed"}
Owed(r)    == Running(r) \/ Asking(r) \/ (Gone(r) /\ pc[r] = "yielded")
CallsEnd   == \A r \in Requests : Owed(r) ~> ~Owed(r)
=============================================================================
