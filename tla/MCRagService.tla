---------------------------- MODULE MCRagService ----------------------------
(* Scenarios of up to three calls each: what they ask, and where they come   *)
(* from.                                                                     *)
EXTENDS RagService

CONSTANTS r1, r2, r3, r4, hello, world, c1, c2, proxy, ada, bob, eve, red, blue, q, v, h, s1, s2, t1, t2

Identities == [u \in {ada, bob} |-> IF u = ada THEN red ELSE blue]

MCScore == [x \in {q, v, h} |-> [t \in {t1, t2} |->
               CASE t = t1 -> (CASE x = q -> 1 [] x = v -> 3 [] OTHER -> 2)
                 [] OTHER -> (CASE x = q -> 2 [] x = v -> 1 [] OTHER -> 2)]]
MCLines == <<q, v, h>>
MCSimilar == {<<q, v>>, <<v, q>>}

\* All requests but the second come from one client, through a proxy; the third and
\* fourth bring forwarding entries of their own, and the fourth is for a stream.
MCOrigin == [r \in Requests |-> IF r = r2 THEN c2 ELSE c1]
MCPeer == [r \in Requests |-> IF r = r2 THEN c2 ELSE proxy]
MCPath == [r \in Requests |-> IF r = r4 THEN "stream" ELSE "query"]
MCForwarded == [r \in Requests |->
                   CASE r = r1 -> <<c1>> [] r = r2 -> <<c1>> [] OTHER -> <<c2, c1>>]

\* A word, then a word after a space and a line break.
MCAnswer == << <<[word |-> hello, padded |-> FALSE]>>,
               <<[word |-> world, padded |-> TRUE], [word |-> hello, padded |-> FALSE]>> >>

Ask(home, kind, strategy, question, user, cache, reranks) ==
    [home |-> home, kind |-> kind, strategy |-> strategy, question |-> question,
     user |-> user, cache |-> cache, reranks |-> reranks]

Server(user, kind, strategy) == Ask("server", kind, strategy, q, user, "off", FALSE)
SDK(kind, strategy, question, cache) == Ask("sdk", kind, strategy, question, "local", cache, strategy = "hyde")

\* A request that is never made.
Nobody == Ask("nowhere", "query", "naive", q, eve, "off", FALSE)
Asked(a, b, c, d) ==
    [r \in Requests |-> CASE r = r1 -> a [] r = r2 -> b [] r = r3 -> c [] OTHER -> d]

Plain == [auth |-> FALSE, identities |-> <<>>, policies |-> FALSE, stops |-> FALSE, ingests |-> FALSE, time |-> 0]
Tenants == [Plain EXCEPT !.auth = TRUE, !.identities = Identities, !.policies = TRUE]

MCScenarios == {
    \* two tenants and one question, asked again within its lifetime and after it
    [ask |-> Asked(Server(ada, "query", "naive"), Server(bob, "query", "naive"),
                   Server(ada, "query", "naive"), Nobody),
     settings |-> [Tenants EXCEPT !.time = 2], backend |-> "memory"],
    \* no authentication, so no tenant, under policies and without
    [ask |-> Asked(Server("nobody", "query", "naive"), Server("nobody", "query", "naive"),
                   Server("nobody", "query", "auto"), Nobody),
     settings |-> [Plain EXCEPT !.time = 1], backend |-> "redis"],
    [ask |-> Asked(Server("nobody", "query", "naive"), Nobody, Nobody, Server("nobody", "stream", "naive")),
     settings |-> [Plain EXCEPT !.policies = TRUE, !.stops = TRUE], backend |-> "memory"],
    \* a user that is refused, and a stream
    [ask |-> Asked(Server(eve, "query", "naive"), Nobody, Nobody, Server(ada, "stream", "naive")),
     settings |-> [Tenants EXCEPT !.stops = TRUE, !.time = 1], backend |-> "disabled"],
    \* refused users who keep the limiter busy: two clients, two paths, three keys
    [ask |-> Asked(Server(eve, "query", "naive"), Server("nobody", "query", "naive"),
                   Server(eve, "query", "naive"), Server("nobody", "stream", "naive")),
     settings |-> [Tenants EXCEPT !.time = 3], backend |-> "memory"],
    \* the SDK beside a collection that changes
    [ask |-> Asked(SDK("query", "naive", q, "similar"), SDK("query", "naive", v, "similar"),
                   SDK("query", "naive", q, "similar"), Nobody),
     settings |-> Plain, backend |-> "disabled"],
    [ask |-> Asked(SDK("stream", "hyde", q, "off"), SDK("query", "auto", q, "off"), Nobody, Nobody),
     settings |-> [Plain EXCEPT !.ingests = TRUE], backend |-> "disabled"],
    [ask |-> Asked(SDK("stream", "hyde", q, "off"), SDK("retrieve", "multi_query", q, "off"), Nobody, Nobody),
     settings |-> [Plain EXCEPT !.ingests = TRUE], backend |-> "disabled"],
    [ask |-> Asked(SDK("retrieve", "multi_query", q, "off"), SDK("query", "auto", q, "off"), Nobody, Nobody),
     settings |-> [Plain EXCEPT !.ingests = TRUE], backend |-> "disabled"] }
=============================================================================
