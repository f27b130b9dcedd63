--------------------------- MODULE RagServiceProofs ---------------------------
(***************************************************************************)
(* Theorems about RagService, for all calls and settings: what a call that *)
(* ended has released, whose answers a cache gives, the limits of the      *)
(* caches, what the client of a stream learns of it, whom the limiter      *)
(* admits, and, in the last part, which chunks a context holds.            *)
(***************************************************************************)
EXTENDS RagService, FiniteSetTheorems, WellFoundedInduction, SequenceTheorems, TLAPS

Before     == {"idle", "lookup", "open"}
Retrieving == {"build", "ask_model", "graph", "search", "rerank"}
Within     == Retrieving \cup {"generate", "yielded", "abandoned", "release"}
Past       == {"store", "leave", "ended"}
Refusals   == {"limited", "forbidden", "unauthorized"}

\* Where a call is, its scope and its runtime agree; a call that was refused or found
\* its answer in a cache has had no scope.
Control(r) ==
    /\ pc[r] \in Before \cup Within \cup Past
    /\ scope[r] \in {"none", "open", "released"}
    /\ pc[r] \in Before => scope[r] = "none"
    /\ pc[r] \in Within => scope[r] = "open"
    /\ pc[r] \in Past => scope[r] # "open"
    /\ pc[r] \in {"lookup", "store"} => via[r].cache # "off"
    /\ runtime[r] \in {"none", "open", "closed"}
    /\ IF Sdk(r) THEN pc[r] \in {"abandoned", "ended"} => runtime[r] # "open"
       ELSE runtime[r] = "none"
    /\ DOMAIN result[r] = {"status", "by", "at"} /\ result[r].at \in 0 .. now
    /\ result[r].status = "hit" => pc[r] \in {"leave", "ended"} /\ scope[r] = "none"
    /\ result[r].status \in Refusals => pc[r] = "ended" /\ scope[r] = "none"

\* A call asks for a strategy that exists, and counts the tokens of its stream.
Working(r) ==
    /\ DOMAIN work[r] = DOMAIN NoWork
    /\ work[r].strategy \in Registered \cup {"none"} /\ work[r].tokens \in 0 .. MaxTokens
    /\ pc[r] \in Before \cup Retrieving => work[r].tokens = 0

\* The cache of a call of the server is given with its tenant.
Given(r) ==
    /\ via[r].cache \in {"off", "kv", "similar"}
    /\ via[r].cache = "kv" =>
         ~Sdk(r) /\ via[r].tenant = Tenant(r) /\ (TenantScoped => Tenant(r) # None)

\* Whose answer a call found.
Own(r) ==
    result[r].status = "hit" =>
        LET by == result[r].by
        IN  /\ by \in Requests
            /\ IF via[r].cache = "kv"
               THEN /\ pc[by] = "ended" /\ via[by].cache = "kv" /\ Key(by) = Key(r)
                    /\ result[by].at <= result[r].at /\ result[r].at < result[by].at + TTL
               ELSE ask[r].question = ask[by].question \/ <<ask[r].question, ask[by].question>> \in Similar

\* An entry of the key-value cache is the answer of a call that stored it and is over.
Stored(e) ==
    /\ e.by \in Requests /\ pc[e.by] = "ended" /\ via[e.by].cache = "kv"
    /\ e.key = Key(e.by) /\ e.expires = result[e.by].at + TTL

IsSeq(s) == \E S : s \in Seq(S)

Caching ==
    /\ IsSeq(entries) /\ IsSeq(similar)
    /\ \A i \in DOMAIN entries : Stored(entries[i])
    /\ \A i, j \in DOMAIN entries : entries[i].key = entries[j].key => i = j
    /\ backend = "memory" => Len(entries) <= MaxEntries
    /\ \A i \in DOMAIN similar :
         similar[i].by \in Requests /\ similar[i].question = ask[similar[i].by].question
    /\ Len(similar) <= MaxSimilar

-----------------------------------------------------------------------------
(* The stream *)

NoStream == [sent |-> 0, told |-> "none", wire |-> <<>>, link |-> "up",
             at |-> "idle", event |-> None, got |-> <<>>]

Over == {"ended", "failed", "refused", "broken", "closed"}

\* The lines of a stream that has sent what f says, u: among them what the model used.
LineAt(f, u, i) ==
    IF i <= f.sent THEN Line("data", Answer[i][1].word)
    ELSE IF u THEN IF i = f.sent + 1 THEN Line("event", "metadata")
                   ELSE IF i = f.sent + 2 THEN Line("data", Usage) ELSE Line("data", Done)
    ELSE IF f.told = "done" THEN Line("data", Done)
    ELSE IF i = f.sent + 1 THEN Line("event", "error") ELSE Line("data", Failure)

Total(f, u) ==
    f.sent + (IF u THEN 2 ELSE 0)
           + (CASE f.told = "done" -> 1 [] f.told = "error" -> 2 [] OTHER -> 0)

\* The client has read n of these lines and turned them into chunks; those on their way
\* are the next ones, and all that are left while the link is up.
Follows(f, u, n) ==
    /\ f.told = "usage" => u
    /\ u => f.told \in {"usage", "done"}
    /\ n + Len(f.wire) <= Total(f, u) /\ (f.link = "up" => n + Len(f.wire) = Total(f, u))
    /\ \A i \in DOMAIN f.wire : f.wire[i] = LineAt(f, u, n + i)
    /\ Len(f.got) = IF n <= f.sent THEN n ELSE f.sent
    /\ \A i \in DOMAIN f.got : f.got[i] = Answer[i][1].word
    /\ f.at \notin Over =>
         f.event = IF n = f.sent + 1 /\ u THEN "metadata"
                   ELSE IF n = f.sent + 1 /\ f.told = "error" THEN "error" ELSE None

\* A connection whose client is gone is not up.
Formed(f) ==
    /\ DOMAIN f = DOMAIN NoStream /\ IsSeq(f.wire) /\ IsSeq(f.got)
    /\ f.told \in {"none", "usage", "done", "error"} /\ f.link \in {"up", "cut", "left"}
    /\ f.at \in {"idle", "reading", "yielded"} \cup Over /\ f.sent \in 0 .. MaxTokens
    /\ f.at \in Over => f.link # "up"

\* The end marker is in band: a token whose first line is the marker would end the stream.
NoMark == \A i \in 1 .. MaxTokens : Answer[i][1].word # Done

\* What a connection carries, and how its iterator ends, is what its generator said.
Told(f) ==
    /\ f.at = "ended" => f.told = "done" /\ Len(f.got) = f.sent
    /\ f.at = "failed" => f.told = "error" /\ Len(f.got) = f.sent
    /\ \E u \in BOOLEAN, n \in Nat : Follows(f, u, n)

Flow(f) == Formed(f) /\ (NoMark => Told(f))

\* And what the generator said is what its call did.
Linked(r, f) ==
    /\ ~Streams(r) => f = NoStream
    /\ f.told \in {"usage", "done"} => pc[r] = "ended" /\ result[r].status = "answered"
    /\ f.told = "error" => pc[r] = "ended" /\ result[r].status = "failed"
    /\ pc[r] \in Before \cup Retrieving \/ result[r].status \in Refusals => f.sent = 0
    /\ Streams(r) /\ pc[r] = "generate" => work[r].tokens = f.sent
    /\ Streams(r) /\ pc[r] = "yielded" => work[r].tokens = f.sent + 1
    /\ f.at = "refused" => result[r].status \in Refusals

Shapes ==
    /\ DOMAIN pc = Requests /\ DOMAIN scope = Requests /\ DOMAIN runtime = Requests
    /\ DOMAIN result = Requests /\ DOMAIN work = Requests /\ DOMAIN via = Requests
    /\ DOMAIN stream = Requests
    /\ now \in Nat /\ app \in {"active", "draining", "closed"}
    /\ backend \in {"disabled", "memory", "redis"}
    /\ \A r \in Requests : ask[r].strategy \in Registered /\ ask[r].cache \in {"off", "similar"}

Calls == \A r \in Requests : Control(r) /\ Working(r) /\ Given(r) /\ Own(r)
IInv  == Shapes /\ Calls /\ Caching
SInv  == \A r \in Requests : Flow(stream[r]) /\ Linked(r, stream[r])

-----------------------------------------------------------------------------
(* What a step of a call leaves alone *)

\* A step of one call: the others are where they were, and what was asked is fixed.
Moved(r) ==
    /\ pc[r] # "ended" /\ UNCHANGED <<fixed, now>>
    /\ DOMAIN pc' = Requests /\ DOMAIN scope' = Requests /\ DOMAIN runtime' = Requests
    /\ DOMAIN result' = Requests /\ DOMAIN work' = Requests /\ DOMAIN via' = Requests
    /\ \A q \in Requests \ {r} :
         /\ pc'[q] = pc[q] /\ scope'[q] = scope[q] /\ runtime'[q] = runtime[q]
         /\ result'[q] = result[q] /\ work'[q] = work[q] /\ via'[q] = via[q]

\* What it owes for itself.
Mine(r) == Control(r) /\ Working(r) /\ Given(r) /\ Own(r)

\* Who asks for what never changes.
LEMMA FixedStays ==
    ASSUME UNCHANGED fixed
    PROVE  /\ TenantScoped' = TenantScoped /\ backend' = backend /\ ask' = ask
           /\ \A q \in Requests : Tenant(q)' = Tenant(q) /\ Sdk(q)' = Sdk(q) /\ Streams(q)' = Streams(q)
BY DEF fixed, TenantScoped, Tenant, Identified, Verified, User, Sdk, Streams

\* Neither does the key of a call that keeps its tenant.
LEMMA KeyStays ==
    ASSUME UNCHANGED fixed, NEW q \in Requests, via'[q] = via[q]
    PROVE  Key(q)' = Key(q)
BY DEF fixed, Key

\* A call keeps the answer it found: the call it is of is over.
LEMMA OwnStays ==
    ASSUME Calls, NEW r \in Requests, Moved(r), NEW q \in Requests,
           result'[q] = result[q], via'[q] = via[q]
    PROVE  Own(q)'
<1>1. Own(q)
    BY DEF Calls
<1>2. result'[q] = result[q] /\ via'[q] = via[q] /\ ask' = ask /\ Key(q)' = Key(q)
    BY FixedStays, KeyStays DEF Moved
<1> SUFFICES ASSUME result[q].status = "hit"
             PROVE  Own(q)'
    BY <1>2 DEF Own
<1> DEFINE by == result[q].by
<1>3. CASE via[q].cache = "kv"
    <2>1. by \in Requests /\ pc[by] = "ended" /\ by # r
        BY <1>1, <1>3 DEF Own, Moved
    <2>2. /\ pc'[by] = pc[by] /\ via'[by] = via[by] /\ result'[by] = result[by]
          /\ Key(by)' = Key(by)
        BY <2>1, KeyStays DEF Moved
    <2> QED  BY <1>1, <1>2, <1>3, <2>1, <2>2 DEF Own
<1>4. CASE via[q].cache # "kv"
    BY <1>1, <1>2, <1>4 DEF Own
<1> QED  BY <1>3, <1>4

\* The other calls keep what they have, and stored entries stay what they are.
LEMMA OthersKeep ==
    ASSUME Calls, NEW r \in Requests, Moved(r)
    PROVE  /\ \A q \in Requests \ {r} : Mine(q)'
           /\ \A e : Stored(e) => Stored(e)'
<1>1. ASSUME NEW q \in Requests \ {r}
      PROVE  Control(q)' /\ Working(q)' /\ Given(q)'
    <2>1. Control(q) /\ Working(q) /\ Given(q)
        BY DEF Calls
    <2>2. /\ pc'[q] = pc[q] /\ scope'[q] = scope[q] /\ runtime'[q] = runtime[q]
          /\ result'[q] = result[q] /\ work'[q] = work[q] /\ via'[q] = via[q] /\ now' = now
        BY DEF Moved
    <2>3. /\ TenantScoped' = TenantScoped /\ Tenant(q)' = Tenant(q) /\ Sdk(q)' = Sdk(q)
        BY FixedStays DEF Moved
    <2> QED  BY <2>1, <2>2, <2>3 DEF Control, Working, Given
<1>2. \A q \in Requests \ {r} : Own(q)'
    BY OwnStays DEF Moved
<1>3. ASSUME NEW e, Stored(e)
      PROVE  Stored(e)'
    <2>1. e.by \in Requests /\ e.by # r /\ pc[e.by] = "ended"
        BY <1>3 DEF Stored, Moved
    <2>2. /\ pc'[e.by] = pc[e.by] /\ via'[e.by] = via[e.by] /\ result'[e.by] = result[e.by]
          /\ Key(e.by)' = Key(e.by)
        BY <2>1, KeyStays DEF Moved
    <2> QED  BY <1>3, <2>1, <2>2 DEF Stored
<1> QED  BY <1>1, <1>2, <1>3 DEF Mine

\* So a step of a call keeps the calls when it keeps what the call owes for itself.
LEMMA CallKeeps ==
    ASSUME Calls, NEW r \in Requests, Moved(r), Mine(r)'
    PROVE  Calls'
BY OthersKeep DEF Calls, Mine

-----------------------------------------------------------------------------
(* The steps of a call *)

\* What a step keeps of what was given, if it gives nothing.
LEMMA GivenStays ==
    ASSUME UNCHANGED <<fixed, via>>, NEW r \in Requests, Given(r)
    PROVE  Given(r)'
<1>1. TenantScoped' = TenantScoped /\ Tenant(r)' = Tenant(r) /\ Sdk(r)' = Sdk(r)
    BY FixedStays
<1> QED  BY <1>1 DEF Given

\* A call that looks into no cache has nothing to show for it.
LEMMA NoHit ==
    ASSUME NEW r \in Requests, result'[r].status # "hit"
    PROVE  Own(r)'
BY DEF Own

\* The result of a call, as a function.
LEMMA Results ==
    ASSUME Shapes, NEW r \in Requests, NEW status, NEW by, Result(r, status, by)
    PROVE  /\ DOMAIN result' = Requests /\ DOMAIN result'[r] = {"status", "by", "at"}
           /\ result'[r].status = status /\ result'[r].by = by /\ result'[r].at \in 0 .. now
           /\ status # "hit" /\ pc[r] # "store" => result'[r].at = 0
           /\ status = "hit" \/ pc[r] = "store" => result'[r].at = now
           /\ \A q \in Requests \ {r} : result'[q] = result[q]
BY DEF Result, Shapes

\* A call begins: it fails at once, or has a cache and, if it is the SDK's, a runtime.
LEMMA BeginKeeps ==
    ASSUME IInv, NEW r \in Requests, NEW cache, NEW tenant, Begin(r, cache, tenant),
           cache \in {"off", "kv", "similar"},
           cache = "kv" => /\ ~Sdk(r) /\ tenant = Tenant(r)
                           /\ TenantScoped => Tenant(r) # None,
           UNCHANGED <<fixed, now>>
    PROVE  Moved(r) /\ Mine(r)'
<1>0. Shapes /\ Control(r) /\ Working(r) /\ now \in Nat
    BY DEF IInv, Calls, Shapes
<1>1. pc[r] = "idle" /\ UNCHANGED <<work, scope>> /\ via' = [via EXCEPT ![r] = [cache |-> cache, tenant |-> tenant]]
    BY DEF Begin
<1>2. /\ TenantScoped' = TenantScoped /\ Tenant(r)' = Tenant(r) /\ Sdk(r)' = Sdk(r)
    BY FixedStays
<1>3. via'[r].cache = cache /\ via'[r].tenant = tenant
    BY <1>0, <1>1 DEF Shapes
<1>4. Given(r)'
    BY <1>2, <1>3 DEF Given
<1>5. CASE ~Sdk(r) /\ app = "closed"
    <2>1. Result(r, "failed", None) /\ Goto(r, "ended") /\ UNCHANGED runtime
        BY <1>5 DEF Begin
    <2>2. Moved(r)
        BY <1>0, <1>1, <2>1, Results DEF Moved, Shapes, Goto
    <2>3. /\ pc'[r] = "ended" /\ result'[r].status = "failed" /\ result'[r].at \in 0 .. now
          /\ DOMAIN result'[r] = {"status", "by", "at"}
        BY <1>0, <2>1, Results DEF Goto, Shapes
    <2>4. Control(r)' /\ Working(r)'
        BY <1>0, <1>1, <1>2, <1>3, <1>5, <2>1, <2>3 DEF Control, Working, Before, Retrieving, Within, Past, Refusals
    <2> QED  BY <1>4, <2>2, <2>3, <2>4, NoHit DEF Mine
<1>6. CASE Sdk(r) \/ app # "closed"
    <2>1. /\ Goto(r, IF cache # "off" THEN "lookup" ELSE "open") /\ UNCHANGED result
          /\ runtime' = IF Sdk(r) THEN [runtime EXCEPT ![r] = "open"] ELSE runtime
        BY <1>6 DEF Begin
    <2>2. Moved(r)
        BY <1>0, <1>1, <2>1 DEF Moved, Shapes, Goto
    <2>3. /\ pc'[r] \in {"lookup", "open"} /\ runtime'[r] = IF Sdk(r) THEN "open" ELSE runtime[r]
        BY <1>0, <2>1 DEF Goto, Shapes
    <2>4. result[r].status \notin Refusals /\ result[r].status # "hit"
        BY <1>0, <1>1 DEF Control
    <2>3a. cache = "off" => pc'[r] = "open"
        BY <1>0, <2>1 DEF Goto, Shapes
    <2>5. Control(r)' /\ Working(r)'
        BY <1>0, <1>1, <1>2, <1>3, <2>3a, <2>1, <2>3, <2>4 DEF Control, Working, Before, Retrieving, Within, Past
    <2> QED  BY <1>4, <2>1, <2>2, <2>4, <2>5, NoHit DEF Mine
<1> QED  BY <1>5, <1>6

\* A request is refused.
LEMMA RefuseKeeps ==
    ASSUME IInv, NEW r \in Requests, NEW status \in Refusals, Refuse(r, status), pc[r] = "idle", ~Sdk(r)
    PROVE  Moved(r) /\ Mine(r)'
<1>0. Shapes /\ Control(r) /\ Working(r) /\ Given(r) /\ now \in Nat
    BY DEF IInv, Calls, Shapes
<1>1. /\ Result(r, status, None) /\ Goto(r, "ended")
      /\ UNCHANGED <<fixed, via, now, work, scope, runtime>>
    BY DEF Refuse
<1>2. Moved(r)
    BY <1>0, <1>1, Results DEF Moved, Shapes, Goto
<1>3. /\ pc'[r] = "ended" /\ result'[r].status = status /\ result'[r].at \in 0 .. now
      /\ DOMAIN result'[r] = {"status", "by", "at"}
    BY <1>0, <1>1, Results DEF Goto, Shapes
<1>4. Sdk(r)' = Sdk(r)
    BY <1>1, FixedStays
<1>6. Control(r)' /\ Working(r)'
    BY <1>0, <1>1, <1>3, <1>4 DEF Control, Working, Before, Retrieving, Within, Past, Refusals
<1> QED  BY <1>0, <1>1, <1>2, <1>3, <1>6, GivenStays, NoHit DEF Mine, Refusals

\* A step takes a call to p and leaves it with w, s, t and o.
Stepped(r, p, w, s, t, o) ==
    /\ pc' = [pc EXCEPT ![r] = p]
    /\ work' = [work EXCEPT ![r] = w] \/ (UNCHANGED work /\ w = work[r])
    /\ scope' = [scope EXCEPT ![r] = s] \/ (UNCHANGED scope /\ s = scope[r])
    /\ runtime' = [runtime EXCEPT ![r] = t] \/ (UNCHANGED runtime /\ t = runtime[r])
    /\ result' = [result EXCEPT ![r] = o] \/ (UNCHANGED result /\ o = result[r])

\* What was asked and what a call was given stay in every step but its first.
Unhurried == UNCHANGED <<fixed, via, now>>

\* Such a step keeps all but what Control and Working say of the call.
LEMMA StepKeeps ==
    ASSUME IInv, Unhurried, NEW r \in Requests, pc[r] # "ended",
           NEW p, NEW w, NEW s, NEW t, NEW o, Stepped(r, p, w, s, t, o)
    PROVE  /\ Moved(r) /\ pc'[r] = p /\ work'[r] = w /\ scope'[r] = s /\ runtime'[r] = t /\ result'[r] = o
           /\ Control(r) /\ Working(r) /\ Sdk(r)' = Sdk(r) /\ now' = now /\ now \in Nat
           /\ Given(r)' /\ via'[r] = via[r] /\ Given(r)
           /\ o.status # "hit" \/ o = result[r] => Own(r)'
<1>0. Shapes /\ Calls /\ Control(r) /\ Working(r) /\ Given(r) /\ UNCHANGED <<fixed, via>> /\ now' = now
    BY DEF IInv, Calls, Unhurried
<1>1. pc'[r] = p /\ work'[r] = w /\ scope'[r] = s /\ runtime'[r] = t /\ result'[r] = o
    BY <1>0 DEF Shapes, Stepped
<1>2. Moved(r)
    BY <1>0 DEF Shapes, Moved, Stepped
<1>3. Sdk(r)' = Sdk(r)
    BY <1>0, FixedStays
<1>4. Given(r)'
    BY <1>0, GivenStays
<1>5. ASSUME o.status # "hit" \/ o = result[r]
      PROVE  Own(r)'
    <2>1. via'[r] = via[r]
        BY <1>0
    <2> QED  BY <1>0, <1>1, <1>2, <1>5, <2>1, OwnStays, NoHit
<1>6. now \in Nat
    BY <1>0 DEF Shapes
<1>7. via'[r] = via[r]
    BY <1>0
<1> QED  BY <1>0, <1>1, <1>2, <1>3, <1>4, <1>5, <1>6, <1>7

\* The outcome that Result writes down.
Outcome(r, status, by) ==
    [status |-> status, by |-> by, at |-> IF status = "hit" \/ pc[r] = "store" THEN now ELSE 0]

\* A set of natural numbers has a least one.
LEMMA Least ==
    ASSUME NEW S \in SUBSET Nat, S # {}
    PROVE  \E m \in S : \A k \in S : m <= k
<1>1. PICK m \in S : \A k \in S : ~(<<k, m>> \in OpToRel(<, Nat))
    BY WFMin, NatLessThanWellFounded
<1>2. \A k \in S : ~(k < m)
    BY <1>1 DEF OpToRel
<1> QED  BY <1>2

\* The answer that the similarity list gives is in it, to a question that is close enough.
LEMMA SimilarFound ==
    ASSUME IsSeq(similar), NEW question, SimilarTo(question) # {}
    PROVE  \E i \in DOMAIN similar :
               /\ FirstSimilar(question) = similar[i]
               /\ \/ similar[i].question = question
                  \/ <<question, similar[i].question>> \in Similar
<1>1. SimilarTo(question) \in SUBSET Nat
    BY DEF SimilarTo, IsSeq
<1>2. \E m \in SimilarTo(question) : \A k \in SimilarTo(question) : m <= k
    BY <1>1, Least
<1>3. (CHOOSE i \in SimilarTo(question) : \A j \in SimilarTo(question) : i <= j) \in SimilarTo(question)
    BY <1>2
<1> QED  BY <1>3 DEF SimilarTo, FirstSimilar

\* A hit of the key-value cache gives an answer of the same key that lives.
LEMMA HitFound ==
    ASSUME Caching, NEW key, Hits(key) # {}
    PROVE  /\ Stored(HitEntry(key)) /\ HitEntry(key).key = key /\ Live(HitEntry(key))
           /\ \E i \in DOMAIN entries : HitEntry(key) = entries[i]
BY DEF Hits, Held, HitEntry, Caching

\* A call looks into its cache and finds an answer, or goes on.
LEMMA LookupKeeps ==
    ASSUME IInv, Unhurried, NEW r \in Requests, Lookup(r)
    PROVE  Moved(r) /\ Mine(r)'
<1>0. /\ pc[r] = "lookup" /\ UNCHANGED <<work, scope, runtime, via, fixed, now>> /\ Calls /\ Caching
    BY DEF Lookup, Unhurried, IInv
<1>1. CASE Goto(r, "open") /\ UNCHANGED result
    <2>1. Stepped(r, "open", work[r], scope[r], runtime[r], result[r])
        BY <1>0, <1>1 DEF Goto, Stepped
    <2>2. /\ Moved(r) /\ pc'[r] = "open" /\ work'[r] = work[r] /\ scope'[r] = scope[r]
          /\ runtime'[r] = runtime[r] /\ result'[r] = result[r]
          /\ Control(r) /\ Working(r) /\ Sdk(r)' = Sdk(r) /\ now' = now /\ Given(r)' /\ Own(r)'
          /\ via'[r] = via[r] /\ Given(r)
        BY <1>0, <2>1, StepKeeps
    <2>3. Control(r)' /\ Working(r)'
        BY <1>0, <2>2 DEF Control, Working, Before, Retrieving, Within, Past
    <2> QED  BY <2>2, <2>3 DEF Mine
<1>2. ASSUME NEW by, Result(r, "hit", by), Goto(r, After(r)),
             by \in Requests,
             IF via[r].cache = "kv"
             THEN /\ pc[by] = "ended" /\ via[by].cache = "kv" /\ Key(by) = Key(r)
                  /\ result[by].at <= now /\ now < result[by].at + TTL
             ELSE ask[r].question = ask[by].question \/ <<ask[r].question, ask[by].question>> \in Similar
      PROVE  Moved(r) /\ Mine(r)'
    <2> DEFINE o == Outcome(r, "hit", by)
    <2>1. Stepped(r, After(r), work[r], scope[r], runtime[r], o)
        BY <1>0, <1>2 DEF Goto, Stepped, Result, Outcome
    <2>2. o.status = "hit" /\ o.by = by /\ o.at = now /\ DOMAIN o = {"status", "by", "at"}
        BY DEF Outcome
    <2> HIDE DEF o
    <2>3. /\ Moved(r) /\ pc'[r] = After(r) /\ work'[r] = work[r] /\ scope'[r] = scope[r]
          /\ runtime'[r] = runtime[r] /\ result'[r] = o
          /\ Control(r) /\ Working(r) /\ Sdk(r)' = Sdk(r) /\ now' = now /\ now \in Nat /\ Given(r)'
          /\ via'[r] = via[r] /\ Given(r)
        BY <1>0, <2>1, StepKeeps
    <2>4. Control(r)' /\ Working(r)'
        BY <1>0, <2>2, <2>3 DEF Control, Working, Before, Retrieving, Within, Past, After, Refusals
    <2>5. ask' = ask /\ via'[r] = via[r] /\ Key(r)' = Key(r)
        BY <1>0, FixedStays, KeyStays
    <2>6. CASE via[r].cache = "kv"
        <3>1. by # r
            BY <1>0, <1>2, <2>6
        <3>2. /\ pc'[by] = "ended" /\ via'[by] = via[by] /\ result'[by] = result[by] /\ Key(by)' = Key(by)
            BY <1>0, <1>2, <2>3, <2>6, <3>1, KeyStays DEF Moved
        <3>3. Own(r)'
            BY <1>2, <2>2, <2>3, <2>5, <2>6, <3>2 DEF Own
        <3> QED  BY <2>3, <2>4, <3>3 DEF Mine
    <2>7. CASE via[r].cache # "kv"
        <3>1. Own(r)'
            BY <1>2, <2>2, <2>3, <2>5, <2>7 DEF Own
        <3> QED  BY <2>3, <2>4, <3>1 DEF Mine
    <2> QED  BY <2>6, <2>7
<1>3. CASE via[r].cache = "similar"
    <2>1. CASE SimilarTo(ask[r].question) = {}
        BY <1>1, <1>3, <2>1 DEF Lookup
    <2>2. CASE SimilarTo(ask[r].question) # {}
        <3> DEFINE by == FirstSimilar(ask[r].question).by
        <3>1. Result(r, "hit", by) /\ Goto(r, After(r))
            BY <1>3, <2>2 DEF Lookup
        <3>2. PICK i \in DOMAIN similar :
                  /\ FirstSimilar(ask[r].question) = similar[i]
                  /\ \/ similar[i].question = ask[r].question
                     \/ <<ask[r].question, similar[i].question>> \in Similar
            BY <1>0, <2>2, SimilarFound DEF Caching
        <3>3. by \in Requests /\ similar[i].question = ask[by].question
            BY <1>0, <3>2 DEF Caching
        <3> QED  BY <1>2, <1>3, <3>1, <3>2, <3>3
    <2> QED  BY <2>1, <2>2
<1>4. CASE via[r].cache # "similar" /\ Hit(Key(r)) /\ Result(r, "hit", HitEntry(Key(r)).by) /\ Goto(r, After(r))
    <2> DEFINE by == HitEntry(Key(r)).by
    <2>1. Stored(HitEntry(Key(r))) /\ HitEntry(Key(r)).key = Key(r) /\ Live(HitEntry(Key(r)))
        BY <1>0, <1>4, HitFound DEF Hit
    <2>2. by \in Requests /\ pc[by] = "ended" /\ via[by].cache = "kv" /\ Key(by) = Key(r)
          /\ now < result[by].at + TTL
        BY <2>1 DEF Stored, Live
    <2>3. result[by].at <= now
        BY <1>0, <2>2 DEF Calls, Control, IInv, Shapes
    <2>4. via[r].cache = "kv"
        BY <1>0, <1>4 DEF Calls, Control, Given
    <2> QED  BY <1>2, <1>4, <2>2, <2>3, <2>4
<1> QED  BY <1>1, <1>3, <1>4 DEF Lookup

\* The scope of a call is opened.
LEMMA OpenKeeps ==
    ASSUME IInv, Unhurried, NEW r \in Requests, Open(r)
    PROVE  Moved(r) /\ Mine(r)'
<1> DEFINE w == [NoWork EXCEPT !.strategy = ask[r].strategy]
<1>1. pc[r] = "open" /\ Stepped(r, "build", w, "open", runtime[r], result[r])
    BY DEF Open, Goto, Put, Stepped
<1>2. /\ Moved(r) /\ pc'[r] = "build" /\ work'[r] = w /\ scope'[r] = "open"
      /\ runtime'[r] = runtime[r] /\ result'[r] = result[r]
      /\ Control(r) /\ Sdk(r)' = Sdk(r) /\ now' = now /\ Given(r)' /\ Own(r)'
    BY <1>1, StepKeeps
<1>3. DOMAIN w = DOMAIN NoWork /\ w.strategy \in Registered /\ w.tokens = 0
    BY DEF IInv, Shapes, NoWork
<1>4. Control(r)' /\ Working(r)'
    BY <1>1, <1>2, <1>3, AnswerAssumption
    DEF Control, Working, Before, Retrieving, Within, Past, Refusals
<1> QED  BY <1>2, <1>4 DEF Mine

\* The work of a call that streams nothing yet.
Clean(w) == DOMAIN w = DOMAIN NoWork /\ w.tokens = 0 /\ w.strategy \in Registered \cup {"none"}

\* A step of the retrieval goes on to another one or to the generation.
Inward(r) ==
    /\ pc[r] \in Retrieving
    /\ UNCHANGED <<scope, runtime, result>>
    /\ \E p \in Retrieving \cup {"generate"} : \E w : Goto(r, p) /\ Put(r, w) /\ Clean(w)

\* A step from one place of the retrieval to the next keeps what is said of its call.
LEMMA InwardKeeps ==
    ASSUME IInv, Unhurried, NEW r \in Requests, Inward(r)
    PROVE  Moved(r) /\ Mine(r)'
<1>0. PICK p \in Retrieving \cup {"generate"} : \E w : Goto(r, p) /\ Put(r, w) /\ Clean(w)
    BY DEF Inward
<1>1. PICK w : Goto(r, p) /\ Put(r, w) /\ Clean(w)
    BY <1>0
<1>2. pc[r] \in Retrieving /\ Stepped(r, p, w, scope[r], runtime[r], result[r])
    BY <1>0, <1>1 DEF Inward, Goto, Put, Stepped
<1>3. pc[r] # "ended"
    BY <1>2 DEF Retrieving
<1>4. /\ Moved(r) /\ pc'[r] = p /\ work'[r] = w /\ scope'[r] = scope[r]
      /\ runtime'[r] = runtime[r] /\ result'[r] = result[r]
      /\ Control(r) /\ Sdk(r)' = Sdk(r) /\ now' = now /\ Given(r)' /\ Own(r)'
    BY <1>2, <1>3, StepKeeps
<1>5. Control(r)' /\ Working(r)'
    BY <1>1, <1>2, <1>4, AnswerAssumption
    DEF Control, Working, Before, Retrieving, Within, Past, Refusals, Clean
<1> QED  BY <1>4, <1>5 DEF Mine

\* A strategy that is chosen starts with a search, the graph or a question to the model.
LEMMA DispatchGoes ==
    ASSUME NEW r \in Requests, NEW strategy \in Registered \cup {"none"}, Clean(work[r]), Dispatch(r, strategy)
    PROVE  \E p \in Retrieving \cup {"generate"} : \E w : Goto(r, p) /\ Put(r, w) /\ Clean(w)
<1> DEFINE w1 == [work[r] EXCEPT !.strategy = strategy]
           w2 == [w1 EXCEPT !.todo = <<Search(ask[r].question, Anywhere)>>]
<1>1. Clean(w1) /\ Clean(w2)
    BY DEF Clean, NoWork
<1>2. \/ Goto(r, "ask_model") /\ Put(r, w1)
      \/ Goto(r, "graph") /\ Put(r, w1)
      \/ Goto(r, "search") /\ Put(r, w2)
    BY DEF Dispatch
<1> QED  BY <1>1, <1>2 DEF Retrieving

\* What was retrieved goes to the reranker or to the generation.
LEMMA RetrieveGoes ==
    ASSUME NEW r \in Requests, NEW w, Clean(w), NEW chunks, Retrieve(r, w, chunks)
    PROVE  \E p \in Retrieving \cup {"generate"} : \E f : Goto(r, p) /\ Put(r, f) /\ Clean(f)
<1> DEFINE w1 == [w EXCEPT !.kept = chunks]
           w2 == [w EXCEPT !.retrieved = chunks, !.context = Context(chunks)]
<1>1. Clean(w1) /\ Clean(w2)
    BY DEF Clean, NoWork
<1>2. \/ Goto(r, "rerank") /\ Put(r, w1)
      \/ Goto(r, "generate") /\ Put(r, w2)
    BY DEF Retrieve
<1> QED  BY <1>1, <1>2 DEF Retrieving

\* The steps of the retrieval are of that kind.
LEMMA Inner ==
    ASSUME IInv, NEW r \in Requests,
           Build(r) \/ AskModel(r) \/ QueryGraph(r) \/ RunSearch(r) \/ Rerank(r)
    PROVE  Inward(r)
<1>1. /\ pc[r] \in {"build", "ask_model", "graph", "search", "rerank"}
      /\ UNCHANGED <<scope, runtime, result>>
    BY DEF Build, AskModel, QueryGraph, RunSearch, Rerank, Inside
<1>2. Clean(work[r])
    BY <1>1 DEF IInv, Calls, Working, Clean, Retrieving
<1> SUFFICES \E p \in Retrieving \cup {"generate"} : \E w : Goto(r, p) /\ Put(r, w) /\ Clean(w)
    BY <1>1 DEF Inward, Retrieving
<1>3. CASE Build(r)
    <2>1. work[r].strategy \in Registered \cup {"none"} /\ Dispatch(r, work[r].strategy)
        BY <1>2, <1>3 DEF Build, Clean
    <2> QED  BY <1>2, <2>1, DispatchGoes
<1>4. CASE AskModel(r)
    <2>1. ASSUME NEW choice \in Selections, Dispatch(r, Routed(choice))
          PROVE  \E p \in Retrieving \cup {"generate"} : \E w : Goto(r, p) /\ Put(r, w) /\ Clean(w)
        <3>1. Routed(choice) \in Registered \cup {"none"}
            BY DEF Routed, Registered
        <3> QED  BY <1>2, <2>1, <3>1, DispatchGoes
    <2> DEFINE w1 == [work[r] EXCEPT !.todo = <<Search(Passage, Anywhere)>>]
               w2 == [work[r] EXCEPT !.todo = [i \in DOMAIN Queries(ask[r].question, Lines) |->
                                                 Search(Queries(ask[r].question, Lines)[i], Anywhere)]]
    <2>2. Clean(w1) /\ Clean(w2)
        BY <1>2 DEF Clean, NoWork
    <2>3. \/ \E choice \in Selections : Dispatch(r, Routed(choice))
          \/ Goto(r, "search") /\ Put(r, w1)
          \/ Goto(r, "search") /\ Put(r, w2)
        BY <1>4 DEF AskModel
    <2> HIDE DEF w1, w2
    <2> QED  BY <2>1, <2>2, <2>3 DEF Retrieving
<1>5. CASE QueryGraph(r)
    <2> DEFINE w1 == [work[r] EXCEPT !.todo = <<Search(ask[r].question, Anywhere)>>]
               one == <<[source |-> "lightrag", text |-> "answer", score |-> 1]>>
    <2>1. Clean(w1)
        BY <1>2 DEF Clean, NoWork
    <2>2. Retrieve(r, work[r], one) \/ (Goto(r, "search") /\ Put(r, w1))
        BY <1>5 DEF QueryGraph
    <2> HIDE DEF w1, one
    <2> QED  BY <1>2, <2>1, <2>2, RetrieveGoes DEF Retrieving
<1>6. CASE RunSearch(r)
    <2>1. PICK found, next :
             /\ next = Searched(work[r], ask[r].question, found)
             /\ IF next.todo # <<>> THEN Put(r, next) /\ Goto(r, "search")
                ELSE \E chunks \in {Returned(next)} : Retrieve(r, next, chunks)
        BY <1>6 DEF RunSearch
    <2>2. Clean(next)
        BY <1>2, <2>1 DEF Clean, NoWork, Searched
    <2> QED  BY <2>1, <2>2, RetrieveGoes DEF Retrieving
<1>7. CASE Rerank(r)
    <2> DEFINE chunks == FirstOf(Reverse(work[r].kept), TopK)
               w == [work[r] EXCEPT !.retrieved = chunks, !.context = Context(chunks)]
    <2>1. Clean(w)
        BY <1>2 DEF Clean, NoWork
    <2>2. Goto(r, "generate") /\ Put(r, w)
        BY <1>7 DEF Rerank
    <2> HIDE DEF w, chunks
    <2> QED  BY <2>1, <2>2
<1> QED  BY <1>3, <1>4, <1>5, <1>6, <1>7

\* A call fails or is cancelled, and goes back through its scope.
LEMMA UnwindKeeps ==
    ASSUME IInv, Unhurried, NEW r \in Requests, NEW status \in {"failed", "cancelled"},
           Result(r, status, None), Unwind(r), UNCHANGED <<scope, runtime>>,
           pc[r] \notin {"idle", "release", "leave", "yielded", "abandoned", "ended"}
    PROVE  Moved(r) /\ Mine(r)'
<1> DEFINE p == IF scope[r] = "open" THEN "release" ELSE After(r)
           o == Outcome(r, status, None)
<1>1. Stepped(r, p, NoWork, scope[r], runtime[r], o)
    BY DEF Unwind, Result, Outcome, Goto, Put, Stepped
<1>2. o.status = status /\ (o.at = 0 \/ o.at = now) /\ DOMAIN o = {"status", "by", "at"}
    BY DEF Outcome
<1> HIDE DEF o
<1>3. /\ Moved(r) /\ pc'[r] = p /\ work'[r] = NoWork /\ scope'[r] = scope[r]
      /\ runtime'[r] = runtime[r] /\ result'[r] = o
      /\ Control(r) /\ Sdk(r)' = Sdk(r) /\ now' = now /\ now \in Nat /\ Given(r)' /\ via'[r] = via[r]
      /\ Own(r)'
    BY <1>1, <1>2, StepKeeps
<1>4. Control(r)' /\ Working(r)'
    BY <1>2, <1>3, AnswerAssumption
    DEF Control, Working, Before, Retrieving, Within, Past, Refusals, After, NoWork
<1> QED  BY <1>3, <1>4 DEF Mine

\* A failure is such a step.
LEMMA FailKeeps ==
    ASSUME IInv, Unhurried, NEW r \in Requests, Fail(r)
    PROVE  Moved(r) /\ Mine(r)'
BY UnwindKeeps DEF Fail

\* So is a cancellation.
LEMMA CancelKeeps ==
    ASSUME IInv, Unhurried, NEW r \in Requests, Cancel(r)
    PROVE  Moved(r) /\ Mine(r)'
BY UnwindKeeps DEF Cancel

\* The answer is there.
LEMMA GenerateKeeps ==
    ASSUME IInv, Unhurried, NEW r \in Requests, Generate(r) \/ EndStream(r)
    PROVE  Moved(r) /\ Mine(r)'
<1> DEFINE o == Outcome(r, "answered", r)
<1>1. pc[r] = "generate" /\ Stepped(r, "release", work[r], scope[r], runtime[r], o)
    BY DEF Generate, EndStream, Leaving, Result, Outcome, Goto, Stepped
<1>2. o.status = "answered" /\ (o.at = 0 \/ o.at = now) /\ DOMAIN o = {"status", "by", "at"}
    BY DEF Outcome
<1> HIDE DEF o
<1>3. /\ Moved(r) /\ pc'[r] = "release" /\ work'[r] = work[r] /\ scope'[r] = scope[r]
      /\ runtime'[r] = runtime[r] /\ result'[r] = o
      /\ Control(r) /\ Working(r) /\ Sdk(r)' = Sdk(r) /\ now' = now /\ now \in Nat /\ Given(r)'
      /\ via'[r] = via[r] /\ Own(r)'
    BY <1>1, <1>2, StepKeeps
<1>4. Control(r)' /\ Working(r)'
    BY <1>1, <1>2, <1>3 DEF Control, Working, Before, Retrieving, Within, Past, Refusals
<1> QED  BY <1>3, <1>4 DEF Mine

\* A stream stops at a token.
LEMMA NextTokenKeeps ==
    ASSUME IInv, Unhurried, NEW r \in Requests, NextToken(r)
    PROVE  Moved(r) /\ Mine(r)'
<1> DEFINE w == [work[r] EXCEPT !.tokens = @ + 1]
<1>1. /\ pc[r] = "generate" /\ work[r].tokens < MaxTokens
      /\ Stepped(r, "yielded", w, scope[r], runtime[r], result[r])
    BY DEF NextToken, Inside, Goto, Put, Stepped
<1>2. /\ Moved(r) /\ pc'[r] = "yielded" /\ work'[r] = w /\ scope'[r] = scope[r]
      /\ runtime'[r] = runtime[r] /\ result'[r] = result[r]
      /\ Control(r) /\ Working(r) /\ Sdk(r)' = Sdk(r) /\ now' = now /\ Given(r)' /\ Own(r)'
      /\ via'[r] = via[r]
    BY <1>1, StepKeeps
<1>3. DOMAIN w = DOMAIN NoWork /\ w.strategy = work[r].strategy /\ w.tokens = work[r].tokens + 1
    BY <1>2 DEF Working, NoWork
<1> HIDE DEF w
<1>4. Control(r)' /\ Working(r)'
    BY <1>1, <1>2, <1>3, AnswerAssumption DEF Control, Working, Before, Retrieving, Within, Past, Refusals
<1> QED  BY <1>2, <1>4 DEF Mine

\* Its consumer asks for the next one.
LEMMA PullKeeps ==
    ASSUME IInv, Unhurried, NEW r \in Requests, Pull(r)
    PROVE  Moved(r) /\ Mine(r)'
<1>1. pc[r] = "yielded" /\ Stepped(r, "generate", work[r], scope[r], runtime[r], result[r])
    BY DEF Pull, Leaving, Goto, Stepped
<1>2. /\ Moved(r) /\ pc'[r] = "generate" /\ work'[r] = work[r] /\ scope'[r] = scope[r]
      /\ runtime'[r] = runtime[r] /\ result'[r] = result[r]
      /\ Control(r) /\ Working(r) /\ Sdk(r)' = Sdk(r) /\ now' = now /\ Given(r)' /\ Own(r)'
      /\ via'[r] = via[r]
    BY <1>1, StepKeeps
<1>3. Control(r)' /\ Working(r)'
    BY <1>1, <1>2 DEF Control, Working, Before, Retrieving, Within, Past, Refusals
<1> QED  BY <1>2, <1>3 DEF Mine

\* Its consumer closes it.
LEMMA CloseEarlyKeeps ==
    ASSUME IInv, Unhurried, NEW r \in Requests, CloseEarly(r)
    PROVE  Moved(r) /\ Mine(r)'
<1> DEFINE o == Outcome(r, "closed", None)
           t == IF Sdk(r) THEN "closed" ELSE runtime[r]
<1>1. pc[r] = "yielded" /\ Stepped(r, "abandoned", work[r], scope[r], t, o)
    BY DEF CloseEarly, Leaving, Result, Outcome, Goto, Stepped
<1>2. o.status = "closed" /\ (o.at = 0 \/ o.at = now) /\ DOMAIN o = {"status", "by", "at"}
    BY DEF Outcome
<1> HIDE DEF o
<1>3. /\ Moved(r) /\ pc'[r] = "abandoned" /\ work'[r] = work[r] /\ scope'[r] = scope[r]
      /\ runtime'[r] = t /\ result'[r] = o
      /\ Control(r) /\ Working(r) /\ Sdk(r)' = Sdk(r) /\ now' = now /\ now \in Nat /\ Given(r)'
      /\ via'[r] = via[r] /\ Own(r)'
    BY <1>1, <1>2, StepKeeps
<1>4. Control(r)' /\ Working(r)'
    BY <1>1, <1>2, <1>3 DEF Control, Working, Before, Retrieving, Within, Past, Refusals
<1> QED  BY <1>3, <1>4 DEF Mine

\* The generator is closed, and its scope.
LEMMA FinalizeKeeps ==
    ASSUME IInv, Unhurried, NEW r \in Requests, Finalize(r)
    PROVE  Moved(r) /\ Mine(r)'
<1>1. pc[r] = "abandoned" /\ Stepped(r, "ended", work[r], "released", runtime[r], result[r])
    BY DEF Finalize, Leaving, Goto, Stepped
<1>2. /\ Moved(r) /\ pc'[r] = "ended" /\ work'[r] = work[r] /\ scope'[r] = "released"
      /\ runtime'[r] = runtime[r] /\ result'[r] = result[r]
      /\ Control(r) /\ Working(r) /\ Sdk(r)' = Sdk(r) /\ now' = now /\ Given(r)' /\ Own(r)'
      /\ via'[r] = via[r]
    BY <1>1, StepKeeps
<1>3. Control(r)' /\ Working(r)'
    BY <1>1, <1>2 DEF Control, Working, Before, Retrieving, Within, Past, Refusals
<1> QED  BY <1>2, <1>3 DEF Mine

\* A call leaves its scope.
LEMMA ReleaseKeeps ==
    ASSUME IInv, Unhurried, NEW r \in Requests, Release(r)
    PROVE  Moved(r) /\ Mine(r)'
<1> DEFINE p == IF result[r].status = "answered" /\ via[r].cache # "off" THEN "store" ELSE After(r)
<1>1. pc[r] = "release" /\ Stepped(r, p, NoWork, "released", runtime[r], result[r])
    BY DEF Release, Goto, Put, Stepped
<1>2. /\ Moved(r) /\ pc'[r] = p /\ work'[r] = NoWork /\ scope'[r] = "released"
      /\ runtime'[r] = runtime[r] /\ result'[r] = result[r]
      /\ Control(r) /\ Sdk(r)' = Sdk(r) /\ now' = now /\ Given(r)' /\ Own(r)' /\ via'[r] = via[r]
    BY <1>1, StepKeeps
<1>3. Control(r)' /\ Working(r)'
    BY <1>1, <1>2, AnswerAssumption
    DEF Control, Working, Before, Retrieving, Within, Past, Refusals, After, NoWork
<1> QED  BY <1>2, <1>3 DEF Mine

\* It stores its answer.
LEMMA StoreKeeps ==
    ASSUME IInv, Unhurried, NEW r \in Requests, Store(r)
    PROVE  Moved(r) /\ Mine(r)' /\ result'[r].at = now
<1> DEFINE o == [result[r] EXCEPT !.at = now]
<1>1. pc[r] = "store" /\ Stepped(r, After(r), work[r], scope[r], runtime[r], o)
    BY DEF Store, Goto, Stepped
<1>2. Control(r) /\ now \in Nat
    BY DEF IInv, Calls, Shapes
<1>3. o.status = result[r].status /\ o.at = now /\ DOMAIN o = {"status", "by", "at"} /\ o.status # "hit"
    BY <1>1, <1>2 DEF Control
<1> HIDE DEF o
<1>4. /\ Moved(r) /\ pc'[r] = After(r) /\ work'[r] = work[r] /\ scope'[r] = scope[r]
      /\ runtime'[r] = runtime[r] /\ result'[r] = o
      /\ Working(r) /\ Sdk(r)' = Sdk(r) /\ now' = now /\ Given(r)' /\ Own(r)' /\ via'[r] = via[r]
    BY <1>1, <1>3, StepKeeps
<1>5. Control(r)' /\ Working(r)'
    BY <1>1, <1>2, <1>3, <1>4
    DEF Control, Working, Before, Retrieving, Within, Past, Refusals, After
<1> QED  BY <1>3, <1>4, <1>5 DEF Mine

\* It leaves its runtime.
LEMMA LeaveKeeps ==
    ASSUME IInv, Unhurried, NEW r \in Requests, Leave(r)
    PROVE  Moved(r) /\ Mine(r)'
<1> DEFINE t == IF Sdk(r) THEN "closed" ELSE runtime[r]
<1>1. pc[r] = "leave" /\ Stepped(r, "ended", work[r], scope[r], t, result[r])
    BY DEF Leave, Leaving, Goto, Stepped
<1>2. /\ Moved(r) /\ pc'[r] = "ended" /\ work'[r] = work[r] /\ scope'[r] = scope[r]
      /\ runtime'[r] = t /\ result'[r] = result[r]
      /\ Control(r) /\ Working(r) /\ Sdk(r)' = Sdk(r) /\ now' = now /\ Given(r)' /\ Own(r)'
      /\ via'[r] = via[r]
    BY <1>1, StepKeeps
<1>3. Control(r)' /\ Working(r)'
    BY <1>1, <1>2 DEF Control, Working, Before, Retrieving, Within, Past, Refusals
<1> QED  BY <1>2, <1>3 DEF Mine

-----------------------------------------------------------------------------
(* The caches *)

Unique(s) == \A i, j \in DOMAIN s : s[i].key = s[j].key => i = j

\* What a table holds was in the one before it, or is new.
From(t, s, new) == \A i \in DOMAIN t : t[i] \in new \/ \E j \in DOMAIN s : t[i] = s[j]

\* A sequence without one of its elements.
LEMMA Removed ==
    ASSUME NEW S, NEW s \in Seq(S), NEW i \in DOMAIN s
    PROVE  /\ RemoveAt(s, i) \in Seq(S) /\ Len(RemoveAt(s, i)) = Len(s) - 1
           /\ \A j \in DOMAIN RemoveAt(s, i) :
                /\ (IF j < i THEN j ELSE j + 1) \in DOMAIN s \ {i}
                /\ RemoveAt(s, i)[j] = s[IF j < i THEN j ELSE j + 1]
<1> DEFINE a == SubSeq(s, 1, i - 1)
           b == SubSeq(s, i + 1, Len(s))
<1>1. i \in 1 .. Len(s) /\ Len(s) \in Nat
    OBVIOUS
<1>2. /\ a \in Seq(S) /\ Len(a) = i - 1 /\ \A j \in 1 .. i - 1 : a[j] = s[j]
    BY <1>1, SubSeqProperties
<1>3. /\ b \in Seq(S) /\ Len(b) = Len(s) - i /\ \A j \in 1 .. Len(s) - i : b[j] = s[i + j]
    BY <1>1, SubSeqProperties
<1>4. RemoveAt(s, i) = a \o b
    BY DEF RemoveAt
<1> HIDE DEF a, b
<1>5. /\ a \o b \in Seq(S) /\ Len(a \o b) = Len(a) + Len(b)
      /\ \A k \in 1 .. Len(a) + Len(b) : (a \o b)[k] = IF k <= Len(a) THEN a[k] ELSE b[k - Len(a)]
    BY <1>2, <1>3, ConcatProperties
<1>5a. Len(a) + Len(b) = Len(s) - 1
    BY <1>1, <1>2, <1>3
<1>6. ASSUME NEW j \in DOMAIN (a \o b)
      PROVE  /\ (IF j < i THEN j ELSE j + 1) \in DOMAIN s \ {i}
             /\ (a \o b)[j] = s[IF j < i THEN j ELSE j + 1]
    <2>1. j \in 1 .. Len(s) - 1
        BY <1>5, <1>5a
    <2>2. CASE j < i
        <3>1. (a \o b)[j] = a[j]
            BY <1>1, <1>2, <1>5, <1>5a, <2>1, <2>2
        <3> QED  BY <1>1, <1>2, <2>1, <2>2, <3>1
    <2>3. CASE ~(j < i)
        <3> DEFINE k == j - Len(a)
        <3>1. k \in 1 .. Len(s) - i /\ j = Len(a) + k /\ i + k = j + 1
            BY <1>1, <1>2, <2>1, <2>3
        <3>2. (a \o b)[j] = b[k]
            BY <1>1, <1>2, <1>5, <1>5a, <2>1, <2>3
        <3> HIDE DEF k
        <3>3. b[k] = s[i + k]
            BY <1>3, <3>1
        <3> QED  BY <1>1, <2>1, <2>3, <3>1, <3>2, <3>3
    <2> QED  BY <2>2, <2>3
<1> QED  BY <1>4, <1>5, <1>5a, <1>6

\* The last elements of a sequence, at most n.
LEMMA LastKept ==
    ASSUME NEW S, NEW s \in Seq(S), NEW n \in Nat \ {0}
    PROVE  /\ KeepLast(s, n) \in Seq(S) /\ Len(KeepLast(s, n)) <= n
           /\ \E d \in Nat : \A j \in DOMAIN KeepLast(s, n) :
                j + d \in DOMAIN s /\ KeepLast(s, n)[j] = s[j + d]
<1>1. Len(s) \in Nat
    OBVIOUS
<1>2. CASE Len(s) <= n
    <2>1. KeepLast(s, n) = SubSeq(s, 1, Len(s))
        BY <1>2 DEF KeepLast
    <2>2. KeepLast(s, n) \in Seq(S) /\ Len(KeepLast(s, n)) = Len(s)
        BY <1>1, <2>1
    <2>3. \A j \in DOMAIN KeepLast(s, n) : j + 0 \in DOMAIN s /\ KeepLast(s, n)[j] = s[j + 0]
        BY <1>1, <2>1, <2>2
    <2> QED  BY <1>2, <2>2, <2>3
<1>3. CASE ~(Len(s) <= n)
    <2> DEFINE d == Len(s) - n
    <2>1. KeepLast(s, n) = SubSeq(s, d + 1, Len(s)) /\ d \in Nat /\ d + n = Len(s)
        BY <1>1, <1>3 DEF KeepLast
    <2> HIDE DEF d
    <2>2. /\ KeepLast(s, n) \in Seq(S) /\ Len(KeepLast(s, n)) = n
          /\ \A j \in 1 .. n : KeepLast(s, n)[j] = s[d + 1 + j - 1]
        <3>1. Len(s) - (d + 1) + 1 = n /\ d + 1 \in 1 .. Len(s) + 1
            BY <1>1, <2>1
        <3> QED  BY <1>1, <2>1, <3>1, SubSeqProperties
    <2>3. \A j \in DOMAIN KeepLast(s, n) : j + d \in DOMAIN s /\ KeepLast(s, n)[j] = s[j + d]
        BY <1>1, <2>1, <2>2
    <2> QED  BY <2>1, <2>2, <2>3
<1> QED  BY <1>2, <1>3

\* The table without a key.
LEMMA WithoutKey ==
    ASSUME IsSeq(entries), Unique(entries), NEW key
    PROVE  /\ IsSeq(Others(key)) /\ Unique(Others(key)) /\ Len(Others(key)) <= Len(entries)
           /\ From(Others(key), entries, {})
           /\ \A i \in DOMAIN Others(key) : Others(key)[i].key # key
           /\ Held(key) # {} => Len(Others(key)) = Len(entries) - 1
           /\ Len(entries) \in Nat /\ Len(Others(key)) \in Nat
<1>1. PICK S : entries \in Seq(S)
    BY DEF IsSeq
<1>2. CASE Held(key) = {}
    <2>1. Others(key) = entries /\ \A i \in DOMAIN entries : entries[i].key # key
        BY <1>2 DEF Others, Held
    <2> QED  BY <1>1, <1>2, <2>1 DEF From
<1>3. CASE Held(key) # {}
    <2> DEFINE i == CHOOSE i \in Held(key) : TRUE
    <2>1. i \in DOMAIN entries /\ entries[i].key = key /\ Others(key) = RemoveAt(entries, i)
        BY <1>3 DEF Held, Others
    <2> HIDE DEF i
    <2>2. /\ Others(key) \in Seq(S) /\ Len(Others(key)) = Len(entries) - 1
          /\ \A j \in DOMAIN Others(key) :
                /\ (IF j < i THEN j ELSE j + 1) \in DOMAIN entries \ {i}
                /\ Others(key)[j] = entries[IF j < i THEN j ELSE j + 1]
        BY <1>1, <2>1, Removed
    <2>3. \A j \in DOMAIN Others(key) : Others(key)[j].key # key
        BY <2>1, <2>2 DEF Unique
    <2>4. Unique(Others(key))
        <3> SUFFICES ASSUME NEW j \in DOMAIN Others(key), NEW k \in DOMAIN Others(key),
                            Others(key)[j].key = Others(key)[k].key
                     PROVE  j = k
            BY DEF Unique
        <3>1. (IF j < i THEN j ELSE j + 1) = (IF k < i THEN k ELSE k + 1)
            BY <2>2 DEF Unique
        <3>2. j \in Nat /\ k \in Nat /\ i \in Nat
            BY <1>1, <2>1, <2>2
        <3> QED  BY <3>1, <3>2
    <2>5. From(Others(key), entries, {})
        BY <2>2 DEF From
    <2>6. Len(entries) \in Nat /\ Len(Others(key)) \in Nat
        BY <1>1, <2>2
    <2> QED  BY <2>2, <2>3, <2>4, <2>5, <2>6 DEF IsSeq
<1> QED  BY <1>2, <1>3

\* And with a new entry of that key at the end.
LEMMA WithKey ==
    ASSUME IsSeq(entries), Unique(entries), NEW e
    PROVE  LET t == Append(Others(e.key), e)
           IN  /\ IsSeq(t) /\ Unique(t) /\ From(t, entries, {e})
               /\ Len(t) = Len(Others(e.key)) + 1
<1> DEFINE o == Others(e.key)
           t == Append(o, e)
<1>1. /\ IsSeq(o) /\ Unique(o) /\ From(o, entries, {})
      /\ \A i \in DOMAIN o : o[i].key # e.key
    BY WithoutKey
<1> HIDE DEF o
<1>2. PICK S : o \in Seq(S)
    BY <1>1 DEF IsSeq
<1>3. o \in Seq(S \cup {e})
    BY <1>2
<1>4. /\ t \in Seq(S \cup {e}) /\ Len(t) = Len(o) + 1 /\ t[Len(o) + 1] = e
      /\ \A i \in DOMAIN o : i \in DOMAIN t /\ t[i] = o[i]
    BY <1>3
<1>5. \A i \in DOMAIN t : i \in DOMAIN o \/ i = Len(o) + 1
    BY <1>3, <1>4
<1> HIDE DEF t
<1>6. Unique(t) /\ From(t, entries, {e})
    BY <1>1, <1>4, <1>5 DEF Unique, From
<1>7. IsSeq(t)
    BY <1>4 DEF IsSeq
<1> QED  BY <1>4, <1>6, <1>7 DEF t, o

\* A table cut to its last entries.
LEMMA CutTable ==
    ASSUME NEW s, IsSeq(s), Unique(s), NEW n \in Nat \ {0}, NEW old, NEW new, From(s, old, new)
    PROVE  LET t == KeepLast(s, n)
           IN  IsSeq(t) /\ Unique(t) /\ From(t, old, new) /\ Len(t) <= n
<1> DEFINE t == KeepLast(s, n)
<1>1. PICK S : s \in Seq(S)
    BY DEF IsSeq
<1>2. t \in Seq(S) /\ Len(t) <= n
    BY <1>1, LastKept
<1>3. PICK d \in Nat : \A j \in DOMAIN t : j + d \in DOMAIN s /\ t[j] = s[j + d]
    BY <1>1, LastKept
<1> HIDE DEF t
<1>4. \A j, k \in DOMAIN t : j + d = k + d => j = k
    BY <1>2
<1>5. Unique(t)
    BY <1>3, <1>4 DEF Unique
<1>6. From(t, old, new)
    BY <1>3 DEF From
<1> QED  BY <1>2, <1>5, <1>6 DEF IsSeq, t

\* What an operation of the key-value cache makes of its table: what it may add is new.
Turns(new) ==
    /\ IsSeq(entries') /\ Unique(entries') /\ From(entries', entries, new)
    /\ backend = "memory" => Len(entries') <= MaxEntries

\* A read of the key-value cache only leaves out or moves entries.
LEMMA Reading ==
    ASSUME Caching, NEW key, Hit(key) \/ Miss(key) \/ ReadFails
    PROVE  Turns({})
<1>1. IsSeq(entries) /\ Unique(entries) /\ (backend = "memory" => Len(entries) <= MaxEntries)
    BY DEF Caching, Unique
<1>2. CASE UNCHANGED entries
    BY <1>1, <1>2 DEF Turns, From
<1>3. CASE Miss(key)
    BY <1>1, <1>3, WithoutKey, CacheAssumption DEF Miss, Turns
<1>4. CASE Hit(key) /\ backend = "memory"
    <2> DEFINE e == HitEntry(key)
    <2>1. entries' = Append(Others(key), e)
        BY <1>4 DEF Hit, MoveToEnd
    <2>2. Hits(key) # {} /\ Held(key) # {}
        BY <1>4 DEF Hit, Hits
    <2>3. e.key = key /\ \E i \in DOMAIN entries : e = entries[i]
        BY <2>2, HitFound
    <2> HIDE DEF e
    <2>4. IsSeq(entries') /\ Unique(entries') /\ From(entries', entries, {e}) /\ Len(entries') = Len(Others(key)) + 1
        BY <1>1, <2>1, <2>3, WithKey
    <2>5. From(entries', entries, {})
        BY <2>3, <2>4 DEF From
    <2>6. Len(entries') = Len(entries)
        BY <1>1, <2>2, <2>4, WithoutKey
    <2> QED  BY <1>1, <2>4, <2>5, <2>6 DEF Turns
<1> QED  BY <1>2, <1>3, <1>4 DEF Hit, RedisGet, ReadFails

\* A write of the key-value cache adds the one entry of its key.
LEMMA Writing ==
    ASSUME Caching, NEW key, NEW by, Set(key, by) \/ NotWritten
    PROVE  Turns({Entry(key, by)})
<1>1. IsSeq(entries) /\ Unique(entries) /\ (backend = "memory" => Len(entries) <= MaxEntries)
    BY DEF Caching, Unique
<1>2. CASE UNCHANGED entries
    BY <1>1, <1>2 DEF Turns, From
<1>3. CASE Set(key, by)
    <2> DEFINE e == Entry(key, by)
               t == Append(Others(key), e)
    <2>1. e.key = key
        BY DEF Entry
    <2>2. IF backend = "memory" THEN entries' = KeepLast(t, MaxEntries) ELSE entries' = t
        BY <1>3 DEF Set, RedisSet
    <2> HIDE DEF e
    <2>3. IsSeq(t) /\ Unique(t) /\ From(t, entries, {e})
        BY <1>1, <2>1, WithKey
    <2> HIDE DEF t
    <2>4. CASE backend = "memory"
        <3>1. IsSeq(entries') /\ Unique(entries') /\ From(entries', entries, {e}) /\ Len(entries') <= MaxEntries
            BY <2>2, <2>3, <2>4, CutTable, CacheAssumption
        <3> QED  BY <3>1 DEF Turns, e
    <2>5. CASE backend # "memory"
        BY <2>2, <2>3, <2>5 DEF Turns, e
    <2> QED  BY <2>4, <2>5
<1> QED  BY <1>2, <1>3 DEF NotWritten

\* A backend that is closed keeps its entries or has none.
LEMMA Clearing ==
    ASSUME Caching, CloseBackend
    PROVE  Turns({})
<1>1. CASE UNCHANGED entries
    BY <1>1 DEF Turns, From, Caching, Unique
<1>2. CASE entries' = <<>>
    <2>1. entries' \in Seq({}) /\ Len(entries') = 0 /\ DOMAIN entries' = {}
        BY <1>2
    <2> QED  BY <2>1, CacheAssumption DEF Turns, From, Unique, IsSeq
<1> QED  BY <1>1, <1>2 DEF CloseBackend, RedisClose

\* The similarity list takes an answer in.
LEMMA Remembering ==
    ASSUME Caching, NEW question, NEW by, Remember(question, by)
    PROVE  /\ IsSeq(similar') /\ Len(similar') <= MaxSimilar
           /\ From(similar', similar, {[question |-> question, by |-> by]})
<1> DEFINE e == [question |-> question, by |-> by]
           t == Append(similar, e)
<1>1. PICK S : similar \in Seq(S)
    BY DEF Caching, IsSeq
<1> HIDE DEF e
<1>2. similar \in Seq(S \cup {e})
    BY <1>1
<1>3. /\ t \in Seq(S \cup {e}) /\ t[Len(similar) + 1] = e
      /\ \A i \in DOMAIN t : i = Len(similar) + 1 \/ (i \in DOMAIN similar /\ t[i] = similar[i])
    BY <1>2
<1>4. similar' = KeepLast(t, MaxSimilar)
    BY DEF Remember, e
<1> HIDE DEF t
<1>5. /\ similar' \in Seq(S \cup {e}) /\ Len(similar') <= MaxSimilar
      /\ \E d \in Nat : \A j \in DOMAIN similar' : j + d \in DOMAIN t /\ similar'[j] = t[j + d]
    BY <1>3, <1>4, LastKept, CacheAssumption
<1>6. From(similar', similar, {e})
    BY <1>3, <1>5 DEF From
<1> QED  BY <1>5, <1>6 DEF IsSeq, e

\* So the caches keep what they owe when what they take in is stored by a call that is over.
LEMMA CachesKeep ==
    ASSUME Caching, NEW new, Turns(new), \A e \in new : Stored(e)',
           \A e : Stored(e) => Stored(e)', UNCHANGED fixed,
           NEW asked, IsSeq(similar'), Len(similar') <= MaxSimilar, From(similar', similar, asked),
           \A e \in asked : e.by \in Requests /\ e.question = ask[e.by].question
    PROVE  Caching'
<1>1. ask' = ask /\ backend' = backend
    BY FixedStays
<1>2. ASSUME NEW i \in DOMAIN entries'
      PROVE  Stored(entries[i])'
    <2> DEFINE e == entries'[i]
    <2>1. e \in new \/ \E j \in DOMAIN entries : e = entries[j]
        BY DEF Turns, From
    <2>2. PICK f : f = e /\ (f \in new \/ \E j \in DOMAIN entries : f = entries[j])
        BY <2>1
    <2>3. Stored(f)'
        BY <2>2 DEF Caching
    <2> QED  BY <2>2, <2>3 DEF Stored, Key
<1>3. \A i \in DOMAIN similar' :
         similar'[i].by \in Requests /\ similar'[i].question = ask[similar'[i].by].question
    BY DEF Caching, From
<1>4. \A i, j \in DOMAIN entries' : entries'[i].key = entries'[j].key => i = j
    BY DEF Turns, Unique
<1> QED  BY <1>1, <1>2, <1>3, <1>4 DEF Caching, Turns

\* A step that leaves the caches alone.
LEMMA CachesRest ==
    ASSUME Caching, UNCHANGED caches, UNCHANGED fixed, \A e : Stored(e) => Stored(e)'
    PROVE  Caching'
<1>1. Turns({}) /\ From(similar', similar, {})
    BY DEF Caching, Turns, From, Unique, caches
<1>2. IsSeq(similar') /\ Len(similar') <= MaxSimilar
    BY DEF Caching, caches
<1> QED  BY <1>1, <1>2, CachesKeep

\* A step of a call that leaves them alone.
LEMMA CallRest ==
    ASSUME IInv, NEW r \in Requests, Moved(r), UNCHANGED caches
    PROVE  Caching'
<1>1. Calls /\ Caching /\ UNCHANGED fixed
    BY DEF IInv, Moved
<1>2. \A e : Stored(e) => Stored(e)'
    BY <1>1, OthersKeep
<1> QED  BY <1>1, <1>2, CachesRest

\* Looking an answer up.
LEMMA LookupCaches ==
    ASSUME IInv, Unhurried, NEW r \in Requests, Lookup(r)
    PROVE  Caching'
<1>1. Moved(r) /\ Calls /\ Caching /\ UNCHANGED fixed
    BY LookupKeeps DEF IInv, Moved
<1>2. \A e : Stored(e) => Stored(e)'
    BY <1>1, OthersKeep
<1>3. CASE UNCHANGED caches
    BY <1>1, <1>2, <1>3, CachesRest
<1>4. CASE UNCHANGED similar /\ (Hit(Key(r)) \/ Miss(Key(r)) \/ ReadFails)
    <2>1. Turns({})
        BY <1>1, <1>4, Reading
    <2>2. IsSeq(similar') /\ Len(similar') <= MaxSimilar /\ From(similar', similar, {})
        BY <1>1, <1>4 DEF Caching, From
    <2> QED  BY <1>1, <1>2, <2>1, <2>2, CachesKeep
<1> QED  BY <1>3, <1>4 DEF Lookup

\* Storing one, or being cancelled while Redis stores it.
LEMMA StoreCaches ==
    ASSUME IInv, Unhurried, NEW r \in Requests, Store(r) \/ Cancel(r)
    PROVE  Caching'
<1>1. Moved(r) /\ Calls /\ Caching /\ UNCHANGED <<fixed, via>> /\ Shapes /\ now \in Nat
    BY StoreKeeps, CancelKeeps DEF IInv, Moved, Unhurried, Shapes
<1>2. \A e : Stored(e) => Stored(e)'
    BY <1>1, OthersKeep
<1>3. CASE UNCHANGED caches
    BY <1>1, <1>2, <1>3, CachesRest
<1>4. CASE pc[r] = "store" /\ via[r].cache = "kv" /\ UNCHANGED similar /\ (Set(Key(r), r) \/ NotWritten)
    <2>0. PICK e : e = Entry(Key(r), r)
        OBVIOUS
    <2>1. Turns({e})
        BY <1>1, <1>4, <2>0, Writing
    <2>2. e.key = Key(r) /\ e.by = r /\ e.expires = now + TTL
        BY <2>0 DEF Entry
    <2>3. result'[r].at = now /\ pc'[r] = "ended"
        <3>1. ~Sdk(r) /\ scope[r] # "open"
            BY <1>1, <1>4 DEF Calls, Control, Given, Past
        <3>2. CASE Store(r)
            BY <1>1, <3>1, <3>2, StoreKeeps DEF Store, Goto, After, Shapes
        <3>3. CASE Cancel(r)
            BY <1>1, <1>4, <3>1, <3>3, Results DEF Cancel, Unwind, Goto, After, Shapes
        <3> QED  BY <3>2, <3>3
    <2>4. Key(e.by)' = Key(e.by) /\ via'[e.by] = via[e.by]
        BY <1>1, <2>2, KeyStays
    <2>5. \A f \in {e} : Stored(f)'
        BY <1>4, <2>2, <2>3, <2>4 DEF Stored
    <2>6. IsSeq(similar') /\ Len(similar') <= MaxSimilar /\ From(similar', similar, {})
        BY <1>1, <1>4 DEF Caching, From
    <2> QED  BY <1>1, <1>2, <2>1, <2>5, <2>6, CachesKeep
<1>5. CASE UNCHANGED entries /\ Remember(ask[r].question, r)
    <2> DEFINE e == [question |-> ask[r].question, by |-> r]
    <2>1. IsSeq(similar') /\ Len(similar') <= MaxSimilar /\ From(similar', similar, {e})
        BY <1>1, <1>5, Remembering
    <2>2. Turns({})
        BY <1>1, <1>5 DEF Caching, Turns, From, Unique
    <2>3. \A f \in {e} : f.by \in Requests /\ f.question = ask[f.by].question
        OBVIOUS
    <2> HIDE DEF e
    <2> QED  BY <1>1, <1>2, <2>1, <2>2, <2>3, CachesKeep
<1>6. pc[r] = "store" /\ via[r].cache # "similar" => via[r].cache = "kv"
    BY <1>1 DEF Calls, Control, Given
<1>7. CASE Store(r)
    BY <1>4, <1>5, <1>6, <1>7 DEF Store
<1>8. CASE Cancel(r)
    BY <1>3, <1>4, <1>8 DEF Cancel, caches
<1> QED  BY <1>7, <1>8

-----------------------------------------------------------------------------
(* The invariant of the calls and the caches *)

\* It holds at the start.
LEMMA Starts ==
    ASSUME Init
    PROVE  IInv
<1>1. PICK s \in Scenarios : ask = s.ask /\ settings = s.settings /\ backend = s.backend
    BY DEF Init
<1>2. /\ now = 0 /\ entries = <<>> /\ similar = <<>> /\ app = "active"
      /\ via = [r \in Requests |-> [cache |-> "off", tenant |-> None]]
      /\ pc = [r \in Requests |-> "idle"] /\ work = [r \in Requests |-> NoWork]
      /\ scope = [r \in Requests |-> "none"] /\ runtime = [r \in Requests |-> "none"]
      /\ result = [r \in Requests |-> [status |-> "none", by |-> None, at |-> 0]]
      /\ DOMAIN stream = Requests
    BY DEF Init, CacheInit, PipelineInit, StreamInit
<1>3. Shapes
    BY <1>1, <1>2, ScenariosAssumption DEF Shapes
<1>4. Calls
    <2> SUFFICES ASSUME NEW r \in Requests
                 PROVE  Control(r) /\ Working(r) /\ Given(r) /\ Own(r)
        BY DEF Calls
    <2>1. Control(r) /\ Given(r) /\ Own(r)
        BY <1>2 DEF Control, Given, Own, Before, Retrieving, Within, Past, Refusals
    <2>2. Working(r)
        BY <1>2, AnswerAssumption DEF Working, NoWork
    <2> QED  BY <2>1, <2>2
<1>5. Caching
    <2>1. entries \in Seq({}) /\ similar \in Seq({}) /\ DOMAIN entries = {} /\ DOMAIN similar = {}
          /\ Len(entries) = 0 /\ Len(similar) = 0
        BY <1>2
    <2> QED  BY <2>1, CacheAssumption DEF Caching, IsSeq
<1> QED  BY <1>3, <1>4, <1>5 DEF IInv

\* A step of a call keeps it when it keeps the caches and what the call owes.
LEMMA CallStep ==
    ASSUME IInv, NEW r \in Requests, Moved(r), Mine(r)', Caching', DOMAIN stream' = Requests,
           app' \in {"active", "draining", "closed"}
    PROVE  IInv'
<1>1. Calls'
    BY CallKeeps DEF IInv
<1>2. Shapes'
    BY FixedStays DEF IInv, Shapes, Moved
<1> QED  BY <1>1, <1>2 DEF IInv

\* Every step of the pipeline is one of those.
LEMMA PipelineKeeps ==
    ASSUME IInv, Unhurried, NEW r \in Requests, Step(r) \/ Consumer(r), DOMAIN stream' = Requests
    PROVE  IInv' /\ Moved(r)
<1>1. app' = app /\ app \in {"active", "draining", "closed"}
    BY DEF IInv, Shapes, Step, Consumer, Fail, Lookup, Open, Build, AskModel, QueryGraph, RunSearch,
           Rerank, Generate, NextToken, EndStream, Release, Store, Leave, Pull, CloseEarly, Finalize,
           Cancel, Inside, Leaving
<1>2. CASE Build(r) \/ AskModel(r) \/ QueryGraph(r) \/ RunSearch(r) \/ Rerank(r)
    <2>1. Inward(r) /\ UNCHANGED caches
        BY <1>2, Inner DEF Build, AskModel, QueryGraph, RunSearch, Rerank, Inside
    <2>2. Moved(r) /\ Mine(r)'
        BY <2>1, InwardKeeps
    <2> QED  BY <1>1, <2>1, <2>2, CallRest, CallStep
<1>3. CASE \/ Fail(r) \/ Open(r) \/ Generate(r) \/ NextToken(r) \/ EndStream(r) \/ Release(r)
           \/ Leave(r) \/ Pull(r) \/ CloseEarly(r) \/ Finalize(r)
    <2>1. UNCHANGED caches
        BY <1>3 DEF Fail, Open, Generate, NextToken, EndStream, Release, Leave, Pull, CloseEarly,
                    Finalize, Inside, Leaving
    <2>2. Moved(r) /\ Mine(r)'
        BY <1>3, FailKeeps, OpenKeeps, GenerateKeeps, NextTokenKeeps, ReleaseKeeps, LeaveKeeps,
           PullKeeps, CloseEarlyKeeps, FinalizeKeeps
    <2> QED  BY <1>1, <2>1, <2>2, CallRest, CallStep
<1>4. CASE Lookup(r)
    BY <1>1, <1>4, LookupKeeps, LookupCaches, CallStep
<1>5. CASE Store(r) \/ Cancel(r)
    BY <1>1, <1>5, StoreKeeps, CancelKeeps, StoreCaches, CallStep
<1> QED  BY <1>2, <1>3, <1>4, <1>5 DEF Step, Consumer

\* The first step of a call: it is refused, or begins with the cache it is given.
LEMMA Entering ==
    ASSUME IInv, NEW r \in Requests, Receive(r) \/ Call(r)
    PROVE  IInv' /\ Moved(r)
<1>0. Shapes /\ UNCHANGED stream
    BY DEF IInv, Receive, Call
<1>1. CASE \E status \in Refusals : Refuse(r, status) /\ pc[r] = "idle" /\ ~Sdk(r)
    <2>1. PICK status \in Refusals : Refuse(r, status) /\ pc[r] = "idle" /\ ~Sdk(r)
        BY <1>1
    <2>2. Moved(r) /\ Mine(r)'
        BY <2>1, RefuseKeeps
    <2> QED  BY <1>0, <2>1, <2>2, CallRest, CallStep DEF Refuse, Shapes
<1>2. ASSUME NEW cache, NEW tenant, Begin(r, cache, tenant), UNCHANGED <<fixed, now>>,
             cache \in {"off", "kv", "similar"},
             cache = "kv" => ~Sdk(r) /\ tenant = Tenant(r) /\ (TenantScoped => Tenant(r) # None)
      PROVE  IInv' /\ Moved(r)
    <2>1. Moved(r) /\ Mine(r)'
        BY <1>2, BeginKeeps
    <2> QED  BY <1>0, <1>2, <2>1, CallRest, CallStep DEF Begin, Shapes
<1>3. CASE Receive(r)
    <2>1. CASE Begin(r, Cache(r), Tenant(r)) /\ UNCHANGED <<fixed, now>>
        <3>1. Cache(r) \in {"off", "kv"} /\ ~Sdk(r) /\ (Cache(r) = "kv" => (TenantScoped => Tenant(r) # None))
            BY <1>3 DEF Receive, Cache, Sdk
        <3> QED  BY <1>2, <2>1, <3>1
    <2> QED  BY <1>1, <1>3, <2>1 DEF Receive, Refusals, Sdk
<1>4. CASE Call(r)
    <2>1. Cache(r) \in {"off", "similar"}
        BY <1>0, <1>4 DEF Call, Cache, Shapes
    <2> QED  BY <1>2, <1>4, <2>1 DEF Call
<1> QED  BY <1>3, <1>4

\* No call moves: then what they owe stays as long as the clock does not go back.
LEMMA NoneMoves ==
    ASSUME IInv, UNCHANGED <<fixed, via, pc, work, scope, runtime, result>>,
           now' \in Nat, now <= now', app' \in {"active", "draining", "closed"},
           DOMAIN stream' = Requests
    PROVE  Shapes' /\ Calls' /\ \A e : Stored(e) => Stored(e)'
<1>1. ask' = ask /\ backend' = backend /\ TenantScoped' = TenantScoped
    BY FixedStays
<1>2. Shapes'
    BY <1>1 DEF IInv, Shapes
<1>3. \A q \in Requests : Key(q)' = Key(q)
    BY KeyStays
<1>4. ASSUME NEW r \in Requests
      PROVE  Mine(r)'
    <2>1. Control(r) /\ Working(r) /\ Given(r) /\ Own(r) /\ now \in Nat
        BY DEF IInv, Calls, Shapes
    <2>2. Tenant(r)' = Tenant(r) /\ Sdk(r)' = Sdk(r)
        BY FixedStays
    <2>3. Control(r)' /\ Working(r)' /\ Given(r)'
        BY <1>1, <2>1, <2>2 DEF Control, Working, Given
    <2>4. Own(r)'
        BY <1>1, <1>3, <2>1 DEF Own
    <2> QED  BY <2>3, <2>4 DEF Mine
<1>5. \A e : Stored(e) => Stored(e)'
    BY <1>3 DEF Stored
<1> QED  BY <1>2, <1>4, <1>5 DEF Calls, Mine

\* Shutdown, an ingestion and the clock.
LEMMA AroundKeeps ==
    ASSUME IInv, Surroundings \/ Tick
    PROVE  IInv'
<1>1. Shapes /\ Caching /\ now \in Nat
    BY DEF IInv, Shapes
<1>2. CASE Tick
    <2>1. /\ UNCHANGED <<fixed, via, pc, work, scope, runtime, result, app, stream, caches>>
          /\ now' = now + 1
        BY <1>2 DEF Tick, pipeline, caches
    <2>2. Shapes' /\ Calls' /\ \A e : Stored(e) => Stored(e)'
        BY <1>1, <2>1, NoneMoves DEF Shapes
    <2> QED  BY <1>1, <2>1, <2>2, CachesRest DEF IInv
<1>3. CASE Surroundings
    <2>1. UNCHANGED <<fixed, via, pc, work, scope, runtime, result, stream, now>>
          /\ app' \in {"active", "draining", "closed"}
        BY <1>1, <1>3 DEF Surroundings, Shutdown, Ingest, Shapes
    <2>2. Shapes' /\ Calls' /\ \A e : Stored(e) => Stored(e)'
        BY <1>1, <2>1, NoneMoves DEF Shapes
    <2>3. CASE UNCHANGED caches
        BY <1>1, <2>1, <2>2, <2>3, CachesRest DEF IInv
    <2>4. CASE CloseBackend /\ UNCHANGED similar
        <3>1. Turns({})
            BY <1>1, <2>4, Clearing
        <3>2. IsSeq(similar') /\ Len(similar') <= MaxSimilar /\ From(similar', similar, {})
            BY <1>1, <2>4 DEF Caching, From
        <3> QED  BY <1>1, <2>1, <2>2, <3>1, <3>2, CachesKeep DEF IInv
    <2> QED  BY <1>3, <2>3, <2>4 DEF Surroundings, Shutdown, Ingest, caches
<1> QED  BY <1>2, <1>3

\* The connection alone.
LEMMA StreamAlone ==
    ASSUME IInv, NEW r \in Requests, UNCHANGED <<fixed, via, now, caches, pipeline>>,
           DOMAIN stream' = Requests
    PROVE  IInv'
<1>1. /\ UNCHANGED <<via, pc, work, scope, runtime, result, app>> /\ now' = now
      /\ UNCHANGED fixed /\ UNCHANGED caches
    BY DEF pipeline
<1>2. Shapes /\ Caching /\ now \in Nat
    BY DEF IInv, Shapes
<1>3. Shapes' /\ Calls' /\ \A e : Stored(e) => Stored(e)'
    BY <1>1, <1>2, NoneMoves DEF Shapes
<1> QED  BY <1>1, <1>2, <1>3, CachesRest DEF IInv

\* Every step keeps it.
LEMMA NextKeeps == IInv /\ [Next]_vars => IInv'
<1> SUFFICES ASSUME IInv, [Next]_vars
             PROVE  IInv'
    OBVIOUS
<1>0. DOMAIN stream = Requests
    BY DEF IInv, Shapes
<1>1. CASE UNCHANGED vars
    <2>1. /\ UNCHANGED <<fixed, via, pc, work, scope, runtime, result, app, stream, caches>>
          /\ now' = now
        BY <1>1 DEF vars, pipeline
    <2>2. Shapes /\ Caching /\ now \in Nat
        BY DEF IInv, Shapes
    <2>3. Shapes' /\ Calls' /\ \A e : Stored(e) => Stored(e)'
        BY <2>1, <2>2, NoneMoves DEF Shapes
    <2> QED  BY <2>1, <2>2, <2>3, CachesRest DEF IInv
<1>2. ASSUME NEW r \in Requests, Receive(r) \/ Call(r)
      PROVE  IInv'
    BY <1>2, Entering
<1>3. ASSUME NEW r \in Requests, Work(r)
      PROVE  IInv'
    <2>1. Step(r) /\ Unhurried /\ stream' = stream
        BY <1>3 DEF Work, Step, Unhurried
    <2> QED  BY <1>0, <2>1, PipelineKeeps
<1>4. ASSUME NEW r \in Requests, Consume(r)
      PROVE  IInv'
    <2>1. Consumer(r) /\ Unhurried /\ stream' = stream
        BY <1>4 DEF Consume, Consumer, Unhurried
    <2> QED  BY <1>0, <2>1, PipelineKeeps
<1>5. ASSUME NEW r \in Requests, Deliver(r)
      PROVE  IInv'
    <2>1. Unhurried
        BY <1>5 DEF Deliver, Unhurried
    <2>2. DOMAIN stream' = Requests
        BY <1>0, <1>5 DEF Deliver, Yield, Iterate, Wanders, YieldToken, YieldUsage, YieldDone, YieldError,
           Disconnected, RaiseForStatus, ReadLine, BreakOff, NextChunk, CloseIterator, Cut, Send, Reader
    <2>3. CASE Pull(r) \/ CloseEarly(r) \/ Cancel(r)
        BY <2>1, <2>2, <2>3, PipelineKeeps DEF Consumer
    <2>4. CASE UNCHANGED <<caches, pipeline>>
        BY <2>1, <2>2, <2>4, StreamAlone DEF Unhurried
    <2> QED  BY <1>5, <2>3, <2>4 DEF Deliver, Yield, Iterate, Wanders, YieldToken, YieldUsage, YieldDone,
                YieldError, Disconnected, Closing
<1>6. CASE Surroundings \/ Tick
    BY <1>6, AroundKeeps
<1> QED  BY <1>1, <1>2, <1>3, <1>4, <1>5, <1>6 DEF Next

\* The calls and the caches are what IInv says in every state.
THEOREM CallsAndCaches == Spec => []IInv
<1>1. Init => IInv
    BY Starts
<1> QED  BY <1>1, NextKeeps, PTL DEF Spec

\* A cached answer was computed for the same tenant, configuration and question (in the
\* similarity list: for a similar one) and stored less than its lifetime ago, whoever else
\* stores, expires, evicts or closes the cache in between.
THEOREM CachedAnswers == Spec => []CachedAnswersAreOwn
<1>1. IInv => CachedAnswersAreOwn
    <2> SUFFICES ASSUME IInv, NEW r \in Requests, result[r].status = "hit", NEW by, by = result[r].by
                 PROVE  IF via[r].cache = "kv"
                        THEN /\ User(r) # User(by) => ~TenantScoped \/ settings.identities[User(r)] = settings.identities[User(by)]
                             /\ ask[by].strategy = ask[r].strategy /\ ask[by].question = ask[r].question
                             /\ result[by].at <= result[r].at /\ result[r].at < result[by].at + TTL
                        ELSE ask[r].question = ask[by].question \/ <<ask[r].question, ask[by].question>> \in Similar
        BY DEF CachedAnswersAreOwn
    <2>1. Given(r) /\ Own(r) /\ by \in Requests
        BY DEF IInv, Calls, Own
    <2>2. Given(by)
        BY <2>1 DEF IInv, Calls
    <2>3. CASE via[r].cache = "kv"
        <3>1. /\ via[by].cache = "kv" /\ Key(by) = Key(r)
              /\ result[by].at <= result[r].at /\ result[r].at < result[by].at + TTL
            BY <2>1, <2>3 DEF Own
        <3>2. /\ via[by].tenant = via[r].tenant /\ ask[by].strategy = ask[r].strategy
              /\ ask[by].question = ask[r].question
            BY <3>1 DEF Key
        <3>3. TenantScoped => Tenant(r) = Tenant(by) /\ Tenant(r) # None
            BY <2>1, <2>2, <2>3, <3>1, <3>2 DEF Given
        <3>4. TenantScoped => settings.identities[User(r)] = settings.identities[User(by)]
            BY <3>3 DEF Tenant
        <3> QED  BY <2>3, <3>1, <3>2, <3>4
    <2>4. CASE via[r].cache # "kv"
        BY <2>1, <2>4 DEF Own
    <2> QED  BY <2>3, <2>4
<1> QED  BY <1>1, CallsAndCaches, PTL

\* A call that ended left no operation scope and no runtime of its own open, however it
\* ended, and a call that was answered from a cache never opened a scope.
THEOREM Released == Spec => []EndedMeansReleased
<1>1. IInv => EndedMeansReleased
    <2> SUFFICES ASSUME IInv, NEW r \in Requests
                 PROVE  /\ pc[r] = "ended" => scope[r] # "open" /\ runtime[r] # "open"
                        /\ result[r].status = "hit" => scope[r] = "none"
        BY DEF EndedMeansReleased
    <2>1. Control(r)
        BY DEF IInv, Calls
    <2> QED  BY <2>1 DEF Control, Past
<1> QED  BY <1>1, CallsAndCaches, PTL

-----------------------------------------------------------------------------
(* The stream *)

\* What the generator appends is on its way while the client is there.
Said(f, lines, sent, told) ==
    [f EXCEPT !.sent = sent, !.told = told, !.wire = IF f.link = "up" THEN f.wire \o lines ELSE f.wire]

\* The lines of a sequence that grows at its end.
LEMMA Grown ==
    ASSUME NEW s, IsSeq(s), NEW t, IsSeq(t)
    PROVE  /\ IsSeq(s \o t) /\ Len(s \o t) = Len(s) + Len(t) /\ Len(s) \in Nat /\ Len(t) \in Nat
           /\ \A i \in DOMAIN (s \o t) : i \in 1 .. Len(s) + Len(t)
           /\ \A i \in 1 .. Len(s) : i \in DOMAIN s /\ (s \o t)[i] = s[i]
           /\ \A i \in 1 .. Len(t) : (s \o t)[Len(s) + i] = t[i]
<1>1. PICK S : s \in Seq(S)
    BY DEF IsSeq
<1>2. PICK T : t \in Seq(T)
    BY DEF IsSeq
<1>3. s \in Seq(S \cup T) /\ t \in Seq(S \cup T)
    BY <1>1, <1>2
<1>4. /\ s \o t \in Seq(S \cup T) /\ Len(s \o t) = Len(s) + Len(t)
      /\ \A i \in 1 .. Len(s) + Len(t) : (s \o t)[i] = IF i <= Len(s) THEN s[i] ELSE t[i - Len(s)]
    BY <1>3, ConcatProperties
<1>5. Len(s) \in Nat /\ Len(t) \in Nat
    BY <1>1, <1>2
<1>6. \A i \in 1 .. Len(t) : (s \o t)[Len(s) + i] = t[i]
    <2> TAKE i \in 1 .. Len(t)
    <2>1. Len(s) + i \in 1 .. Len(s) + Len(t) /\ ~(Len(s) + i <= Len(s)) /\ (Len(s) + i) - Len(s) = i
        BY <1>5
    <2> QED  BY <1>4, <2>1
<1>7. \A i \in 1 .. Len(s) : i \in DOMAIN s /\ (s \o t)[i] = s[i]
    BY <1>1, <1>4, <1>5
<1> QED  BY <1>4, <1>5, <1>6, <1>7 DEF IsSeq

\* A sequence has a length.
LEMMA Lengths ==
    ASSUME NEW s, IsSeq(s)
    PROVE  Len(s) \in Nat /\ DOMAIN s = 1 .. Len(s)
BY DEF IsSeq

\* The elements of s are those of L after the first n.
Upcoming(s, L, n) == \A i \in 1 .. Len(s) : s[i] = L[n + i]

\* What is on its way are the next lines of L, before and after more of them are said.
LEMMA WireGrows ==
    ASSUME NEW w, IsSeq(w), NEW lines, IsSeq(lines), NEW n \in Nat, NEW T \in Nat, n + Len(w) = T, NEW L,
           Upcoming(w, L, n), Upcoming(lines, L, T)
    PROVE  /\ IsSeq(w \o lines) /\ n + Len(w \o lines) = T + Len(lines)
           /\ Upcoming(w \o lines, L, n)
<1> DEFINE v == w \o lines
<1>1. Len(w) \in Nat /\ DOMAIN w = 1 .. Len(w) /\ Len(lines) \in Nat
    BY Lengths
<1>2. /\ IsSeq(v) /\ Len(v) = Len(w) + Len(lines)
      /\ \A i \in DOMAIN v : i \in 1 .. Len(w) + Len(lines)
      /\ \A i \in 1 .. Len(w) : v[i] = w[i]
      /\ \A i \in 1 .. Len(lines) : v[Len(w) + i] = lines[i]
    BY Grown
<1> HIDE DEF v
<1>3. ASSUME NEW i \in 1 .. Len(v)
      PROVE  v[i] = L[n + i]
    <2>1. CASE i <= Len(w)
        BY <1>1, <1>2, <2>1 DEF Upcoming
    <2>2. CASE ~(i <= Len(w))
        <3> DEFINE k == i - Len(w)
        <3>1. k \in 1 .. Len(lines) /\ i = Len(w) + k /\ n + i = T + k
            <4>1. i \in 1 .. Len(w) + Len(lines)
                BY <1>1, <1>2
            <4>2. k \in 1 .. Len(lines) /\ i = Len(w) + k
                BY <1>1, <2>2, <4>1
            <4> HIDE DEF k
            <4>3. n + i = T + k
                BY <1>1, <4>2
            <4> QED  BY <4>2, <4>3
        <3> HIDE DEF k
        <3> QED  BY <1>2, <3>1 DEF Upcoming
    <2> QED  BY <2>1, <2>2
<1>4. n + Len(v) = T + Len(lines)
    BY <1>1, <1>2
<1> QED  BY <1>2, <1>3, <1>4 DEF v, Upcoming

\* The lines that the generator says next are those that follow what it has said.
Goes(f, u, n, lines, sent, told, v, g) ==
    /\ Follows(f, u, n) /\ g = Said(f, lines, sent, told)
    /\ sent \in 0 .. MaxTokens /\ told \in {"none", "usage", "done", "error"}
    /\ told = "usage" => v
    /\ v => told \in {"usage", "done"}
    /\ Total(f, u) \in Nat /\ Total(g, v) = Total(f, u) + Len(lines)
    /\ \A i \in 1 .. Total(f, u) : LineAt(g, v, i) = LineAt(f, u, i)
    /\ \A i \in 1 .. Len(lines) : lines[i] = LineAt(g, v, Total(f, u) + i)
    /\ f.at \notin {"ended", "failed"}
    /\ Len(f.got) = IF n <= sent THEN n ELSE sent
    /\ f.at \notin Over =>
         f.event = IF n = sent + 1 /\ v THEN "metadata"
                   ELSE IF n = sent + 1 /\ told = "error" THEN "error" ELSE None

\* A generator that says its next event keeps what its connection carries.
LEMMA SaidFlows ==
    ASSUME NoMark, NEW f, Flow(f), NEW u \in BOOLEAN, NEW n \in Nat, NEW lines, IsSeq(lines), NEW sent,
           NEW told, NEW v \in BOOLEAN, NEW g, Goes(f, u, n, lines, sent, told, v, g)
    PROVE  Flow(g)
<1>0. /\ Follows(f, u, n) /\ g = Said(f, lines, sent, told)
      /\ sent \in 0 .. MaxTokens /\ told \in {"none", "usage", "done", "error"}
      /\ told = "usage" => v
      /\ v => told \in {"usage", "done"}
      /\ Total(f, u) \in Nat /\ Total(g, v) = Total(f, u) + Len(lines)
      /\ \A i \in 1 .. Total(f, u) : LineAt(g, v, i) = LineAt(f, u, i)
      /\ \A i \in 1 .. Len(lines) : lines[i] = LineAt(g, v, Total(f, u) + i)
      /\ f.at \notin {"ended", "failed"}
      /\ Len(f.got) = IF n <= sent THEN n ELSE sent
      /\ f.at \notin Over =>
           f.event = IF n = sent + 1 /\ v THEN "metadata"
                     ELSE IF n = sent + 1 /\ told = "error" THEN "error" ELSE None
    BY DEF Goes
<1>1. /\ DOMAIN g = DOMAIN NoStream /\ g.sent = sent /\ g.told = told /\ g.link = f.link
      /\ g.at = f.at /\ g.event = f.event /\ g.got = f.got
      /\ g.wire = IF f.link = "up" THEN f.wire \o lines ELSE f.wire
    BY <1>0 DEF Said, Flow, Formed, Told, NoStream
<1>2. /\ IsSeq(f.wire) /\ IsSeq(f.got)
      /\ n + Len(f.wire) <= Total(f, u) /\ (f.link = "up" => n + Len(f.wire) = Total(f, u))
      /\ \A i \in DOMAIN f.wire : f.wire[i] = LineAt(f, u, n + i)
      /\ \A i \in DOMAIN f.got : f.got[i] = Answer[i][1].word
    BY <1>0 DEF Follows, Flow, Formed, Told
<1>3. PICK L : L = [i \in Nat |-> LineAt(g, v, i)]
    OBVIOUS
<1>4. PICK T \in Nat : T = Total(f, u)
    BY <1>0
<1>5. Len(f.wire) \in Nat /\ DOMAIN f.wire = 1 .. Len(f.wire) /\ Len(lines) \in Nat
    BY <1>2, Lengths
<1>6. Upcoming(f.wire, L, n)
    <2> SUFFICES ASSUME NEW i \in 1 .. Len(f.wire)
                 PROVE  f.wire[i] = L[n + i]
        BY DEF Upcoming
    <2>1. n + i \in 1 .. T /\ n + i \in Nat
        BY <1>2, <1>4, <1>5
    <2>2. LineAt(g, v, n + i) = LineAt(f, u, n + i)
        BY <1>0, <1>4, <2>1
    <2> QED  BY <1>2, <1>3, <1>5, <2>1, <2>2
<1>7. Upcoming(lines, L, T)
    <2> SUFFICES ASSUME NEW i \in 1 .. Len(lines)
                 PROVE  lines[i] = L[T + i]
        BY DEF Upcoming
    <2>1. T + i \in Nat
        BY <1>5
    <2> QED  BY <1>0, <1>3, <1>4, <2>1
<1>9. /\ IsSeq(g.wire) /\ n + Len(g.wire) <= T + Len(lines)
      /\ (f.link = "up" => n + Len(g.wire) = T + Len(lines))
      /\ Upcoming(g.wire, L, n)
    <2>1. CASE f.link = "up"
        <3>1. g.wire = f.wire \o lines /\ n + Len(f.wire) = T
            BY <1>1, <1>2, <1>4, <2>1
        <3>2. /\ IsSeq(f.wire \o lines) /\ n + Len(f.wire \o lines) = T + Len(lines)
              /\ Upcoming(f.wire \o lines, L, n)
            <4>1. PICK w : w = f.wire
                OBVIOUS
            <4>2. IsSeq(w) /\ n + Len(w) = T /\ Upcoming(w, L, n)
                BY <1>2, <1>6, <3>1, <4>1
            <4>3. /\ IsSeq(w \o lines) /\ n + Len(w \o lines) = T + Len(lines) /\ Upcoming(w \o lines, L, n)
                BY <1>4, <1>7, <4>2, WireGrows
            <4> QED  BY <4>1, <4>3
        <3>3. n + Len(g.wire) = T + Len(lines) /\ T + Len(lines) \in Nat
            BY <1>4, <1>5, <3>1, <3>2
        <3>4. n + Len(g.wire) <= T + Len(lines)
            BY <3>3
        <3> QED  BY <3>1, <3>2, <3>3, <3>4
    <2>2. CASE f.link # "up"
        <3>1. g.wire = f.wire
            BY <1>1, <2>2
        <3> QED  BY <1>2, <1>4, <1>5, <1>6, <2>2, <3>1
    <2> QED  BY <2>1, <2>2
<1>10. \A i \in DOMAIN g.wire : g.wire[i] = LineAt(g, v, n + i)
    <2> TAKE i \in DOMAIN g.wire
    <2>1. n + i \in Nat
        BY <1>9, Lengths
    <2> QED  BY <1>3, <1>9, <2>1, Lengths DEF Upcoming
<1>11. Follows(g, v, n)
    BY <1>0, <1>1, <1>2, <1>4, <1>9, <1>10 DEF Follows
<1> QED  BY <1>0, <1>1, <1>2, <1>9, <1>11 DEF Flow, Formed, Told

\* Whatever it says, its connection stays one.
LEMMA SaidForms ==
    ASSUME NEW f, Formed(f), NEW lines, IsSeq(lines), NEW sent \in 0 .. MaxTokens,
           NEW told \in {"none", "usage", "done", "error"}
    PROVE  Formed(Said(f, lines, sent, told))
<1>1. PICK g : g = Said(f, lines, sent, told)
    OBVIOUS
<1>2. /\ DOMAIN g = DOMAIN NoStream /\ g.sent = sent /\ g.told = told /\ g.link = f.link
      /\ g.at = f.at /\ g.got = f.got
      /\ g.wire = IF f.link = "up" THEN f.wire \o lines ELSE f.wire
    BY <1>1 DEF Said, Formed, NoStream
<1>3. IsSeq(g.wire)
    BY <1>2, Grown DEF Formed
<1> QED  BY <1>1, <1>2, <1>3 DEF Formed

\* A sequence of lines.
LEMMA OneLine == ASSUME NEW x PROVE IsSeq(<<x>>)
<1>1. <<x>> \in Seq({x})
    OBVIOUS
<1> QED  BY <1>1 DEF IsSeq

\* An event of two.
LEMMA TwoLines == ASSUME NEW name, NEW value PROVE IsSeq(NamedEvent(name, value))
<1>1. NamedEvent(name, value) \in Seq({Line("event", name), Line("data", value)})
    BY DEF NamedEvent
<1> QED  BY <1>1 DEF IsSeq

\* A token.
LEMMA TokenFlows ==
    ASSUME NEW f, Flow(f), f.told = "none", f.sent < MaxTokens
    PROVE  Flow(Said(f, <<Line("data", Answer[f.sent + 1][1].word)>>, f.sent + 1, "none"))
<1>1. CASE NoMark
    <2>1. PICK lines : lines = <<Line("data", Answer[f.sent + 1][1].word)>>
        OBVIOUS
    <2>2. PICK g : g = Said(f, lines, f.sent + 1, "none")
        OBVIOUS
    <2>3. PICK u \in BOOLEAN, n \in Nat : Follows(f, u, n)
        BY <1>1 DEF Flow, Formed, Told
    <2>4. IsSeq(lines) /\ Len(lines) = 1 /\ lines[1] = Line("data", Answer[f.sent + 1][1].word)
        <3>1. lines \in Seq({lines[1]})
            BY <2>1
        <3> QED  BY <2>1, <3>1 DEF IsSeq
    <2>5. g.sent = f.sent + 1 /\ g.told = "none"
        BY <2>2 DEF Said, Flow, Formed, Told, NoStream
    <2>6. f.sent \in Nat /\ f.sent + 1 \in 0 .. MaxTokens /\ Len(f.wire) \in Nat
        BY AnswerAssumption, Lengths, <1>1 DEF Flow, Formed, Told
    <2>7. u = FALSE /\ Total(f, u) = f.sent /\ Total(g, u) = f.sent + 1
        BY <2>3, <2>5, <2>6 DEF Follows, Total
    <2>8. n <= f.sent /\ n # f.sent + 1
        BY <2>3, <2>6, <2>7 DEF Follows
    <2>9. /\ \A i \in 1 .. f.sent : LineAt(g, u, i) = LineAt(f, u, i)
          /\ \A i \in 1 .. 1 : lines[i] = LineAt(g, u, f.sent + i)
        BY <2>4, <2>5, <2>6 DEF LineAt
    <2>10. f.at \notin {"ended", "failed"}
        BY <1>1 DEF Flow, Formed, Told
    <2>11. Len(f.got) = n /\ (f.at \notin Over => f.event = None)
        BY <2>3, <2>6, <2>7, <2>8 DEF Follows
    <2>12. Goes(f, u, n, lines, f.sent + 1, "none", u, g)
        BY <2>2, <2>3, <2>4, <2>6, <2>7, <2>8, <2>9, <2>10, <2>11 DEF Goes
    <2> QED  BY <2>1, <2>2, <2>4, <2>12, <1>1, SaidFlows
<1>2. CASE ~NoMark
    <2>1. f.sent + 1 \in 0 .. MaxTokens
        BY AnswerAssumption DEF Flow, Formed
    <2> QED  BY <1>2, <2>1, SaidForms, OneLine, TwoLines DEF Flow
<1> QED  BY <1>1, <1>2

\* What the model used.
LEMMA UsageFlows ==
    ASSUME NEW f, Flow(f), f.told = "none"
    PROVE  Flow(Said(f, NamedEvent("metadata", Usage), f.sent, "usage"))
<1>1. CASE NoMark
    <2>1. PICK lines : lines = NamedEvent("metadata", Usage)
        OBVIOUS
    <2>2. PICK g : g = Said(f, lines, f.sent, "usage")
        OBVIOUS
    <2>3. PICK u \in BOOLEAN, n \in Nat : Follows(f, u, n)
        BY <1>1 DEF Flow, Formed, Told
    <2>4. /\ IsSeq(lines) /\ Len(lines) = 2 /\ lines[1] = Line("event", "metadata") /\ lines[2] = Line("data", Usage)
        <3>1. lines \in Seq({lines[1], lines[2]})
            BY <2>1 DEF NamedEvent
        <3> QED  BY <2>1, <3>1 DEF IsSeq, NamedEvent
    <2>5. g.sent = f.sent /\ g.told = "usage"
        BY <2>2 DEF Said, Flow, Formed, Told, NoStream
    <2>6. f.sent \in Nat /\ f.sent \in 0 .. MaxTokens /\ Len(f.wire) \in Nat
        BY AnswerAssumption, Lengths, <1>1 DEF Flow, Formed, Told
    <2>7. u = FALSE /\ Total(f, u) = f.sent /\ Total(g, TRUE) = f.sent + 2
        BY <2>3, <2>5, <2>6 DEF Follows, Total
    <2>8. n <= f.sent /\ n # f.sent + 1
        BY <2>3, <2>6, <2>7 DEF Follows
    <2>9. /\ \A i \in 1 .. Total(f, u) : LineAt(g, TRUE, i) = LineAt(f, u, i)
          /\ \A i \in 1 .. Len(lines) : lines[i] = LineAt(g, TRUE, Total(f, u) + i)
        BY <2>4, <2>5, <2>6, <2>7 DEF LineAt
    <2>10. f.at \notin {"ended", "failed"}
        BY <1>1 DEF Flow, Formed, Told
    <2>11. Len(f.got) = n /\ (f.at \notin Over => f.event = None)
        BY <2>3, <2>6, <2>7, <2>8 DEF Follows
    <2>12. Goes(f, u, n, lines, f.sent, "usage", TRUE, g)
        BY <2>2, <2>3, <2>4, <2>6, <2>7, <2>8, <2>9, <2>10, <2>11 DEF Goes
    <2> QED  BY <2>1, <2>2, <2>4, <2>12, <1>1, SaidFlows
<1>2. CASE ~NoMark
    <2>1. f.sent \in 0 .. MaxTokens
        BY AnswerAssumption DEF Flow, Formed
    <2> QED  BY <1>2, <2>1, SaidForms, OneLine, TwoLines DEF Flow
<1> QED  BY <1>1, <1>2

\* The end of an answer.
LEMMA DoneFlows ==
    ASSUME NEW f, Flow(f), f.told \in {"none", "usage"}
    PROVE  Flow(Said(f, <<Line("data", Done)>>, f.sent, "done"))
<1>1. CASE NoMark
    <2>1. PICK lines : lines = <<Line("data", Done)>>
        OBVIOUS
    <2>2. PICK g : g = Said(f, lines, f.sent, "done")
        OBVIOUS
    <2>3. PICK u \in BOOLEAN, n \in Nat : Follows(f, u, n)
        BY <1>1 DEF Flow, Formed, Told
    <2>4. IsSeq(lines) /\ Len(lines) = 1 /\ lines[1] = Line("data", Done)
        <3>1. lines \in Seq({lines[1]})
            BY <2>1
        <3> QED  BY <2>1, <3>1 DEF IsSeq
    <2>5. g.sent = f.sent /\ g.told = "done"
        BY <2>2 DEF Said, Flow, Formed, Told, NoStream
    <2>6. f.sent \in Nat /\ f.sent \in 0 .. MaxTokens /\ Len(f.wire) \in Nat
        BY AnswerAssumption, Lengths, <1>1 DEF Flow, Formed, Told
    <2>7. /\ Total(f, u) = f.sent + (IF u THEN 2 ELSE 0) /\ Total(g, u) = Total(f, u) + 1
          /\ Total(f, u) \in Nat
        BY <2>3, <2>5, <2>6 DEF Follows, Total
    <2>8. u <=> f.told = "usage"
        BY <2>3 DEF Follows
    <2>9. /\ \A i \in 1 .. Total(f, u) : LineAt(g, u, i) = LineAt(f, u, i)
          /\ \A i \in 1 .. 1 : lines[i] = LineAt(g, u, Total(f, u) + i)
        BY <2>4, <2>5, <2>6, <2>7 DEF LineAt
    <2>10. f.at \notin {"ended", "failed"}
        BY <1>1 DEF Flow, Formed, Told
    <2>11. /\ Len(f.got) = IF n <= f.sent THEN n ELSE f.sent
           /\ f.at \notin Over => f.event = IF n = f.sent + 1 /\ u THEN "metadata" ELSE None
        BY <2>3 DEF Follows
    <2>12. Goes(f, u, n, lines, f.sent, "done", u, g)
        BY <2>2, <2>3, <2>4, <2>6, <2>7, <2>8, <2>9, <2>10, <2>11 DEF Goes
    <2> QED  BY <2>1, <2>2, <2>4, <2>12, <1>1, SaidFlows
<1>2. CASE ~NoMark
    <2>1. f.sent \in 0 .. MaxTokens
        BY AnswerAssumption DEF Flow, Formed
    <2> QED  BY <1>2, <2>1, SaidForms, OneLine, TwoLines DEF Flow
<1> QED  BY <1>1, <1>2

\* A failure.
LEMMA ErrorFlows ==
    ASSUME NEW f, Flow(f), f.told = "none"
    PROVE  Flow(Said(f, NamedEvent("error", Failure), f.sent, "error"))
<1>1. CASE NoMark
    <2>1. PICK lines : lines = NamedEvent("error", Failure)
        OBVIOUS
    <2>2. PICK g : g = Said(f, lines, f.sent, "error")
        OBVIOUS
    <2>3. PICK u \in BOOLEAN, n \in Nat : Follows(f, u, n)
        BY <1>1 DEF Flow, Formed, Told
    <2>4. /\ IsSeq(lines) /\ Len(lines) = 2 /\ lines[1] = Line("event", "error") /\ lines[2] = Line("data", Failure)
        <3>1. lines \in Seq({lines[1], lines[2]})
            BY <2>1 DEF NamedEvent
        <3> QED  BY <2>1, <3>1 DEF IsSeq, NamedEvent
    <2>5. g.sent = f.sent /\ g.told = "error"
        BY <2>2 DEF Said, Flow, Formed, Told, NoStream
    <2>6. f.sent \in Nat /\ f.sent \in 0 .. MaxTokens /\ Len(f.wire) \in Nat
        BY AnswerAssumption, Lengths, <1>1 DEF Flow, Formed, Told
    <2>7. u = FALSE /\ Total(f, u) = f.sent /\ Total(g, FALSE) = f.sent + 2
        BY <2>3, <2>5, <2>6 DEF Follows, Total
    <2>8. n <= f.sent /\ n # f.sent + 1
        BY <2>3, <2>6, <2>7 DEF Follows
    <2>9. /\ \A i \in 1 .. Total(f, u) : LineAt(g, FALSE, i) = LineAt(f, u, i)
          /\ \A i \in 1 .. Len(lines) : lines[i] = LineAt(g, FALSE, Total(f, u) + i)
        BY <2>4, <2>5, <2>6, <2>7 DEF LineAt
    <2>10. f.at \notin {"ended", "failed"}
        BY <1>1 DEF Flow, Formed, Told
    <2>11. Len(f.got) = n /\ (f.at \notin Over => f.event = None)
        BY <2>3, <2>6, <2>7, <2>8 DEF Follows
    <2>12. Goes(f, u, n, lines, f.sent, "error", FALSE, g)
        BY <2>2, <2>3, <2>4, <2>6, <2>7, <2>8, <2>9, <2>10, <2>11 DEF Goes
    <2> QED  BY <2>1, <2>2, <2>4, <2>12, <1>1, SaidFlows
<1>2. CASE ~NoMark
    <2>1. f.sent \in 0 .. MaxTokens
        BY AnswerAssumption DEF Flow, Formed
    <2> QED  BY <1>2, <2>1, SaidForms, OneLine, TwoLines DEF Flow
<1> QED  BY <1>1, <1>2

\* The client reads a line.
Read(f) ==
    LET line == Head(f.wire)
        g == [f EXCEPT !.wire = Tail(@)]
    IN  CASE Ends(line)            -> Leaves(g, "ended")
          [] Names(line)           -> [g EXCEPT !.event = line.value]
          [] Tells(line, g.event)  -> [g EXCEPT !.event = None]
          [] Raises(line, g.event) -> Leaves(g, "failed")
          [] OTHER -> [g EXCEPT !.event = None, !.at = "yielded", !.got = Append(@, line.value)]

\* A sequence grows by one.
LEMMA Longer ==
    ASSUME NEW s, IsSeq(s), NEW e
    PROVE  /\ IsSeq(Append(s, e)) /\ Len(Append(s, e)) = Len(s) + 1
           /\ \A i \in 1 .. Len(s) : Append(s, e)[i] = s[i]
           /\ Append(s, e)[Len(s) + 1] = e
<1>1. PICK S : s \in Seq(S)
    BY DEF IsSeq
<1>2. s \in Seq(S \cup {e}) /\ e \in S \cup {e}
    BY <1>1
<1> QED  BY <1>2, AppendProperties DEF IsSeq

\* And loses its first element.
LEMMA Shorter ==
    ASSUME NEW s, IsSeq(s), s # <<>>
    PROVE  /\ IsSeq(Tail(s)) /\ Len(Tail(s)) = Len(s) - 1 /\ Len(s) \in Nat \ {0} /\ Head(s) = s[1]
           /\ \A i \in 1 .. Len(s) - 1 : Tail(s)[i] = s[i + 1]
<1>1. PICK S : s \in Seq(S)
    BY DEF IsSeq
<1>2. Tail(s) \in Seq(S) /\ Len(Tail(s)) = Len(s) - 1 /\ Len(s) \in Nat \ {0} /\ Head(s) = s[1]
      /\ \A i \in 1 .. Len(s) - 1 : Tail(s)[i] = s[i + 1]
    BY <1>1
<1> QED  BY <1>2 DEF IsSeq

\* Where the iterator stands does not matter to what is on its way.
LEMMA Stands ==
    ASSUME NEW f, Flow(f), NEW g, DOMAIN g = DOMAIN NoStream,
           g.sent = f.sent, g.told = f.told, g.event = f.event, g.got = f.got,
           f.at \notin Over \/ g.at \in Over, g.at \in {"idle", "reading", "yielded", "broken", "refused", "closed"},
           g.link = f.link \/ (f.link = "up" /\ g.link \in {"cut", "left"}),
           g.at \in Over => g.link # "up",
           IsSeq(g.wire), Len(g.wire) <= Len(f.wire), \A i \in DOMAIN g.wire : i \in DOMAIN f.wire /\ g.wire[i] = f.wire[i],
           g.link = "up" => g.wire = f.wire
    PROVE  Flow(g)
<1>1. Formed(g)
    BY DEF Flow, Formed, Over
<1> SUFFICES ASSUME NoMark
             PROVE  Told(g)
    BY <1>1 DEF Flow
<1>2. PICK u \in BOOLEAN, n \in Nat : Follows(f, u, n)
    BY DEF Flow, Told
<1>3. Len(f.wire) \in Nat /\ Len(g.wire) \in Nat
    BY Lengths DEF Flow, Formed
<1>4. Total(f, u) = Total(g, u) /\ Total(f, u) \in Nat /\ \A i : LineAt(g, u, i) = LineAt(f, u, i)
    BY AnswerAssumption DEF Total, LineAt, Flow, Formed
<1>5. n + Len(g.wire) <= Total(g, u) /\ (g.link = "up" => n + Len(g.wire) = Total(g, u))
    BY <1>2, <1>3, <1>4 DEF Follows
<1>6. \A i \in DOMAIN g.wire : g.wire[i] = LineAt(g, u, n + i)
    BY <1>2, <1>4 DEF Follows
<1>7. Follows(g, u, n)
    BY <1>2, <1>5, <1>6 DEF Follows
<1>8. g.at \in {"ended", "failed"} => FALSE
    OBVIOUS
<1> QED  BY <1>7, <1>8 DEF Told

\* Whatever the iterator reads, it stays one.
LEMMA ReadForms ==
    ASSUME NEW f, Formed(f), f.at = "reading", f.wire # <<>>
    PROVE  Formed(Read(f))
<1> DEFINE line == Head(f.wire)
           g == [f EXCEPT !.wire = Tail(@)]
<1>1. IsSeq(Tail(f.wire))
    BY Shorter DEF Formed
<1>2. /\ DOMAIN g = DOMAIN NoStream /\ g.sent = f.sent /\ g.told = f.told /\ g.at = f.at
      /\ g.wire = Tail(f.wire) /\ g.got = f.got /\ g.link = f.link
    BY DEF Formed, NoStream
<1> HIDE DEF g, line
<1>3. \/ Read(f) = Leaves(g, "ended")
      \/ Read(f) = Leaves(g, "failed")
      \/ Read(f) = [g EXCEPT !.event = line.value]
      \/ Read(f) = [g EXCEPT !.event = None]
      \/ Read(f) = [g EXCEPT !.event = None, !.at = "yielded", !.got = Append(g.got, line.value)]
    BY DEF Read, g, line
<1>4. IsSeq(Append(f.got, line.value))
    BY Longer DEF Formed
<1>5. ASSUME NEW how \in {"ended", "failed"}
      PROVE  Formed(Leaves(g, how))
    <2>1. PICK h : h = Leaves(g, how)
        OBVIOUS
    <2>2. /\ DOMAIN h = DOMAIN NoStream /\ h.sent = f.sent /\ h.told = f.told /\ h.at = how
          /\ h.wire = Tail(f.wire) /\ h.got = f.got /\ h.link = IF f.link = "up" THEN "left" ELSE f.link
        BY <1>2, <2>1 DEF Leaves, NoStream
    <2>3. Formed(h)
        BY <1>1, <2>2 DEF Formed, Over
    <2> QED  BY <2>1, <2>3
<1>6. ASSUME NEW event
      PROVE  Formed([g EXCEPT !.event = event])
    <2>1. PICK h : h = [g EXCEPT !.event = event]
        OBVIOUS
    <2>2. /\ DOMAIN h = DOMAIN NoStream /\ h.sent = f.sent /\ h.told = f.told /\ h.at = f.at
          /\ h.wire = Tail(f.wire) /\ h.got = f.got /\ h.link = f.link
        BY <1>2, <2>1 DEF NoStream
    <2>3. Formed(h)
        BY <1>1, <2>2 DEF Formed
    <2> QED  BY <2>1, <2>3
<1>7. Formed([g EXCEPT !.event = None, !.at = "yielded", !.got = Append(g.got, line.value)])
    <2>1. PICK h : h = [g EXCEPT !.event = None, !.at = "yielded", !.got = Append(g.got, line.value)]
        OBVIOUS
    <2>2. /\ DOMAIN h = DOMAIN NoStream /\ h.sent = f.sent /\ h.told = f.told /\ h.at = "yielded"
          /\ h.wire = Tail(f.wire) /\ h.got = Append(f.got, line.value) /\ h.link = f.link
        BY <1>2, <2>1 DEF NoStream
    <2>3. Formed(h)
        BY <1>1, <1>4, <2>2 DEF Formed, Over
    <2> QED  BY <2>1, <2>3
<1> QED  BY <1>3, <1>5, <1>6, <1>7

\* A line that is read is the next one, and makes of the iterator what follows.
LEMMA ReadFlows ==
    ASSUME NoMark, NEW f, Flow(f), f.at = "reading", f.wire # <<>>
    PROVE  Flow(Read(f)) /\ (Read(f).at \in Over => Read(f).at \in {"ended", "failed"})
<1> DEFINE line == Head(f.wire)
           g == [f EXCEPT !.wire = Tail(f.wire)]
<1>1. PICK u \in BOOLEAN, n \in Nat : Follows(f, u, n)
    BY DEF Flow, Formed, Told
<1>2. /\ IsSeq(f.wire) /\ IsSeq(f.got) /\ f.sent \in Nat /\ f.sent \in 0 .. MaxTokens
      /\ f.told \in {"none", "usage", "done", "error"} /\ DOMAIN f = DOMAIN NoStream
      /\ f.at \notin Over /\ f.link \in {"up", "cut", "left"} /\ Total(f, u) \in Nat
    BY AnswerAssumption DEF Flow, Formed, Told, Over, Total
<1>3. /\ IsSeq(Tail(f.wire)) /\ Len(Tail(f.wire)) = Len(f.wire) - 1 /\ Len(f.wire) \in Nat \ {0}
      /\ line = f.wire[1] /\ \A i \in 1 .. Len(f.wire) - 1 : Tail(f.wire)[i] = f.wire[i + 1]
    BY <1>2, Shorter
<1>4. /\ n + Len(f.wire) <= Total(f, u) /\ (f.link = "up" => n + Len(f.wire) = Total(f, u))
      /\ \A i \in 1 .. Len(f.wire) : f.wire[i] = LineAt(f, u, n + i)
      /\ Len(f.got) = IF n <= f.sent THEN n ELSE f.sent
      /\ \A i \in DOMAIN f.got : f.got[i] = Answer[i][1].word
      /\ f.event = IF n = f.sent + 1 /\ u THEN "metadata"
                   ELSE IF n = f.sent + 1 /\ f.told = "error" THEN "error" ELSE None
      /\ f.told = "usage" => u
      /\ u => f.told \in {"usage", "done"}
    BY <1>1, <1>2, Lengths DEF Follows
<1>5. line = LineAt(f, u, n + 1)
    BY <1>3, <1>4
<1>6. n + 1 <= Total(f, u)
    BY <1>2, <1>3, <1>4
<1>7. /\ g.wire = Tail(f.wire) /\ g.sent = f.sent /\ g.told = f.told /\ g.link = f.link /\ g.at = f.at
      /\ g.event = f.event /\ g.got = f.got /\ DOMAIN g = DOMAIN NoStream
    BY <1>2 DEF NoStream
<1> HIDE DEF g, line
<1>8. ASSUME NEW h, DOMAIN h = DOMAIN NoStream, h.wire = g.wire, h.sent = f.sent, h.told = f.told,
             h.link = f.link \/ (f.link = "up" /\ h.link = "left"),
             IsSeq(h.got), Len(h.got) = IF n + 1 <= f.sent THEN n + 1 ELSE f.sent,
             \A i \in DOMAIN h.got : h.got[i] = Answer[i][1].word,
             \/ /\ h.at \in {"reading", "yielded"}
                /\ h.event = IF n + 1 = f.sent + 1 /\ u THEN "metadata"
                             ELSE IF n + 1 = f.sent + 1 /\ f.told = "error" THEN "error" ELSE None
             \/ h.at = "ended" /\ h.link # "up" /\ f.told = "done" /\ n + 1 > f.sent
             \/ h.at = "failed" /\ h.link # "up" /\ f.told = "error" /\ n + 1 > f.sent
      PROVE  Flow(h)
    <2>1. Total(h, u) = Total(f, u) /\ Total(f, u) \in Nat /\ \A i : LineAt(h, u, i) = LineAt(f, u, i)
        BY <1>2, <1>8 DEF Total, LineAt
    <2>2. /\ (n + 1) + Len(h.wire) <= Total(h, u)
          /\ (h.link = "up" => (n + 1) + Len(h.wire) = Total(h, u))
        <3>1. Len(h.wire) = Len(f.wire) - 1 /\ (h.link = "up" => f.link = "up")
            BY <1>3, <1>7, <1>8
        <3>2. PICK k \in Nat : k = Len(h.wire) /\ Len(f.wire) = k + 1
            BY <1>3, <3>1
        <3>3. (n + 1) + k = n + (k + 1)
            <4>1. \A x, y \in Nat : (x + 1) + y = x + (y + 1)
                OBVIOUS
            <4>2. n \in Nat
                BY <1>1
            <4>3. k \in Nat
                BY <3>2
            <4> QED  BY <4>1, <4>2, <4>3
        <3> QED  BY <1>4, <2>1, <3>1, <3>2, <3>3
    <2>3. IsSeq(h.wire) /\ DOMAIN h.wire = 1 .. Len(f.wire) - 1
        BY <1>3, <1>7, <1>8, Lengths
    <2>4. ASSUME NEW i \in DOMAIN h.wire
          PROVE  h.wire[i] = LineAt(h, u, (n + 1) + i)
        <3>1. h.wire[i] = f.wire[i + 1] /\ i + 1 \in 1 .. Len(f.wire)
            BY <1>3, <1>7, <1>8, <2>3
        <3>2. f.wire[i + 1] = LineAt(f, u, n + (i + 1))
            BY <1>4, <3>1
        <3>3. n + (i + 1) = (n + 1) + i
            BY <1>3, <2>3
        <3> QED  BY <2>1, <3>1, <3>2, <3>3
    <2>5. Follows(h, u, n + 1)
        BY <1>4, <1>8, <2>2, <2>4 DEF Follows, Over
    <2>6. n + 1 \in Nat /\ (n + 1 > f.sent => Len(h.got) = f.sent)
        BY <1>2, <1>8
    <2> QED  BY <1>2, <1>8, <2>3, <2>5, <2>6 DEF Flow, Formed, Told, Over
<1>9. /\ Read(f) = CASE Ends(line)          -> Leaves(g, "ended")
                     [] Names(line)         -> [g EXCEPT !.event = line.value]
                     [] Tells(line, f.event)  -> [g EXCEPT !.event = None]
                     [] Raises(line, f.event) -> Leaves(g, "failed")
                     [] OTHER -> [g EXCEPT !.event = None, !.at = "yielded", !.got = Append(f.got, line.value)]
    <2>1. g = [f EXCEPT !.wire = Tail(@)] /\ line = Head(f.wire)
        BY DEF g, line
    <2> QED  BY <1>7, <2>1 DEF Read
<1>10. \/ n + 1 <= f.sent
       \/ n = f.sent /\ u
       \/ n = f.sent /\ ~u /\ f.told = "done"
       \/ n = f.sent /\ ~u /\ f.told = "error"
       \/ n = f.sent + 1 /\ u
       \/ n = f.sent + 1 /\ ~u /\ f.told = "error"
       \/ n = f.sent + 2 /\ u /\ f.told = "done"
    <2>1. CASE u
        <3>1. f.told = "usage" \/ f.told = "done"
            BY <1>4, <2>1
        <3> QED  BY <1>2, <1>6, <2>1, <3>1 DEF Total
    <2>2. CASE ~u
        BY <1>2, <1>4, <1>6, <2>2 DEF Total
    <2> QED  BY <2>1, <2>2
<1>11. CASE n + 1 <= f.sent
    <2> DEFINE h == [g EXCEPT !.event = None, !.at = "yielded", !.got = Append(f.got, line.value)]
    <2>1. n + 1 \in 1 .. MaxTokens /\ line = Line("data", Answer[n + 1][1].word)
        BY <1>2, <1>5, <1>11, AnswerAssumption DEF LineAt
    <2>2. line.field = "data" /\ line.value = Answer[n + 1][1].word /\ line.value # Done /\ f.event = None
        BY <1>2, <1>4, <1>11, <2>1 DEF Line, NoMark
    <2>3. Read(f) = h
        BY <1>9, <2>2, AnswerAssumption DEF Ends, Names, Tells, Raises
    <2>4. /\ IsSeq(Append(f.got, line.value)) /\ Len(f.got) = n /\ Len(Append(f.got, line.value)) = n + 1
          /\ \A i \in DOMAIN Append(f.got, line.value) : Append(f.got, line.value)[i] = Answer[i][1].word
        <3>1. Len(f.got) = n /\ DOMAIN f.got = 1 .. n
            BY <1>2, <1>4, <1>11, Lengths
        <3>2. /\ IsSeq(Append(f.got, line.value)) /\ Len(Append(f.got, line.value)) = n + 1
              /\ \A i \in 1 .. n : Append(f.got, line.value)[i] = f.got[i]
              /\ Append(f.got, line.value)[n + 1] = line.value
            BY <1>2, <3>1, Longer
        <3>3. DOMAIN Append(f.got, line.value) = 1 .. n + 1
            BY <3>2, Lengths
        <3> QED  BY <1>4, <2>2, <3>1, <3>2, <3>3
    <2>5. /\ DOMAIN h = DOMAIN NoStream /\ h.wire = g.wire /\ h.sent = f.sent /\ h.told = f.told
          /\ h.link = f.link /\ h.got = Append(f.got, line.value) /\ h.at = "yielded" /\ h.event = None
        BY <1>7 DEF NoStream
    <2> HIDE DEF h
    <2>5a. /\ IsSeq(h.got) /\ Len(h.got) = IF n + 1 <= f.sent THEN n + 1 ELSE f.sent
           /\ \A i \in DOMAIN h.got : h.got[i] = Answer[i][1].word
        BY <1>11, <2>4, <2>5
    <2>5b. h.event = IF n + 1 = f.sent + 1 /\ u THEN "metadata"
                     ELSE IF n + 1 = f.sent + 1 /\ f.told = "error" THEN "error" ELSE None
        BY <1>2, <1>11, <2>5
    <2>6. Flow(h)
        BY <1>8, <2>5, <2>5a, <2>5b
    <2>7. h.at \notin Over
        BY <2>5 DEF Over
    <2> QED  BY <2>3, <2>6, <2>7
<1>12. ~(n + 1 <= f.sent) => /\ Len(f.got) = IF n + 1 <= f.sent THEN n + 1 ELSE f.sent
                             /\ IsSeq(f.got) /\ \A i \in DOMAIN f.got : f.got[i] = Answer[i][1].word
    BY <1>2, <1>4
<1>13. ASSUME NEW event, ~(n + 1 <= f.sent), Read(f) = [g EXCEPT !.event = event],
              event = IF n + 1 = f.sent + 1 /\ u THEN "metadata"
                      ELSE IF n + 1 = f.sent + 1 /\ f.told = "error" THEN "error" ELSE None
       PROVE  Flow(Read(f)) /\ (Read(f).at \in Over => Read(f).at \in {"ended", "failed"})
    <2> DEFINE h == [g EXCEPT !.event = event]
    <2>1. /\ DOMAIN h = DOMAIN NoStream /\ h.wire = g.wire /\ h.sent = f.sent /\ h.told = f.told
          /\ h.link = f.link /\ h.got = f.got /\ h.at = "reading" /\ h.event = event
        BY <1>7 DEF NoStream
    <2> HIDE DEF h
    <2>2. Flow(h)
        BY <1>8, <1>12, <1>13, <2>1
    <2>3. h.at \notin Over
        BY <2>1 DEF Over
    <2> QED  BY <1>13, <2>2, <2>3 DEF h
<1>14. ASSUME NEW how \in {"ended", "failed"}, n + 1 > f.sent, Read(f) = Leaves(g, how),
              how = "ended" => f.told = "done", how = "failed" => f.told = "error"
       PROVE  Flow(Read(f)) /\ (Read(f).at \in Over => Read(f).at \in {"ended", "failed"})
    <2> DEFINE h == Leaves(g, how)
    <2>1. /\ DOMAIN h = DOMAIN NoStream /\ h.wire = g.wire /\ h.sent = f.sent /\ h.told = f.told
          /\ h.link = (IF f.link = "up" THEN "left" ELSE f.link) /\ h.got = f.got /\ h.at = how
        BY <1>7 DEF NoStream, Leaves
    <2> HIDE DEF h
    <2>1a. h.link # "up" /\ (h.link = f.link \/ (f.link = "up" /\ h.link = "left"))
        BY <2>1
    <2>1b. ~(n + 1 <= f.sent)
        BY <1>2, <1>14
    <2>2. Flow(h)
        BY <1>8, <1>12, <1>14, <2>1, <2>1a, <2>1b
    <2> QED  BY <1>14, <2>1, <2>2 DEF h
<1>15. CASE n = f.sent /\ u
    <2>1. line = Line("event", "metadata") /\ ~(n + 1 <= f.sent)
        BY <1>2, <1>5, <1>15 DEF LineAt
    <2>2. Read(f) = [g EXCEPT !.event = "metadata"]
        BY <1>9, <2>1 DEF Ends, Names, Tells, Raises, Line
    <2> QED  BY <1>13, <1>15, <2>1, <2>2
<1>16. CASE n = f.sent /\ ~u /\ f.told = "done"
    <2>1. line = Line("data", Done) /\ n + 1 > f.sent
        BY <1>2, <1>5, <1>16 DEF LineAt
    <2>2. Read(f) = Leaves(g, "ended")
        BY <1>9, <2>1 DEF Ends, Names, Tells, Raises, Line
    <2> QED  BY <1>14, <1>16, <2>1, <2>2
<1>17. CASE n = f.sent /\ ~u /\ f.told = "error"
    <2>1. line = Line("event", "error") /\ ~(n + 1 <= f.sent)
        BY <1>2, <1>5, <1>17 DEF LineAt
    <2>2. Read(f) = [g EXCEPT !.event = "error"]
        BY <1>9, <2>1 DEF Ends, Names, Tells, Raises, Line
    <2> QED  BY <1>13, <1>17, <2>1, <2>2
<1>18. CASE n = f.sent + 1 /\ u
    <2>1. line = Line("data", Usage) /\ ~(n + 1 <= f.sent) /\ n + 1 # f.sent + 1 /\ f.event = "metadata"
        BY <1>2, <1>4, <1>5, <1>18 DEF LineAt
    <2>2. Read(f) = [g EXCEPT !.event = None]
        BY <1>9, <2>1, AnswerAssumption DEF Ends, Names, Tells, Raises, Line
    <2> QED  BY <1>13, <2>1, <2>2
<1>19. CASE n = f.sent + 1 /\ ~u /\ f.told = "error"
    <2>1. line = Line("data", Failure) /\ n + 1 > f.sent /\ f.event = "error"
        BY <1>2, <1>4, <1>5, <1>19 DEF LineAt
    <2>2. Read(f) = Leaves(g, "failed")
        BY <1>9, <2>1, AnswerAssumption DEF Ends, Names, Tells, Raises, Line
    <2> QED  BY <1>14, <1>19, <2>1, <2>2
<1>20. CASE n = f.sent + 2 /\ u /\ f.told = "done"
    <2>1. line = Line("data", Done) /\ n + 1 > f.sent
        BY <1>2, <1>5, <1>20 DEF LineAt
    <2>2. Read(f) = Leaves(g, "ended")
        BY <1>9, <2>1 DEF Ends, Names, Tells, Raises, Line
    <2> QED  BY <1>14, <1>20, <2>1, <2>2
<1> QED  BY <1>10, <1>11, <1>15, <1>16, <1>17, <1>18, <1>19, <1>20

-----------------------------------------------------------------------------
(* The stream and its call *)

\* A call that does not move keeps what its stream says of it.
LEMMA LinkStays ==
    ASSUME NEW q \in Requests, UNCHANGED fixed, pc'[q] = pc[q], result'[q] = result[q], work'[q] = work[q],
           NEW f, Linked(q, f)
    PROVE  Linked(q, f)'
<1>1. Streams(q)' = Streams(q)
    BY FixedStays
<1> QED  BY <1>1 DEF Linked

\* How a call may move while its stream rests.
Onward(r) ==
    /\ pc'[r] # "idle"
    /\ pc'[r] \in Before \cup Retrieving => pc[r] \in Before \cup Retrieving
    /\ pc'[r] = "generate" => (pc[r] \in Retrieving /\ work'[r].tokens = 0) \/ pc[r] = "yielded"
    /\ pc'[r] = "yielded" => pc[r] = "generate" /\ work'[r].tokens = work[r].tokens + 1
    /\ result'[r].status \in Refusals => pc[r] = "idle" \/ result'[r].status = result[r].status

\* A step of a call that leaves its stream alone keeps the two in agreement.
LEMMA CallLinked ==
    ASSUME IInv, NEW r \in Requests, Moved(r), Onward(r), Streams(r) => pc[r] # "yielded" \/ pc'[r] # "generate",
           NEW f, Linked(r, f), f.told \in {"none", "usage", "done", "error"}
    PROVE  Linked(r, f)'
<1>1. Streams(r)' = Streams(r) /\ pc[r] # "ended" /\ Control(r)
    BY FixedStays DEF Moved, IInv, Calls
<1>2. f.told = "none"
    BY <1>1 DEF Linked
<1>3. f.at # "refused" /\ result[r].status \notin Refusals
    BY <1>1 DEF Linked, Control
<1>4. pc'[r] \in Before \cup Retrieving \/ result'[r].status \in Refusals => f.sent = 0
    BY <1>3 DEF Linked, Onward, Before
<1>5. Streams(r) /\ pc'[r] = "generate" => work'[r].tokens = f.sent
    BY DEF Linked, Onward
<1>6. Streams(r) /\ pc'[r] = "yielded" => work'[r].tokens = f.sent + 1
    BY DEF Linked, Onward
<1> QED  BY <1>1, <1>2, <1>3, <1>4, <1>5, <1>6 DEF Linked

\* Every step of the pipeline moves a call so.
LEMMA PipelineOnward ==
    ASSUME IInv, NEW r \in Requests, Step(r) \/ Consumer(r)
    PROVE  Onward(r) /\ (pc[r] = "yielded" /\ pc'[r] = "generate" => Pull(r))
<1>0. Shapes /\ Control(r) /\ DOMAIN pc = Requests /\ DOMAIN work = Requests /\ DOMAIN result = Requests
    BY DEF IInv, Calls, Shapes
<1>1. CASE Build(r) \/ AskModel(r) \/ QueryGraph(r) \/ RunSearch(r) \/ Rerank(r)
    <2>1. Inward(r)
        BY <1>1, Inner
    <2>0. PICK p \in Retrieving \cup {"generate"} : \E w : Goto(r, p) /\ Put(r, w) /\ Clean(w)
        BY <2>1 DEF Inward
    <2>2. PICK w : Goto(r, p) /\ Put(r, w) /\ Clean(w)
        BY <2>0
    <2>3. pc[r] \in Retrieving /\ pc'[r] = p /\ work'[r].tokens = 0 /\ UNCHANGED result
        BY <1>0, <2>1, <2>2 DEF Inward, Goto, Put, Clean
    <2> QED  BY <2>0, <2>2, <2>3 DEF Onward, Retrieving
<1>2. CASE Fail(r) \/ Cancel(r)
    <2>1. PICK status \in {"failed", "cancelled"} : Result(r, status, None) /\ Unwind(r)
        BY <1>2 DEF Fail, Cancel
    <2>2. result'[r].status = status
        BY <1>0, <2>1, Results
    <2>3. pc'[r] \in {"release", "leave", "ended"}
        BY <1>0, <2>1 DEF Unwind, Goto, After
    <2> QED  BY <2>2, <2>3 DEF Onward, Before, Retrieving, Refusals
<1>3. CASE Lookup(r)
    <2>1. CASE UNCHANGED result /\ Goto(r, "open") /\ pc[r] = "lookup"
        BY <1>0, <2>1 DEF Goto, Onward, Before, Retrieving
    <2>2. ASSUME NEW by, Result(r, "hit", by), Goto(r, After(r))
          PROVE  Onward(r) /\ pc'[r] # "generate"
        <3>1. result'[r].status = "hit" /\ pc'[r] \in {"leave", "ended"}
            BY <1>0, <2>2, Results DEF Goto, After
        <3> QED  BY <3>1 DEF Onward, Before, Retrieving, Refusals
    <2> QED  BY <1>3, <2>1, <2>2 DEF Lookup
<1>4. CASE Open(r)
    BY <1>0, <1>4 DEF Open, Goto, Onward, Before, Retrieving
<1>5. CASE Generate(r) \/ EndStream(r)
    <2>1. Result(r, "answered", r) /\ pc'[r] = "release"
        BY <1>0, <1>5 DEF Generate, EndStream, Goto
    <2>2. result'[r].status = "answered"
        BY <1>0, <2>1, Results
    <2> QED  BY <2>1, <2>2 DEF Onward, Before, Retrieving, Refusals
<1>6. CASE NextToken(r)
    <2>1. /\ pc[r] = "generate" /\ pc'[r] = "yielded" /\ UNCHANGED result
          /\ work'[r] = [work[r] EXCEPT !.tokens = @ + 1] /\ Working(r)
        BY <1>0, <1>6 DEF NextToken, Inside, Goto, Put, IInv, Calls
    <2>2. work'[r].tokens = work[r].tokens + 1
        BY <2>1 DEF Working, NoWork
    <2> QED  BY <2>1, <2>2 DEF Onward, Before, Retrieving, Refusals
<1>7. CASE CloseEarly(r)
    <2>1. Result(r, "closed", None) /\ pc'[r] = "abandoned"
        BY <1>0, <1>7 DEF CloseEarly, Goto
    <2>2. result'[r].status = "closed"
        BY <1>0, <2>1, Results
    <2> QED  BY <2>1, <2>2 DEF Onward, Before, Retrieving, Refusals
<1>8. CASE Pull(r)
    <2>1. pc[r] = "yielded" /\ pc'[r] = "generate" /\ UNCHANGED result
        BY <1>0, <1>8 DEF Pull, Goto, Leaving
    <2> QED  BY <1>8, <2>1 DEF Onward, Before, Retrieving, Refusals
<1>9. CASE Release(r) \/ Leave(r) \/ Finalize(r)
    <2>1. pc'[r] \in {"store", "leave", "ended"} /\ UNCHANGED result
        BY <1>0, <1>9 DEF Release, Leave, Finalize, Goto, Leaving, After
    <2> QED  BY <2>1 DEF Onward, Before, Retrieving
<1>10. CASE Store(r)
    <2>1. pc'[r] \in {"leave", "ended"} /\ result'[r] = [result[r] EXCEPT !.at = now]
        BY <1>0, <1>10 DEF Store, Goto, After
    <2>2. result'[r].status = result[r].status
        BY <1>0, <2>1 DEF Control
    <2> QED  BY <2>1, <2>2 DEF Onward, Before, Retrieving
<1> QED  BY <1>1, <1>2, <1>3, <1>4, <1>5, <1>6, <1>7, <1>8, <1>9, <1>10 DEF Step, Consumer

\* A step that leaves all connections alone.
LEMMA RestFlows ==
    ASSUME IInv, SInv, NEW r \in Requests, UNCHANGED stream, Moved(r), Onward(r),
           Streams(r) => pc[r] # "yielded" \/ pc'[r] # "generate"
    PROVE  SInv'
<1> SUFFICES ASSUME NEW q \in Requests
             PROVE  Flow(stream[q])' /\ Linked(q, stream[q])'
    BY DEF SInv
<1>1. PICK f : f = stream[q]
    OBVIOUS
<1>2. Flow(f) /\ Linked(q, f) /\ stream'[q] = f
    BY <1>1 DEF SInv
<1>3. Linked(q, f)'
    <2>1. CASE q = r
        BY <1>2, <2>1, CallLinked DEF Flow, Formed
    <2>2. CASE q # r
        BY <1>2, <2>2, LinkStays DEF Moved
    <2> QED  BY <2>1, <2>2
<1>4. Flow(stream[q])'
    BY <1>2
<1>5. Linked(q, stream[q])'
    BY <1>2, <1>3
<1> QED  BY <1>4, <1>5

\* A step at one connection.
LEMMA OneStream ==
    ASSUME SInv, NEW r \in Requests, UNCHANGED fixed, NEW g, stream'[r] = g, Flow(g), Linked(r, g)',
           \A q \in Requests \ {r} : stream'[q] = stream[q] /\ pc'[q] = pc[q] /\ result'[q] = result[q] /\ work'[q] = work[q]
    PROVE  SInv'
<1> SUFFICES ASSUME NEW q \in Requests
             PROVE  Flow(stream[q])' /\ Linked(q, stream[q])'
    BY DEF SInv
<1>1. CASE q = r
    <2>1. Flow(stream[q])'
        BY <1>1
    <2>2. Linked(q, stream[q])'
        BY <1>1
    <2> QED  BY <2>1, <2>2
<1>2. CASE q # r
    <2>1. PICK f : f = stream[q]
        OBVIOUS
    <2>2. Flow(f) /\ Linked(q, f) /\ stream'[q] = f
        BY <1>2, <2>1 DEF SInv
    <2>3. Linked(q, f)'
        BY <1>2, <2>2, LinkStays
    <2>4. Flow(stream[q])'
        BY <2>2
    <2>5. Linked(q, stream[q])'
        BY <2>2, <2>3
    <2> QED  BY <2>4, <2>5
<1> QED  BY <1>1, <1>2

\* What the generator does to its connection.
LEMMA Sending ==
    ASSUME IInv, SInv, NEW r \in Requests, NEW lines, NEW sent, NEW told, Send(r, lines, sent, told)
    PROVE  /\ stream'[r] = Said(stream[r], lines, sent, told)
           /\ \A q \in Requests \ {r} : stream'[q] = stream[q]
<1>1. DOMAIN stream = Requests /\ DOMAIN stream[r] = DOMAIN NoStream
    BY DEF IInv, Shapes, SInv, Flow, Formed
<1>2. stream' = [stream EXCEPT ![r].sent = sent, ![r].told = told,
                               ![r].wire = IF stream[r].link = "up" THEN @ \o lines ELSE @]
    BY DEF Send, Link
<1>3. stream' = [stream EXCEPT ![r] = Said(stream[r], lines, sent, told)]
    BY <1>1, <1>2 DEF Said, NoStream
<1> QED  BY <1>1, <1>3

\* The fields of what was said.
LEMMA SaidFields ==
    ASSUME NEW f, Flow(f), NEW lines, NEW sent, NEW told
    PROVE  LET g == Said(f, lines, sent, told)
           IN  g.sent = sent /\ g.told = told /\ g.at = f.at
BY DEF Said, Flow, Formed, NoStream

\* A token is sent when the next one is asked for.
LEMMA TokenKeeps ==
    ASSUME IInv, SInv, Unhurried, NEW r \in Requests, Streams(r), YieldToken(r)
    PROVE  SInv'
<1>0. Pull(r) /\ Shapes /\ Control(r) /\ Working(r)
    BY DEF YieldToken, IInv, Calls
<1>1. PICK f : f = stream[r]
    OBVIOUS
<1>2. Flow(f) /\ Linked(r, f) /\ f.sent \in Nat
    BY <1>1, AnswerAssumption DEF SInv, Flow, Formed
<1>3. /\ pc[r] = "yielded" /\ pc'[r] = "generate" /\ UNCHANGED <<work, result, fixed>>
      /\ \A q \in Requests \ {r} : pc'[q] = pc[q]
    BY <1>0 DEF Pull, Goto, Leaving, Shapes, Unhurried
<1>4. f.told = "none" /\ work[r].tokens = f.sent + 1 /\ f.at # "refused" /\ result[r].status \notin Refusals
    BY <1>0, <1>2, <1>3 DEF Linked, Flow, Formed, Control
<1>5. f.sent < MaxTokens
    BY <1>0, <1>2, <1>4, AnswerAssumption DEF Working
<1>6. PICK g : g = Said(f, <<Line("data", Answer[f.sent + 1][1].word)>>, f.sent + 1, "none")
    OBVIOUS
<1>7. Flow(g)
    BY <1>2, <1>4, <1>5, <1>6, TokenFlows
<1>8. stream'[r] = g /\ \A q \in Requests \ {r} : stream'[q] = stream[q]
    <2>1. Send(r, <<Line("data", Answer[f.sent + 1][1].word)>>, f.sent + 1, "none")
        BY <1>1, <1>4 DEF YieldToken, TokenEvent
    <2> QED  BY <1>1, <1>6, <2>1, Sending
<1>9. g.sent = f.sent + 1 /\ g.told = "none" /\ g.at = f.at
    BY <1>2, <1>6, SaidFields
<1>10. Streams(r)' = Streams(r)
    BY <1>3, FixedStays
<1>11. Linked(r, g)'
    BY <1>2, <1>3, <1>4, <1>9, <1>10 DEF Linked, Before, Retrieving
<1> QED  BY <1>3, <1>7, <1>8, <1>11, OneStream

\* What comes after the last token.
LEMMA ClosingKeeps ==
    ASSUME IInv, SInv, Unhurried, NEW r \in Requests, Streams(r),
           YieldUsage(r) \/ YieldDone(r) \/ YieldError(r)
    PROVE  SInv'
<1>1. PICK f : f = stream[r]
    OBVIOUS
<1>2. Flow(f) /\ Linked(r, f) /\ Control(r)
    BY <1>1 DEF SInv, IInv, Calls
<1>3. /\ UNCHANGED <<pc, work, result, fixed>>
      /\ pc[r] = "ended"
    BY DEF YieldUsage, YieldDone, YieldError, Closing, pipeline, Unhurried
<1>4. ASSUME NEW g, NEW told, Flow(g), g.sent = f.sent, g.told = told, g.at = f.at,
             told \in {"usage", "done"} => result[r].status = "answered",
             told = "error" => result[r].status = "failed",
             stream'[r] = g, \A q \in Requests \ {r} : stream'[q] = stream[q]
      PROVE  SInv'
    <2>1. Streams(r)' = Streams(r)
        BY <1>3, FixedStays
    <2>2. Linked(r, g)'
        BY <1>2, <1>3, <1>4, <2>1 DEF Linked, Before, Retrieving
    <2> QED  BY <1>3, <1>4, <2>2, OneStream
<1>5. CASE YieldUsage(r)
    <2>1. PICK g : g = Said(f, NamedEvent("metadata", Usage), f.sent, "usage")
        OBVIOUS
    <2>2. Flow(g)
        BY <1>1, <1>2, <1>5, <2>1, UsageFlows DEF YieldUsage
    <2>3. g.sent = f.sent /\ g.told = "usage" /\ g.at = f.at
        BY <1>2, <2>1, SaidFields
    <2>4. stream'[r] = g /\ \A q \in Requests \ {r} : stream'[q] = stream[q]
        BY <1>1, <1>5, <2>1, Sending DEF YieldUsage
    <2>5. result[r].status = "answered"
        BY <1>5 DEF YieldUsage, Closing
    <2> QED  BY <1>4, <2>2, <2>3, <2>4, <2>5
<1>6. CASE YieldDone(r)
    <2>1. PICK g : g = Said(f, <<Line("data", Done)>>, f.sent, "done")
        OBVIOUS
    <2>2. Flow(g)
        BY <1>1, <1>2, <1>6, <2>1, DoneFlows DEF YieldDone
    <2>3. g.sent = f.sent /\ g.told = "done" /\ g.at = f.at
        BY <1>2, <2>1, SaidFields
    <2>4. stream'[r] = g /\ \A q \in Requests \ {r} : stream'[q] = stream[q]
        BY <1>1, <1>6, <2>1, Sending DEF YieldDone
    <2>5. result[r].status = "answered"
        BY <1>6 DEF YieldDone, Closing
    <2> QED  BY <1>4, <2>2, <2>3, <2>4, <2>5
<1>7. CASE YieldError(r)
    <2>1. PICK g : g = Said(f, NamedEvent("error", Failure), f.sent, "error")
        OBVIOUS
    <2>2. Flow(g)
        BY <1>1, <1>2, <1>7, <2>1, ErrorFlows DEF YieldError
    <2>3. g.sent = f.sent /\ g.told = "error" /\ g.at = f.at
        BY <1>2, <2>1, SaidFields
    <2>4. stream'[r] = g /\ \A q \in Requests \ {r} : stream'[q] = stream[q]
        BY <1>1, <1>7, <2>1, Sending DEF YieldError
    <2>5. result[r].status = "failed"
        BY <1>7 DEF YieldError, Closing
    <2> QED  BY <1>4, <2>2, <2>3, <2>4, <2>5
<1> QED  BY <1>5, <1>6, <1>7

\* What reading leaves alone.
LEMMA ReadFields ==
    ASSUME NEW f, Flow(f)
    PROVE  /\ Read(f).sent = f.sent /\ Read(f).told = f.told
           /\ Read(f).at # f.at => Read(f).at \in {"ended", "failed", "yielded"}
<1> DEFINE line == Head(f.wire)
           g == [f EXCEPT !.wire = Tail(@)]
<1>1. DOMAIN g = DOMAIN NoStream /\ g.sent = f.sent /\ g.told = f.told /\ g.at = f.at
    BY DEF Flow, Formed, NoStream
<1> HIDE DEF g, line
<1>2. \/ Read(f) = Leaves(g, "ended")
      \/ Read(f) = Leaves(g, "failed")
      \/ Read(f) = [g EXCEPT !.event = line.value]
      \/ Read(f) = [g EXCEPT !.event = None]
      \/ Read(f) = [g EXCEPT !.event = None, !.at = "yielded", !.got = Append(g.got, line.value)]
    BY DEF Read, g, line
<1> QED  BY <1>1, <1>2 DEF Leaves, NoStream

\* The client's steps.
LEMMA ClientKeeps ==
    ASSUME IInv, SInv, Unhurried, NEW r \in Requests, Iterate(r) \/ Wanders(r)
    PROVE  SInv'
<1>1. PICK f : f = stream[r]
    OBVIOUS
<1>2. Flow(f) /\ Linked(r, f) /\ Streams(r) /\ DOMAIN f = DOMAIN NoStream /\ DOMAIN stream = Requests
    BY <1>1 DEF SInv, Iterate, Wanders, Flow, Formed, IInv, Shapes
<1>3. /\ IsSeq(f.wire) /\ Len(f.wire) \in Nat /\ DOMAIN f.wire = 1 .. Len(f.wire)
      /\ f.at \in {"idle", "reading", "yielded"} \cup Over /\ (f.at \in Over => f.link # "up")
      /\ f.link \in {"up", "cut", "left"}
    BY <1>2, Lengths DEF Flow, Formed
<1>4. UNCHANGED <<pc, work, result, fixed>>
    BY DEF Iterate, Wanders, pipeline, Unhurried
<1>5. ASSUME NEW g, Flow(g), g.sent = f.sent, g.told = f.told,
             g.at = "refused" => result[r].status \in Refusals,
             stream' = [stream EXCEPT ![r] = g]
      PROVE  SInv'
    <2>1. Streams(r)' = Streams(r)
        BY <1>4, FixedStays
    <2>2. Linked(r, g)'
        BY <1>2, <1>4, <1>5, <2>1 DEF Linked
    <2>3. stream'[r] = g /\ \A q \in Requests \ {r} : stream'[q] = stream[q]
        BY <1>2, <1>5
    <2> QED  BY <1>4, <1>5, <2>2, <2>3, OneStream
<1>6. ASSUME NEW how \in {"broken", "refused", "closed"}, f.at \notin Over, Reader(r, Leaves(f, how)),
             how = "refused" => result[r].status \in Refusals
      PROVE  SInv'
    <2>1. PICK g : g = Leaves(f, how)
        OBVIOUS
    <2>2. /\ DOMAIN g = DOMAIN NoStream /\ g.sent = f.sent /\ g.told = f.told /\ g.event = f.event
          /\ g.got = f.got /\ g.wire = f.wire /\ g.at = how /\ g.link = (IF f.link = "up" THEN "left" ELSE f.link)
        BY <1>2, <2>1 DEF Leaves, NoStream
    <2>3. Flow(g)
        <3>1. g.link # "up" /\ (g.link = f.link \/ (f.link = "up" /\ g.link \in {"cut", "left"}))
            BY <2>2
        <3> QED  BY <1>2, <1>3, <1>6, <2>2, <3>1, Stands
    <2> QED  BY <1>5, <1>6, <2>1, <2>2, <2>3 DEF Reader
<1>7. ASSUME f.at \in {"idle", "yielded"}, Reader(r, [f EXCEPT !.at = "reading"])
      PROVE  SInv'
    <2>1. PICK g : g = [f EXCEPT !.at = "reading"]
        OBVIOUS
    <2>2. /\ DOMAIN g = DOMAIN NoStream /\ g.sent = f.sent /\ g.told = f.told /\ g.event = f.event
          /\ g.got = f.got /\ g.wire = f.wire /\ g.at = "reading" /\ g.link = f.link
        BY <1>2, <2>1 DEF NoStream
    <2>3. Flow(g)
        <3>1. f.at \notin Over /\ g.at \notin Over
            BY <1>7, <2>2 DEF Over
        <3> QED  BY <1>2, <1>3, <2>2, <3>1, Stands
    <2> QED  BY <1>5, <1>7, <2>1, <2>2, <2>3 DEF Reader
<1>8. CASE RaiseForStatus(r)
    <2>1. f.at = "idle" /\ f.at \notin Over
        BY <1>1, <1>8 DEF RaiseForStatus, Over
    <2> QED  BY <1>1, <1>6, <1>7, <1>8, <2>1 DEF RaiseForStatus, Refusals
<1>9. CASE ReadLine(r)
    <2>1. stream' = [stream EXCEPT ![r] = Read(f)] /\ f.at = "reading" /\ f.wire # <<>>
        BY <1>1, <1>9 DEF ReadLine, Read, Reader, Wire
    <2>2. Flow(Read(f)) /\ Read(f).sent = f.sent /\ Read(f).told = f.told
        <3>1. Read(f).sent = f.sent /\ Read(f).told = f.told /\ Formed(Read(f))
            BY <1>2, <2>1, ReadFields, ReadForms DEF Flow
        <3>2. NoMark => Flow(Read(f))
            BY <1>2, <2>1, ReadFlows
        <3> QED  BY <3>1, <3>2 DEF Flow
    <2>3. Read(f).at # "refused"
        BY <1>2, <2>1, ReadFields
    <2> QED  BY <1>5, <2>1, <2>2, <2>3
<1>10. CASE BreakOff(r)
    <2>1. f.at \notin Over
        BY <1>1, <1>10 DEF BreakOff, Over
    <2> QED  BY <1>1, <1>6, <1>10, <2>1 DEF BreakOff
<1>11. CASE NextChunk(r)
    BY <1>1, <1>7, <1>11 DEF NextChunk
<1>12. CASE CloseIterator(r)
    <2>1. f.at \notin Over
        BY <1>1, <1>12 DEF CloseIterator, Over
    <2> QED  BY <1>1, <1>6, <1>12, <2>1 DEF CloseIterator
<1>13. CASE Cut(r)
    <2>1. PICK n \in 0 .. Len(f.wire) : Reader(r, [f EXCEPT !.link = "cut", !.wire = SubSeq(@, 1, n)])
        BY <1>1, <1>13 DEF Cut, Wire
    <2>2. PICK g : g = [f EXCEPT !.link = "cut", !.wire = SubSeq(@, 1, n)]
        OBVIOUS
    <2>3. /\ DOMAIN g = DOMAIN NoStream /\ g.sent = f.sent /\ g.told = f.told /\ g.event = f.event
          /\ g.got = f.got /\ g.wire = SubSeq(f.wire, 1, n) /\ g.at = f.at /\ g.link = "cut"
        BY <1>2, <2>2 DEF NoStream
    <2>4. f.link = "up" /\ f.at \notin Over
        BY <1>1, <1>3, <1>13 DEF Cut, Link
    <2>5. /\ IsSeq(g.wire) /\ Len(g.wire) <= Len(f.wire)
          /\ \A i \in DOMAIN g.wire : i \in DOMAIN f.wire /\ g.wire[i] = f.wire[i]
        <3>1. PICK S : f.wire \in Seq(S)
            BY <1>3 DEF IsSeq
        <3>2. SubSeq(f.wire, 1, n) \in Seq(S) /\ Len(SubSeq(f.wire, 1, n)) = n
              /\ \A i \in 1 .. n : SubSeq(f.wire, 1, n)[i] = f.wire[i]
            BY <1>3, <2>1, <3>1
        <3>3. IsSeq(g.wire) /\ Len(g.wire) = n
            BY <2>3, <3>2 DEF IsSeq
        <3> QED  BY <1>3, <2>1, <2>3, <3>2, <3>3, Lengths
    <2>6. Flow(g)
        <3>1. g.at \in {"idle", "reading", "yielded"} /\ g.at \notin Over
            BY <1>3, <2>3, <2>4
        <3> QED  BY <1>2, <2>3, <2>4, <2>5, <3>1, Stands
    <2>7. g.at # "refused"
        BY <2>3, <2>4 DEF Over
    <2> QED  BY <1>5, <2>1, <2>2, <2>3, <2>6, <2>7 DEF Reader
<1> QED  BY <1>8, <1>9, <1>10, <1>11, <1>12, <1>13 DEF Iterate, Wanders

\* At the start nothing was said.
LEMMA StreamStarts ==
    ASSUME Init
    PROVE  SInv
<1>1. /\ stream = [r \in Requests |-> NoStream]
      /\ pc = [r \in Requests |-> "idle"]
      /\ result = [r \in Requests |-> [status |-> "none", by |-> None, at |-> 0]]
    BY DEF Init, PipelineInit, StreamInit, NoStream
<1>2. PICK f : f = NoStream
    OBVIOUS
<1>3. /\ DOMAIN f = DOMAIN NoStream /\ f.sent = 0 /\ f.told = "none" /\ f.wire = <<>> /\ f.link = "up"
      /\ f.at = "idle" /\ f.event = None /\ f.got = <<>>
    BY <1>2 DEF NoStream
<1>4. IsSeq(f.wire) /\ IsSeq(f.got) /\ Len(f.wire) = 0 /\ Len(f.got) = 0 /\ DOMAIN f.wire = {} /\ DOMAIN f.got = {}
    <2>1. <<>> \in Seq({})
        OBVIOUS
    <2> QED  BY <1>3, <2>1 DEF IsSeq
<1>5. Formed(f)
    BY <1>3, <1>4, AnswerAssumption DEF Formed, Over
<1>6. Follows(f, FALSE, 0)
    <2>1. Total(f, FALSE) = 0
        BY <1>3 DEF Total
    <2>2. f.told # "usage" /\ 0 + Len(f.wire) = 0 /\ Len(f.got) = 0 /\ f.sent = 0 /\ f.event = None
        BY <1>3, <1>4
    <2>3. \A i \in DOMAIN f.wire : f.wire[i] = LineAt(f, FALSE, 0 + i)
        BY <1>4
    <2>4. \A i \in DOMAIN f.got : f.got[i] = Answer[i][1].word
        BY <1>4
    <2>5. f.told = "none" /\ 0 + Len(f.wire) = Total(f, FALSE)
        BY <1>3, <2>1, <2>2
    <2>6. Len(f.got) = (IF 0 <= f.sent THEN 0 ELSE f.sent)
        BY <2>2
    <2>7. f.event = IF 0 = f.sent + 1 /\ FALSE THEN "metadata"
                    ELSE IF 0 = f.sent + 1 /\ f.told = "error" THEN "error" ELSE None
        BY <2>2, <2>5
    <2>8. 0 + Len(f.wire) <= Total(f, FALSE)
        <3>1. 0 <= 0
            OBVIOUS
        <3> QED  BY <2>1, <2>2, <3>1, Zenon
    <2> QED  BY <2>3, <2>4, <2>5, <2>6, <2>7, <2>8, Zenon DEF Follows
<1>7. Flow(f)
    <2>1. f.at # "ended" /\ f.at # "failed"
        BY <1>3
    <2>2. \E u \in BOOLEAN, n \in Nat : Follows(f, u, n)
        BY <1>6
    <2> QED  BY <1>5, <2>1, <2>2 DEF Flow, Told
<1>8. ASSUME NEW r \in Requests
      PROVE  Flow(stream[r]) /\ Linked(r, stream[r])
    <2>1. stream[r] = f /\ pc[r] = "idle" /\ result[r].status = "none"
        BY <1>1, <1>2
    <2> QED  BY <1>2, <1>3, <1>7, <2>1 DEF Linked, Refusals
<1> QED  BY <1>8 DEF SInv

\* Every step keeps what the streams say.
LEMMA NextStreams == IInv /\ SInv /\ [Next]_vars => SInv'
<1> SUFFICES ASSUME IInv, SInv, [Next]_vars
             PROVE  SInv'
    OBVIOUS
<1>0. DOMAIN stream = Requests
    BY DEF IInv, Shapes
<1>1. ASSUME UNCHANGED <<fixed, pc, result, work, stream>>
      PROVE  SInv'
    <2> SUFFICES ASSUME NEW q \in Requests
                 PROVE  Flow(stream[q])' /\ Linked(q, stream[q])'
        BY DEF SInv
    <2>1. PICK f : f = stream[q]
        OBVIOUS
    <2>2. Flow(f) /\ Linked(q, f) /\ stream'[q] = f
        BY <1>1, <2>1 DEF SInv
    <2>3. Linked(q, f)'
        BY <1>1, <2>2, LinkStays
    <2>4. Flow(stream[q])'
        BY <2>2
    <2>5. Linked(q, stream[q])'
        BY <2>2, <2>3
    <2> QED  BY <2>4, <2>5
<1>2. CASE UNCHANGED vars \/ Surroundings \/ Tick
    <2>1. UNCHANGED <<fixed, pc, result, work, stream>>
        BY <1>2 DEF vars, Surroundings, Tick, Shutdown, Ingest, pipeline
    <2> QED  BY <1>1, <2>1
<1>3. ASSUME NEW r \in Requests, Receive(r) \/ Call(r)
      PROVE  SInv'
    <2>1. Moved(r) /\ UNCHANGED stream /\ pc[r] = "idle" /\ Shapes /\ Control(r)
        BY <1>3, Entering DEF Receive, Call, IInv, Calls
    <2>2. pc'[r] \in {"lookup", "open", "ended"}
        BY <1>3, <2>1 DEF Receive, Call, Begin, Refuse, Goto, Shapes
    <2>3. Onward(r)
        BY <2>1, <2>2 DEF Onward, Before, Retrieving
    <2> QED  BY <2>1, <2>3, RestFlows
<1>4. ASSUME NEW r \in Requests, Work(r)
      PROVE  SInv'
    <2>1. Step(r) /\ Unhurried /\ UNCHANGED stream
        BY <1>4 DEF Work, Step, Unhurried
    <2>2. Moved(r) /\ Onward(r)
        BY <1>0, <2>1, PipelineKeeps, PipelineOnward
    <2>3. pc[r] # "yielded"
        <3>1. pc[r] = "yielded" => ~Step(r)
            BY DEF Step, Fail, Lookup, Open, Build, AskModel, QueryGraph, RunSearch, Rerank, Generate,
                   NextToken, EndStream, Release, Store, Leave, Inside, IInv, Calls, Control
        <3> QED  BY <2>1, <3>1
    <2> QED  BY <2>1, <2>2, <2>3, RestFlows
<1>5. ASSUME NEW r \in Requests, Consume(r)
      PROVE  SInv'
    <2>1. Consumer(r) /\ Unhurried /\ UNCHANGED stream
        BY <1>5 DEF Consume, Consumer, Unhurried
    <2>2. Moved(r) /\ Onward(r)
        BY <1>0, <2>1, PipelineKeeps, PipelineOnward
    <2>3. Streams(r) => pc[r] # "yielded" \/ pc'[r] # "generate"
        BY <1>5 DEF Consume, Finalize
    <2> QED  BY <2>1, <2>2, <2>3, RestFlows
<1>6. ASSUME NEW r \in Requests, Deliver(r)
      PROVE  SInv'
    <2>1. Unhurried
        BY <1>6 DEF Deliver, Unhurried
    <2>2. CASE Iterate(r) \/ Wanders(r)
        BY <2>1, <2>2, ClientKeeps
    <2>3. CASE Streams(r) /\ YieldToken(r)
        BY <2>1, <2>3, TokenKeeps
    <2>4. CASE Streams(r) /\ (YieldUsage(r) \/ YieldDone(r) \/ YieldError(r))
        BY <2>1, <2>4, ClosingKeeps
    <2>5. CASE Disconnected(r)
        <3>1. Consumer(r) /\ UNCHANGED stream
            BY <2>5 DEF Disconnected, Consumer
        <3>2. Moved(r) /\ Onward(r)
            BY <1>0, <2>1, <3>1, PipelineKeeps, PipelineOnward
        <3>3. pc[r] # "yielded" \/ pc'[r] # "generate"
            BY <2>5, <3>2 DEF Disconnected, CloseEarly, Cancel, Goto, Moved
        <3> QED  BY <3>1, <3>2, <3>3, RestFlows
    <2> QED  BY <1>6, <2>2, <2>3, <2>4, <2>5 DEF Deliver, Yield
<1> QED  BY <1>2, <1>3, <1>4, <1>5, <1>6 DEF Next

\* The streams are what SInv says in every state.
THEOREM StreamsAgree == Spec => []SInv
<1>1. Init => SInv
    BY StreamStarts
<1> QED  BY <1>1, NextStreams, CallsAndCaches, PTL DEF Spec

\* Every variable has its type, a key has one entry, and neither cache grows beyond its
\* limit under any order of the calls that read, store, evict and close.
THEOREM RagInvariant == Spec => []RagInv
<1>1. IInv /\ SInv => RagInv
    BY DEF IInv, Shapes, Calls, Control, Working, Caching, SInv, Flow, Formed, RagInv
<1> QED  BY <1>1, CallsAndCaches, StreamsAgree, PTL

\* The chunks of a client are the tokens in order, and how its iterator ends is what
\* happened to the call, wherever the connection is cut, the client leaves, the server
\* fails or is cancelled: if no token has the end marker for its first line.
THEOREM Outcomes ==
    ASSUME NoMark
    PROVE  Spec => []OutcomeTrue
<1>1. IInv /\ SInv => OutcomeTrue
    <2> SUFFICES ASSUME IInv, SInv, NEW r \in Requests, NEW f, f = stream[r]
                 PROVE  /\ Len(f.got) <= f.sent /\ \A i \in DOMAIN f.got : f.got[i] = Answer[i][1].word
                        /\ f.at = "ended"   => result[r].status = "answered" /\ Len(f.got) = f.sent
                        /\ f.at = "failed"  => result[r].status = "failed" /\ Len(f.got) = f.sent
                        /\ f.at = "refused" => scope[r] = "none" /\ f.sent = 0
        BY DEF OutcomeTrue
    <2>1. Formed(f) /\ Told(f) /\ Linked(r, f) /\ Control(r)
        BY DEF IInv, SInv, Calls, Flow
    <2>2. PICK u \in BOOLEAN, n \in Nat : Follows(f, u, n)
        BY <2>1 DEF Told
    <2>3. Len(f.got) <= f.sent /\ \A i \in DOMAIN f.got : f.got[i] = Answer[i][1].word
        BY <2>1, <2>2, AnswerAssumption DEF Follows, Formed
    <2>4. /\ f.at = "ended"  => result[r].status = "answered" /\ Len(f.got) = f.sent
          /\ f.at = "failed" => result[r].status = "failed" /\ Len(f.got) = f.sent
        BY <2>1 DEF Told, Linked
    <2>5. f.at = "refused" => scope[r] = "none" /\ f.sent = 0
        BY <2>1 DEF Linked, Control
    <2> QED  BY <2>3, <2>4, <2>5
<1> QED  BY <1>1, CallsAndCaches, StreamsAgree, PTL

-----------------------------------------------------------------------------
(* The limiter, for all requests, limits and chains of proxies: a client gets no *)
(* more than its quota, and no refusal is without a cause.                       *)

\* The admissions of a key between two instants; those it has had since one.
Granted(k, a, b) == {q \in Requests : Admitted(q) /\ BucketKey(q) = k /\ hit[q].at \in a .. b}
Since(k, t)      == Granted(k, t, now)

\* A request is checked once.
Checks ==
    /\ now \in Nat /\ DOMAIN pc = Requests /\ DOMAIN hit = Requests
    /\ \A r \in Requests :
         /\ DOMAIN hit[r] = {"outcome", "at"} /\ hit[r].at \in 0 .. now
         /\ pc[r] = "idle" => hit[r].outcome = "none"
    /\ IsFiniteSet({r \in Requests : Admitted(r)})

Keys == {BucketKey(r) : r \in Requests}
B(k) == IF k \in DOMAIN buckets THEN buckets[k] ELSE <<>>

\* From t on a bucket has as many hits as its key has had admissions, all behind the others.
Splits(s, k, t) ==
    \E n \in 0 .. Len(s) : /\ \A i \in 1 .. n : s[i] < t
                           /\ \A i \in n + 1 .. Len(s) : s[i] >= t
                           /\ Cardinality(Since(k, t)) = Len(s) - n

\* What lies before the window is forgotten bit by bit.
Fits(s, k) == s \in Seq(Nat) /\ \A t \in Int : t >= now - Window => Splits(s, k, t)

Table ==
    /\ IsFiniteSet(DOMAIN buckets) /\ DOMAIN buckets \subseteq Keys
    /\ \A k \in Keys : Fits(B(k), k)

\* Nothing expires in the instant of a refusal.
StillFull ==
    \A r \in Requests : hit[r].outcome = "capacity" /\ hit[r].at = now => TableFull(BucketKey(r))

\* QuotaHolds and RefusalExplained, said of keys.
KeyQuota ==
    \A r \in Requests : Admitted(r) =>
        Cardinality(Granted(BucketKey(r), hit[r].at, hit[r].at + Window)) <= Limit

Around(a, b) == {q \in Requests : Admitted(q) /\ hit[q].at \in a .. b}
Explained(r) ==
    LET a == hit[r].at
        k == BucketKey(r)
    IN  /\ hit[r].outcome = "exceeded" => Cardinality(Granted(k, a - Window, a)) >= Limit
        /\ hit[r].outcome = "capacity" =>
             /\ Granted(k, a - Window, a) = {}
             /\ Cardinality({BucketKey(q) : q \in Around(a - Window, a)}) >= MaxBuckets
KeyExplained == \A r \in Requests : Explained(r)

LInv == Checks /\ Table /\ StillFull /\ KeyQuota /\ KeyExplained

\* The hop that the nearest proxies report is who sent the request: what stands in front
\* of it in the chain is anybody's.
Honest ==
    \A r \in Requests :
        /\ Origin[r] \notin Trusted /\ IsSeq(Forwarded[r])
        /\ \/ Peer[r] = Origin[r]
           \/ /\ Peer[r] \in Trusted
              /\ \E i \in DOMAIN Forwarded[r] :
                   /\ Forwarded[r][i] = Origin[r]
                   /\ \A j \in DOMAIN Forwarded[r] : j > i => Forwarded[r][j] \in Trusted

\* Finitely many requests have finitely many keys.
LEMMA KeysFinite ==
    ASSUME NEW A, IsFiniteSet(A)
    PROVE  IsFiniteSet({BucketKey(q) : q \in A})
<1> DEFINE f == [q \in A |-> BucketKey(q)]
<1>1. f \in Surjection(A, {BucketKey(q) : q \in A})
    BY DEF Surjection
<1> QED  BY <1>1, FS_Surjection

-----------------------------------------------------------------------------
(* The buckets *)

\* Where no later entry is before the edge of the window, what is left of a bucket fits too.
LEMMA Shifted ==
    ASSUME NEW k, NEW s, Fits(s, k), now \in Nat,
           NEW d \in 0 .. Len(s), \A i \in 1 .. d : s[i] < now - Window,
           NEW u, u = SubSeq(s, d + 1, Len(s))
    PROVE  Fits(u, k) /\ Len(u) = Len(s) - d
<1>0. s \in Seq(Nat) /\ Len(s) \in Nat /\ Window \in Nat /\ d \in Nat /\ d <= Len(s)
    BY LimitAssumption DEF Fits
<1>1. /\ u \in Seq(Nat) /\ Len(u) = Len(s) - d
      /\ \A i \in 1 .. Len(s) - d : u[i] = s[d + i]
    <2>1. \A i \in d + 1 .. Len(s) : s[i] \in Nat
        BY <1>0
    <2>2. /\ SubSeq(s, d + 1, Len(s)) \in Seq(Nat)
          /\ Len(SubSeq(s, d + 1, Len(s))) = IF d + 1 <= Len(s) THEN Len(s) - (d + 1) + 1 ELSE 0
          /\ \A i \in 1 .. Len(s) - (d + 1) + 1 : SubSeq(s, d + 1, Len(s))[i] = s[(d + 1) + i - 1]
        BY <1>0, <2>1, SubSeqProperties
    <2>3. \A i \in 1 .. Len(s) - d : (d + 1) + i - 1 = d + i
        BY <1>0
    <2> QED  BY <1>0, <2>2, <2>3
<1>2. ASSUME NEW t \in Int, t >= now - Window
      PROVE  Splits(u, k, t)
    <2>1. PICK n \in 0 .. Len(s) : /\ \A i \in 1 .. n : s[i] < t
                                   /\ \A i \in n + 1 .. Len(s) : s[i] >= t
                                   /\ Cardinality(Since(k, t)) = Len(s) - n
        BY <1>2 DEF Fits, Splits
    <2>2. n >= d
        <3> SUFFICES ASSUME n < d
                     PROVE  FALSE
            BY <1>0, <2>1
        <3>1. d \in 1 .. d /\ d \in n + 1 .. Len(s) /\ s[d] \in Nat
            BY <1>0, <2>1
        <3>2. s[d] < now - Window /\ s[d] >= t
            BY <2>1, <3>1
        <3> QED  BY <1>0, <1>2, <3>1, <3>2
    <2> DEFINE m == n - d
    <2>3. m \in 0 .. Len(u)
        BY <1>0, <1>1, <2>1, <2>2
    <2>4. \A i \in 1 .. m : u[i] < t
        BY <1>0, <1>1, <2>1, <2>2
    <2>5. \A i \in m + 1 .. Len(u) : u[i] >= t
        <3> SUFFICES ASSUME NEW i \in m + 1 .. Len(u)
                     PROVE  u[i] >= t
            OBVIOUS
        <3>1. i \in 1 .. Len(s) - d /\ d + i \in n + 1 .. Len(s)
            BY <1>0, <1>1, <2>1, <2>2
        <3> QED  BY <1>1, <2>1, <3>1
    <2>6. Cardinality(Since(k, t)) = Len(u) - m
        BY <1>0, <1>1, <2>1, <2>2
    <2> HIDE DEF m
    <2> QED  BY <2>3, <2>4, <2>5, <2>6 DEF Splits
<1> QED  BY <1>1, <1>2 DEF Fits

\* What Recent returns: the hits of the window, as many as there were admissions; and a
\* bucket is live where it has some.
LEMMA RecentFits ==
    ASSUME Table, now \in Nat, NEW k \in Keys
    PROVE  /\ Fits(Recent(k), k)
           /\ Len(Recent(k)) \in Nat /\ Len(Recent(k)) = Cardinality(Since(k, now - Window))
           /\ k \in DOMAIN LiveBuckets <=> Len(Recent(k)) > 0
           /\ k \in DOMAIN LiveBuckets => k \in DOMAIN buckets /\ LiveBuckets[k] = buckets[k]
<1> DEFINE s == B(k)
           e == now - Window
<1>1. Fits(s, k) /\ s \in Seq(Nat) /\ Len(s) \in Nat /\ e \in Int
    BY LimitAssumption DEF Table, Fits
<1>2. PICK n \in 0 .. Len(s) : /\ \A i \in 1 .. n : s[i] < e
                               /\ \A i \in n + 1 .. Len(s) : s[i] >= e
                               /\ Cardinality(Since(k, e)) = Len(s) - n
    <2>1. Splits(s, k, e)
        BY <1>1 DEF Fits
    <2> QED  BY <2>1 DEF Splits
<1>3. k \in DOMAIN LiveBuckets <=> n < Len(s)
    <2>1. k \in DOMAIN LiveBuckets <=>
              k \in DOMAIN buckets /\ buckets[k] # <<>> /\ buckets[k][Len(buckets[k])] >= e
        BY DEF LiveBuckets, Unexpired, Last
    <2>2. s # <<>> <=> Len(s) > 0
        BY <1>1
    <2>3. k \notin DOMAIN buckets => Len(s) = 0
        BY DEF B
    <2>4. n < Len(s) => Len(s) > 0 /\ s[Len(s)] >= e
        BY <1>1, <1>2
    <2>5. Len(s) > 0 /\ s[Len(s)] >= e => n < Len(s)
        <3> SUFFICES ASSUME Len(s) > 0, s[Len(s)] >= e, ~(n < Len(s))
                     PROVE  FALSE
            OBVIOUS
        <3>1. n = Len(s) /\ Len(s) \in 1 .. n /\ s[Len(s)] \in Nat
            BY <1>1, <1>2
        <3> QED  BY <1>1, <1>2, <3>1
    <2>6. CASE k \in DOMAIN buckets
        <3>1. s = buckets[k]
            BY <2>6 DEF B
        <3> QED  BY <2>1, <2>2, <2>4, <2>5, <2>6, <3>1
    <2>7. CASE k \notin DOMAIN buckets
        BY <1>1, <1>2, <2>1, <2>3, <2>7
    <2> QED  BY <2>6, <2>7
<1>4. Recent(k) = SubSeq(s, n + 1, Len(s))
    <2>1. CASE k \notin DOMAIN LiveBuckets
        <3>1. n = Len(s)
            BY <1>1, <1>2, <1>3, <2>1
        <3>2. SubSeq(s, n + 1, Len(s)) = <<>>
            BY <1>1, <3>1, SubSeqEmpty
        <3> QED  BY <2>1, <3>2 DEF Recent
    <2>2. CASE k \in DOMAIN LiveBuckets
        <3>1. LiveBuckets[k] = s
            BY <2>2 DEF LiveBuckets, B
        <3>2. (CHOOSE m \in 0 .. Len(s) : /\ \A i \in 1 .. m : ~Unexpired(s[i])
                                          /\ m < Len(s) => Unexpired(s[m + 1])) = n
            <4>1. (\A i \in 1 .. n : ~Unexpired(s[i])) /\ (n < Len(s) => Unexpired(s[n + 1]))
                <5>1. \A i \in 1 .. n : s[i] \in Nat
                    BY <1>1, <1>2
                <5> QED  BY <1>1, <1>2, <5>1 DEF Unexpired
            <4>2. ASSUME NEW m \in 0 .. Len(s), \A i \in 1 .. m : ~Unexpired(s[i]),
                         m < Len(s) => Unexpired(s[m + 1])
                  PROVE  m = n
                <5>1. ~(m < n)
                    <6> SUFFICES ASSUME m < n
                                 PROVE  FALSE
                        OBVIOUS
                    <6>1. m < Len(s) /\ m + 1 \in 1 .. n /\ s[m + 1] \in Nat
                        BY <1>1, <1>2
                    <6> QED  BY <1>1, <1>2, <4>2, <6>1 DEF Unexpired
                <5>2. ~(n < m)
                    <6> SUFFICES ASSUME n < m
                                 PROVE  FALSE
                        OBVIOUS
                    <6>1. n < Len(s) /\ n + 1 \in 1 .. m /\ n + 1 \in n + 1 .. Len(s)
                        BY <1>1, <1>2
                    <6> QED  BY <1>1, <1>2, <4>2, <6>1 DEF Unexpired
                <5> QED  BY <1>2, <5>1, <5>2
            <4> QED  BY <1>2, <4>1, <4>2
        <3> QED  BY <2>2, <3>1, <3>2 DEF Recent
    <2> QED  BY <2>1, <2>2
<1>5. Fits(Recent(k), k) /\ Len(Recent(k)) = Len(s) - n
    BY <1>1, <1>2, <1>4, Shifted
<1>6. k \in DOMAIN LiveBuckets => k \in DOMAIN buckets /\ LiveBuckets[k] = buckets[k]
    BY DEF LiveBuckets
<1> QED  BY <1>1, <1>2, <1>3, <1>5, <1>6

\* The admissions of a key are finitely many.
LEMMA GrantedFinite ==
    ASSUME Checks, NEW k, NEW a, NEW b
    PROVE  IsFiniteSet(Granted(k, a, b)) /\ Cardinality(Granted(k, a, b)) \in Nat
<1>1. Granted(k, a, b) \in SUBSET {q \in Requests : Admitted(q)}
    BY DEF Granted
<1>2. IsFiniteSet(Granted(k, a, b))
    BY <1>1, FS_Subset DEF Checks
<1> QED  BY <1>2, FS_CardinalityType

\* No admission lies ahead.
LEMMA SinceWhen ==
    ASSUME Checks, NEW k, NEW t \in Int
    PROVE  /\ \A q \in Requests : q \in Since(k, t) <=> Admitted(q) /\ BucketKey(q) = k /\ hit[q].at >= t
           /\ t > now => Since(k, t) = {}
<1>1. \A q \in Requests : hit[q].at \in Nat /\ hit[q].at <= now /\ now \in Nat
    BY DEF Checks
<1> QED  BY <1>1 DEF Since, Granted

\* The live buckets are those of the keys with an admission in the window.
LiveKnown ==
    Checks /\ Table => /\ DOMAIN LiveBuckets = {k \in Keys : Since(k, now - Window) # {}}
                       /\ IsFiniteSet(DOMAIN LiveBuckets)

\* That is so in every state.
LEMMA LiveSince == LiveKnown
<1> SUFFICES ASSUME Checks, Table
             PROVE  /\ DOMAIN LiveBuckets = {k \in Keys : Since(k, now - Window) # {}}
                    /\ IsFiniteSet(DOMAIN LiveBuckets)
    BY DEF LiveKnown
<1>1. DOMAIN LiveBuckets \in SUBSET DOMAIN buckets
    BY DEF LiveBuckets
<1>2. ASSUME NEW k \in Keys
      PROVE  k \in DOMAIN LiveBuckets <=> Since(k, now - Window) # {}
    <2>1. IsFiniteSet(Since(k, now - Window)) /\ Cardinality(Since(k, now - Window)) \in Nat
        BY GrantedFinite DEF Since
    <2>2. Cardinality(Since(k, now - Window)) = 0 <=> Since(k, now - Window) = {}
        BY <2>1, FS_EmptySet
    <2>3. k \in DOMAIN LiveBuckets <=> Cardinality(Since(k, now - Window)) > 0
        BY RecentFits DEF Checks
    <2> QED  BY <2>1, <2>2, <2>3
<1>3. IsFiniteSet(DOMAIN LiveBuckets)
    BY <1>1, FS_Subset DEF Table
<1> QED  BY <1>1, <1>2, <1>3 DEF Table

\* So it is after a step.
LEMMA LiveSinceNext == LiveKnown'
BY LiveSince, PTL

\* Of the admissions of a key, one more is counted where a request of it is admitted.
LEMMA Granting ==
    ASSUME Checks, NEW r \in Requests, hit[r].outcome = "none",
           NEW outcome \in {"admitted", "exceeded", "capacity"}, Checked(r, outcome),
           NEW k, NEW a \in Int, NEW b \in Int
    PROVE  /\ r \notin Granted(k, a, b)
           /\ outcome = "admitted" /\ k = BucketKey(r) /\ now \in a .. b =>
                  Granted(k, a, b)' = Granted(k, a, b) \cup {r}
           /\ ~(outcome = "admitted" /\ k = BucketKey(r) /\ now \in a .. b) =>
                  Granted(k, a, b)' = Granted(k, a, b)
<1>1. /\ \A q \in Requests \ {r} : hit'[q] = hit[q]
      /\ hit'[r].outcome = outcome /\ hit'[r].at = now
    BY DEF Checks, Checked
<1>2. ~Admitted(r) /\ (Admitted(r)' <=> outcome = "admitted")
    BY <1>1 DEF Admitted
<1>3. \A q \in Requests \ {r} : Admitted(q)' = Admitted(q)
    BY <1>1 DEF Admitted
<1>4. \A q \in Requests \ {r} : q \in Granted(k, a, b)' <=> q \in Granted(k, a, b)
    BY <1>1, <1>3 DEF Granted
<1>5. r \in Granted(k, a, b)' <=> outcome = "admitted" /\ k = BucketKey(r) /\ now \in a .. b
    BY <1>1, <1>2 DEF Granted
<1>6. r \notin Granted(k, a, b)
    BY <1>2 DEF Granted
<1>7. Granted(k, a, b)' \subseteq Requests /\ Granted(k, a, b) \subseteq Requests
    BY DEF Granted
<1> QED  BY <1>4, <1>5, <1>6, <1>7

-----------------------------------------------------------------------------
(* A check *)

\* How a request is checked: the others stand as they were.
Check(r, outcome) ==
    /\ pc[r] = "idle" /\ pc'[r] # "idle" /\ DOMAIN pc' = Requests
    /\ \A q \in Requests \ {r} : pc'[q] = pc[q]
    /\ now' = now /\ Checked(r, outcome)

\* The histories stay well formed.
LEMMA ChecksKept ==
    ASSUME Checks, NEW r \in Requests, NEW outcome \in {"admitted", "exceeded", "capacity"}, Check(r, outcome)
    PROVE  Checks'
<1>1. /\ hit' = [hit EXCEPT ![r] = [outcome |-> outcome, at |-> now]] /\ DOMAIN hit = Requests
      /\ now' = now /\ now \in Nat
    BY DEF Check, Checked, Checks
<1>2. DOMAIN hit' = Requests /\ hit'[r] = [outcome |-> outcome, at |-> now]
    BY <1>1
<1>3. \A q \in Requests \ {r} : hit'[q] = hit[q] /\ pc'[q] = pc[q]
    BY <1>1 DEF Check
<1>4. ASSUME NEW q \in Requests
      PROVE  /\ DOMAIN hit'[q] = {"outcome", "at"} /\ hit'[q].at \in 0 .. now'
             /\ pc'[q] = "idle" => hit'[q].outcome = "none"
    <2>1. CASE q = r
        BY <1>1, <1>2, <2>1 DEF Check
    <2>2. CASE q # r
        BY <1>1, <1>3, <2>2 DEF Checks
    <2> QED  BY <2>1, <2>2
<1>5. IsFiniteSet({q \in Requests : Admitted(q)}')
    <2> DEFINE A == {q \in Requests : Admitted(q)}
    <2>1. IsFiniteSet(A \cup {r})
        BY FS_AddElement DEF Checks
    <2>2. A' \in SUBSET (A \cup {r})
        BY <1>3 DEF Admitted
    <2> QED  BY <2>1, <2>2, FS_Subset
<1>6. DOMAIN pc' = Requests
    BY DEF Check
<1> QED  BY <1>1, <1>2, <1>4, <1>5, <1>6 DEF Checks, Admitted

\* What a key has had since an instant, after a check.
LEMMA SinceAfter ==
    ASSUME Checks, NEW r \in Requests, hit[r].outcome = "none",
           NEW outcome \in {"admitted", "exceeded", "capacity"}, Check(r, outcome),
           NEW k, NEW t \in Int
    PROVE  /\ r \notin Since(k, t)
           /\ outcome = "admitted" /\ k = BucketKey(r) /\ t <= now => Since(k, t)' = Since(k, t) \cup {r}
           /\ ~(outcome = "admitted" /\ k = BucketKey(r) /\ t <= now) => Since(k, t)' = Since(k, t)
<1>1. PICK n \in Nat : n = now
    BY DEF Checks
<1>2. now' = n /\ Checked(r, outcome) /\ (t <= n <=> n \in t .. n)
    BY <1>1 DEF Check
<1>3. Since(k, t) = Granted(k, t, n) /\ Since(k, t)' = Granted(k, t, n)'
    BY <1>1, <1>2 DEF Since, Granted
<1>4. n \in Int
    BY <1>1
<1> QED  BY <1>1, <1>2, <1>3, <1>4, Granting

\* A bucket whose key gains nothing fits as before.
LEMMA FitsOn ==
    ASSUME NEW k, NEW s, Fits(s, k), now' = now,
           \A t \in Int : Since(k, t)' = Since(k, t)
    PROVE  Fits(s, k)'
<1>1. \A t \in Int : t >= now - Window => Splits(s, k, t)
    BY DEF Fits
<1>2. ASSUME NEW t \in Int, t >= (now - Window)'
      PROVE  Splits(s, k, t)'
    <2>1. Splits(s, k, t) /\ Since(k, t)' = Since(k, t)
        BY <1>1, <1>2
    <2> QED  BY <2>1 DEF Splits
<1> QED  BY <1>2 DEF Fits

\* A bucket whose key gains an admission fits with the instant at its end.
LEMMA FitsMore ==
    ASSUME Checks, NEW k, NEW s, Fits(s, k), now' = now, NEW r,
           \A t \in Int : /\ r \notin Since(k, t)
                          /\ t <= now => Since(k, t)' = Since(k, t) \cup {r}
                          /\ t > now => Since(k, t)' = Since(k, t),
           NEW u, u = Append(s, now)
    PROVE  Fits(u, k)'
<1>1. PICK n \in Nat : n = now
    BY DEF Checks
<1>2. s \in Seq(Nat) /\ Len(s) \in Nat
    BY DEF Fits
<1>3. /\ u \in Seq(Nat) /\ Len(u) = Len(s) + 1 /\ u[Len(s) + 1] = n
      /\ \A i \in 1 .. Len(s) : u[i] = s[i]
    BY <1>1, <1>2, AppendProperties
<1>4. ASSUME NEW t \in Int, t >= n - Window
      PROVE  Splits(u, k, t)'
    <2>1. PICK m \in 0 .. Len(s) : /\ \A i \in 1 .. m : s[i] < t
                                   /\ \A i \in m + 1 .. Len(s) : s[i] >= t
                                   /\ Cardinality(Since(k, t)) = Len(s) - m
        BY <1>1, <1>4 DEF Fits, Splits
    <2>2. IsFiniteSet(Since(k, t))
        BY GrantedFinite DEF Since
    <2>3. CASE t <= n
        <3>1. Cardinality(Since(k, t)') = Len(u) - m
            <4>1. Since(k, t)' = Since(k, t) \cup {r} /\ r \notin Since(k, t)
                BY <1>1, <2>3
            <4>2. Cardinality(Since(k, t)') = Cardinality(Since(k, t)) + 1
                BY <2>2, <4>1, FS_AddElement
            <4> QED  BY <1>2, <1>3, <2>1, <4>2
        <3>2. \A i \in 1 .. m : u[i] < t
            BY <1>2, <1>3, <2>1
        <3>3. \A i \in m + 1 .. Len(u) : u[i] >= t
            <4> SUFFICES ASSUME NEW i \in m + 1 .. Len(u)
                         PROVE  u[i] >= t
                OBVIOUS
            <4>1. (i \in m + 1 .. Len(s) /\ i \in 1 .. Len(s)) \/ i = Len(s) + 1
                BY <1>2, <1>3, <2>1
            <4> QED  BY <1>3, <2>1, <2>3, <4>1
        <3>4. m \in 0 .. Len(u)
            BY <1>2, <1>3, <2>1
        <3> QED  BY <3>1, <3>2, <3>3, <3>4 DEF Splits
    <2>4. CASE t > n
        <3>1. Since(k, t)' = {} /\ Since(k, t) = {}
            BY <1>1, <2>4, SinceWhen
        <3>2. Cardinality(Since(k, t)') = 0 /\ Cardinality(Since(k, t)) = 0
            BY <3>1, FS_EmptySet
        <3>3. m = Len(s)
            BY <1>2, <2>1, <3>2
        <3>4. \A i \in 1 .. Len(u) : u[i] < t
            <4> SUFFICES ASSUME NEW i \in 1 .. Len(u)
                         PROVE  u[i] < t
                OBVIOUS
            <4>1. i \in 1 .. Len(s) \/ i = Len(s) + 1
                BY <1>2, <1>3
            <4> QED  BY <1>3, <2>1, <2>4, <3>3, <4>1
        <3>5. Len(u) \in 0 .. Len(u) /\ Len(u) - Len(u) = 0 /\ Len(u) + 1 .. Len(u) = {}
            BY <1>2, <1>3
        <3>6. PICK l : l = Len(u)
            OBVIOUS
        <3>7. /\ l \in 0 .. Len(u) /\ \A i \in 1 .. l : u[i] < t
              /\ \A i \in l + 1 .. Len(u) : u[i] >= t
              /\ Cardinality(Since(k, t)') = Len(u) - l
            BY <3>2, <3>4, <3>5, <3>6
        <3> QED  BY <3>7 DEF Splits
    <2> QED  BY <1>1, <2>3, <2>4
<1>5. now' = n
    BY <1>1
<1> QED  BY <1>3, <1>4, <1>5 DEF Fits

\* What a check makes of the table.
Rest(r) ==
    \/ buckets' = LiveBuckets /\ TableFull(BucketKey(r))
    \/ ~TableFull(BucketKey(r)) /\ buckets' = Bucket(BucketKey(r), Recent(BucketKey(r)))

\* The buckets fit after a check.
LEMMA TableKept ==
    ASSUME Checks, Table, NEW r \in Requests, hit[r].outcome = "none",
           NEW outcome \in {"admitted", "exceeded", "capacity"}, Check(r, outcome),
           IF outcome = "admitted"
           THEN buckets' = Bucket(BucketKey(r), Append(Recent(BucketKey(r)), now))
           ELSE Rest(r)
    PROVE  Table'
<1>1. PICK k \in Keys : k = BucketKey(r)
    BY DEF Keys
<1>2. now \in Nat /\ now' = now /\ IsFiniteSet(DOMAIN LiveBuckets)
    BY LiveSince DEF LiveKnown, Checks, Check
<1>3. DOMAIN LiveBuckets \subseteq Keys
    BY DEF LiveBuckets, Table
<1>4. IsFiniteSet(DOMAIN buckets') /\ DOMAIN buckets' \subseteq Keys
    <2>1. IsFiniteSet(DOMAIN LiveBuckets \cup {k})
        BY <1>2, FS_AddElement
    <2>2. DOMAIN buckets' = DOMAIN LiveBuckets \/ DOMAIN buckets' = DOMAIN LiveBuckets \cup {k}
        BY <1>1 DEF Rest, Bucket
    <2> QED  BY <1>1, <1>2, <1>3, <2>1, <2>2
<1>5. ASSUME NEW j \in Keys
      PROVE  Fits(B(j), j)'
    <2>1. Fits(Recent(j), j) /\ (j \in DOMAIN LiveBuckets => Fits(B(j), j))
        BY <1>2, RecentFits DEF Table
    <2>2. PICK s : s = B(j)'
        OBVIOUS
    <2>3. ASSUME j # k \/ outcome # "admitted"
          PROVE  Fits(s, j)'
        <3>1. \A t \in Int : Since(j, t)' = Since(j, t)
            BY <1>1, <2>3, SinceAfter
        <3>2. Fits(s, j)
            <4>1. CASE j \in DOMAIN buckets' /\ j \in DOMAIN LiveBuckets /\ buckets'[j] = LiveBuckets[j]
                BY <1>2, <2>1, <2>2, <4>1, RecentFits DEF B
            <4>2. CASE j \notin DOMAIN buckets' /\ j \notin DOMAIN LiveBuckets
                BY <2>1, <2>2, <4>2 DEF B, Recent
            <4>3. CASE j \in DOMAIN buckets' /\ buckets'[j] = Recent(j)
                BY <2>1, <2>2, <4>3 DEF B
            <4> QED  BY <1>1, <2>3, <4>1, <4>2, <4>3 DEF Rest, Bucket
        <3> QED  BY <1>2, <3>1, <3>2, FitsOn
    <2>4. ASSUME j = k, outcome = "admitted"
          PROVE  Fits(s, j)'
        <3>1. PICK u : u = Recent(j)
            OBVIOUS
        <3>2. Fits(u, j) /\ s = Append(u, now)
            BY <1>1, <2>1, <2>2, <2>4, <3>1 DEF B, Bucket
        <3>3. \A t \in Int : /\ r \notin Since(j, t)
                             /\ t <= now => Since(j, t)' = Since(j, t) \cup {r}
                             /\ t > now => Since(j, t)' = Since(j, t)
            BY <1>1, <1>2, <2>4, SinceAfter
        <3> QED  BY <1>2, <3>2, <3>3, FitsMore
    <2>5. Fits(s, j)'
        BY <2>3, <2>4
    <2> QED  BY <2>2, <2>5
<1> QED  BY <1>4, <1>5 DEF Table

\* A full table stays full, without the key that was refused, until the clock moves.
LEMMA FullStays ==
    ASSUME Checks, Checks', Table, Table', StillFull, NEW r \in Requests, hit[r].outcome = "none",
           NEW outcome \in {"admitted", "exceeded", "capacity"}, Check(r, outcome),
           outcome = "capacity" <=> TableFull(BucketKey(r))
    PROVE  StillFull'
<1>1. PICK k \in Keys : k = BucketKey(r)
    BY DEF Keys
<1>2. PICK e \in Int : e = now - Window
    BY LimitAssumption DEF Checks
<1>3. now' = now /\ Checked(r, outcome) /\ (now - Window)' = e /\ now \in Nat /\ e <= now
    BY <1>2, LimitAssumption DEF Check, Checks
<1>4. /\ DOMAIN LiveBuckets = {j \in Keys : Since(j, e) # {}}
      /\ DOMAIN LiveBuckets' = {j \in Keys : Since(j, e)' # {}}
    <2>1. DOMAIN LiveBuckets' = {j \in Keys : Since(j, now - Window)' # {}}
        BY LiveSinceNext DEF LiveKnown
    <2>2. \A j : Since(j, now - Window)' = Since(j, e)'
        BY <1>3 DEF Since
    <2> QED  BY <1>2, <2>1, <2>2, LiveSince DEF LiveKnown
<1>5. \A j \in Keys : /\ j = k /\ outcome = "admitted" => Since(j, e)' = Since(j, e) \cup {r}
                      /\ ~(j = k /\ outcome = "admitted") => Since(j, e)' = Since(j, e)
    BY <1>1, <1>3, SinceAfter
<1>6. DOMAIN LiveBuckets' = IF outcome = "admitted" THEN DOMAIN LiveBuckets \cup {k} ELSE DOMAIN LiveBuckets
    BY <1>1, <1>4, <1>5
<1>7. hit' = [hit EXCEPT ![r] = [outcome |-> outcome, at |-> now]] /\ DOMAIN hit = Requests
    BY <1>3 DEF Checked, Checks
<1>8. ASSUME NEW q \in Requests, hit'[q].outcome = "capacity", hit'[q].at = now
      PROVE  TableFull(BucketKey(q))'
    <2>1. TableFull(BucketKey(q))
        <3>1. CASE q = r
            BY <1>7, <1>8, <3>1
        <3>2. CASE q # r
            BY <1>7, <1>8, <3>2 DEF StillFull
        <3> QED  BY <3>1, <3>2
    <2>2. outcome = "admitted" => k \in DOMAIN LiveBuckets
        BY <1>1, <2>1 DEF TableFull
    <2>3. DOMAIN LiveBuckets' = DOMAIN LiveBuckets
        BY <1>6, <2>2
    <2> QED  BY <2>1, <2>3 DEF TableFull
<1> QED  BY <1>3, <1>8 DEF StillFull

\* The quota holds for every window that the new admission falls into.
LEMMA QuotaStays ==
    ASSUME Checks, Checks', Table, KeyQuota, NEW r \in Requests, hit[r].outcome = "none",
           NEW outcome \in {"admitted", "exceeded", "capacity"}, Check(r, outcome),
           outcome = "admitted" => Len(Recent(BucketKey(r))) < Limit
    PROVE  KeyQuota'
<1>1. PICK k \in Keys : k = BucketKey(r)
    BY DEF Keys
<1>2. /\ now' = now /\ Checked(r, outcome) /\ now \in Nat /\ Window \in Nat /\ Limit \in Nat
      /\ hit' = [hit EXCEPT ![r] = [outcome |-> outcome, at |-> now]] /\ DOMAIN hit = Requests
    BY LimitAssumption DEF Check, Checks, Checked
<1>3. ASSUME NEW q \in Requests, Admitted(q)'
      PROVE  Cardinality(Granted(BucketKey(q), hit[q].at, hit[q].at + Window)') <= Limit
    <2>1. PICK a \in Nat : a = hit'[q].at
        BY DEF Checks
    <2>2. PICK b \in Nat : b = a + Window
        BY <1>2
    <2>3. PICK j : j = BucketKey(q)
        OBVIOUS
    <2>4. Granted(BucketKey(q), hit[q].at, hit[q].at + Window)' = Granted(j, a, b)'
        BY <2>1, <2>2, <2>3 DEF Granted
    <2>5. ASSUME ~(outcome = "admitted" /\ j = k /\ now \in a .. b)
          PROVE  Cardinality(Granted(j, a, b)') <= Limit
        <3>1. q # r /\ hit'[q] = hit[q]
            BY <1>1, <1>2, <1>3, <2>1, <2>2, <2>3, <2>5 DEF Admitted
        <3>2. Cardinality(Granted(j, a, b)) <= Limit
            BY <1>3, <2>1, <2>2, <2>3, <3>1 DEF KeyQuota, Admitted
        <3>3. Granted(j, a, b)' = Granted(j, a, b)
            BY <1>1, <1>2, <2>5, Granting
        <3> QED  BY <3>2, <3>3
    <2>6. ASSUME outcome = "admitted", j = k, now \in a .. b
          PROVE  Cardinality(Granted(j, a, b)') <= Limit
        <3>1. Granted(j, a, b)' = Granted(j, a, b) \cup {r} /\ r \notin Granted(j, a, b)
            BY <1>1, <1>2, <2>6, Granting
        <3>2. Granted(j, a, b) \in SUBSET Since(k, now - Window)
            <4>1. a >= now - Window
                BY <1>2, <2>1, <2>2, <2>6
            <4>2. \A p \in Requests : hit[p].at \in Nat /\ hit[p].at <= now
                BY DEF Checks
            <4> QED  BY <1>2, <2>1, <2>2, <2>6, <4>1, <4>2 DEF Granted, Since
        <3>3. Cardinality(Since(k, now - Window)) < Limit
            BY <1>1, <1>2, <2>6, RecentFits
        <3>4. /\ IsFiniteSet(Since(k, now - Window)) /\ Cardinality(Since(k, now - Window)) \in Nat
              /\ IsFiniteSet(Granted(j, a, b)) /\ Cardinality(Granted(j, a, b)) \in Nat
            BY GrantedFinite DEF Since
        <3>5. Cardinality(Granted(j, a, b)) <= Cardinality(Since(k, now - Window))
            BY <3>2, <3>4, FS_Subset
        <3>6. Cardinality(Granted(j, a, b) \cup {r}) = Cardinality(Granted(j, a, b)) + 1
            BY <3>1, <3>4, FS_AddElement
        <3> QED  BY <1>2, <3>1, <3>3, <3>4, <3>5, <3>6
    <2> QED  BY <2>4, <2>5, <2>6
<1> QED  BY <1>3 DEF KeyQuota

\* A refusal has its cause when it is made.
LEMMA RefusalKnown ==
    ASSUME Checks, Checks', Table, NEW r \in Requests, hit[r].outcome = "none",
           NEW outcome \in {"admitted", "exceeded", "capacity"}, Check(r, outcome),
           outcome = "exceeded" => Len(Recent(BucketKey(r))) >= Limit,
           outcome = "capacity" => TableFull(BucketKey(r))
    PROVE  Explained(r)'
<1>1. PICK k \in Keys : k = BucketKey(r)
    BY DEF Keys
<1>2. PICK n \in Nat : n = now
    BY DEF Checks
<1>3. PICK e \in Int : e = n - Window
    BY LimitAssumption
<1>4. /\ Checked(r, outcome) /\ e <= n /\ LimitAssumption
      /\ hit' = [hit EXCEPT ![r] = [outcome |-> outcome, at |-> n]] /\ DOMAIN hit = Requests
    BY <1>2, <1>3, LimitAssumption DEF Check, Checks, Checked
<1>5. hit'[r].outcome = outcome /\ hit'[r].at = n
    BY <1>4
<1>6. CASE outcome = "exceeded"
    <2>1. Granted(k, e, n)' = Granted(k, e, n)
        BY <1>4, <1>6, Granting
    <2>2. Cardinality(Granted(k, e, n)) >= Limit
        BY <1>1, <1>2, <1>3, <1>6, RecentFits DEF Since
    <2> QED  BY <1>1, <1>3, <1>5, <1>6, <2>1, <2>2 DEF Explained
<1>7. CASE outcome = "capacity"
    <2>1. k \notin DOMAIN LiveBuckets /\ Cardinality(DOMAIN LiveBuckets) >= MaxBuckets
        BY <1>1, <1>7 DEF TableFull
    <2>2. /\ DOMAIN LiveBuckets = {j \in Keys : Granted(j, e, n) # {}}
          /\ IsFiniteSet(DOMAIN LiveBuckets)
        BY <1>2, <1>3, LiveSince DEF LiveKnown, Since
    <2>3. \A j : Granted(j, e, n)' = Granted(j, e, n)
        BY <1>4, <1>7, Granting
    <2>4. PICK A : A = Around(e, n)'
        OBVIOUS
    <2>5. PICK C : C = {BucketKey(q) : q \in A}
        OBVIOUS
    <2>6. IsFiniteSet(C)
        <3>1. A \in SUBSET {q \in Requests : Admitted(q)}'
            BY <2>4 DEF Around
        <3>2. IsFiniteSet({q \in Requests : Admitted(q)}')
            BY DEF Checks
        <3>3. IsFiniteSet(A)
            BY <3>1, <3>2, FS_Subset
        <3> QED  BY <2>5, <3>3, KeysFinite
    <2>7. DOMAIN LiveBuckets \in SUBSET C
        <3> SUFFICES ASSUME NEW j \in DOMAIN LiveBuckets
                     PROVE  j \in C
            OBVIOUS
        <3>1. PICK q \in Requests : q \in Granted(j, e, n)'
            BY <2>2, <2>3 DEF Granted
        <3>2. q \in A /\ BucketKey(q) = j
            BY <2>4, <3>1 DEF Granted, Around
        <3> QED  BY <2>5, <3>2
    <2>8. Cardinality(C) >= MaxBuckets
        <3>1. Cardinality(DOMAIN LiveBuckets) <= Cardinality(C)
            BY <2>6, <2>7, FS_Subset
        <3>2. Cardinality(DOMAIN LiveBuckets) \in Nat /\ Cardinality(C) \in Nat
            BY <2>2, <2>6, FS_CardinalityType
        <3> QED  BY <1>4, <2>1, <3>1, <3>2
    <2>9. Granted(k, e, n)' = {}
        BY <2>1, <2>2, <2>3
    <2> QED  BY <1>1, <1>3, <1>5, <1>7, <2>4, <2>5, <2>8, <2>9 DEF Explained
<1>8. CASE outcome = "admitted"
    BY <1>5, <1>8 DEF Explained
<1> QED  BY <1>6, <1>7, <1>8

\* And keeps it: admissions are never taken back, and none comes in the same instant.
LEMMA RefusalStays ==
    ASSUME Checks, Checks', StillFull, NEW r \in Requests, hit[r].outcome = "none",
           NEW outcome \in {"admitted", "exceeded", "capacity"}, Check(r, outcome),
           outcome = "admitted" => ~TableFull(BucketKey(r)),
           NEW p \in Requests \ {r}, Explained(p)
    PROVE  Explained(p)'
<1>1. PICK a \in Nat : a = hit[p].at
    BY DEF Checks
<1>2. PICK e \in Int : e = a - Window
    BY LimitAssumption
<1>3. PICK k : k = BucketKey(p)
    OBVIOUS
<1>4. /\ Checked(r, outcome) /\ hit'[p] = hit[p] /\ a <= now /\ now \in Nat
      /\ LimitAssumption /\ \A q \in Requests \ {r} : hit'[q] = hit[q]
    BY <1>1, LimitAssumption DEF Check, Checks, Checked
<1>5. /\ outcome = "admitted" /\ k = BucketKey(r) /\ now \in e .. a =>
             Granted(k, e, a)' = Granted(k, e, a) \cup {r}
      /\ ~(outcome = "admitted" /\ k = BucketKey(r) /\ now \in e .. a) =>
             Granted(k, e, a)' = Granted(k, e, a)
    BY <1>1, <1>2, <1>4, Granting
<1>6. CASE hit[p].outcome = "exceeded"
    <2>1. Cardinality(Granted(k, e, a)) >= Limit
        BY <1>1, <1>2, <1>3, <1>6 DEF Explained
    <2>2. Granted(k, e, a) \in SUBSET Granted(k, e, a)'
        BY <1>5
    <2>3. IsFiniteSet(Granted(k, e, a)') /\ Granted(k, e, a)' \in SUBSET {q \in Requests : Admitted(q)}'
        <3>1. Granted(k, e, a)' \in SUBSET {q \in Requests : Admitted(q)}'
            BY DEF Granted
        <3>2. IsFiniteSet({q \in Requests : Admitted(q)}')
            BY DEF Checks
        <3> QED  BY <3>1, <3>2, FS_Subset
    <2>4. /\ Cardinality(Granted(k, e, a)) <= Cardinality(Granted(k, e, a)')
          /\ Cardinality(Granted(k, e, a)') \in Nat /\ Cardinality(Granted(k, e, a)) \in Nat
        BY <2>2, <2>3, FS_Subset, FS_CardinalityType, GrantedFinite
    <2>5. Cardinality(Granted(k, e, a)') >= Limit
        BY <1>4, <2>1, <2>4
    <2> QED  BY <1>1, <1>2, <1>3, <1>4, <1>6, <2>5 DEF Explained
<1>7. CASE hit[p].outcome = "capacity"
    <2>1. Granted(k, e, a) = {} /\ Cardinality({BucketKey(q) : q \in Around(e, a)}) >= MaxBuckets
        BY <1>1, <1>2, <1>3, <1>7 DEF Explained
    <2>2. ~(outcome = "admitted" /\ k = BucketKey(r) /\ now \in e .. a)
        <3> SUFFICES ASSUME outcome = "admitted", k = BucketKey(r), now \in e .. a
                     PROVE  FALSE
            OBVIOUS
        <3>1. hit[p].at = now
            BY <1>1, <1>4
        <3> QED  BY <1>3, <1>7, <3>1 DEF StillFull
    <2>3. Granted(k, e, a)' = {}
        BY <1>5, <2>1, <2>2
    <2>4. PICK C, D : C = {BucketKey(q) : q \in Around(e, a)} /\ D = {BucketKey(q) : q \in Around(e, a)'}
        OBVIOUS
    <2>5. Around(e, a) \subseteq Around(e, a)'
        <3>1. \A q \in Around(e, a) : q # r
            BY DEF Around, Admitted
        <3> QED  BY <1>4, <3>1 DEF Around, Admitted
    <2>6. IsFiniteSet(D)
        <3>1. Around(e, a)' \in SUBSET {q \in Requests : Admitted(q)}'
            BY DEF Around
        <3>2. IsFiniteSet({q \in Requests : Admitted(q)}')
            BY DEF Checks
        <3>3. IsFiniteSet(Around(e, a)')
            BY <3>1, <3>2, FS_Subset
        <3>4. PICK A : A = Around(e, a)'
            OBVIOUS
        <3> QED  BY <2>4, <3>3, <3>4, KeysFinite
    <2>7. Cardinality(D) >= MaxBuckets
        <3>1. C \in SUBSET D
            BY <2>4, <2>5
        <3>2. Cardinality(C) <= Cardinality(D) /\ IsFiniteSet(C)
            BY <2>6, <3>1, FS_Subset
        <3>3. Cardinality(C) \in Nat /\ Cardinality(D) \in Nat
            BY <2>6, <3>2, FS_CardinalityType
        <3> QED  BY <1>4, <2>1, <2>4, <3>2, <3>3
    <2>8. Cardinality({BucketKey(q) : q \in Around(e, a)'}) >= MaxBuckets
        BY <2>4, <2>7
    <2> QED  BY <1>1, <1>2, <1>3, <1>4, <1>7, <2>3, <2>8 DEF Explained
<1>8. CASE hit[p].outcome \notin {"exceeded", "capacity"}
    BY <1>4, <1>8 DEF Explained
<1> QED  BY <1>6, <1>7, <1>8

\* A check keeps it all.
LEMMA CheckKeeps ==
    ASSUME LInv, NEW r \in Requests, NEW outcome \in {"admitted", "exceeded", "capacity"}, Check(r, outcome),
           CASE outcome = "admitted" -> Admit(r) [] outcome = "exceeded" -> RefuseRate(r) [] OTHER -> RefuseCapacity(r)
    PROVE  LInv'
<1>0. Checks /\ Table /\ StillFull /\ KeyQuota /\ KeyExplained /\ hit[r].outcome = "none"
    BY DEF LInv, Checks, Check
<1>1. Checks'
    BY <1>0, ChecksKept
<1>2. outcome = "capacity" <=> TableFull(BucketKey(r))
    BY DEF Admit, RefuseRate, RefuseCapacity
<1>3. /\ outcome = "admitted" => Len(Recent(BucketKey(r))) < Limit
      /\ outcome = "exceeded" => Len(Recent(BucketKey(r))) >= Limit
    BY DEF Admit, RefuseRate
<1>4. IF outcome = "admitted"
      THEN buckets' = Bucket(BucketKey(r), Append(Recent(BucketKey(r)), now))
      ELSE Rest(r)
    BY DEF Admit, RefuseRate, RefuseCapacity, Rest
<1>5. Table'
    BY <1>0, <1>4, TableKept
<1>6. StillFull'
    BY <1>0, <1>1, <1>2, <1>5, FullStays
<1>7. KeyQuota'
    BY <1>0, <1>1, <1>3, QuotaStays
<1>8. ASSUME NEW p \in Requests
      PROVE  Explained(p)'
    <2>1. CASE p = r
        BY <1>0, <1>1, <1>2, <1>3, <2>1, RefusalKnown
    <2>2. CASE p # r
        BY <1>0, <1>1, <1>2, <2>2, RefusalStays DEF KeyExplained
    <2> QED  BY <2>1, <2>2
<1> QED  BY <1>1, <1>5, <1>6, <1>7, <1>8 DEF LInv, KeyExplained

\* Every other step leaves the limiter alone, but for the clock.
LEMMA LimiterRests ==
    ASSUME LInv, UNCHANGED limiter, now' \in Nat, now <= now', DOMAIN pc' = Requests,
           \A q \in Requests : pc'[q] = "idle" => pc[q] = "idle"
    PROVE  LInv'
<1>1. UNCHANGED <<buckets, hit>> /\ now \in Nat
    BY DEF limiter, LInv, Checks
<1>2. Checks'
    <2>1. {q \in Requests : Admitted(q)}' = {q \in Requests : Admitted(q)}
        BY <1>1 DEF Admitted
    <2> QED  BY <1>1, <2>1 DEF LInv, Checks, Admitted
<1>3. \A k, a, b : Granted(k, a, b)' = Granted(k, a, b)
    BY <1>1 DEF Granted, Admitted
<1>4. ASSUME NEW k, NEW t \in Int
      PROVE  Since(k, t)' = Since(k, t)
    <2>1. \A q \in Requests : hit[q].at \in Nat /\ (hit[q].at \in t .. now <=> hit[q].at \in t .. now')
        BY <1>1 DEF LInv, Checks
    <2> QED  BY <1>1, <2>1 DEF Since, Granted, Admitted
<1>5. Table'
    <2>1. ASSUME NEW k \in Keys
          PROVE  Fits(B(k), k)'
        <3>1. PICK s : s = B(k)
            OBVIOUS
        <3>2. Fits(s, k) /\ B(k)' = s
            BY <1>1, <3>1 DEF LInv, Table, B
        <3>3. ASSUME NEW t \in Int, t >= now' - Window
              PROVE  Splits(s, k, t)'
            <4>1. t >= now - Window
                BY <1>1, <3>3, LimitAssumption
            <4>2. Splits(s, k, t)
                BY <3>2, <4>1 DEF Fits
            <4> QED  BY <1>4, <4>2 DEF Splits
        <3>4. Fits(s, k)'
            BY <3>2, <3>3 DEF Fits
        <3> QED  BY <3>2, <3>4
    <2> QED  BY <1>1, <2>1 DEF LInv, Table
<1>6. StillFull'
    <2>1. ASSUME NEW q \in Requests, hit[q].outcome = "capacity", hit[q].at = now'
          PROVE  TableFull(BucketKey(q))'
        <3>1. now' = now
            BY <1>1, <2>1 DEF LInv, Checks
        <3>2. TableFull(BucketKey(q))
            BY <2>1, <3>1 DEF LInv, StillFull
        <3>3. LiveBuckets' = LiveBuckets
            BY <1>1, <3>1 DEF LiveBuckets, Unexpired
        <3> QED  BY <3>2, <3>3 DEF TableFull
    <2> QED  BY <1>1, <2>1 DEF StillFull
<1>7. KeyQuota'
    BY <1>1, <1>3 DEF LInv, KeyQuota, Admitted
<1>8. KeyExplained'
    <2>1. \A a, b : Around(a, b)' = Around(a, b)
        BY <1>1 DEF Around, Admitted
    <2> QED  BY <1>1, <1>3, <2>1 DEF LInv, KeyExplained, Explained
<1> QED  BY <1>2, <1>5, <1>6, <1>7, <1>8 DEF LInv

-----------------------------------------------------------------------------
(* All steps *)

\* Nobody has been checked and no bucket is kept at first.
LEMMA LimiterStarts == Init => LInv
<1> SUFFICES ASSUME Init
             PROVE  LInv
    OBVIOUS
<1>1. /\ now = 0 /\ buckets = <<>> /\ pc = [r \in Requests |-> "idle"]
      /\ hit = [r \in Requests |-> [outcome |-> "none", at |-> 0]]
    BY DEF Init, LimiterInit, PipelineInit
<1>2. {q \in Requests : Admitted(q)} = {}
    BY <1>1 DEF Admitted
<1>3. Checks
    BY <1>1, <1>2, FS_EmptySet DEF Checks
<1>4. DOMAIN buckets = {}
    BY <1>1
<1>5. ASSUME NEW k \in Keys
      PROVE  Fits(B(k), k)
    <2>1. PICK s : s = B(k)
        OBVIOUS
    <2>2. s = <<>> /\ s \in Seq(Nat) /\ Len(s) = 0
        BY <1>4, <2>1 DEF B
    <2>3. ASSUME NEW t \in Int
          PROVE  Splits(s, k, t)
        <3>1. Since(k, t) = {}
            BY <1>2 DEF Since, Granted
        <3>2. Cardinality(Since(k, t)) = 0
            BY <3>1, FS_EmptySet
        <3>3. PICK n : n = 0
            OBVIOUS
        <3>4. /\ n \in 0 .. Len(s) /\ Cardinality(Since(k, t)) = Len(s) - n
              /\ \A i \in 1 .. n : s[i] < t
              /\ \A i \in n + 1 .. Len(s) : s[i] >= t
            BY <2>2, <3>2, <3>3
        <3> QED  BY <3>4 DEF Splits
    <2> QED  BY <2>1, <2>2, <2>3 DEF Fits
<1>6. Table
    BY <1>4, <1>5, FS_EmptySet DEF Table
<1>7. StillFull /\ KeyQuota /\ KeyExplained
    BY <1>1 DEF StillFull, KeyQuota, KeyExplained, Explained, Admitted
<1> QED  BY <1>3, <1>6, <1>7 DEF LInv

\* Every step keeps the limiter's invariant.
LEMMA NextLimiter == IInv /\ LInv /\ [Next]_vars => LInv'
<1> SUFFICES ASSUME IInv, LInv, [Next]_vars
             PROVE  LInv'
    OBVIOUS
<1>0. /\ DOMAIN pc = Requests /\ DOMAIN stream = Requests /\ now \in Nat /\ now <= now
      /\ DOMAIN result = Requests
    BY DEF IInv, Shapes
<1>1. CASE UNCHANGED <<limiter, pc, now>>
    BY <1>0, <1>1, LimiterRests
<1>2. ASSUME NEW r \in Requests, Receive(r)
      PROVE  LInv'
    <2>1. pc[r] = "idle" /\ now' = now /\ \E p \in {"ended", "lookup", "open"} : Goto(r, p)
        BY <1>2 DEF Receive, Refuse, Begin
    <2>2. /\ pc'[r] # "idle" /\ DOMAIN pc' = Requests
          /\ \A q \in Requests \ {r} : pc'[q] = pc[q]
        BY <1>0, <2>1 DEF Goto
    <2>3. CASE Admit(r)
        <3>1. Check(r, "admitted")
            BY <2>1, <2>2, <2>3 DEF Check, Admit
        <3> QED  BY <2>3, <3>1, CheckKeeps
    <2>4. CASE RefuseRate(r)
        <3>1. Check(r, "exceeded")
            BY <2>1, <2>2, <2>4 DEF Check, RefuseRate
        <3> QED  BY <2>4, <3>1, CheckKeeps
    <2>5. CASE RefuseCapacity(r)
        <3>1. Check(r, "capacity")
            BY <2>1, <2>2, <2>5 DEF Check, RefuseCapacity
        <3> QED  BY <2>5, <3>1, CheckKeeps
    <2> QED  BY <1>2, <2>3, <2>4, <2>5 DEF Receive
<1>3. ASSUME NEW r \in Requests, Call(r)
      PROVE  LInv'
    <2>1. UNCHANGED limiter /\ now' = now /\ \E p \in {"ended", "lookup", "open"} : Goto(r, p)
        BY <1>3 DEF Call, Begin
    <2>2. DOMAIN pc' = Requests /\ \A q \in Requests : pc'[q] = "idle" => pc[q] = "idle"
        BY <1>0, <2>1 DEF Goto
    <2> QED  BY <1>0, <2>1, <2>2, LimiterRests
<1>4. ASSUME NEW r \in Requests, Step(r) \/ Consumer(r), UNCHANGED limiter, Unhurried, DOMAIN stream' = Requests
      PROVE  LInv'
    <2>1. Moved(r) /\ Onward(r)
        BY <1>4, PipelineKeeps, PipelineOnward
    <2>2. DOMAIN pc' = Requests /\ now' = now /\ \A q \in Requests : pc'[q] = "idle" => pc[q] = "idle"
        BY <2>1 DEF Moved, Onward
    <2> QED  BY <1>0, <1>4, <2>2, LimiterRests
<1>5. ASSUME NEW r \in Requests, Work(r)
      PROVE  LInv'
    <2>1. Step(r) /\ Unhurried /\ stream' = stream /\ UNCHANGED limiter
        BY <1>5 DEF Work, Step, Unhurried
    <2> QED  BY <1>0, <1>4, <2>1
<1>6. ASSUME NEW r \in Requests, Consume(r)
      PROVE  LInv'
    <2>1. Consumer(r) /\ Unhurried /\ stream' = stream /\ UNCHANGED limiter
        BY <1>6 DEF Consume, Consumer, Unhurried
    <2> QED  BY <1>0, <1>4, <2>1
<1>7. ASSUME NEW r \in Requests, Deliver(r)
      PROVE  LInv'
    <2>1. Unhurried /\ UNCHANGED limiter /\ now' = now
        BY <1>7 DEF Deliver, Unhurried
    <2>2. DOMAIN stream' = Requests
        BY <1>0, <1>7 DEF Deliver, Yield, Iterate, Wanders, YieldToken, YieldUsage, YieldDone, YieldError,
           Disconnected, RaiseForStatus, ReadLine, BreakOff, NextChunk, CloseIterator, Cut, Send, Reader
    <2>3. CASE Pull(r) \/ CloseEarly(r) \/ Cancel(r)
        BY <1>4, <2>1, <2>2, <2>3 DEF Consumer
    <2>4. CASE UNCHANGED <<caches, pipeline>>
        BY <1>1, <2>1, <2>4 DEF pipeline
    <2> QED  BY <1>7, <2>3, <2>4 DEF Deliver, Yield, Iterate, Wanders, YieldToken, YieldUsage, YieldDone,
                YieldError, Disconnected, Closing
<1>8. CASE Surroundings
    BY <1>1, <1>8 DEF Surroundings, Shutdown, Ingest
<1>9. CASE Tick
    <2>1. UNCHANGED limiter /\ pc' = pc /\ now' = now + 1
        BY <1>9 DEF Tick, pipeline
    <2>2. now' \in Nat /\ now <= now'
        BY <1>0, <2>1
    <2> QED  BY <1>0, <2>1, <2>2, LimiterRests
<1>10. CASE UNCHANGED vars
    BY <1>1, <1>10 DEF vars, pipeline
<1> QED  BY <1>2, <1>3, <1>5, <1>6, <1>7, <1>8, <1>9, <1>10 DEF Next

\* The limiter is what LInv says in every state.
THEOREM LimiterCounts == Spec => []LInv
<1> QED  BY LimiterStarts, NextLimiter, CallsAndCaches, PTL DEF Spec

\* What the limiter takes for the client is who sent the request, whatever entries of its
\* own the sender put into the chain (_client_key).
LEMMA KeyIsOrigin ==
    ASSUME Honest, NEW r \in Requests
    PROVE  ClientKey(r) = Origin[r]
<1> DEFINE chain   == Append(Forwarded[r], Peer[r])
           foreign == {i \in DOMAIN chain : chain[i] \notin Trusted}
<1>1. CASE Peer[r] \notin Trusted
    BY <1>1 DEF Honest, ClientKey
<1>2. CASE Peer[r] \in Trusted
    <2>1. PICK i \in DOMAIN Forwarded[r] :
              /\ Forwarded[r][i] = Origin[r]
              /\ \A j \in DOMAIN Forwarded[r] : j > i => Forwarded[r][j] \in Trusted
        BY <1>2 DEF Honest
    <2>2. PICK S : Forwarded[r] \in Seq(S)
        BY DEF Honest, IsSeq
    <2>3. PICK l \in Nat : l = Len(Forwarded[r])
        BY <2>2
    <2>4. /\ DOMAIN Forwarded[r] = 1 .. l /\ DOMAIN chain = 1 .. l + 1
          /\ chain[l + 1] = Peer[r] /\ \A j \in 1 .. l : chain[j] = Forwarded[r][j]
        <3>1. Forwarded[r] \in Seq(S \cup {Peer[r]})
            BY <2>2
        <3>2. /\ chain \in Seq(S \cup {Peer[r]}) /\ Len(chain) = l + 1
              /\ chain[l + 1] = Peer[r] /\ \A j \in 1 .. l : chain[j] = Forwarded[r][j]
            BY <2>3, <3>1, AppendProperties
        <3> QED  BY <2>2, <2>3, <3>2
    <2>5. i \in foreign /\ chain[i] = Origin[r]
        BY <2>1, <2>4 DEF Honest
    <2>6. \A j \in foreign : j <= i
        <3> SUFFICES ASSUME NEW j \in foreign, ~(j <= i)
                     PROVE  FALSE
            OBVIOUS
        <3>1. j \in 1 .. l \/ j = l + 1
            BY <2>4
        <3>2. CASE j \in 1 .. l
            <4>1. j > i /\ chain[j] = Forwarded[r][j]
                BY <2>1, <2>4, <3>2
            <4> QED  BY <2>1, <2>4, <3>2, <4>1
        <3>3. CASE j = l + 1
            BY <1>2, <2>4, <3>3
        <3> QED  BY <3>1, <3>2, <3>3
    <2>7. (CHOOSE m \in foreign : \A j \in foreign : j <= m) = i
        <3>1. \A m \in foreign : m \in Nat
            BY <2>4
        <3> HIDE DEF foreign
        <3>2. ASSUME NEW m \in foreign, \A j \in foreign : j <= m
              PROVE  m = i
            <4>1. m <= i /\ i <= m /\ m \in Nat /\ i \in Nat
                BY <2>5, <2>6, <3>1, <3>2
            <4> QED  BY <4>1
        <3> QED  BY <2>5, <2>6, <3>2
    <2>8. foreign # {}
        BY <2>5
    <2>9. ClientKey(r) = chain[i]
        BY <1>2, <2>7, <2>8 DEF ClientKey
    <2> QED  BY <2>5, <2>9
<1> QED  BY <1>1, <1>2

\* A client is admitted to a path at most Limit times in any window, and refused only for
\* its own admissions to it or for a table full of other clients and paths, however many
\* requests are checked, at whatever times and through whatever proxies (_check_limit).
THEOREM LimiterCorrect ==
    ASSUME Honest
    PROVE  Spec => []LimiterHolds
<1>1. LInv => LimiterHolds
    <2> SUFFICES ASSUME LInv
                 PROVE  LimiterHolds
        OBVIOUS
    <2>1. \A q \in Requests : BucketKey(q) = <<Origin[q], Path[q]>>
        BY KeyIsOrigin DEF BucketKey
    <2>2. QuotaHolds
        <3>1. ASSUME NEW r \in Requests
              PROVE  {q \in Requests : /\ Admitted(q) /\ Origin[q] = Origin[r] /\ Path[q] = Path[r]
                                       /\ hit[q].at \in hit[r].at .. hit[r].at + Window}
                       = Granted(BucketKey(r), hit[r].at, hit[r].at + Window)
            BY <2>1 DEF Granted
        <3> QED  BY <3>1 DEF QuotaHolds, LInv, KeyQuota
    <2>3. RefusalExplained
        <3> SUFFICES ASSUME NEW r \in Requests
                     PROVE  LET recent == {q \in Requests : Admitted(q) /\ hit[q].at \in hit[r].at - Window .. hit[r].at}
                                own    == {q \in recent : Origin[q] = Origin[r] /\ Path[q] = Path[r]}
                            IN  CASE hit[r].outcome = "exceeded" -> Cardinality(own) >= Limit
                                  [] hit[r].outcome = "capacity" ->
                                       /\ own = {}
                                       /\ Cardinality({<<Origin[q], Path[q]>> : q \in recent}) >= MaxBuckets
                                  [] OTHER -> TRUE
            BY DEF RefusalExplained
        <3> DEFINE recent == {q \in Requests : Admitted(q) /\ hit[q].at \in hit[r].at - Window .. hit[r].at}
                   own    == {q \in recent : Origin[q] = Origin[r] /\ Path[q] = Path[r]}
        <3>1. recent = Around(hit[r].at - Window, hit[r].at)
            BY DEF Around
        <3>2. own = Granted(BucketKey(r), hit[r].at - Window, hit[r].at)
            BY <2>1 DEF Granted
        <3>3. {<<Origin[q], Path[q]>> : q \in recent} = {BucketKey(q) : q \in recent}
            BY <2>1
        <3>4. Explained(r)
            BY DEF LInv, KeyExplained
        <3> HIDE DEF recent, own
        <3>5. /\ hit[r].outcome = "exceeded" => Cardinality(own) >= Limit
              /\ hit[r].outcome = "capacity" => own = {} /\ Cardinality({<<Origin[q], Path[q]>> : q \in recent}) >= MaxBuckets
            BY <3>1, <3>2, <3>3, <3>4 DEF Explained
        <3> QED  BY <3>5 DEF recent, own
    <2> QED  BY <2>2, <2>3 DEF LimiterHolds
<1> QED  BY <1>1, LimiterCounts, PTL
-----------------------------------------------------------------------------
(* Induction, and what a fold is *)

\* What holds of zero, and of every successor up to n, holds up to n.
LEMMA Counting ==
    ASSUME NEW n \in Nat, NEW W, 0 \in W, \A k \in 0 .. n - 1 : k \in W => k + 1 \in W
    PROVE  \A k \in 0 .. n : k \in W
<1> DEFINE bad == {k \in 0 .. n : k \notin W}
<1> SUFFICES ASSUME bad # {}
             PROVE  FALSE
    OBVIOUS
<1>1. bad \in SUBSET Nat
    OBVIOUS
<1>2. PICK m \in bad : \A k \in bad : m <= k
    <2> HIDE DEF bad
    <2> QED  BY <1>1, Least
<1>3. m # 0 /\ m - 1 \in 0 .. n - 1 /\ (m - 1) + 1 = m
    BY <1>2
<1>4. m - 1 \in W
    BY <1>2, <1>3
<1> QED  BY <1>2, <1>3, <1>4

\* A function over the subsets of S that takes the element c from a set and puts it, by g,
\* to the value of the rest.
Folded(f, S, base, c, g) ==
    f = [s \in SUBSET S |-> IF s = {} THEN base ELSE g[c[s]][f[s \ {c[s]}]]]

Into(f, S, V) == f \in [SUBSET S -> V]

\* There is one, if S is finite.
LEMMA FoldExists ==
    ASSUME NEW S, IsFiniteSet(S), NEW V, NEW base \in V,
           NEW c, \A s \in SUBSET S : s # {} => c[s] \in s,
           NEW g, \A x \in S, v \in V : g[x][v] \in V
    PROVE  \E f : Into(f, S, V) /\ Folded(f, S, base, c, g)
<1> DEFINE A(k) == {s \in SUBSET S : Cardinality(s) <= k}
           Val(s, f) == IF s = {} THEN base ELSE g[c[s]][f[s \ {c[s]}]]
           Good(k) == \E f \in [A(k) -> V] : \A s \in A(k) : f[s] = Val(s, f)
           W == {k \in Nat : Good(k)}
           n == Cardinality(S)
<1>1. n \in Nat
    BY FS_CardinalityType
<1>2. \A s \in SUBSET S : IsFiniteSet(s) /\ Cardinality(s) \in Nat /\ Cardinality(s) <= n
    BY FS_Subset, FS_CardinalityType
<1>3. \A s \in SUBSET S : s # {} => /\ s \ {c[s]} \in SUBSET S
                                    /\ Cardinality(s \ {c[s]}) = Cardinality(s) - 1
    BY <1>2, FS_RemoveElement
<1>4. 0 \in W
    <2>1. \A s \in A(0) : s = {}
        BY <1>2, FS_EmptySet
    <2>2. [s \in A(0) |-> base] \in [A(0) -> V] /\ \A s \in A(0) : [t \in A(0) |-> base][s] = Val(s, [t \in A(0) |-> base])
        BY <2>1
    <2> QED  BY <2>2
<1>5. ASSUME NEW k \in Nat, k \in W
      PROVE  k + 1 \in W
    <2>1. PICK f \in [A(k) -> V] : \A s \in A(k) : f[s] = Val(s, f)
        BY <1>5
    <2> DEFINE h == [s \in A(k + 1) |-> Val(s, f)]
    <2>2. \A s \in A(k + 1) : s # {} => s \ {c[s]} \in A(k) /\ c[s] \in S
        BY <1>2, <1>3
    <2>3. \A s \in A(k + 1) : Val(s, f) \in V
        BY <2>1, <2>2
    <2>4. ASSUME NEW s \in A(k)
          PROVE  s \in A(k + 1) /\ h[s] = f[s]
        <3>1. s \in A(k + 1)
            BY <1>2
        <3> HIDE DEF A, Val
        <3> QED  BY <2>1, <3>1
    <2>5. \A s \in A(k + 1) : h[s] = Val(s, h)
        BY <2>2, <2>4
    <2>6. h \in [A(k + 1) -> V]
        BY <2>3
    <2> HIDE DEF h, Val, A
    <2> QED  BY <2>5, <2>6
<1>6. n \in W
    <2> HIDE DEF W
    <2> QED  BY <1>1, <1>4, <1>5, Counting
<1>7. PICK f \in [A(n) -> V] : \A s \in A(n) : f[s] = Val(s, f)
    BY <1>6
<1>8. A(n) = SUBSET S
    BY <1>2
<1>9. f = [s \in SUBSET S |-> Val(s, f)]
    BY <1>7, <1>8
<1>10. Into(f, S, V) /\ Folded(f, S, base, c, g)
    BY <1>7, <1>8, <1>9 DEF Into, Folded
<1> QED  BY <1>10

\* The greatest of a set of numbers up to n is one of them, and n of all of them.
LEMMA Greatest ==
    ASSUME NEW n \in Nat, NEW s \in SUBSET (1 .. n), s # {}
    PROVE  Max(s) \in s
<1> DEFINE up == {n - x : x \in s}
<1>0. \A x \in s : x \in Nat /\ n - x \in Nat
    OBVIOUS
<1>1. up \in SUBSET Nat /\ up # {}
    BY <1>0
<1>2. PICK m \in up : \A k \in up : m <= k
    <2> HIDE DEF up
    <2> QED  BY <1>1, Least
<1>3. PICK x \in s : m = n - x
    BY <1>2
<1>4. ASSUME NEW y \in s
      PROVE  x >= y
    <2>1. m <= n - y
        BY <1>2
    <2> QED  BY <1>0, <1>3, <2>1
<1>5. \E z \in s : \A y \in s : z >= y
    BY <1>3, <1>4
<1> QED  BY <1>5, Zenon DEF Max

\* The greatest up to k is k.
LEMMA GreatestUpTo ==
    ASSUME NEW k \in Nat \ {0}
    PROVE  Max(1 .. k) = k /\ (1 .. k) \ {k} = 1 .. k - 1
<1>1. k \in 1 .. k /\ \A y \in 1 .. k : k >= y
    OBVIOUS
<1>2. Max(1 .. k) \in 1 .. k /\ \A y \in 1 .. k : Max(1 .. k) >= y
    BY <1>1, Zenon DEF Max
<1> QED  BY <1>2

\* A function over the subsets of 1 .. n that takes the greatest of a set.
FoldedUpTo(f, n, base, g) ==
    f = [s \in SUBSET (1 .. n) |-> IF s = {} THEN base ELSE g[Max(s)][f[s \ {Max(s)}]]]

\* There is one.
LEMMA FoldUpTo ==
    ASSUME NEW n \in Nat, NEW V, NEW base \in V, NEW g, \A x \in 1 .. n, v \in V : g[x][v] \in V
    PROVE  \E f : Into(f, 1 .. n, V) /\ FoldedUpTo(f, n, base, g)
<1> DEFINE c == [s \in SUBSET (1 .. n) |-> Max(s)]
<1>1. \A s \in SUBSET (1 .. n) : s # {} => c[s] \in s
    BY Greatest
<1>2. \A s \in SUBSET (1 .. n) : c[s] = Max(s)
    OBVIOUS
<1>3. IsFiniteSet(1 .. n)
    BY FS_Interval
<1> HIDE DEF c
<1>4. PICK S : S = 1 .. n
    OBVIOUS
<1>5. IsFiniteSet(S) /\ (\A s \in SUBSET S : s # {} => c[s] \in s) /\ (\A x \in S, v \in V : g[x][v] \in V)
    BY <1>1, <1>3, <1>4
<1>6. PICK f : Into(f, S, V) /\ Folded(f, S, base, c, g)
    BY <1>5, FoldExists, Zenon
<1>7. f = [s \in SUBSET S |-> IF s = {} THEN base ELSE g[c[s]][f[s \ {c[s]}]]]
    BY <1>6 DEF Folded
<1>8. \A s \in SUBSET S : f[s] = IF s = {} THEN base ELSE g[Max(s)][f[s \ {Max(s)}]]
    BY <1>2, <1>4, <1>7
<1>9. f = [s \in SUBSET S |-> IF s = {} THEN base ELSE g[Max(s)][f[s \ {Max(s)}]]]
    BY <1>7, <1>8, Zenon
<1> QED  BY <1>4, <1>6, <1>9, Zenon DEF FoldedUpTo
-----------------------------------------------------------------------------
(* What the strategies retrieve *)

Chunk == [source : Sources \cup {"lightrag"}, text : Texts \cup Replacement \cup {"answer"}, score : Nat]

\* A merged chunk is one of those there were.
LEMMA MergeOneType ==
    ASSUME NEW kept \in Seq(Chunk), NEW c \in Chunk
    PROVE  MergeOne(kept, c) \in Seq(Chunk)
<1> DEFINE at == {i \in DOMAIN kept : SameChunk(kept[i], c)}
<1>1. CASE at = {}
    <2>1. MergeOne(kept, c) = Append(kept, c)
        BY <1>1, Zenon DEF MergeOne
    <2> QED  BY <2>1
<1>2. CASE at # {}
    <2>1. MergeOne(kept, c) = [i \in DOMAIN kept |-> IF i \in at /\ c.score > kept[i].score THEN c ELSE kept[i]]
        BY <1>2, Zenon DEF MergeOne
    <2> HIDE DEF at
    <2>2. DOMAIN kept = 1 .. Len(kept) /\ Len(kept) \in Nat
        OBVIOUS
    <2>3. \A i \in 1 .. Len(kept) : (IF i \in at /\ c.score > kept[i].score THEN c ELSE kept[i]) \in Chunk
        BY <2>2
    <2> QED  BY <2>1, <2>2, <2>3
<1> QED  BY <1>1, <1>2

\* Merging finds one chunk after the other.
LEMMA MergeSteps ==
    ASSUME NEW kept \in Seq(Chunk), NEW found \in Seq(Chunk)
    PROVE  \E h : /\ h[0] = kept /\ h[Len(found)] = Merge(kept, found)
                  /\ \A k \in 1 .. Len(found) : h[k] = MergeOne(h[k - 1], found[k])
<1> DEFINE Is(f) == f = [s \in SUBSET DOMAIN found |->
                            IF s = {} THEN kept ELSE MergeOne(f[s \ {Max(s)}], found[Max(s)])]
           F == CHOOSE f : Is(f)
<1> PICK n \in Nat : n = Len(found) /\ DOMAIN found = 1 .. n
    OBVIOUS
<1> PICK V : V = Seq(Chunk)
    OBVIOUS
<1>2. Merge(kept, found) = F[DOMAIN found]
    BY DEF Merge, FoldLeft, MapThenFoldSet
<1>3. \E f : Is(f)
    <2> DEFINE g == [x \in 1 .. n |-> [v \in V |-> MergeOne(v, found[x])]]
    <2>1. ASSUME NEW x \in 1 .. n, NEW v \in V
          PROVE  g[x][v] = MergeOne(v, found[x])
        OBVIOUS
    <2>2. \A x \in 1 .. n, v \in V : g[x][v] \in V
        BY <2>1, MergeOneType
    <2> HIDE DEF g
    <2>3. PICK f : Into(f, 1 .. n, V) /\ FoldedUpTo(f, n, kept, g)
        BY <2>2, FoldUpTo, Zenon
    <2>4. \A s \in SUBSET (1 .. n) : s # {} =>
              g[Max(s)][f[s \ {Max(s)}]] = MergeOne(f[s \ {Max(s)}], found[Max(s)])
        BY <2>1, <2>3, Greatest DEF Into
    <2>5. Is(f)
        BY <2>3, <2>4 DEF FoldedUpTo
    <2> QED  BY <2>5
<1>4. Is(F)
    <2> HIDE DEF Is
    <2> QED  BY <1>3, Zenon
<1>5. /\ F[{}] = kept
      /\ \A s \in SUBSET (1 .. n) : s # {} => F[s] = MergeOne(F[s \ {Max(s)}], found[Max(s)])
    <2> HIDE DEF F
    <2> QED  BY <1>4
<1> HIDE DEF F
<1> DEFINE h == [k \in 0 .. n |-> F[1 .. k]]
<1>6. h[0] = kept /\ h[n] = Merge(kept, found)
    BY <1>2, <1>5
<1>7. ASSUME NEW k \in 1 .. n
      PROVE  h[k] = MergeOne(h[k - 1], found[k])
    <2>1. (1 .. k) \in SUBSET (1 .. n) /\ 1 .. k # {}
        OBVIOUS
    <2>2. Max(1 .. k) = k /\ (1 .. k) \ {k} = 1 .. k - 1
        BY GreatestUpTo
    <2>3. F[1 .. k] = MergeOne(F[1 .. k - 1], found[k])
        BY <1>5, <2>1, <2>2
    <2>4. h[k] = F[1 .. k] /\ h[k - 1] = F[1 .. k - 1]
        OBVIOUS
    <2> QED  BY <2>3, <2>4
<1> QED  BY <1>6, <1>7

\* No chunk is in a list twice; each chunk that was seen has its place in it, with the best
\* score; or each chunk in it has the best score it was seen with.
Distinct(s)     == \A i, j \in DOMAIN s : SameChunk(s[i], s[j]) => i = j
Covers(s, seen) == \A c \in seen : \E i \in DOMAIN s : SameChunk(s[i], c) /\ c.score <= s[i].score
Best(s, seen)   == \A i \in DOMAIN s, c \in seen : SameChunk(s[i], c) => c.score <= s[i].score
Descending(s)   == \A i, j \in DOMAIN s : i <= j => s[j].score <= s[i].score

\* A list that covers what was seen and has no chunk twice has the best scores.
LEMMA CoversBest ==
    ASSUME NEW s \in Seq(Chunk), Distinct(s), NEW seen, Covers(s, seen)
    PROVE  Best(s, seen)
BY DEF Distinct, Covers, Best, SameChunk

\* Merging one chunk keeps the list without doubles, and it covers that chunk too.
LEMMA MergeOneCovers ==
    ASSUME NEW kept \in Seq(Chunk), NEW c \in Chunk, Distinct(kept), NEW seen \in SUBSET Chunk, Covers(kept, seen)
    PROVE  Distinct(MergeOne(kept, c)) /\ Covers(MergeOne(kept, c), seen \cup {c})
<1> DEFINE at == {i \in DOMAIN kept : SameChunk(kept[i], c)}
           m == MergeOne(kept, c)
           n == Len(kept)
<1>0. DOMAIN kept = 1 .. n /\ n \in Nat /\ (\A i \in 1 .. n : kept[i] \in Chunk /\ kept[i].score \in Nat) /\ c.score \in Nat
    <2>1. DOMAIN kept = 1 .. n /\ n \in Nat /\ \A i \in 1 .. n : kept[i] \in Chunk
        OBVIOUS
    <2>2. \A d \in Chunk : d.score \in Nat
        BY DEF Chunk
    <2> QED  BY <2>1, <2>2
<1>1. CASE at = {}
    <2>1. m = Append(kept, c)
        BY <1>1, Zenon DEF MergeOne
    <2> HIDE DEF m
    <2>2. /\ DOMAIN m = 1 .. n + 1 /\ m[n + 1] = c
          /\ \A i \in 1 .. n : m[i] = kept[i] /\ ~SameChunk(kept[i], c)
        BY <1>0, <1>1, <2>1
    <2>3. Distinct(m)
        BY <1>0, <2>2 DEF Distinct, SameChunk
    <2>4. Covers(m, seen \cup {c})
        <3> SUFFICES ASSUME NEW d \in seen \cup {c}
                     PROVE  \E i \in DOMAIN m : SameChunk(m[i], d) /\ d.score <= m[i].score
            BY DEF Covers
        <3>1. CASE d = c
            BY <1>0, <2>2, <3>1 DEF SameChunk
        <3>2. CASE d # c
            <4>1. PICK i \in 1 .. n : SameChunk(kept[i], d) /\ d.score <= kept[i].score
                BY <1>0, <3>2 DEF Covers
            <4> QED  BY <2>2, <4>1, <1>0
        <3> QED  BY <3>1, <3>2
    <2> QED  BY <2>3, <2>4 DEF m
<1>2. CASE at # {}
    <2>1. m = [i \in DOMAIN kept |-> IF i \in at /\ c.score > kept[i].score THEN c ELSE kept[i]]
        BY <1>2, Zenon DEF MergeOne
    <2> HIDE DEF m
    <2>2. DOMAIN m = 1 .. n /\ \A i \in 1 .. n : m[i] = IF SameChunk(kept[i], c) /\ c.score > kept[i].score THEN c ELSE kept[i]
        BY <1>0, <2>1
    <2>3. \A d : \A i \in 1 .. n : /\ SameChunk(m[i], d) <=> SameChunk(kept[i], d)
                                   /\ kept[i].score <= m[i].score
        BY <1>0, <2>2 DEF SameChunk
    <2>4. Distinct(m)
        BY <1>0, <2>2, <2>3 DEF Distinct, SameChunk
    <2>5. PICK k \in 1 .. n : SameChunk(kept[k], c)
        BY <1>0, <1>2
    <2>6. SameChunk(m[k], c) /\ c.score <= m[k].score
        BY <1>0, <2>2, <2>3, <2>5
    <2>7. \A i \in 1 .. n : m[i].score \in Nat
        BY <1>0, <2>2
    <2>8. Covers(m, seen \cup {c})
        <3> SUFFICES ASSUME NEW d \in seen \cup {c}
                     PROVE  \E i \in DOMAIN m : SameChunk(m[i], d) /\ d.score <= m[i].score
            BY DEF Covers
        <3>1. CASE d = c
            BY <2>2, <2>6, <3>1
        <3>2. CASE d # c
            <4>1. PICK i \in 1 .. n : SameChunk(kept[i], d) /\ d.score <= kept[i].score
                BY <1>0, <3>2 DEF Covers
            <4>2. d.score \in Nat
                BY <3>2 DEF Chunk
            <4> QED  BY <1>0, <2>2, <2>3, <2>7, <4>1, <4>2
        <3> QED  BY <3>1, <3>2
    <2> QED  BY <2>4, <2>8 DEF m
<1> QED  BY <1>1, <1>2

\* Merging a search into what was kept gives each chunk that was ever seen one place and
\* its best score.
LEMMA MergeCovers ==
    ASSUME NEW kept \in Seq(Chunk), NEW found \in Seq(Chunk), Distinct(kept),
           NEW seen \in SUBSET Chunk, Covers(kept, seen)
    PROVE  /\ Merge(kept, found) \in Seq(Chunk) /\ Distinct(Merge(kept, found))
           /\ Covers(Merge(kept, found), seen \cup ToSet(found))
<1> DEFINE n == Len(found)
           Saw(k) == seen \cup {found[i] : i \in 1 .. k}
           Good(s, k) == s \in Seq(Chunk) /\ Distinct(s) /\ Covers(s, Saw(k))
<1>1. PICK h : /\ h[0] = kept /\ h[n] = Merge(kept, found)
               /\ \A k \in 1 .. n : h[k] = MergeOne(h[k - 1], found[k])
    BY MergeSteps
<1> DEFINE W == {k \in 0 .. n : Good(h[k], k)}
<1>2. n \in Nat /\ DOMAIN found = 1 .. n /\ \A k \in 1 .. n : found[k] \in Chunk
    OBVIOUS
<1>3. 0 \in W
    <2>1. Saw(0) = seen
        OBVIOUS
    <2> HIDE DEF Saw
    <2>2. Good(h[0], 0)
        BY <1>1, <2>1
    <2> QED  BY <1>2, <2>2
<1>4. ASSUME NEW k \in 0 .. n - 1, k \in W
      PROVE  k + 1 \in W
    <2>1. k + 1 \in 1 .. n /\ (k + 1) - 1 = k
        BY <1>2
    <2>2. h[k + 1] = MergeOne(h[k], found[k + 1]) /\ found[k + 1] \in Chunk
        BY <1>1, <1>2, <2>1
    <2>3. Saw(k + 1) = Saw(k) \cup {found[k + 1]} /\ Saw(k) \in SUBSET Chunk
        BY <1>2, <2>1
    <2> HIDE DEF Saw
    <2>4. Good(h[k + 1], k + 1)
        BY <1>4, <2>2, <2>3, MergeOneType, MergeOneCovers
    <2> QED  BY <2>1, <2>4
<1>5. n \in W
    <2> HIDE DEF W, n
    <2>1. \A k \in 0 .. n : k \in W
        BY <1>2, <1>3, <1>4, Counting
    <2> QED  BY <1>2, <2>1
<1>6. Saw(n) = seen \cup ToSet(found)
    BY <1>2 DEF ToSet
<1> QED  BY <1>1, <1>5, <1>6

\* The n-th of a ranking is a chunk with n - 1 above it: each chunk has its place, and the
\* scores fall.
LEMMA RankedPlaces ==
    ASSUME NEW s \in Seq(Chunk)
    PROVE  \E p \in [1 .. Len(s) -> 1 .. Len(s)] :
               /\ Ranked(s) = [k \in 1 .. Len(s) |-> s[p[k]]]
               /\ \A i \in 1 .. Len(s) : \E k \in 1 .. Len(s) : p[k] = i
               /\ \A k, m \in 1 .. Len(s) : p[k] = p[m] => k = m
               /\ \A k, m \in 1 .. Len(s) : k < m => s[p[m]].score <= s[p[k]].score
<1> PICK n \in Nat : n = Len(s) /\ DOMAIN s = 1 .. n
    OBVIOUS
<1>1. \A i \in 1 .. n : s[i].score \in Nat
    <2>1. \A i \in 1 .. n : s[i] \in Chunk
        OBVIOUS
    <2> QED  BY <2>1 DEF Chunk
<1>2. \A i, j \in 1 .. n : j \in Above(s, i) <=> s[j].score > s[i].score \/ (s[j].score = s[i].score /\ j < i)
    BY DEF Above
<1>3. \A i \in 1 .. n : Above(s, i) \in SUBSET ((1 .. n) \ {i})
    BY <1>1 DEF Above
<1>4. \A i \in 1 .. n : IsFiniteSet(Above(s, i)) /\ Cardinality(Above(s, i)) \in 0 .. n - 1
    <2> TAKE i \in 1 .. n
    <2>0. IsFiniteSet(1 .. n) /\ Cardinality(1 .. n) = IF 1 > n THEN 0 ELSE n - 1 + 1
        BY FS_Interval
    <2>1. IsFiniteSet(1 .. n) /\ Cardinality(1 .. n) = n
        BY <2>0
    <2>2. IsFiniteSet((1 .. n) \ {i}) /\ Cardinality((1 .. n) \ {i}) = n - 1
        BY <2>1, FS_RemoveElement
    <2>3. IsFiniteSet(Above(s, i)) /\ Cardinality(Above(s, i)) <= n - 1
        BY <1>3, <2>2, FS_Subset
    <2> QED  BY <2>3, FS_CardinalityType
<1> DEFINE rank == [i \in 1 .. n |-> Cardinality(Above(s, i)) + 1]
<1>5. rank \in [1 .. n -> 1 .. n]
    BY <1>4
<1>6. ASSUME NEW i \in 1 .. n, NEW j \in 1 .. n, i \in Above(s, j)
      PROVE  rank[i] < rank[j]
    <2>1. Above(s, i) \in SUBSET Above(s, j) /\ i \notin Above(s, i)
        <3>1. \A k \in Above(s, i) : k \in 1 .. n
            BY <1>3
        <3> QED  BY <1>1, <1>2, <1>6, <3>1
    <2>2. /\ Cardinality(Above(s, i)) <= Cardinality(Above(s, j))
          /\ Cardinality(Above(s, i)) # Cardinality(Above(s, j))
        BY <1>4, <1>6, <2>1, FS_Subset
    <2> QED  BY <1>4, <2>2
<1>7. \A i, j \in 1 .. n : i # j => i \in Above(s, j) \/ j \in Above(s, i)
    BY <1>1, <1>2
<1> HIDE DEF rank
<1>8. \A i, j \in 1 .. n : rank[i] = rank[j] => i = j
    BY <1>5, <1>6, <1>7
<1>9. \A k \in 1 .. n : \E i \in 1 .. n : rank[i] = k
    <2>1. rank \in Injection(1 .. n, 1 .. n)
        BY <1>5, <1>8 DEF Injection, IsInjective
    <2>2. IsFiniteSet(1 .. n)
        BY FS_Interval
    <2>3. rank \in Surjection(1 .. n, 1 .. n)
        BY <2>1, <2>2, FS_Injection
    <2> QED  BY <2>3 DEF Surjection
<1> DEFINE p == [k \in 1 .. n |-> CHOOSE i \in DOMAIN s : Cardinality(Above(s, i)) = k - 1]
<1>10. \A k \in 1 .. n : p[k] \in 1 .. n /\ rank[p[k]] = k
    <2> TAKE k \in 1 .. n
    <2>1. PICK i \in 1 .. n : rank[i] = k
        BY <1>9
    <2>2. i \in DOMAIN s /\ Cardinality(Above(s, i)) = k - 1
        BY <1>4, <2>1 DEF rank
    <2>3. p[k] = CHOOSE j \in DOMAIN s : Cardinality(Above(s, j)) = k - 1
        OBVIOUS
    <2> HIDE DEF p
    <2>4. p[k] \in DOMAIN s /\ Cardinality(Above(s, p[k])) = k - 1
        BY <2>2, <2>3, Zenon
    <2> QED  BY <1>4, <2>4 DEF rank
<1>11. Ranked(s) = [k \in 1 .. n |-> s[p[k]]]
    BY DEF Ranked
<1> HIDE DEF p
<1>12. \A i \in 1 .. n : p[rank[i]] = i /\ rank[i] \in 1 .. n
    BY <1>5, <1>8, <1>10
<1>13. ASSUME NEW k \in 1 .. n, NEW m \in 1 .. n, k < m
       PROVE  s[p[m]].score <= s[p[k]].score
    <2>1. p[k] # p[m] /\ ~(p[m] \in Above(s, p[k]))
        BY <1>6, <1>10, <1>13
    <2>2. p[k] \in 1 .. n /\ p[m] \in 1 .. n
        BY <1>10
    <2>3. p[k] \in Above(s, p[m])
        BY <1>7, <2>1, <2>2
    <2>4. s[p[k]].score > s[p[m]].score \/ s[p[k]].score = s[p[m]].score
        BY <1>2, <2>2, <2>3
    <2> QED  BY <1>1, <2>2, <2>4
<1>14. p \in [1 .. n -> 1 .. n]
    BY <1>10 DEF p
<1>15. /\ \A i \in 1 .. n : \E k \in 1 .. n : p[k] = i
       /\ \A k, m \in 1 .. n : p[k] = p[m] => k = m
    BY <1>10, <1>12
<1>16. \A k, m \in 1 .. n : k < m => s[p[m]].score <= s[p[k]].score
    BY <1>13
<1> QED  BY <1>11, <1>14, <1>15, <1>16, Zenon

\* A ranking has the chunks of the list, the best first.
LEMMA RankedKeeps ==
    ASSUME NEW s \in Seq(Chunk)
    PROVE  /\ Ranked(s) \in Seq(Chunk) /\ Len(Ranked(s)) = Len(s) /\ Descending(Ranked(s))
           /\ Distinct(s) => Distinct(Ranked(s))
           /\ \A seen : Best(s, seen) => Best(Ranked(s), seen)
<1> DEFINE n == Len(s)
<1>0. n \in Nat /\ DOMAIN s = 1 .. n
    OBVIOUS
<1>1. PICK p \in [1 .. n -> 1 .. n] :
          /\ Ranked(s) = [k \in 1 .. n |-> s[p[k]]]
          /\ \A k, m \in 1 .. n : p[k] = p[m] => k = m
          /\ \A k, m \in 1 .. n : k < m => s[p[m]].score <= s[p[k]].score
    BY RankedPlaces, Zenon
<1> HIDE DEF n
<1>2. \A i \in 1 .. n : s[i] \in Chunk /\ s[i].score \in Nat
    <2>1. \A i \in 1 .. n : s[i] \in Chunk
        BY <1>0
    <2> QED  BY <2>1 DEF Chunk
<1>3. /\ Ranked(s) \in Seq(Chunk) /\ Len(Ranked(s)) = n /\ DOMAIN Ranked(s) = 1 .. n
      /\ \A k \in 1 .. n : Ranked(s)[k] = s[p[k]]
    <2>1. \A k \in 1 .. n : s[p[k]] \in Chunk
        BY <1>1, <1>2
    <2>2. DOMAIN Ranked(s) = 1 .. n /\ \A k \in 1 .. n : Ranked(s)[k] = s[p[k]]
        BY <1>1
    <2>3. Ranked(s) \in [1 .. n -> Chunk]
        <3>1. Ranked(s) = [k \in 1 .. n |-> s[p[k]]]
            BY <1>1
        <3> QED  BY <2>1, <3>1
    <2> QED  BY <1>0, <2>2, <2>3
<1>4. Descending(Ranked(s))
    BY <1>1, <1>2, <1>3 DEF Descending
<1>5. Distinct(s) => Distinct(Ranked(s))
    BY <1>0, <1>1, <1>3 DEF Distinct
<1>6. \A seen : Best(s, seen) => Best(Ranked(s), seen)
    BY <1>0, <1>1, <1>3 DEF Best
<1> QED  BY <1>0, <1>3, <1>4, <1>5, <1>6

\* The first chunks of a list are chunks of it in their order, and so they keep what it has.
LEMMA FirstKeeps ==
    ASSUME NEW s \in Seq(Chunk), NEW n \in Nat
    PROVE  /\ FirstOf(s, n) \in Seq(Chunk)
           /\ Len(FirstOf(s, n)) = IF Len(s) <= n THEN Len(s) ELSE n
           /\ \A i \in 1 .. Len(FirstOf(s, n)) : FirstOf(s, n)[i] = s[i] /\ i \in DOMAIN s
           /\ Distinct(s) => Distinct(FirstOf(s, n))
           /\ Descending(s) => Descending(FirstOf(s, n))
           /\ \A seen : Best(s, seen) => Best(FirstOf(s, n), seen)
<1> DEFINE m == IF Len(s) <= n THEN Len(s) ELSE n
           t == FirstOf(s, n)
<1>1. m \in Nat /\ m <= Len(s) /\ Len(s) \in Nat /\ DOMAIN s = 1 .. Len(s)
    OBVIOUS
<1>2. t = SubSeq(s, 1, m)
    BY DEF FirstOf
<1> HIDE DEF m, t
<1>3. t \in Seq(Chunk) /\ Len(t) = m /\ DOMAIN t = 1 .. m /\ \A i \in 1 .. m : t[i] = s[i] /\ i \in DOMAIN s
    BY <1>1, <1>2
<1>4. Distinct(s) => Distinct(t)
    BY <1>3 DEF Distinct
<1>5. Descending(s) => Descending(t)
    BY <1>3 DEF Descending
<1>6. \A seen : Best(s, seen) => Best(t, seen)
    BY <1>3 DEF Best
<1> QED  BY <1>3, <1>4, <1>5, <1>6 DEF m, t

\* So do they in the other direction.
LEMMA ReverseKeeps ==
    ASSUME NEW s \in Seq(Chunk)
    PROVE  /\ Reverse(s) \in Seq(Chunk)
           /\ Distinct(s) => Distinct(Reverse(s))
           /\ \A seen : Best(s, seen) => Best(Reverse(s), seen)
<1> DEFINE n == Len(s)
           t == Reverse(s)
<1>1. n \in Nat /\ DOMAIN s = 1 .. n /\ \A i \in 1 .. n : s[i] \in Chunk
    OBVIOUS
<1>2. t = [i \in 1 .. n |-> s[(n - i) + 1]]
    BY DEF Reverse
<1> HIDE DEF n, t
<1>3. \A i \in 1 .. n : (n - i) + 1 \in 1 .. n
    BY <1>1
<1>4. t \in [1 .. n -> Chunk]
    BY <1>1, <1>2, <1>3
<1>5. t \in Seq(Chunk) /\ DOMAIN t = 1 .. n /\ \A i \in 1 .. n : t[i] = s[(n - i) + 1]
    BY <1>1, <1>2, <1>4
<1>6. Distinct(s) => Distinct(t)
    <2> SUFFICES ASSUME Distinct(s), NEW i \in 1 .. n, NEW j \in 1 .. n, SameChunk(t[i], t[j])
                 PROVE  i = j
        BY <1>5 DEF Distinct
    <2>1. (n - i) + 1 = (n - j) + 1
        BY <1>1, <1>3, <1>5 DEF Distinct
    <2> QED  BY <1>1, <2>1
<1>7. \A seen : Best(s, seen) => Best(t, seen)
    BY <1>1, <1>3, <1>5 DEF Best
<1> QED  BY <1>5, <1>6, <1>7 DEF t

\* A finite set can be listed.
LEMMA Listed ==
    ASSUME NEW S, IsFiniteSet(S)
    PROVE  SetToSeq(S) \in Seq(S)
<1>1. Cardinality(S) \in Nat /\ ExistsBijection(1 .. Cardinality(S), S)
    BY FS_CardinalityType
<1>2. \E f \in [1 .. Cardinality(S) -> S] : IsInjective(f)
    BY <1>1 DEF ExistsBijection, Bijection, Injection, IsInjective
<1>3. SetToSeq(S) \in [1 .. Cardinality(S) -> S]
    BY <1>2 DEF SetToSeq
<1> QED  BY <1>1, <1>3

\* What the collection holds.
RowsInv == rows \in [Sources -> {Texts, Replacement}]

\* A search finds chunks.
LEMMA FoundChunks ==
    ASSUME RowsInv, NEW search, search.text \in DOMAIN Score
    PROVE  Found(rows, search) \in Seq(Chunk)
<1> DEFINE P == {p \in UNION {{s} \X rows[s] : s \in DOMAIN rows} : search.source \in {Anywhere, p[1]}}
           of == [p \in P |-> [source |-> p[1], text |-> p[2], score |-> Score[search.text][p[2]]]]
           M == Matches(rows, search)
           Stock == Texts \cup Replacement
<1>1. P \in SUBSET (Sources \X Stock)
    BY DEF RowsInv
<1>2. IsFiniteSet(P)
    <2>1. IsFiniteSet(Stock)
        BY PipelineAssumption, FS_Union
    <2>2. IsFiniteSet(Sources \X Stock)
        BY <2>1, PipelineAssumption, FS_Product
    <2> HIDE DEF P, Stock
    <2> QED  BY <1>1, <2>2, FS_Subset
<1>3. M = {of[p] : p \in P}
    BY DEF Matches
<1>4. \A p \in P : of[p] \in Chunk
    <2> TAKE p \in P
    <2>1. p[1] \in Sources /\ p[2] \in Stock
        BY <1>1
    <2>2. Score[search.text] \in [Stock -> Nat]
        BY PipelineAssumption
    <2>3. of[p] = [source |-> p[1], text |-> p[2], score |-> Score[search.text][p[2]]]
        OBVIOUS
    <2> HIDE DEF of, P
    <2> QED  BY <2>1, <2>2, <2>3 DEF Chunk
<1>5. of \in Surjection(P, M)
    <2>1. DOMAIN of = P /\ of = [p \in P |-> of[p]]
        OBVIOUS
    <2> HIDE DEF of, P
    <2> QED  BY <1>3, <2>1 DEF Surjection
<1>6. IsFiniteSet(M) /\ M \in SUBSET Chunk
    <2> HIDE DEF of, P
    <2> QED  BY <1>2, <1>3, <1>4, <1>5, FS_Surjection
<1> HIDE DEF M, P, of
<1>7. SetToSeq(M) \in Seq(Chunk)
    <2>1. SetToSeq(M) \in Seq(M)
        BY <1>6, Listed
    <2> QED  BY <1>6, <2>1
<1>8. Breadth(search) \in Nat
    BY RetrievalAssumption DEF Breadth
<1> QED  BY <1>7, <1>8, RankedKeeps, FirstKeeps DEF Found, M

\* The values of a fold along the sequence: the first is base, the last is end.
Run(h, n, V, base, g, end) ==
    /\ h[0] = base /\ h[n] = end /\ \A k \in 0 .. n : h[k] \in V
    /\ \A k \in 1 .. n : h[k] = g[k][h[k - 1]]

\* What such a function comes to along the sequence.
LEMMA FoldRuns ==
    ASSUME NEW n \in Nat, NEW V, NEW base \in V, NEW g, \A x \in 1 .. n, v \in V : g[x][v] \in V,
           NEW F, F[{}] = base,
           \A s \in SUBSET (1 .. n) : s # {} /\ F[s \ {Max(s)}] \in V => F[s] = g[Max(s)][F[s \ {Max(s)}]]
    PROVE  \E h : Run(h, n, V, base, g, F[1 .. n])
<1> DEFINE h == [k \in 0 .. n |-> F[1 .. k]]
           W == {k \in 0 .. n : h[k] \in V}
<1>1. h[0] = base /\ h[n] = F[1 .. n]
    OBVIOUS
<1>2. ASSUME NEW k \in 1 .. n, h[k - 1] \in V
      PROVE  h[k] = g[k][h[k - 1]]
    <2>1. (1 .. k) \in SUBSET (1 .. n) /\ 1 .. k # {}
        OBVIOUS
    <2>2. Max(1 .. k) = k /\ (1 .. k) \ {k} = 1 .. k - 1
        BY GreatestUpTo
    <2>3. h[k] = F[1 .. k] /\ h[k - 1] = F[1 .. k - 1]
        OBVIOUS
    <2>4. F[1 .. k - 1] \in V
        BY <1>2, <2>3
    <2>5. F[1 .. k] = g[k][F[1 .. k - 1]]
        BY <2>1, <2>2, <2>4
    <2> QED  BY <2>3, <2>5
<1>3. 0 \in W
    BY <1>1
<1>4. ASSUME NEW k \in 0 .. n - 1, k \in W
      PROVE  k + 1 \in W
    <2>1. k + 1 \in 1 .. n /\ (k + 1) - 1 = k /\ h[k] \in V
        BY <1>4
    <2> HIDE DEF h
    <2>2. h[k + 1] = g[k + 1][h[k]]
        BY <1>2, <2>1
    <2> QED  BY <2>1, <2>2
<1>5. \A k \in 0 .. n : k \in W
    <2> HIDE DEF W
    <2> QED  BY <1>3, <1>4, Counting
<1>6. \A k \in 0 .. n : h[k] \in V
    BY <1>5
<1>7. \A k \in 1 .. n : h[k] = g[k][h[k - 1]]
    <2> TAKE k \in 1 .. n
    <2>1. k - 1 \in 0 .. n
        OBVIOUS
    <2> HIDE DEF h
    <2> QED  BY <1>2, <1>6, <2>1
<1>8. Run(h, n, V, base, g, F[1 .. n])
    <2> HIDE DEF h
    <2> QED  BY <1>1, <1>6, <1>7 DEF Run
<1> QED  BY <1>8

\* The sources of chunks are a sequence.
LEMMA SourcesListed ==
    ASSUME NEW found \in Seq(Chunk)
    PROVE  \E S : SourcesOf(found) \in Seq(S)
<1> DEFINE op(seen, c) == IF Contains(seen, c.source) THEN seen ELSE Append(seen, c.source)
           Is(f) == f = [s \in SUBSET DOMAIN found |-> IF s = {} THEN <<>> ELSE op(f[s \ {Max(s)}], found[Max(s)])]
           F == CHOOSE f : Is(f)
<1> PICK n \in Nat : n = Len(found) /\ DOMAIN found = 1 .. n
    OBVIOUS
<1> PICK D : D = {found[i].source : i \in 1 .. n}
    OBVIOUS
<1> DEFINE V == Seq(D)
           g == [x \in 1 .. n |-> [v \in V |-> op(v, found[x])]]
<1>1. SourcesOf(found) = F[DOMAIN found]
    BY DEF SourcesOf, FoldLeft, MapThenFoldSet
<1>2. \A x \in 1 .. n, v \in V : g[x][v] = op(v, found[x]) /\ g[x][v] \in V
    OBVIOUS
<1>3. <<>> \in V
    OBVIOUS
<1> HIDE DEF g, V
<1>4. PICK e : Into(e, 1 .. n, V) /\ FoldedUpTo(e, n, <<>>, g)
    BY <1>2, <1>3, FoldUpTo, Zenon
<1>5. Is(e)
    <2>1. \A s \in SUBSET (1 .. n) : s # {} => g[Max(s)][e[s \ {Max(s)}]] = op(e[s \ {Max(s)}], found[Max(s)])
        BY <1>2, <1>4, Greatest DEF Into
    <2> HIDE DEF op
    <2> QED  BY <1>4, <2>1 DEF FoldedUpTo
<1>6. Is(F)
    <2> HIDE DEF Is
    <2> QED  BY <1>5, Zenon
<1> HIDE DEF F
<1>7. F[{}] = <<>> /\ \A s \in SUBSET (1 .. n) : s # {} => F[s] = op(F[s \ {Max(s)}], found[Max(s)])
    <2> HIDE DEF op
    <2> QED  BY <1>6
<1>8. ASSUME NEW s \in SUBSET (1 .. n), s # {} /\ F[s \ {Max(s)}] \in V
      PROVE  F[s] = g[Max(s)][F[s \ {Max(s)}]]
    <2>1. Max(s) \in 1 .. n
        BY <1>8, Greatest
    <2> HIDE DEF op
    <2> QED  BY <1>2, <1>7, <1>8, <2>1
<1>9. PICK h : Run(h, n, V, <<>>, g, F[1 .. n])
    <2>1. \A x \in 1 .. n, v \in V : g[x][v] \in V
        BY <1>2
    <2>2. F[{}] = <<>>
        BY <1>7
    <2> QED  BY <1>3, <1>8, <2>1, <2>2, FoldRuns, Zenon
<1>10. SourcesOf(found) \in V
    BY <1>1, <1>9 DEF Run
<1> QED  BY <1>10 DEF V

\* The lines that differ from a question are lines.
LEMMA VariantsListed ==
    ASSUME NEW question, NEW D, NEW lines \in Seq(D)
    PROVE  Variants(question, lines) \in Seq(D)
<1> DEFINE op(out, l) == IF l = question THEN out ELSE Append(out, l)
           Is(f) == f = [s \in SUBSET DOMAIN lines |-> IF s = {} THEN <<>> ELSE op(f[s \ {Max(s)}], lines[Max(s)])]
           F == CHOOSE f : Is(f)
<1> PICK n \in Nat : n = Len(lines) /\ DOMAIN lines = 1 .. n
    OBVIOUS
<1> DEFINE V == Seq(D)
           g == [x \in 1 .. n |-> [v \in V |-> op(v, lines[x])]]
<1>1. Variants(question, lines) = F[DOMAIN lines]
    BY DEF Variants, FoldLeft, MapThenFoldSet
<1>2. \A x \in 1 .. n, v \in V : g[x][v] = op(v, lines[x]) /\ g[x][v] \in V
    OBVIOUS
<1>3. <<>> \in V
    OBVIOUS
<1> HIDE DEF g, V
<1>4. PICK e : Into(e, 1 .. n, V) /\ FoldedUpTo(e, n, <<>>, g)
    BY <1>2, <1>3, FoldUpTo, Zenon
<1>5. Is(e)
    <2>1. \A s \in SUBSET (1 .. n) : s # {} => g[Max(s)][e[s \ {Max(s)}]] = op(e[s \ {Max(s)}], lines[Max(s)])
        BY <1>2, <1>4, Greatest DEF Into
    <2> HIDE DEF op
    <2> QED  BY <1>4, <2>1 DEF FoldedUpTo
<1>6. Is(F)
    <2> HIDE DEF Is
    <2> QED  BY <1>5, Zenon
<1> HIDE DEF F
<1>7. F[{}] = <<>> /\ \A s \in SUBSET (1 .. n) : s # {} => F[s] = op(F[s \ {Max(s)}], lines[Max(s)])
    <2> HIDE DEF op
    <2> QED  BY <1>6
<1>8. ASSUME NEW s \in SUBSET (1 .. n), s # {} /\ F[s \ {Max(s)}] \in V
      PROVE  F[s] = g[Max(s)][F[s \ {Max(s)}]]
    <2>1. Max(s) \in 1 .. n
        BY <1>8, Greatest
    <2> HIDE DEF op
    <2> QED  BY <1>2, <1>7, <1>8, <2>1
<1>9. PICK h : Run(h, n, V, <<>>, g, F[1 .. n])
    <2>1. \A x \in 1 .. n, v \in V : g[x][v] \in V
        BY <1>2
    <2>2. F[{}] = <<>>
        BY <1>7
    <2> QED  BY <1>3, <1>8, <2>1, <2>2, FoldRuns, Zenon
<1>10. Variants(question, lines) \in V
    BY <1>1, <1>9 DEF Run
<1> QED  BY <1>10 DEF V

\* The queries of a question can be searched for.
LEMMA QueriesListed ==
    ASSUME NEW question \in DOMAIN Score
    PROVE  Queries(question, Lines) \in Seq(DOMAIN Score)
<1> PICK D : D = DOMAIN Score
    OBVIOUS
<1> DEFINE v == Variants(question, Lines)
           m == IF Len(v) <= VariantCount THEN Len(v) ELSE VariantCount
<1>1. v \in Seq(D)
    BY PipelineAssumption, VariantsListed
<1> HIDE DEF v
<1>2. m \in Nat /\ m <= Len(v)
    BY <1>1, RetrievalAssumption
<1>3. FirstOf(v, VariantCount) = SubSeq(v, 1, m)
    BY DEF FirstOf
<1> HIDE DEF m
<1>4. FirstOf(v, VariantCount) \in Seq(D)
    BY <1>1, <1>2, <1>3
<1>5. <<question>> \in Seq(D)
    OBVIOUS
<1>6. <<question>> \o FirstOf(v, VariantCount) \in Seq(D)
    BY <1>4, <1>5, ConcatProperties
<1> QED  BY <1>6 DEF Queries, v

\* Capping goes through the chunks and leaves those out whose source has its share.
LEMMA CapSteps ==
    ASSUME NEW s \in Seq(Chunk), MaxPerSource # 0
    PROVE  \E h : /\ h[0] = <<>> /\ h[Len(s)] = CapBySource(s)
                  /\ \A k \in 0 .. Len(s) : h[k] \in Seq(Chunk)
                  /\ \A k \in 1 .. Len(s) :
                       h[k] = IF Cardinality({i \in DOMAIN h[k - 1] : h[k - 1][i].source = s[k].source}) >= MaxPerSource
                              THEN h[k - 1] ELSE Append(h[k - 1], s[k])
<1> DEFINE op(chosen, c) == IF Cardinality({i \in DOMAIN chosen : chosen[i].source = c.source}) >= MaxPerSource
                            THEN chosen ELSE Append(chosen, c)
           Is(f) == f = [u \in SUBSET DOMAIN s |-> IF u = {} THEN <<>> ELSE op(f[u \ {Max(u)}], s[Max(u)])]
           F == CHOOSE f : Is(f)
<1> PICK n \in Nat : n = Len(s) /\ DOMAIN s = 1 .. n
    OBVIOUS
<1> DEFINE V == Seq(Chunk)
           g == [x \in 1 .. n |-> [v \in V |-> op(v, s[x])]]
<1>1. CapBySource(s) = F[DOMAIN s]
    BY DEF CapBySource, FoldLeft, MapThenFoldSet
<1>2. \A x \in 1 .. n, v \in V : g[x][v] = op(v, s[x]) /\ g[x][v] \in V
    OBVIOUS
<1>3. <<>> \in V
    OBVIOUS
<1> HIDE DEF g, V
<1>4. PICK e : Into(e, 1 .. n, V) /\ FoldedUpTo(e, n, <<>>, g)
    BY <1>2, <1>3, FoldUpTo, Zenon
<1>5. Is(e)
    <2>1. \A u \in SUBSET (1 .. n) : u # {} => g[Max(u)][e[u \ {Max(u)}]] = op(e[u \ {Max(u)}], s[Max(u)])
        BY <1>2, <1>4, Greatest DEF Into
    <2> HIDE DEF op
    <2> QED  BY <1>4, <2>1 DEF FoldedUpTo
<1>6. Is(F)
    <2> HIDE DEF Is
    <2> QED  BY <1>5, Zenon
<1> HIDE DEF F
<1>7. F[{}] = <<>> /\ \A u \in SUBSET (1 .. n) : u # {} => F[u] = op(F[u \ {Max(u)}], s[Max(u)])
    <2> HIDE DEF op
    <2> QED  BY <1>6
<1>8. ASSUME NEW u \in SUBSET (1 .. n), u # {} /\ F[u \ {Max(u)}] \in V
      PROVE  F[u] = g[Max(u)][F[u \ {Max(u)}]]
    <2>1. Max(u) \in 1 .. n
        BY <1>8, Greatest
    <2> HIDE DEF op
    <2> QED  BY <1>2, <1>7, <1>8, <2>1
<1>9. PICK h : Run(h, n, V, <<>>, g, F[1 .. n])
    <2>1. \A x \in 1 .. n, v \in V : g[x][v] \in V
        BY <1>2
    <2>2. F[{}] = <<>>
        BY <1>7
    <2> QED  BY <1>3, <1>8, <2>1, <2>2, FoldRuns, Zenon
<1> HIDE DEF op
<1>10. \A k \in 1 .. n : h[k - 1] \in V /\ h[k] = op(h[k - 1], s[k])
    <2> TAKE k \in 1 .. n
    <2>1. k - 1 \in 0 .. n
        OBVIOUS
    <2> QED  BY <1>2, <1>9, <2>1 DEF Run
<1>11. h[0] = <<>> /\ h[n] = CapBySource(s) /\ \A k \in 0 .. n : h[k] \in V
    BY <1>1, <1>9 DEF Run
<1> QED  BY <1>10, <1>11 DEF V, op

\* The chunks of a source among the first k; those in front of a chunk that share its source;
\* and the places whose chunk has less than its share in front.
OfSource(s, k, source) == {j \in 1 .. k : s[j].source = source}
InFront(s, i) == {j \in 1 .. i - 1 : s[j].source = s[i].source}
Choice(s) == {i \in DOMAIN s : MaxPerSource = 0 \/ Cardinality(InFront(s, i)) < MaxPerSource}

Share(t, source) == {i \in DOMAIN t : t[i].source = source}

\* A list has the chunks of the chosen places up to k, in their order, by q.
Places(t, q, s, k) ==
    /\ q \in [1 .. Len(t) -> 1 .. k]
    /\ \A i \in 1 .. Len(t) : q[i] \in Choice(s) /\ t[i] = s[q[i]]
    /\ \A j \in Choice(s) \cap (1 .. k) : \E i \in 1 .. Len(t) : q[i] = j
    /\ \A i, j \in 1 .. Len(t) : i < j => q[i] < q[j]

\* No source has more than its share.
Shared(t, s, k) ==
    \A source : Cardinality(Share(t, source)) =
        IF Cardinality(OfSource(s, k, source)) <= MaxPerSource
        THEN Cardinality(OfSource(s, k, source)) ELSE MaxPerSource

\* How many the numbers up to i are.
LEMMA UpTo ==
    ASSUME NEW i \in Nat
    PROVE  IsFiniteSet(1 .. i) /\ Cardinality(1 .. i) = i
<1>1. IsFiniteSet(1 .. i) /\ Cardinality(1 .. i) = IF 1 > i THEN 0 ELSE i - 1 + 1
    BY FS_Interval
<1> QED  BY <1>1

\* One more chunk is capped.
LEMMA CapOne ==
    ASSUME NEW s \in Seq(Chunk), NEW k \in 0 .. Len(s) - 1, NEW t \in Seq(Chunk), MaxPerSource # 0,
           NEW q, Places(t, q, s, k), Shared(t, s, k),
           NEW u, u = IF Cardinality(Share(t, s[k + 1].source)) >= MaxPerSource
                      THEN t ELSE Append(t, s[k + 1])
    PROVE  u \in Seq(Chunk) /\ Shared(u, s, k + 1) /\ \E p : Places(u, p, s, k + 1)
<1> PICK c : c = s[k + 1]
    OBVIOUS
<1> PICK m : m = Len(t)
    OBVIOUS
<1>0. /\ DOMAIN s = 1 .. Len(s) /\ Len(s) \in Nat /\ k \in Nat /\ k + 1 \in 1 .. Len(s) /\ c \in Chunk
      /\ m \in Nat /\ DOMAIN t = 1 .. m /\ MaxPerSource \in Nat \ {0}
    BY RetrievalAssumption
<1>1. ASSUME NEW source, NEW i \in Nat
      PROVE  IsFiniteSet(OfSource(s, i, source)) /\ Cardinality(OfSource(s, i, source)) \in Nat
    <2>1. OfSource(s, i, source) \in SUBSET (1 .. i)
        BY DEF OfSource
    <2> QED  BY <2>1, UpTo, FS_Subset, FS_CardinalityType
<1>2. \A source : IsFiniteSet(Share(t, source)) /\ Cardinality(Share(t, source)) \in Nat
    <2> TAKE source
    <2>1. Share(t, source) \in SUBSET (1 .. m)
        BY <1>0 DEF Share
    <2> QED  BY <1>0, <2>1, UpTo, FS_Subset, FS_CardinalityType
<1>3. InFront(s, k + 1) = OfSource(s, k, c.source)
    BY <1>0 DEF InFront, OfSource
<1>4. ASSUME NEW source
      PROVE  Cardinality(OfSource(s, k + 1, source)) =
                 IF c.source = source THEN Cardinality(OfSource(s, k, source)) + 1
                 ELSE Cardinality(OfSource(s, k, source))
    <2>1. OfSource(s, k + 1, source) = OfSource(s, k, source) \cup (IF c.source = source THEN {k + 1} ELSE {})
        BY <1>0 DEF OfSource
    <2>2. k + 1 \notin OfSource(s, k, source)
        BY <1>0 DEF OfSource
    <2>3. CASE c.source = source
        <3>1. OfSource(s, k + 1, source) = OfSource(s, k, source) \cup {k + 1}
            BY <2>1, <2>3
        <3> QED  BY <1>0, <1>1, <2>2, <2>3, <3>1, FS_AddElement
    <2>4. CASE c.source # source
        <3>1. OfSource(s, k + 1, source) = OfSource(s, k, source)
            BY <2>1, <2>4
        <3> QED  BY <2>4, <3>1
    <2> QED  BY <2>3, <2>4
<1>5. \A source : Cardinality(Share(t, source)) =
          IF Cardinality(OfSource(s, k, source)) <= MaxPerSource
          THEN Cardinality(OfSource(s, k, source)) ELSE MaxPerSource
    BY DEF Shared
<1>6. CASE Cardinality(Share(t, c.source)) >= MaxPerSource
    <2>1. u = t /\ Cardinality(OfSource(s, k, c.source)) >= MaxPerSource
        BY <1>0, <1>1, <1>5, <1>6
    <2>2. k + 1 \notin Choice(s)
        BY <1>0, <1>1, <1>3, <2>1 DEF Choice
    <2>3. Shared(t, s, k + 1)
        <3> SUFFICES ASSUME NEW source
                     PROVE  Cardinality(Share(t, source)) =
                                IF Cardinality(OfSource(s, k + 1, source)) <= MaxPerSource
                                THEN Cardinality(OfSource(s, k + 1, source)) ELSE MaxPerSource
            BY DEF Shared
        <3>1. CASE source = c.source
            BY <1>0, <1>1, <1>4, <1>5, <2>1, <3>1
        <3>2. CASE source # c.source
            BY <1>4, <1>5, <3>2
        <3> QED  BY <3>1, <3>2
    <2>4. Places(t, q, s, k + 1)
        BY <1>0, <2>2 DEF Places
    <2> QED  BY <2>1, <2>3, <2>4
<1>7. CASE ~(Cardinality(Share(t, c.source)) >= MaxPerSource)
    <2>1. u = Append(t, c) /\ Cardinality(OfSource(s, k, c.source)) < MaxPerSource
        BY <1>0, <1>1, <1>5, <1>7
    <2>2. k + 1 \in Choice(s)
        BY <1>0, <1>3, <2>1 DEF Choice
    <2>3. /\ u \in Seq(Chunk) /\ Len(u) = m + 1 /\ DOMAIN u = 1 .. m + 1 /\ u[m + 1] = c
          /\ \A i \in 1 .. m : u[i] = t[i]
        BY <1>0, <2>1
    <2>4. Shared(u, s, k + 1)
        <3> SUFFICES ASSUME NEW source
                     PROVE  Cardinality(Share(u, source)) =
                                IF Cardinality(OfSource(s, k + 1, source)) <= MaxPerSource
                                THEN Cardinality(OfSource(s, k + 1, source)) ELSE MaxPerSource
            BY DEF Shared
        <3>1. CASE source = c.source
            <4>0. \A i : i \in Share(u, source) <=> i \in Share(t, source) \/ i = m + 1
                BY <1>0, <2>3, <3>1 DEF Share
            <4>1. Share(u, source) = Share(t, source) \cup {m + 1} /\ m + 1 \notin Share(t, source)
                BY <1>0, <4>0 DEF Share
            <4>2. Cardinality(Share(u, source)) = Cardinality(Share(t, source)) + 1
                BY <1>2, <4>1, FS_AddElement
            <4> QED  BY <1>0, <1>1, <1>4, <1>5, <2>1, <3>1, <4>2
        <3>2. CASE source # c.source
            <4>1. Share(u, source) = Share(t, source)
                BY <1>0, <2>3, <3>2 DEF Share
            <4> QED  BY <1>4, <1>5, <3>2, <4>1
        <3> QED  BY <3>1, <3>2
    <2> DEFINE p == [i \in 1 .. m + 1 |-> IF i = m + 1 THEN k + 1 ELSE q[i]]
    <2>5. Places(u, p, s, k + 1)
        <3>0. \A i \in 1 .. m : q[i] \in 1 .. k /\ q[i] \in Choice(s) /\ t[i] = s[q[i]]
            BY <1>0 DEF Places
        <3>1. \A i \in 1 .. m : p[i] = q[i] /\ q[i] \in 1 .. k /\ q[i] \in Choice(s) /\ t[i] = s[q[i]]
            BY <1>0, <3>0
        <3>2. p[m + 1] = k + 1 /\ DOMAIN p = 1 .. m + 1
            BY <1>0
        <3>3. p \in [1 .. Len(u) -> 1 .. k + 1]
            <4>1. \A i \in 1 .. m + 1 : p[i] \in 1 .. k + 1
                BY <1>0, <3>0
            <4> HIDE DEF p
            <4>2. p = [i \in 1 .. m + 1 |-> p[i]]
                BY DEF p
            <4> QED  BY <2>3, <4>1, <4>2
        <3> HIDE DEF p
        <3>4. \A i \in 1 .. Len(u) : p[i] \in Choice(s) /\ u[i] = s[p[i]]
            BY <1>0, <2>2, <2>3, <3>1, <3>2
        <3>5. ASSUME NEW j \in Choice(s) \cap (1 .. k + 1)
              PROVE  \E i \in 1 .. Len(u) : p[i] = j
            <4>1. CASE j = k + 1
                BY <1>0, <2>3, <3>2, <4>1
            <4>2. CASE j # k + 1
                <5>1. j \in Choice(s) \cap (1 .. k)
                    BY <1>0, <4>2
                <5>2. \A x \in Choice(s) \cap (1 .. k) : \E i \in 1 .. Len(t) : q[i] = x
                    BY Zenon DEF Places
                <5>3. PICK i \in 1 .. Len(t) : q[i] = j
                    BY <5>1, <5>2
                <5>4. i \in 1 .. m /\ i \in 1 .. Len(u)
                    BY <1>0, <2>3, <5>3
                <5> QED  BY <3>1, <5>3, <5>4
            <4> QED  BY <4>1, <4>2
        <3>6. ASSUME NEW i \in 1 .. Len(u), NEW j \in 1 .. Len(u), i < j
              PROVE  p[i] < p[j]
            <4>1. i \in 1 .. m /\ p[i] = q[i] /\ q[i] \in 1 .. k
                BY <1>0, <2>3, <3>1, <3>6
            <4>2. CASE j = m + 1
                BY <1>0, <3>2, <4>1, <4>2
            <4>3. CASE j # m + 1
                <5>1. j \in 1 .. m
                    BY <1>0, <2>3, <4>3
                <5> QED  BY <3>1, <3>6, <4>1, <5>1 DEF Places
            <4> QED  BY <4>2, <4>3
        <3> QED  BY <3>3, <3>4, <3>5, <3>6 DEF Places
    <2> QED  BY <2>3, <2>4, <2>5
<1> QED  BY <1>6, <1>7

\* A capped list has the chunks with less than their share in front, in their order.
LEMMA CapPlaces ==
    ASSUME NEW s \in Seq(Chunk)
    PROVE  CapBySource(s) \in Seq(Chunk) /\ \E q : Places(CapBySource(s), q, s, Len(s))
<1> DEFINE n == Len(s)
<1>0. n \in Nat /\ DOMAIN s = 1 .. n /\ MaxPerSource \in Nat
    BY RetrievalAssumption
<1>1. CASE MaxPerSource = 0
    <2>1. CapBySource(s) = s /\ Choice(s) = 1 .. n
        BY <1>0, <1>1 DEF CapBySource, Choice
    <2> DEFINE q == [i \in 1 .. n |-> i]
    <2>2. Places(s, q, s, n)
        BY <1>0, <2>1 DEF Places
    <2> QED  BY <2>1, <2>2
<1>2. CASE MaxPerSource # 0
    <2>1. PICK h : /\ h[0] = <<>> /\ h[n] = CapBySource(s)
                   /\ \A k \in 0 .. n : h[k] \in Seq(Chunk)
                   /\ \A k \in 1 .. n :
                       h[k] = IF Cardinality({i \in DOMAIN h[k - 1] : h[k - 1][i].source = s[k].source}) >= MaxPerSource
                              THEN h[k - 1] ELSE Append(h[k - 1], s[k])
        BY <1>2, CapSteps
    <2> DEFINE Good(k) == Shared(h[k], s, k) /\ \E q : Places(h[k], q, s, k)
               W == {k \in 0 .. n : Good(k)}
    <2>2. 0 \in W
        <3>1. \A source : Share(h[0], source) = {} /\ OfSource(s, 0, source) = {}
            BY <2>1 DEF Share, OfSource
        <3>2. Cardinality({}) = 0 /\ 0 <= MaxPerSource
            BY <1>0, FS_EmptySet
        <3>2a. Shared(h[0], s, 0)
            <4> SUFFICES ASSUME NEW source
                         PROVE  Cardinality(Share(h[0], source)) =
                                    IF Cardinality(OfSource(s, 0, source)) <= MaxPerSource
                                    THEN Cardinality(OfSource(s, 0, source)) ELSE MaxPerSource
                BY DEF Shared
            <4>1. Share(h[0], source) = {} /\ OfSource(s, 0, source) = {}
                BY <3>1
            <4> QED  BY <3>2, <4>1
        <3> DEFINE q == [i \in 1 .. 0 |-> 1]
        <3>3. Places(h[0], q, s, 0)
            BY <2>1 DEF Places
        <3> HIDE DEF q
        <3>4. Good(0)
            BY <3>2a, <3>3
        <3> QED  BY <1>0, <3>4
    <2>3. ASSUME NEW k \in 0 .. n - 1, k \in W
          PROVE  k + 1 \in W
        <3>1. k + 1 \in 1 .. n /\ (k + 1) - 1 = k /\ k \in 0 .. n
            BY <1>0
        <3>2. h[k + 1] = IF Cardinality(Share(h[k], s[k + 1].source)) >= MaxPerSource
                         THEN h[k] ELSE Append(h[k], s[k + 1])
            BY <2>1, <3>1 DEF Share
        <3>3. PICK q : Places(h[k], q, s, k)
            BY <2>3
        <3>4. Shared(h[k], s, k) /\ h[k] \in Seq(Chunk)
            BY <2>1, <2>3, <3>1
        <3>5. Good(k + 1)
            BY <1>2, <3>2, <3>3, <3>4, CapOne
        <3> QED  BY <3>1, <3>5
    <2>4. \A k \in 0 .. n : k \in W
        <3> HIDE DEF W, n
        <3> QED  BY <1>0, <2>2, <2>3, Counting
    <2>5. n \in W
        BY <1>0, <2>4
    <2>6. Good(n) /\ h[n] \in Seq(Chunk)
        BY <1>0, <2>1, <2>5
    <2> QED  BY <2>1, <2>6
<1> QED  BY <1>1, <1>2

\* As many places were chosen before a chunk of the capped list as it has chunks in front.
LEMMA PlaceCount ==
    ASSUME NEW s \in Seq(Chunk), NEW t \in Seq(Chunk), NEW q, Places(t, q, s, Len(s)), NEW i \in 1 .. Len(t)
    PROVE  Cardinality({j \in Choice(s) : j < q[i]}) = i - 1
<1> PICK n \in Nat : n = Len(s) /\ DOMAIN s = 1 .. n
    OBVIOUS
<1> PICK m \in Nat : m = Len(t)
    OBVIOUS
<1>1. /\ q \in [1 .. m -> 1 .. n] /\ \A x \in 1 .. m : q[x] \in Choice(s)
      /\ \A x, y \in 1 .. m : x < y => q[x] < q[y]
    BY DEF Places
<1>2. \A j \in Choice(s) : j \in 1 .. n /\ \E x \in 1 .. m : q[x] = j
    <2>1. \A j \in Choice(s) \cap (1 .. n) : \E x \in 1 .. m : q[x] = j
        BY DEF Places
    <2>2. \A j \in Choice(s) : j \in 1 .. n
        BY DEF Choice
    <2> QED  BY <2>1, <2>2
<1> DEFINE T == {j \in Choice(s) : j < q[i]}
           p == [x \in 1 .. i - 1 |-> q[x]]
<1>3. \A x \in 1 .. i - 1 : x \in 1 .. m /\ x < i
    OBVIOUS
<1>4. p \in [1 .. i - 1 -> T]
    BY <1>1, <1>3
<1>5. \A x, y \in 1 .. i - 1 : p[x] = p[y] => x = y
    <2> SUFFICES ASSUME NEW x \in 1 .. i - 1, NEW y \in 1 .. i - 1, q[x] = q[y], x # y
                 PROVE  FALSE
        OBVIOUS
    <2>1. x \in 1 .. m /\ y \in 1 .. m /\ (x < y \/ y < x)
        BY <1>3
    <2>2. q[x] \in 1 .. n /\ q[y] \in 1 .. n /\ (q[x] < q[y] \/ q[y] < q[x])
        BY <1>1, <2>1
    <2> QED  BY <2>2
<1>6. ASSUME NEW j \in T
      PROVE  \E x \in 1 .. i - 1 : p[x] = j
    <2>1. PICK x \in 1 .. m : q[x] = j
        BY <1>2
    <2>2. q[x] \in 1 .. n /\ q[i] \in 1 .. n /\ q[x] < q[i] /\ i \in 1 .. m
        BY <1>1, <2>1
    <2>3. ~(i < x) /\ i # x
        BY <1>1, <2>2
    <2>4. x \in 1 .. i - 1
        BY <2>2, <2>3
    <2> QED  BY <2>1, <2>4
<1> HIDE DEF p, T
<1>7. p \in Bijection(1 .. i - 1, T)
    BY <1>4, <1>5, <1>6 DEF Bijection, Injection, Surjection, IsInjective
<1>8. ExistsBijection(1 .. i - 1, T) /\ i - 1 \in Nat
    BY <1>7 DEF ExistsBijection
<1> QED  BY <1>8, FS_CountingElements DEF T

\* The context has the chunks it should, with the scores and in the order of the list.
LEMMA ContextPicks ==
    ASSUME NEW s \in Seq(Chunk), Distinct(s)
    PROVE  /\ \A i \in DOMAIN s :
                (i \in Choice(s) /\ Cardinality({j \in Choice(s) : j < i}) < TopK) <=> Contains(Context(s), s[i])
           /\ \A seen : Best(s, seen) => Best(Context(s), seen)
           /\ Descending(s) => \A i \in 2 .. Len(Context(s)) : Context(s)[i].score <= Context(s)[i - 1].score
<1> PICK n \in Nat : n = Len(s) /\ DOMAIN s = 1 .. n
    OBVIOUS
<1> PICK t : t = CapBySource(s)
    OBVIOUS
<1>1. t \in Seq(Chunk) /\ \E q : Places(t, q, s, n)
    BY CapPlaces
<1> PICK m \in Nat : m = Len(t) /\ DOMAIN t = 1 .. m
    BY <1>1
<1>2. PICK q : Places(t, q, s, n)
    BY <1>1
<1>3. /\ \A i \in 1 .. m : q[i] \in 1 .. n /\ q[i] \in Choice(s) /\ t[i] = s[q[i]]
      /\ \A i, j \in 1 .. m : i < j => q[i] < q[j]
    BY <1>2 DEF Places
<1>4. \A j \in Choice(s) : j \in 1 .. n /\ \E i \in 1 .. m : q[i] = j
    <2>1. \A j \in Choice(s) \cap (1 .. n) : \E x \in 1 .. m : q[x] = j
        BY <1>2 DEF Places
    <2>2. \A j \in Choice(s) : j \in 1 .. n
        BY DEF Choice
    <2> QED  BY <2>1, <2>2
<1>5. \A i \in 1 .. m : Cardinality({j \in Choice(s) : j < q[i]}) = i - 1
    BY <1>1, <1>2, PlaceCount
<1> PICK k \in Nat : k = IF m <= TopK THEN m ELSE TopK
    BY RetrievalAssumption
<1> PICK c : c = Context(s)
    OBVIOUS
<1>6. /\ c \in Seq(Chunk) /\ Len(c) = k /\ DOMAIN c = 1 .. k /\ k <= m
      /\ \A i \in 1 .. k : c[i] = t[i] /\ i \in 1 .. m /\ i <= TopK
    <2>1. c = FirstOf(t, TopK) /\ TopK \in Nat
        BY RetrievalAssumption DEF Context
    <2> QED  BY <1>1, <2>1, FirstKeeps, RetrievalAssumption
<1>7. \A i \in 1 .. k : c[i] = s[q[i]] /\ q[i] \in DOMAIN s
    BY <1>3, <1>6
<1>8. ASSUME NEW i \in DOMAIN s
      PROVE  (i \in Choice(s) /\ Cardinality({j \in Choice(s) : j < i}) < TopK) <=> Contains(c, s[i])
    <2>1. ASSUME i \in Choice(s), Cardinality({j \in Choice(s) : j < i}) < TopK
          PROVE  Contains(c, s[i])
        <3>1. PICK x \in 1 .. m : q[x] = i
            BY <1>4, <2>1
        <3>2. x - 1 < TopK
            BY <1>5, <2>1, <3>1
        <3>3. x \in 1 .. k /\ c[x] = s[i]
            BY <1>7, <3>1, <3>2, RetrievalAssumption
        <3> QED  BY <1>6, <3>3 DEF Contains
    <2>2. ASSUME Contains(c, s[i])
          PROVE  i \in Choice(s) /\ Cardinality({j \in Choice(s) : j < i}) < TopK
        <3>1. PICK x \in 1 .. k : c[x] = s[i]
            BY <1>6, <2>2 DEF Contains
        <3>2. SameChunk(s[q[x]], s[i]) /\ q[x] \in DOMAIN s
            BY <1>7, <3>1 DEF SameChunk
        <3>3. q[x] = i
            BY <3>2 DEF Distinct
        <3>4. x \in 1 .. m /\ x <= TopK
            BY <1>6
        <3>5. Cardinality({j \in Choice(s) : j < i}) = x - 1
            BY <1>5, <3>3, <3>4
        <3> QED  BY <1>3, <3>3, <3>4, <3>5, RetrievalAssumption
    <2> QED  BY <2>1, <2>2
<1>9. \A seen : Best(s, seen) => Best(c, seen)
    BY <1>6, <1>7 DEF Best
<1>10. ASSUME Descending(s), NEW i \in 2 .. Len(c)
       PROVE  c[i].score <= c[i - 1].score
    <2>1. i \in 1 .. k /\ i - 1 \in 1 .. k /\ i \in 1 .. m /\ i - 1 \in 1 .. m /\ i - 1 < i
        BY <1>6
    <2>2. q[i - 1] < q[i] /\ q[i - 1] \in 1 .. n /\ q[i] \in 1 .. n
        BY <1>3, <2>1
    <2>3. s[q[i]].score <= s[q[i - 1]].score
        BY <1>10, <2>2 DEF Descending
    <2> QED  BY <1>7, <2>1, <2>3
<1> QED  BY <1>8, <1>9, <1>10

-----------------------------------------------------------------------------
(* What a call holds of what it retrieved *)

\* Places where nothing was searched yet.
Unsearched == {"build", "ask_model", "graph"}

\* Chunks without doubles, each with the best score it was seen with.
Gathered(s, seen) == s \in Seq(Chunk) /\ Distinct(s) /\ Best(s, seen)

\* Searches that are still to do.
Queued(todo) == IsSeq(todo) /\ todo # <<>> /\ \A i \in DOMAIN todo : todo[i].text \in DOMAIN Score

\* A call a at p that holds w: while it searches, what it kept covers what it saw; then what it
\* kept, or what it retrieved, has the best scores; the context is what is cut from that.
PicksAt(p, w, a) ==
    /\ w.seen \in SUBSET Chunk
    /\ p \in Unsearched => w.kept = <<>> /\ w.seen = {}
    /\ p \in Retrieving => w.retrieved = <<>>
    /\ p = "search" => w.kept \in Seq(Chunk) /\ Distinct(w.kept) /\ Covers(w.kept, w.seen) /\ Queued(w.todo)
    /\ p = "rerank" => a.reranks /\ Gathered(w.kept, w.seen)
    /\ Gathered(w.retrieved, w.seen) /\ w.context = Context(w.retrieved)
    /\ (w.strategy \in {"multi_query", "parent_document"} /\ ~a.reranks) => Descending(w.retrieved)

Picks(r) == PicksAt(pc[r], work[r], ask[r])

PInv ==
    /\ \A r \in Requests : Picks(r) /\ ask[r].question \in DOMAIN Score
    /\ RowsInv

\* Nothing retrieved, no context.
LEMMA EmptyHeld ==
    ASSUME NEW seen
    PROVE  Gathered(<<>>, seen) /\ Covers(<<>>, {}) /\ Context(<<>>) = <<>> /\ Descending(<<>>)
<1>0. <<>> \in Seq(Chunk) /\ Len(<<>>) = 0 /\ DOMAIN <<>> = 1 .. 0 /\ 1 .. 0 = {}
    OBVIOUS
<1> PICK e \in Seq(Chunk) : e = <<>> /\ DOMAIN e = {} /\ Len(e) = 0
    BY <1>0, Zenon
<1> PICK t : t = CapBySource(e)
    OBVIOUS
<1>1. t \in Seq(Chunk) /\ \E q : Places(t, q, e, Len(e))
    BY CapPlaces
<1>2. PICK q : Places(t, q, e, Len(e))
    BY <1>1
<1>3. Len(t) = 0
    <2>1. \A i \in 1 .. Len(t) : q[i] \in Choice(e)
        BY <1>2 DEF Places
    <2>2. Choice(e) = {}
        BY DEF Choice
    <2>3. Len(t) \in Nat /\ (Len(t) # 0 => 1 \in 1 .. Len(t))
        BY <1>1
    <2> QED  BY <2>1, <2>2, <2>3
<1>4. t = <<>>
    BY <1>1, <1>3
<1>5. Context(e) = <<>>
    <2>1. Context(e) = FirstOf(t, TopK) /\ TopK \in Nat
        BY RetrievalAssumption DEF Context
    <2>2. FirstOf(t, TopK) \in Seq(Chunk) /\ Len(FirstOf(t, TopK)) = 0
        BY <1>1, <1>3, <2>1, FirstKeeps
    <2> QED  BY <2>1, <2>2
<1>6. e \in Seq(Chunk) /\ Distinct(e) /\ Best(e, seen) /\ Descending(e) /\ Covers(e, {})
    BY DEF Distinct, Best, Descending, Covers
<1> QED  BY <1>5, <1>6, Zenon DEF Gathered

\* A call that has not searched holds nothing.
LEMMA PicksNothing ==
    ASSUME NEW p, p \notin {"search", "rerank"}, NEW a, NEW w,
           w.seen = {}, w.kept = <<>>, w.retrieved = <<>>, w.context = <<>>
    PROVE  PicksAt(p, w, a)
<1>1. Gathered(<<>>, {}) /\ Context(<<>>) = <<>> /\ Descending(<<>>)
    BY EmptyHeld
<1>2. {} \in SUBSET Chunk
    OBVIOUS
<1> QED  BY <1>1, <1>2, Zenon DEF PicksAt

\* Once it generates, a call keeps its context.
LEMMA PicksOn ==
    ASSUME NEW p, NEW q, NEW w, NEW v, NEW a, PicksAt(p, w, a), q \notin Retrieving,
           v.strategy = w.strategy, v.seen = w.seen, v.retrieved = w.retrieved, v.context = w.context
    PROVE  PicksAt(q, v, a)
<1>1. q \notin Unsearched /\ q # "search" /\ q # "rerank"
    BY DEF Unsearched, Retrieving
<1> QED  BY <1>1, Zenon DEF PicksAt

\* Asking the model or the graph first.
LEMMA PicksFirst ==
    ASSUME NEW p \in Unsearched, NEW q \in Unsearched, NEW w, NEW v, NEW a, PicksAt(p, w, a),
           v.kept = w.kept, v.seen = w.seen, v.retrieved = w.retrieved, v.context = w.context
    PROVE  PicksAt(q, v, a)
<1>1. q # "search" /\ q # "rerank" /\ p \in Retrieving
    BY DEF Unsearched, Retrieving
<1>2. w.kept = <<>> /\ w.seen = {} /\ w.retrieved = <<>> /\ w.context = Context(<<>>)
    BY <1>1 DEF PicksAt
<1>3. Context(<<>>) = <<>>
    BY EmptyHeld
<1> QED  BY <1>1, <1>2, <1>3, PicksNothing

\* The first searches.
LEMMA PicksQueued ==
    ASSUME NEW p \in Unsearched, NEW w, NEW v, NEW a, PicksAt(p, w, a), Queued(v.todo),
           v.kept = w.kept, v.seen = w.seen, v.retrieved = w.retrieved, v.context = w.context
    PROVE  PicksAt("search", v, a)
<1>1. p \in Retrieving /\ "search" \notin Unsearched
    BY DEF Unsearched, Retrieving
<1>2. w.kept = <<>> /\ w.seen = {} /\ w.retrieved = <<>> /\ w.context = Context(<<>>)
    BY <1>1 DEF PicksAt
<1>3. Gathered(<<>>, {}) /\ Covers(<<>>, {}) /\ Descending(<<>>)
    BY EmptyHeld
<1>4. <<>> \in Seq(Chunk) /\ Distinct(<<>>) /\ {} \in SUBSET Chunk
    BY <1>3 DEF Gathered
<1> QED  BY <1>1, <1>2, <1>3, <1>4, Zenon DEF PicksAt

\* A list of one search.
LEMMA OneQueued ==
    ASSUME NEW text \in DOMAIN Score, NEW source
    PROVE  Queued(<<Search(text, source)>>)
<1>1. Search(text, source).text = text
    BY DEF Search
<1> PICK x : x = Search(text, source)
    OBVIOUS
<1>2. <<x>> \in Seq({x}) /\ <<x>> # <<>> /\ DOMAIN <<x>> = {1} /\ <<x>>[1] = x
    OBVIOUS
<1> QED  BY <1>1, <1>2 DEF Queued, IsSeq

\* A step of a call by which it goes to p with v.
LEMMA Going ==
    ASSUME Shapes, NEW r \in Requests, NEW p, NEW v, Goto(r, p), Put(r, v)
    PROVE  pc'[r] = p /\ work'[r] = v
BY DEF Shapes, Goto, Put

\* What was retrieved goes to the reranker, or its context is cut.
LEMMA RetrievePicks ==
    ASSUME Shapes, NEW r \in Requests, NEW w, NEW chunks, Retrieve(r, w, chunks),
           DOMAIN w = DOMAIN NoWork, w.seen \in SUBSET Chunk, Gathered(chunks, w.seen),
           w.retrieved = <<>>, w.context = <<>>,
           w.strategy \in {"multi_query", "parent_document"} /\ ~ask[r].reranks => Descending(chunks)
    PROVE  PicksAt(pc'[r], work'[r], ask[r])
<1>0. Gathered(<<>>, w.seen) /\ Context(<<>>) = <<>> /\ Descending(<<>>)
    BY EmptyHeld
<1>1. CASE ask[r].reranks
    <2> PICK v : v = [w EXCEPT !.kept = chunks]
        OBVIOUS
    <2>1. Goto(r, "rerank") /\ Put(r, v)
        BY <1>1 DEF Retrieve
    <2>2. pc'[r] = "rerank" /\ work'[r] = v
        BY <2>1, Going
    <2>3. v.kept = chunks /\ v.seen = w.seen /\ v.retrieved = <<>> /\ v.context = <<>>
        BY DEF NoWork
    <2>4. "rerank" \notin Unsearched
        BY DEF Unsearched
    <2>5. PicksAt("rerank", v, ask[r])
        BY <1>0, <1>1, <2>3, <2>4, Zenon DEF PicksAt
    <2> QED  BY <2>2, <2>5
<1>2. CASE ~ask[r].reranks
    <2> PICK v : v = [w EXCEPT !.retrieved = chunks, !.context = Context(chunks)]
        OBVIOUS
    <2>1. Goto(r, "generate") /\ Put(r, v)
        BY <1>2 DEF Retrieve
    <2>2. pc'[r] = "generate" /\ work'[r] = v
        BY <2>1, Going
    <2>3. v.retrieved = chunks /\ v.context = Context(chunks) /\ v.seen = w.seen /\ v.strategy = w.strategy
        BY DEF NoWork
    <2>4. "generate" \notin Unsearched /\ "generate" \notin Retrieving /\ "generate" \notin {"search", "rerank"}
        BY DEF Unsearched, Retrieving
    <2>5. PicksAt("generate", v, ask[r])
        BY <1>2, <2>3, <2>4, Zenon DEF PicksAt
    <2> QED  BY <2>2, <2>5
<1> QED  BY <1>1, <1>2

\* A strategy begins.
LEMMA DispatchPicks ==
    ASSUME Shapes, NEW r \in Requests, NEW p \in Unsearched, PicksAt(p, work[r], ask[r]), DOMAIN work[r] = DOMAIN NoWork,
           ask[r].question \in DOMAIN Score, NEW strategy, Dispatch(r, strategy)
    PROVE  PicksAt(pc'[r], work'[r], ask[r])
<1> PICK w : w = [work[r] EXCEPT !.strategy = strategy]
    OBVIOUS
<1> PICK v : v = [w EXCEPT !.todo = <<Search(ask[r].question, Anywhere)>>]
    OBVIOUS
<1>1. /\ w.kept = work[r].kept /\ w.seen = work[r].seen /\ w.retrieved = work[r].retrieved
      /\ w.context = work[r].context /\ DOMAIN w = DOMAIN NoWork
    BY DEF NoWork
<1>2. /\ v.kept = work[r].kept /\ v.seen = work[r].seen /\ v.retrieved = work[r].retrieved
      /\ v.context = work[r].context /\ v.todo = <<Search(ask[r].question, Anywhere)>>
    BY <1>1 DEF NoWork
<1>3. \/ Goto(r, "ask_model") /\ Put(r, w)
      \/ Goto(r, "graph") /\ Put(r, w)
      \/ Goto(r, "search") /\ Put(r, v)
    BY DEF Dispatch
<1>4. CASE (Goto(r, "ask_model") /\ Put(r, w)) \/ (Goto(r, "graph") /\ Put(r, w))
    <2>1. pc'[r] \in Unsearched /\ work'[r] = w
        BY <1>4, Going DEF Unsearched
    <2>2. PicksAt(pc'[r], w, ask[r])
        BY <1>1, <2>1, PicksFirst
    <2> QED  BY <2>1, <2>2
<1>5. CASE Goto(r, "search") /\ Put(r, v)
    <2>1. pc'[r] = "search" /\ work'[r] = v
        BY <1>5, Going
    <2>2. Queued(v.todo)
        BY <1>2, OneQueued
    <2>3. PicksAt("search", v, ask[r])
        BY <1>2, <2>2, PicksQueued
    <2> QED  BY <2>1, <2>3
<1> QED  BY <1>3, <1>4, <1>5

\* A call builds its strategy.
LEMMA BuildPicks ==
    ASSUME IInv, NEW r \in Requests, Picks(r), ask[r].question \in DOMAIN Score, Build(r)
    PROVE  PicksAt(pc'[r], work'[r], ask[r])
<1>1. Shapes /\ DOMAIN work[r] = DOMAIN NoWork
    BY DEF IInv, Calls, Working
<1>2. pc[r] = "build" /\ Dispatch(r, work[r].strategy)
    BY DEF Build, Inside
<1>3. PicksAt(pc[r], work[r], ask[r]) /\ pc[r] \in Unsearched
    BY <1>2 DEF Picks, Unsearched
<1> QED  BY <1>1, <1>2, <1>3, DispatchPicks

\* The model names a strategy, or what to search for.
LEMMA AskModelPicks ==
    ASSUME IInv, NEW r \in Requests, Picks(r), ask[r].question \in DOMAIN Score, AskModel(r)
    PROVE  PicksAt(pc'[r], work'[r], ask[r])
<1>1. Shapes /\ DOMAIN work[r] = DOMAIN NoWork
    BY DEF IInv, Calls, Working
<1>2. pc[r] = "ask_model"
    BY DEF AskModel, Inside
<1>3. PicksAt(pc[r], work[r], ask[r]) /\ pc[r] \in Unsearched
    BY <1>2 DEF Picks, Unsearched
<1> PICK qs : qs = Queries(ask[r].question, Lines)
    OBVIOUS
<1> PICK hyde : hyde = <<Search(Passage, Anywhere)>>
    OBVIOUS
<1> PICK multi : multi = [i \in DOMAIN qs |-> Search(qs[i], Anywhere)]
    OBVIOUS
<1>4. Queued(hyde)
    BY PipelineAssumption, OneQueued
<1>5. Queued(multi)
    <2>1. qs \in Seq(DOMAIN Score)
        BY QueriesListed
    <2>2. qs # <<>>
        BY DEF Queries
    <2>3. PICK n \in Nat : n = Len(qs) /\ DOMAIN qs = 1 .. n /\ n # 0
        BY <2>1, <2>2
    <2>4. \A i \in 1 .. n : qs[i] \in DOMAIN Score
        BY <2>1, <2>3
    <2>5. DOMAIN multi = 1 .. n /\ \A i \in 1 .. n : multi[i] = Search(qs[i], Anywhere) /\ multi[i].text = qs[i]
        BY <2>3 DEF Search
    <2> PICK S : S = {multi[i] : i \in 1 .. n}
        OBVIOUS
    <2>6. multi \in Seq(S)
        <3>1. multi \in [1 .. n -> S]
            BY <2>5
        <3> QED  BY <3>1, <2>3
    <2>7. multi # <<>>
        BY <2>3, <2>5
    <2> QED  BY <2>4, <2>5, <2>6, <2>7 DEF Queued, IsSeq
<1>6. ASSUME NEW todo, Queued(todo), Put(r, [work[r] EXCEPT !.todo = todo]), Goto(r, "search")
      PROVE  PicksAt(pc'[r], work'[r], ask[r])
    <2> PICK v : v = [work[r] EXCEPT !.todo = todo]
        OBVIOUS
    <2>1. pc'[r] = "search" /\ work'[r] = v
        BY <1>1, <1>6, Going
    <2>2. /\ v.kept = work[r].kept /\ v.seen = work[r].seen /\ v.retrieved = work[r].retrieved
          /\ v.context = work[r].context /\ v.todo = todo
        BY <1>1 DEF NoWork
    <2>2a. Queued(v.todo)
        BY <1>6, <2>2
    <2>3. PicksAt("search", v, ask[r])
        <3> PICK w : w = work[r]
            OBVIOUS
        <3> PICK a : a = ask[r]
            OBVIOUS
        <3> PICK p \in Unsearched : p = pc[r]
            BY <1>3
        <3>1. PicksAt(p, w, a)
            BY <1>3
        <3>2. v.kept = w.kept /\ v.seen = w.seen /\ v.retrieved = w.retrieved /\ v.context = w.context
            BY <2>2
        <3>3. PicksAt("search", v, a)
            BY <2>2a, <3>1, <3>2, PicksQueued
        <3> QED  BY <3>3
    <2> QED  BY <2>1, <2>3
<1>7. ASSUME NEW choice, Dispatch(r, Routed(choice))
      PROVE  PicksAt(pc'[r], work'[r], ask[r])
    BY <1>1, <1>3, <1>7, DispatchPicks
<1> QED  BY <1>4, <1>5, <1>6, <1>7 DEF AskModel

\* The graph answers, or a search follows.
LEMMA QueryGraphPicks ==
    ASSUME IInv, NEW r \in Requests, Picks(r), ask[r].question \in DOMAIN Score, QueryGraph(r)
    PROVE  PicksAt(pc'[r], work'[r], ask[r])
<1>1. Shapes /\ DOMAIN work[r] = DOMAIN NoWork
    BY DEF IInv, Calls, Working
<1>2. pc[r] = "graph"
    BY DEF QueryGraph, Inside
<1>3. PicksAt(pc[r], work[r], ask[r]) /\ pc[r] \in Unsearched /\ pc[r] \in Retrieving
    BY <1>2 DEF Picks, Unsearched, Retrieving
<1>4. work[r].seen = {} /\ work[r].retrieved = <<>> /\ work[r].context = <<>>
    BY <1>3, EmptyHeld DEF PicksAt
<1> PICK answer : answer = [source |-> "lightrag", text |-> "answer", score |-> 1]
    OBVIOUS
<1>5. CASE Retrieve(r, work[r], <<answer>>)
    <2>1. answer \in Chunk
        BY DEF Chunk
    <2>2. <<answer>> \in Seq(Chunk) /\ DOMAIN <<answer>> = {1}
        BY <2>1
    <2>2a. answer.score <= answer.score
        BY <2>1 DEF Chunk
    <2>3. Distinct(<<answer>>) /\ Descending(<<answer>>) /\ Best(<<answer>>, {})
        BY <2>2, <2>2a DEF Distinct, Descending, Best
    <2>4. Gathered(<<answer>>, work[r].seen) /\ work[r].seen \in SUBSET Chunk
        BY <1>4, <2>2, <2>3 DEF Gathered
    <2> QED  BY <1>1, <1>4, <1>5, <2>3, <2>4, RetrievePicks
<1>6. CASE Put(r, [work[r] EXCEPT !.todo = <<Search(ask[r].question, Anywhere)>>]) /\ Goto(r, "search")
    <2> PICK v : v = [work[r] EXCEPT !.todo = <<Search(ask[r].question, Anywhere)>>]
        OBVIOUS
    <2>1. pc'[r] = "search" /\ work'[r] = v
        BY <1>1, <1>6, Going
    <2>2. /\ v.kept = work[r].kept /\ v.seen = work[r].seen /\ v.retrieved = work[r].retrieved
          /\ v.context = work[r].context /\ v.todo = <<Search(ask[r].question, Anywhere)>>
        BY <1>1 DEF NoWork
    <2>3. Queued(v.todo)
        BY <2>2, OneQueued
    <2>4. PicksAt("search", v, ask[r])
        BY <1>3, <2>2, <2>3, PicksQueued
    <2> QED  BY <2>1, <2>4
<1> QED  BY <1>5, <1>6 DEF QueryGraph

\* One search for every source of what was found.
Further(found, question) == [i \in DOMAIN SourcesOf(found) |-> Search(question, SourcesOf(found)[i])]

\* A search adds to the searches to do only some that can be done.
LEMMA MoreQueued ==
    ASSUME NEW todo, Queued(todo), NEW found \in Seq(Chunk), NEW question \in DOMAIN Score, NEW more,
           more \in {<<>>, Further(found, question)},
           Tail(todo) \o more # <<>>
    PROVE  Queued(Tail(todo) \o more)
<1>1. PICK S : todo \in Seq(S)
    BY DEF Queued, IsSeq
<1>2. PICK n \in Nat : n = Len(todo) /\ DOMAIN todo = 1 .. n /\ n # 0
    BY <1>1 DEF Queued
<1>3. \A i \in 1 .. n : todo[i] \in S /\ todo[i].text \in DOMAIN Score
    BY <1>1, <1>2 DEF Queued
<1> PICK rest : rest = Tail(todo)
    OBVIOUS
<1>4. rest \in Seq(S) /\ Len(rest) = n - 1 /\ \A i \in 1 .. n - 1 : rest[i] = todo[i + 1]
    BY <1>1, <1>2
<1>5. \E T : more \in Seq(T) /\ \A i \in DOMAIN more : more[i].text \in DOMAIN Score
    <2>1. CASE more = <<>>
        <3>1. <<>> \in Seq({}) /\ DOMAIN <<>> = {}
            OBVIOUS
        <3> QED  BY <2>1, <3>1
    <2>2. CASE more = Further(found, question)
        <3> PICK l : l = SourcesOf(found)
            OBVIOUS
        <3>1. PICK P : l \in Seq(P)
            BY SourcesListed
        <3>2. PICK m \in Nat : m = Len(l) /\ DOMAIN l = 1 .. m
            BY <3>1
        <3>3. /\ more = [i \in 1 .. m |-> Search(question, l[i])]
              /\ \A i \in 1 .. m : more[i].text = question
            BY <2>2, <3>2 DEF Search, Further
        <3> PICK T : T = {more[i] : i \in 1 .. m}
            OBVIOUS
        <3>4. more \in Seq(T)
            <4>1. more \in [1 .. m -> T]
                BY <3>3
            <4> QED  BY <4>1, <3>2
        <3> QED  BY <3>3, <3>4
    <2> QED  BY <2>1, <2>2
<1>6. PICK T : more \in Seq(T) /\ \A i \in DOMAIN more : more[i].text \in DOMAIN Score
    BY <1>5
<1>7. PICK m \in Nat : m = Len(more) /\ DOMAIN more = 1 .. m
    BY <1>6
<1> PICK all : all = rest \o more
    OBVIOUS
<1> PICK U : U = S \cup T
    OBVIOUS
<1>8. rest \in Seq(U) /\ more \in Seq(U)
    BY <1>4, <1>6
<1>9. /\ all \in Seq(U) /\ Len(all) = n - 1 + m
      /\ \A i \in 1 .. n - 1 + m : all[i] = IF i <= n - 1 THEN rest[i] ELSE more[i - (n - 1)]
    <2>0. n - 1 \in Nat
        BY <1>2
    <2> PICK k \in Nat : k = n - 1
        BY <2>0
    <2>0a. Len(rest) = k
        BY <1>4
    <2>1. /\ rest \o more \in Seq(U) /\ Len(rest \o more) = Len(rest) + Len(more)
          /\ \A i \in 1 .. Len(rest) + Len(more) :
                (rest \o more)[i] = IF i <= Len(rest) THEN rest[i] ELSE more[i - Len(rest)]
        BY <1>8, ConcatProperties, Zenon
    <2> QED  BY <1>7, <2>0a, <2>1
<1>10. ASSUME NEW i \in DOMAIN all
       PROVE  all[i].text \in DOMAIN Score
    <2>1. i \in 1 .. n - 1 + m
        BY <1>9
    <2>2. CASE i <= n - 1
        <3>1. i \in 1 .. n - 1 /\ i + 1 \in 1 .. n
            BY <2>1, <2>2
        <3>2. all[i] = todo[i + 1]
            BY <1>4, <1>9, <2>1, <2>2, <3>1
        <3> QED  BY <1>3, <3>1, <3>2
    <2>3. CASE i > n - 1
        <3>1. i - (n - 1) \in 1 .. m
            BY <2>1, <2>3
        <3> QED  BY <1>6, <1>7, <1>9, <2>1, <2>3, <3>1
    <2> QED  BY <2>1, <2>2, <2>3
<1> QED  BY <1>9, <1>10 DEF Queued, IsSeq

\* A search merges what it finds with what there was; the last one hands it on.
LEMMA RunSearchPicks ==
    ASSUME IInv, NEW r \in Requests, Picks(r), ask[r].question \in DOMAIN Score, RowsInv, RunSearch(r)
    PROVE  PicksAt(pc'[r], work'[r], ask[r])
<1> PICK w : w = work[r]
    OBVIOUS
<1> PICK a : a = ask[r]
    OBVIOUS
<1>1. Shapes /\ DOMAIN w = DOMAIN NoWork
    BY DEF IInv, Calls, Working
<1>2. pc[r] = "search"
    BY DEF RunSearch, Inside
<1>3. PicksAt("search", w, a) /\ "search" \in Retrieving
    BY <1>2 DEF Picks, Retrieving
<1>4. /\ w.seen \in SUBSET Chunk /\ w.kept \in Seq(Chunk) /\ Distinct(w.kept) /\ Covers(w.kept, w.seen)
      /\ Queued(w.todo) /\ w.retrieved = <<>> /\ w.context = <<>>
    BY <1>3, EmptyHeld DEF PicksAt
<1> PICK found : found = Found(rows, Head(w.todo))
    OBVIOUS
<1>5. found \in Seq(Chunk)
    <2>1. PICK S : w.todo \in Seq(S)
        BY <1>4 DEF Queued, IsSeq
    <2>2. 1 \in DOMAIN w.todo /\ Head(w.todo) = w.todo[1]
        BY <1>4, <2>1 DEF Queued
    <2>3. Head(w.todo).text \in DOMAIN Score
        BY <1>4, <2>2 DEF Queued
    <2> QED  BY <2>3, FoundChunks
<1>6. PICK more :
         /\ more \in {<<>>, Further(found, a.question)}
         /\ Searched(w, a.question, found) =
              [w EXCEPT !.todo = Tail(w.todo) \o more, !.kept = Merge(w.kept, found), !.seen = w.seen \cup ToSet(found)]
    BY DEF Searched, Further
<1> PICK next : next = Searched(w, a.question, found)
    OBVIOUS
<1>7. /\ next.todo = Tail(w.todo) \o more /\ next.kept = Merge(w.kept, found)
      /\ next.seen = w.seen \cup ToSet(found)
      /\ next.retrieved = w.retrieved /\ next.context = w.context /\ next.strategy = w.strategy
      /\ DOMAIN next = DOMAIN NoWork
    BY <1>1, <1>6 DEF NoWork
<1>8. ToSet(found) \in SUBSET Chunk
    BY <1>5 DEF ToSet
<1>9. /\ next.kept \in Seq(Chunk) /\ Distinct(next.kept) /\ Covers(next.kept, next.seen)
      /\ next.seen \in SUBSET Chunk
    <2> PICK kept \in Seq(Chunk) : kept = w.kept
        BY <1>4
    <2> PICK seen \in SUBSET Chunk : seen = w.seen
        BY <1>4
    <2>1. Distinct(kept) /\ Covers(kept, seen)
        BY <1>4
    <2>2. /\ Merge(kept, found) \in Seq(Chunk) /\ Distinct(Merge(kept, found))
          /\ Covers(Merge(kept, found), seen \cup ToSet(found))
        BY <1>5, <2>1, MergeCovers
    <2> QED  BY <1>7, <1>8, <2>2
<1>10. \/ next.todo # <<>> /\ Put(r, next) /\ Goto(r, "search")
       \/ Retrieve(r, next, Returned(next))
    BY DEF RunSearch
<1>11. CASE next.todo # <<>> /\ Put(r, next) /\ Goto(r, "search")
    <2>1. Queued(next.todo)
        <3>1. Queued(w.todo) /\ a.question \in DOMAIN Score
            BY <1>4
        <3>2. Queued(Tail(w.todo) \o more)
            <4> PICK todo : todo = w.todo
                OBVIOUS
            <4>1. Queued(todo) /\ Tail(todo) \o more # <<>>
                BY <1>7, <1>11, <3>1
            <4> PICK question \in DOMAIN Score : question = a.question
                BY <3>1
            <4>2. more \in {<<>>, Further(found, question)}
                BY <1>6
            <4>3. Queued(Tail(todo) \o more)
                BY <1>5, <4>1, <4>2, MoreQueued
            <4> QED  BY <4>3
        <3> QED  BY <1>7, <3>2
    <2>2. pc'[r] = "search" /\ work'[r] = next
        BY <1>1, <1>11, Going
    <2>3. Gathered(<<>>, next.seen) /\ Context(<<>>) = <<>> /\ Descending(<<>>) /\ "search" \notin Unsearched
        BY EmptyHeld DEF Unsearched
    <2>4. next.retrieved = <<>> /\ next.context = <<>>
        BY <1>4, <1>7
    <2>5. PicksAt("search", next, a)
        BY <1>9, <2>1, <2>3, <2>4, Zenon DEF PicksAt
    <2> QED  BY <2>2, <2>5
<1>12. CASE Retrieve(r, next, Returned(next))
    <2>1. Best(next.kept, next.seen)
        BY <1>9, CoversBest
    <2>2. /\ Gathered(Returned(next), next.seen)
          /\ next.strategy \in {"multi_query", "parent_document"} => Descending(Returned(next))
        <3>1. CASE next.strategy \in {"multi_query", "parent_document"}
            <4>1. Returned(next) = Ranked(next.kept)
                BY <3>1 DEF Returned
            <4> QED  BY <1>9, <2>1, <4>1, RankedKeeps DEF Gathered
        <3>2. CASE next.strategy \notin {"multi_query", "parent_document"}
            BY <1>9, <2>1, <3>2 DEF Returned, Gathered
        <3> QED  BY <3>1, <3>2
    <2>3. next.retrieved = <<>> /\ next.context = <<>>
        BY <1>4, <1>7
    <2> QED  BY <1>1, <1>7, <1>9, <1>12, <2>2, <2>3, RetrievePicks
<1> QED  BY <1>10, <1>11, <1>12

\* The reranker chooses and orders what was kept.
LEMMA RerankPicks ==
    ASSUME IInv, NEW r \in Requests, Picks(r), Rerank(r)
    PROVE  PicksAt(pc'[r], work'[r], ask[r])
<1> PICK w : w = work[r]
    OBVIOUS
<1> PICK chunks : chunks = FirstOf(Reverse(w.kept), TopK)
    OBVIOUS
<1> PICK v : v = [w EXCEPT !.retrieved = chunks, !.context = Context(chunks)]
    OBVIOUS
<1>1. Shapes /\ DOMAIN w = DOMAIN NoWork
    BY DEF IInv, Calls, Working
<1>2. pc[r] = "rerank" /\ Put(r, v) /\ Goto(r, "generate")
    BY DEF Rerank, Inside
<1>3. w.seen \in SUBSET Chunk /\ ask[r].reranks /\ Gathered(w.kept, w.seen)
    BY <1>2 DEF Picks, PicksAt
<1>4. Gathered(chunks, w.seen)
    <2>1. w.kept \in Seq(Chunk) /\ Distinct(w.kept) /\ Best(w.kept, w.seen) /\ TopK \in Nat
        BY <1>3, RetrievalAssumption DEF Gathered
    <2> PICK back : back = Reverse(w.kept)
        OBVIOUS
    <2>2. back \in Seq(Chunk) /\ Distinct(back) /\ Best(back, w.seen)
        BY <2>1, ReverseKeeps
    <2> QED  BY <2>1, <2>2, FirstKeeps DEF Gathered
<1>5. v.retrieved = chunks /\ v.context = Context(chunks) /\ v.seen = w.seen
    BY <1>1 DEF NoWork
<1>6. pc'[r] = "generate" /\ work'[r] = v
    BY <1>1, <1>2, Going
<1>7. "generate" \notin Unsearched /\ "generate" \notin Retrieving /\ "generate" \notin {"search", "rerank"}
    BY DEF Unsearched, Retrieving
<1>8. PicksAt("generate", v, ask[r])
    BY <1>3, <1>4, <1>5, <1>7, Zenon DEF PicksAt
<1> QED  BY <1>6, <1>8

\* A step that searches nothing leaves what the call holds, or drops it.
LEMMA Elsewhere ==
    ASSUME Shapes, NEW r \in Requests, Picks(r), NEW p, p \notin Retrieving, Goto(r, p),
           UNCHANGED work \/ Put(r, NoWork)
    PROVE  PicksAt(pc'[r], work'[r], ask[r])
<1>1. pc'[r] = p /\ (work'[r] = work[r] \/ work'[r] = NoWork)
    BY DEF Shapes, Goto, Put
<1>2. PicksAt(p, work[r], ask[r])
    BY PicksOn DEF Picks
<1>3. p \notin {"search", "rerank"}
    BY DEF Retrieving
<1>4. NoWork.seen = {} /\ NoWork.kept = <<>> /\ NoWork.retrieved = <<>> /\ NoWork.context = <<>>
    BY DEF NoWork
<1>5. PicksAt(p, NoWork, ask[r])
    BY <1>3, <1>4, PicksNothing
<1> QED  BY <1>1, <1>2, <1>5

\* The steps of the pipeline.
LEMMA PipelinePicks ==
    ASSUME IInv, NEW r \in Requests, Picks(r), ask[r].question \in DOMAIN Score, RowsInv,
           Step(r) \/ Consumer(r)
    PROVE  PicksAt(pc'[r], work'[r], ask[r])
<1>0. Shapes /\ DOMAIN work[r] = DOMAIN NoWork
    BY DEF IInv, Calls, Working
<1>1. \A p \in Before \cup Past \cup {"generate", "yielded", "abandoned", "release"} : p \notin Retrieving
    BY DEF Before, Past, Retrieving
<1>2. After(r) \in Past
    BY DEF After, Past
<1>3. CASE Build(r) \/ AskModel(r) \/ QueryGraph(r) \/ RunSearch(r) \/ Rerank(r)
    BY <1>3, BuildPicks, AskModelPicks, QueryGraphPicks, RunSearchPicks, RerankPicks
<1>4. CASE Fail(r) \/ Cancel(r)
    <2>1. Goto(r, IF scope[r] = "open" THEN "release" ELSE After(r)) /\ Put(r, NoWork)
        BY <1>4 DEF Fail, Cancel, Unwind
    <2> PICK p : p = IF scope[r] = "open" THEN "release" ELSE After(r)
        OBVIOUS
    <2>2. p \notin Retrieving
        BY <1>1, <1>2
    <2> QED  BY <1>0, <2>1, <2>2, Elsewhere
<1>5. CASE Lookup(r) \/ Generate(r) \/ EndStream(r) \/ Store(r) \/ Leave(r) \/ Pull(r) \/ CloseEarly(r) \/ Finalize(r)
    <2>1. UNCHANGED work /\ \E p \in Before \cup Past \cup {"generate", "abandoned", "release"} : Goto(r, p)
        BY <1>2, <1>5 DEF Lookup, Generate, EndStream, Store, Leave, Pull, CloseEarly, Finalize, Leaving, Before, Past
    <2> QED  BY <1>0, <1>1, <2>1, Elsewhere
<1>6. CASE Open(r)
    <2> PICK v : v = [NoWork EXCEPT !.strategy = ask[r].strategy]
        OBVIOUS
    <2>1. Goto(r, "build") /\ Put(r, v)
        BY <1>6 DEF Open
    <2>2. pc'[r] = "build" /\ work'[r] = v
        BY <1>0, <2>1, Going
    <2>3. v.seen = {} /\ v.kept = <<>> /\ v.retrieved = <<>> /\ v.context = <<>>
        BY DEF NoWork
    <2> QED  BY <2>2, <2>3, PicksNothing
<1>7. CASE NextToken(r)
    <2> PICK v : v = [work[r] EXCEPT !.tokens = @ + 1]
        OBVIOUS
    <2>1. Goto(r, "yielded") /\ Put(r, v)
        BY <1>7 DEF NextToken
    <2>2. pc'[r] = "yielded" /\ work'[r] = v
        BY <1>0, <2>1, Going
    <2>3. /\ v.strategy = work[r].strategy /\ v.seen = work[r].seen
          /\ v.retrieved = work[r].retrieved /\ v.context = work[r].context
        BY <1>0 DEF NoWork
    <2> QED  BY <1>1, <2>2, <2>3, PicksOn DEF Picks
<1>8. CASE Release(r)
    <2>1. Put(r, NoWork) /\ (Goto(r, "store") \/ Goto(r, After(r)))
        BY <1>8 DEF Release
    <2>2. "store" \in Past
        BY DEF Past
    <2> QED  BY <1>0, <1>1, <1>2, <2>1, <2>2, Elsewhere
<1> QED  BY <1>3, <1>4, <1>5, <1>6, <1>7, <1>8 DEF Step, Consumer

\* The first step of a call.
LEMMA EnteringPicks ==
    ASSUME IInv, NEW r \in Requests, Picks(r), Receive(r) \/ Call(r)
    PROVE  PicksAt(pc'[r], work'[r], ask[r])
<1>0. Shapes
    BY DEF IInv
<1>1. \A p \in {"ended", "lookup", "open"} : p \notin Retrieving
    BY DEF Retrieving
<1>2. UNCHANGED work /\ \E p \in {"ended", "lookup", "open"} : Goto(r, p)
    BY DEF Receive, Call, Refuse, Begin
<1> QED  BY <1>0, <1>1, <1>2, Elsewhere

\* A step of one call keeps what all hold, when it keeps what that call holds.
LEMMA OnePicks ==
    ASSUME PInv, NEW r \in Requests, Moved(r), UNCHANGED rows, PicksAt(pc'[r], work'[r], ask[r])
    PROVE  PInv'
<1>1. ask' = ask /\ RowsInv'
    BY FixedStays DEF Moved, PInv, RowsInv
<1>2. ASSUME NEW q \in Requests
      PROVE  Picks(q)'
    <2>1. CASE q = r
        BY <1>1, <2>1 DEF Picks
    <2>2. CASE q # r
        BY <1>1, <2>2 DEF Picks, PInv, Moved
    <2> QED  BY <2>1, <2>2
<1> QED  BY <1>1, <1>2 DEF PInv

\* When no call moves, all hold what they held.
LEMMA NonePicks ==
    ASSUME PInv, UNCHANGED <<fixed, pc, work>>, RowsInv'
    PROVE  PInv'
<1>1. ask' = ask
    BY FixedStays
<1> QED  BY <1>1 DEF PInv, Picks

\* A call that was not made holds nothing.
LEMMA PicksStart == Init => PInv
<1> SUFFICES ASSUME Init
             PROVE  PInv
    OBVIOUS
<1>1. RowsInv
    BY DEF Init, PipelineInit, RowsInv
<1>2. \A r \in Requests : ask[r].question \in DOMAIN Score
    BY ScenariosAssumption DEF Init
<1>3. ASSUME NEW r \in Requests
      PROVE  Picks(r)
    <2>1. pc[r] = "idle" /\ work[r] = NoWork
        BY DEF Init, PipelineInit
    <2>2. NoWork.seen = {} /\ NoWork.kept = <<>> /\ NoWork.retrieved = <<>> /\ NoWork.context = <<>>
        BY DEF NoWork
    <2>3. "idle" \notin {"search", "rerank"}
        OBVIOUS
    <2>4. PicksAt("idle", NoWork, ask[r])
        BY <2>2, <2>3, PicksNothing
    <2> QED  BY <2>1, <2>4 DEF Picks
<1> QED  BY <1>1, <1>2, <1>3 DEF PInv

\* Every step keeps it.
LEMMA NextPicks == IInv /\ PInv /\ [Next]_vars => PInv'
<1> SUFFICES ASSUME IInv, PInv, [Next]_vars
             PROVE  PInv'
    OBVIOUS
<1>0. DOMAIN stream = Requests /\ RowsInv /\ \A r \in Requests : Picks(r) /\ ask[r].question \in DOMAIN Score
    BY DEF IInv, Shapes, PInv
<1>1. CASE UNCHANGED vars
    <2>1. UNCHANGED <<fixed, pc, work>> /\ rows' = rows
        BY <1>1 DEF vars, pipeline
    <2> QED  BY <1>0, <2>1, NonePicks DEF RowsInv
<1>2. ASSUME NEW r \in Requests, Receive(r) \/ Call(r)
      PROVE  PInv'
    <2>1. Moved(r)
        BY <1>2, Entering
    <2>2. UNCHANGED rows
        BY <1>2 DEF Receive, Call, Refuse, Begin
    <2> QED  BY <1>0, <1>2, <2>1, <2>2, EnteringPicks, OnePicks
<1>3. ASSUME NEW r \in Requests, Step(r) \/ Consumer(r), Unhurried, DOMAIN stream' = Requests
      PROVE  PInv'
    <2>1. Moved(r)
        BY <1>3, PipelineKeeps
    <2>2. UNCHANGED rows
        BY <1>3 DEF Step, Consumer, Fail, Lookup, Open, Build, AskModel, QueryGraph, RunSearch, Rerank,
           Generate, NextToken, EndStream, Release, Store, Leave, Pull, CloseEarly, Finalize, Cancel,
           Inside, Leaving
    <2> QED  BY <1>0, <1>3, <2>1, <2>2, PipelinePicks, OnePicks
<1>4. ASSUME NEW r \in Requests, Work(r)
      PROVE  PInv'
    <2>1. Step(r) /\ Unhurried /\ stream' = stream
        BY <1>4 DEF Work, Step, Unhurried
    <2> QED  BY <1>0, <1>3, <2>1
<1>5. ASSUME NEW r \in Requests, Consume(r)
      PROVE  PInv'
    <2>1. Consumer(r) /\ Unhurried /\ stream' = stream
        BY <1>5 DEF Consume, Consumer, Unhurried
    <2> QED  BY <1>0, <1>3, <2>1
<1>6. ASSUME NEW r \in Requests, Deliver(r)
      PROVE  PInv'
    <2>1. Unhurried
        BY <1>6 DEF Deliver, Unhurried
    <2>2. DOMAIN stream' = Requests
        BY <1>0, <1>6 DEF Deliver, Yield, Iterate, Wanders, YieldToken, YieldUsage, YieldDone, YieldError,
           Disconnected, RaiseForStatus, ReadLine, BreakOff, NextChunk, CloseIterator, Cut, Send, Reader
    <2>3. CASE Pull(r) \/ CloseEarly(r) \/ Cancel(r)
        BY <1>3, <2>1, <2>2, <2>3 DEF Consumer
    <2>4. CASE UNCHANGED <<caches, pipeline>>
        <3>1. UNCHANGED <<fixed, pc, work>> /\ rows' = rows
            BY <2>1, <2>4 DEF Unhurried, pipeline
        <3> QED  BY <1>0, <3>1, NonePicks DEF RowsInv
    <2> QED  BY <1>6, <2>3, <2>4 DEF Deliver, Yield, Iterate, Wanders, YieldToken, YieldUsage, YieldDone,
                YieldError, Disconnected, Closing
<1>7. CASE Surroundings \/ Tick
    <2>1. UNCHANGED <<fixed, pc, work>>
        BY <1>7 DEF Surroundings, Tick, Shutdown, Ingest, pipeline
    <2>2. rows' = rows \/ \E s \in Sources : rows' = [rows EXCEPT ![s] = Replacement]
        BY <1>7 DEF Surroundings, Tick, Shutdown, Ingest, pipeline
    <2>3. RowsInv'
        BY <1>0, <2>2 DEF RowsInv
    <2> QED  BY <2>1, <2>3, NonePicks
<1> QED  BY <1>1, <1>2, <1>4, <1>5, <1>6, <1>7 DEF Next

\* What every call retrieved, and what it made of it, is what PInv says in every state.
THEOREM ContextsPicked == Spec => []PInv
<1>1. Init => IInv /\ PInv
    BY Starts, PicksStart
<1>2. (IInv /\ PInv) /\ [Next]_vars => (IInv /\ PInv)'
    BY NextKeeps, NextPicks
<1>3. Spec => [](IInv /\ PInv)
    BY <1>1, <1>2, PTL DEF Spec
<1> QED  BY <1>3, PTL

\* The context of a call holds what it should, whatever the collection, the strategy and its
\* rewritten questions: a chunk that was retrieved is left out only with TopK chosen chunks, or
\* MaxPerSource of its own source, in front of it; each has the best score any search of the call
\* found it with, although the collection changes between two of them; and the best are in front.
THEOREM ContextIsBest == Spec => []ContextBest
<1>1. PInv => ContextBest
    <2> SUFFICES ASSUME PInv, NEW r \in Requests
                 PROVE  LET w == work[r]
                            Ahead(i) == {j \in 1 .. i - 1 : w.retrieved[j].source = w.retrieved[i].source}
                            chosen == {i \in DOMAIN w.retrieved :
                                           MaxPerSource = 0 \/ Cardinality(Ahead(i)) < MaxPerSource}
                        IN  /\ \A i \in DOMAIN w.retrieved :
                                 (i \in chosen /\ Cardinality({j \in chosen : j < i}) < TopK)
                                 <=> Contains(w.context, w.retrieved[i])
                            /\ \A i \in DOMAIN w.context, c \in w.seen :
                                 SameChunk(w.context[i], c) => c.score <= w.context[i].score
                            /\ w.strategy \in {"multi_query", "parent_document"} /\ ~ask[r].reranks =>
                                 \A i \in 2 .. Len(w.context) : w.context[i].score <= w.context[i - 1].score
        BY DEF ContextBest
    <2> PICK w : w = work[r]
        OBVIOUS
    <2> PICK s : s = w.retrieved
        OBVIOUS
    <2>1. /\ Gathered(s, w.seen) /\ w.context = Context(s)
          /\ (w.strategy \in {"multi_query", "parent_document"} /\ ~ask[r].reranks) => Descending(s)
        BY DEF PInv, Picks, PicksAt
    <2>2. s \in Seq(Chunk) /\ Distinct(s) /\ Best(s, w.seen)
        BY <2>1 DEF Gathered
    <2>3. \A i \in DOMAIN s :
             (i \in Choice(s) /\ Cardinality({j \in Choice(s) : j < i}) < TopK) <=> Contains(w.context, s[i])
        BY <2>1, <2>2, ContextPicks
    <2>4. Best(w.context, w.seen)
        BY <2>1, <2>2, ContextPicks
    <2>5. w.strategy \in {"multi_query", "parent_document"} /\ ~ask[r].reranks =>
             \A i \in 2 .. Len(w.context) : w.context[i].score <= w.context[i - 1].score
        BY <2>1, <2>2, ContextPicks
    <2>6. \A i \in DOMAIN w.context, c \in w.seen :
             SameChunk(w.context[i], c) => c.score <= w.context[i].score
        BY <2>4 DEF Best
    <2> QED  BY <2>3, <2>5, <2>6, Zenon DEF Choice, InFront
<1> QED  BY <1>1, ContextsPicked, PTL
=============================================================================
