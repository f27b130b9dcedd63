------------------------------- MODULE RagCache -------------------------------
(***************************************************************************)
(* The answer caches of docpipe.rag: the key-value cache of the server, in *)
(* process or in Redis, and the similarity list of an SDK pipeline.  A     *)
(* call of a cache runs under its lock without waiting inside, or is one   *)
(* command of the Redis server.                                            *)
(***************************************************************************)
EXTENDS Clock, Naturals, Sequences, SequencesExt

CONSTANTS
    TTL, MaxEntries,   \* of the key-value cache
    Similar,           \* pairs of questions above the similarity threshold
    MaxSimilar         \* cache_max_size

ASSUME CacheAssumption ==
    TTL \in Nat \ {0} /\ MaxEntries \in Nat \ {0} /\ MaxSimilar \in Nat \ {0}

VARIABLES
    backend,  \* disabled, memory or redis
    entries,  \* of the key-value cache, the least recently used in front
    similar   \* of the similarity list, the oldest in front

caches == <<entries, similar>>

CacheInit ==
    /\ entries = <<>>
    /\ similar = <<>>

\* Where a key is: at one place or nowhere.
Held(key) == {i \in DOMAIN entries : entries[i].key = key}

Others(key) ==
    IF Held(key) = {} THEN entries ELSE RemoveAt(entries, CHOOSE i \in Held(key) : TRUE)

Live(e) == e.expires > now

Hits(key) == {i \in Held(key) : Live(entries[i])}
HitEntry(key) == entries[CHOOSE i \in Hits(key) : TRUE]

KeepLast(s, n) == SubSeq(s, IF Len(s) <= n THEN 1 ELSE Len(s) - n + 1, Len(s))

MoveToEnd(key) == entries' = Append(Others(key), HitEntry(key))
RedisGet == UNCHANGED entries

Hit(key) ==
    /\ Hits(key) # {}
    /\ IF backend = "memory" THEN MoveToEnd(key) ELSE RedisGet

\* An expired entry is removed by the reader that finds it, or was by Redis.
Miss(key) ==
    /\ Hits(key) = {}
    /\ entries' = Others(key)

Entry(key, by) == [key |-> key, expires |-> now + TTL, by |-> by]

\* Redis bounds the lifetime, and nothing else.
RedisSet(key, by) == entries' = Append(Others(key), Entry(key, by))

Set(key, by) ==
    IF backend = "memory" THEN entries' = KeepLast(Append(Others(key), Entry(key, by)), MaxEntries)
    ELSE RedisSet(key, by)

\* A read that fails is a miss.  A write fails or is left out for an answer too large.
ReadFails == backend = "redis" /\ UNCHANGED entries
NotWritten == UNCHANGED entries

\* What Redis holds outlives the client.
RedisClose == UNCHANGED entries

CloseBackend == IF backend = "memory" THEN entries' = <<>> ELSE RedisClose

-----------------------------------------------------------------------------
SimilarTo(question) ==
    {i \in DOMAIN similar : \/ similar[i].question = question
                            \/ <<question, similar[i].question>> \in Similar}

FirstSimilar(question) ==
    similar[CHOOSE i \in SimilarTo(question) : \A j \in SimilarTo(question) : i <= j]

\* Mutant of Remember: the list is trimmed before it grows.
RememberLate(question, by) ==
    similar' = Append(KeepLast(similar, MaxSimilar), [question |-> question, by |-> by])

Remember(question, by) ==
    similar' = KeepLast(Append(similar, [question |-> question, by |-> by]), MaxSimilar)
=============================================================================
