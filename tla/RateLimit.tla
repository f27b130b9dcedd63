------------------------------ MODULE RateLimit ------------------------------
(***************************************************************************)
(* The limiter in front of the expensive routes: docpipe.server.rate_limit *)
(* A bucket of hit times per client and path, in a table of bounded size,  *)
(* kept under one lock by a check that never waits.                        *)
(***************************************************************************)
EXTENDS Clock, Integers, Sequences, SequencesExt, FiniteSets

CONSTANTS
    Peer,       \* [Requests -> address]: the transport's peer
    Forwarded,  \* [Requests -> Seq(address)]: x-forwarded-for; <<>> is absent or malformed
    Path,       \* [Requests -> route]: the path it is posted to
    Trusted,    \* the configured proxies
    Limit, Window, MaxBuckets

ASSUME LimitAssumption ==
    Limit \in Nat \ {0} /\ Window \in Nat /\ MaxBuckets \in Nat \ {0}

VARIABLES
    buckets,  \* bucket key -> the times of its hits, the oldest first
    hit       \* history: when a request was checked and what came of it

limiter == <<buckets, hit>>

LimiterInit ==
    /\ buckets = <<>>
    /\ hit = [r \in Requests |-> [outcome |-> "none", at |-> 0]]

\* The nearest hop that is no configured proxy; the peer when there is none.
ClientKey(r) ==
    LET chain   == Append(Forwarded[r], Peer[r])
        foreign == {i \in DOMAIN chain : chain[i] \notin Trusted}
    IN  IF Peer[r] \notin Trusted \/ foreign = {} THEN Peer[r]
        ELSE chain[CHOOSE i \in foreign : \A j \in foreign : j <= i]

\* Mutant of BucketKey: one bucket for all the paths of a client.
ClientAlone(r) == <<ClientKey(r), "any path">>

\* A client has a bucket for each path.
BucketKey(r) == <<ClientKey(r), Path[r]>>

\* Mutant of Unexpired: the edge of the window is outside.
UnexpiredStrict(t) == t > now - Window

Unexpired(t) == t >= now - Window

\* Mutant of LiveBuckets: expired keys keep their bucket.
LiveBucketsKept == buckets

LiveBuckets ==
    [k \in {k \in DOMAIN buckets : buckets[k] # <<>> /\ Unexpired(Last(buckets[k]))} |-> buckets[k]]

\* Hits are dropped from the front until one is within the window.
Recent(k) ==
    IF k \notin DOMAIN LiveBuckets THEN <<>>
    ELSE LET hits    == LiveBuckets[k]
             dropped == CHOOSE n \in 0 .. Len(hits) :
                            /\ \A i \in 1 .. n : ~Unexpired(hits[i])
                            /\ n < Len(hits) => Unexpired(hits[n + 1])
         IN  SubSeq(hits, dropped + 1, Len(hits))

TableFull(k) == k \notin DOMAIN LiveBuckets /\ Cardinality(DOMAIN LiveBuckets) >= MaxBuckets

Bucket(k, hits) ==
    [j \in DOMAIN LiveBuckets \cup {k} |-> IF j = k THEN hits ELSE LiveBuckets[j]]

Checked(r, outcome) == hit' = [hit EXCEPT ![r] = [outcome |-> outcome, at |-> now]]

RefuseCapacity(r) ==
    /\ TableFull(BucketKey(r))
    /\ buckets' = LiveBuckets
    /\ Checked(r, "capacity")

RefuseRate(r) ==
    LET k == BucketKey(r)
    IN  /\ ~TableFull(k) /\ Len(Recent(k)) >= Limit
        /\ buckets' = Bucket(k, Recent(k))
        /\ Checked(r, "exceeded")

Admit(r) ==
    LET k == BucketKey(r)
    IN  /\ ~TableFull(k) /\ Len(Recent(k)) < Limit
        /\ buckets' = Bucket(k, Append(Recent(k), now))
        /\ Checked(r, "admitted")

Admitted(r) == hit[r].outcome = "admitted"
=============================================================================
