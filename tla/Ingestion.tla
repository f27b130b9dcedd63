------------------------------ MODULE Ingestion ------------------------------
(***************************************************************************)
(* Ingesting one source into one vector collection: docpipe.ingestion,     *)
(* entered from the server's IngestService with its parser cache.          *)
(*                                                                         *)
(* A job parses the source, fingerprints it, asks the store whether it has *)
(* that fingerprint, and writes the chunks in batches: the first batch on  *)
(* its own, the others as asyncio tasks under a semaphore.  The first task *)
(* to fail makes the coordinator cancel and drain the others.  A write     *)
(* whose awaiting task is cancelled may still be carried out.              *)
(*                                                                         *)
(* A batch is one chunk here: what a store does with part of a batch is    *)
(* what it does with one of several batches.                               *)
(***************************************************************************)
EXTENDS Naturals, Sequences, FiniteSets

CONSTANTS
    Jobs, Versions, Chunks,
    Plan,         \* [Versions -> Seq(Chunks)]: the batches a version is cut into
    MaxBatches,   \* the longest plan
    MaxInFlight,  \* IngestionOptions.max_in_flight
    Requests,     \* [Jobs -> SUBSET Modes]: the requests that arrive
    IsFile,       \* the source is a file on this machine
    None,
    MaxEdits      \* how often the source changes (a bound of the model)

Slots == 1 .. MaxBatches
Modes == {"full", "closed", "lenient"}  \* incremental: the last two

ASSUME IngestionAssumption ==
    /\ MaxBatches \in Nat \ {0}
    /\ MaxInFlight \in Nat \ {0}
    /\ Plan \in [Versions -> Seq(Chunks)]
    /\ \A v \in Versions : Len(Plan[v]) <= MaxBatches
    /\ Requests \in [Jobs -> SUBSET Modes]
    /\ IsFile \in BOOLEAN
    /\ MaxEdits \in Nat
    /\ {None, "no", "plain"} \cap Versions = {}

VARIABLES
    source,      \* the version the source holds now
    cache,       \* the parser cache's version
    collection,  \* the collection exists
    stored,      \* the fingerprint each stored chunk carries ("no": not stored)
    phase,       \* where a job is
    mode,        \* what it was asked for
    text,        \* the version a job parsed
    hash,        \* the version whose bytes it fingerprinted
    answer,      \* what the store answered about that fingerprint
    wrote,       \* it has changed the store (of interest to the properties only)
    task,        \* its batches
    halt,        \* why its tasks were cancelled
    edits

world == <<source, edits>>
vars  == <<world, cache, collection, stored, wrote, phase, mode, text, hash, answer,
           task, halt>>

Ended   == {"created", "empty", "skipped", "failed", "refused", "cancelled"}
Before  == {"idle", "parsing", "parsed", "lookup", "chunking"}
Active  == {"encoding", "writing"}           \* holds a permit of the semaphore
Pending == Active \cup {"waiting", "encoded"}
Settled == {"none", "stored", "failed", "orphan"}

NotStored == "no"
Untagged  == "plain"  \* written by a job that is not incremental

Init ==
    /\ source \in Versions
    /\ cache = None
    /\ collection \in BOOLEAN
    /\ stored = [c \in Chunks |-> NotStored]
    /\ phase = [j \in Jobs |-> "idle"]
    /\ mode = [j \in Jobs |-> "full"]
    /\ text = [j \in Jobs |-> None]
    /\ hash = [j \in Jobs |-> None]
    /\ answer = [j \in Jobs |-> "none"]
    /\ wrote = [j \in Jobs |-> FALSE]
    /\ task = [j \in Jobs |-> [b \in Slots |-> "none"]]
    /\ halt = [j \in Jobs |-> "no"]
    /\ edits = 0

Goto(j, p)   == phase' = [phase EXCEPT ![j] = p]
Set(j, b, s) == task' = [task EXCEPT ![j][b] = s]

Batches(j) == DOMAIN Plan[text[j]]
Flying(j)  == {b \in Slots \ {1} : task[j][b] \in Active}
Has(h)     == \E c \in Chunks : stored[c] = h
Tag(j)     == IF mode[j] = "full" THEN Untagged ELSE hash[j]

Wrote(j) == wrote' = [wrote EXCEPT ![j] = TRUE]

\* The upsert of batch b takes effect.
Stored(j, b) ==
    /\ stored' = [stored EXCEPT ![Plan[text[j]][b]] = Tag(j)]
    /\ Wrote(j)

-----------------------------------------------------------------------------
(* The source, and the server's parse of it *)

Edit ==
    /\ edits < MaxEdits
    /\ source' \in Versions \ {source}
    /\ edits' = edits + 1
    /\ UNCHANGED <<cache, collection, stored, wrote, phase, mode, text, hash, answer,
                   task, halt>>

Expire ==
    /\ cache # None
    /\ cache' = None
    /\ UNCHANGED <<world, collection, stored, wrote, phase, mode, text, hash, answer,
                   task, halt>>

\* A request arrives: a cached parse serves it, or the source is to be read.
Begin(j) ==
    /\ phase[j] = "idle"
    /\ \E m \in Requests[j] : mode' = [mode EXCEPT ![j] = m]
    /\ text' = [text EXCEPT ![j] = cache]
    /\ Goto(j, IF cache = None THEN "parsing" ELSE "parsed")
    /\ UNCHANGED <<world, cache, collection, stored, wrote, hash, answer, task, halt>>

\* The parse, which is stored if the cache is enabled.
Parse(j) ==
    /\ phase[j] = "parsing"
    /\ \/ /\ text' = [text EXCEPT ![j] = source]
          /\ cache' \in {cache, source}
          /\ Goto(j, "parsed")
       \/ Goto(j, "failed") /\ UNCHANGED <<text, cache>>
    /\ UNCHANGED <<world, collection, stored, wrote, mode, hash, answer, task, halt>>

-----------------------------------------------------------------------------
(* The coordinator, up to its first batch *)

\* A local file is fingerprinted by the bytes it has now, anything else by the
\* text that was parsed.
Fingerprint(j) ==
    /\ phase[j] = "parsed"
    /\ IF Batches(j) = {}
       THEN Goto(j, "empty") /\ UNCHANGED hash
       ELSE IF mode[j] = "full"
       THEN Goto(j, "chunking") /\ UNCHANGED hash
       ELSE /\ hash' = [hash EXCEPT ![j] = IF IsFile THEN source ELSE text[j]]
            /\ Goto(j, "lookup")
    /\ UNCHANGED <<world, cache, collection, stored, wrote, mode, text, answer, task, halt>>

Answer(j, a) == answer' = [answer EXCEPT ![j] = a]

\* Mutant of Lookup: an unanswered question is a "no" in every mode.
LookupFailsOpen(j) ==
    /\ phase[j] = "lookup"
    /\ \/ collection /\ Has(hash[j]) /\ Answer(j, "present") /\ Goto(j, "skipped")
       \/ collection /\ ~Has(hash[j]) /\ Answer(j, "absent") /\ Goto(j, "chunking")
       \/ Answer(j, "failed") /\ Goto(j, "chunking")
    /\ UNCHANGED <<world, cache, collection, stored, wrote, mode, text, hash, task, halt>>

\* Any stored record with the fingerprint is a yes.  The question may fail, and
\* always does when there is no collection; a backend without metadata filters
\* cannot be asked.
Lookup(j) ==
    /\ phase[j] = "lookup"
    /\ \/ collection /\ Has(hash[j]) /\ Answer(j, "present") /\ Goto(j, "skipped")
       \/ collection /\ ~Has(hash[j]) /\ Answer(j, "absent") /\ Goto(j, "chunking")
       \/ /\ Answer(j, "failed")
          /\ Goto(j, IF mode[j] = "lenient" THEN "chunking" ELSE "refused")
    /\ UNCHANGED <<world, cache, collection, stored, wrote, mode, text, hash, task, halt>>

\* The chunker finds something to store, or nothing, or fails.
Chunk(j) ==
    /\ phase[j] = "chunking"
    /\ \/ Goto(j, "first") /\ Set(j, 1, "encoding")
       \/ \E p \in {"empty", "failed"} : Goto(j, p) /\ UNCHANGED task
    /\ UNCHANGED <<world, cache, collection, stored, wrote, mode, text, hash, answer,
                   halt>>

EncodeFirst(j) ==
    /\ phase[j] = "first" /\ task[j][1] = "encoding"
    /\ \/ Set(j, 1, "encoded") /\ UNCHANGED phase
       \/ Set(j, 1, "failed") /\ Goto(j, "failed")
    /\ UNCHANGED <<world, cache, collection, stored, wrote, mode, text, hash, answer,
                   halt>>

Ensure(j) ==
    /\ phase[j] = "first" /\ task[j][1] = "encoded"
    /\ \/ /\ collection' = TRUE /\ Wrote(j)
          /\ Set(j, 1, "writing") /\ UNCHANGED phase
       \/ /\ Set(j, 1, "failed") /\ Goto(j, "failed")
          /\ UNCHANGED <<collection, wrote>>
    /\ UNCHANGED <<world, cache, stored, mode, text, hash, answer, halt>>

\* All accepted; or not, and then the records may be there all the same.
WriteFirst(j) ==
    /\ phase[j] = "first" /\ task[j][1] = "writing"
    /\ \/ /\ Stored(j, 1)
          /\ IF Len(Plan[text[j]]) = 1
             THEN Goto(j, "created") /\ Set(j, 1, "stored")
             ELSE /\ Goto(j, "fanout")
                  /\ task' = [task EXCEPT ![j] = [b \in Slots |->
                         IF b = 1 THEN "stored"
                         ELSE IF b \in Batches(j) THEN "waiting" ELSE "none"]]
       \/ /\ Stored(j, 1) \/ UNCHANGED <<stored, wrote>>
          /\ Set(j, 1, "failed")
          /\ Goto(j, "failed")
    /\ UNCHANGED <<world, cache, collection, mode, text, hash, answer, halt>>

-----------------------------------------------------------------------------
(* The other batches: one asyncio task each *)

running(j) == phase[j] = "fanout" /\ halt[j] = "no"

\* Mutant of Start: no semaphore.
StartUnbounded(j, b) ==
    /\ running(j) /\ b # 1 /\ task[j][b] = "waiting"
    /\ Set(j, b, "encoding")
    /\ UNCHANGED <<world, cache, collection, stored, wrote, phase, mode, text, hash,
                   answer, halt>>

\* Mutant of Start: a task keeps its permit when it is done.
StartKeepingPermits(j, b) ==
    /\ running(j) /\ b # 1 /\ task[j][b] = "waiting"
    /\ Cardinality({c \in Batches(j) \ {1} : task[j][c] # "waiting"}) < MaxInFlight
    /\ Set(j, b, "encoding")
    /\ UNCHANGED <<world, cache, collection, stored, wrote, phase, mode, text, hash,
                   answer, halt>>

\* The semaphore wakes its waiters in order.
Start(j, b) ==
    /\ running(j) /\ b # 1 /\ task[j][b] = "waiting"
    /\ \A c \in Slots : c < b => task[j][c] # "waiting"
    /\ Cardinality(Flying(j)) < MaxInFlight
    /\ Set(j, b, "encoding")
    /\ UNCHANGED <<world, cache, collection, stored, wrote, phase, mode, text, hash,
                   answer, halt>>

Encode(j, b) ==
    /\ running(j) /\ b # 1 /\ task[j][b] = "encoding"
    /\ \E s \in {"writing", "failed"} : Set(j, b, s)
    /\ UNCHANGED <<world, cache, collection, stored, wrote, phase, mode, text, hash,
                   answer, halt>>

\* Mutant of Write: a write that was not confirmed counts as one that was.
WriteUnchecked(j, b) ==
    /\ running(j) /\ b # 1 /\ task[j][b] = "writing"
    /\ Stored(j, b) \/ UNCHANGED <<stored, wrote>>
    /\ Set(j, b, "stored")
    /\ UNCHANGED <<world, cache, collection, phase, mode, text, hash, answer, halt>>

Write(j, b) ==
    /\ running(j) /\ b # 1 /\ task[j][b] = "writing"
    /\ \/ Stored(j, b) /\ Set(j, b, "stored")
       \/ (Stored(j, b) \/ UNCHANGED <<stored, wrote>>) /\ Set(j, b, "failed")
    /\ UNCHANGED <<world, cache, collection, phase, mode, text, hash, answer, halt>>

\* gather raises the first failure, which the event loop delivers later on;
\* until then the other tasks go on.  Then every task is cancelled.
Raise(j) ==
    /\ running(j)
    /\ \E b \in Slots : task[j][b] = "failed"
    /\ halt' = [halt EXCEPT ![j] = "failure"]
    /\ UNCHANGED <<world, cache, collection, stored, wrote, phase, mode, text, hash,
                   answer, task>>

\* A cancelled task ends.  A write it was waiting for is orphaned.
Drop(j, b) ==
    /\ phase[j] = "fanout" /\ halt[j] # "no" /\ task[j][b] \in Pending
    /\ Set(j, b, IF task[j][b] = "writing" THEN "orphan" ELSE "failed")
    /\ UNCHANGED <<world, cache, collection, stored, wrote, phase, mode, text, hash,
                   answer, halt>>

\* Mutant of Conclude: cancels its tasks and does not wait for them.
ConcludeUndrained(j) ==
    /\ phase[j] = "fanout"
    /\ halt[j] # "no" \/ \A b \in Slots : task[j][b] \in Settled
    /\ Goto(j, CASE halt[j] = "no" -> "created"
                 [] halt[j] = "failure" -> "failed"
                 [] halt[j] = "caller" -> "cancelled")
    /\ UNCHANGED <<world, cache, collection, stored, wrote, mode, text, hash, answer,
                   task, halt>>

\* Every task has ended: the result, or what cancelled them.
Conclude(j) ==
    /\ phase[j] = "fanout"
    /\ \A b \in Slots : task[j][b] \in Settled
    /\ halt[j] = "no" => \A b \in Slots : task[j][b] # "failed"
    /\ Goto(j, CASE halt[j] = "no" -> "created"
                 [] halt[j] = "failure" -> "failed"
                 [] halt[j] = "caller" -> "cancelled")
    /\ UNCHANGED <<world, cache, collection, stored, wrote, mode, text, hash, answer,
                   task, halt>>

\* The caller cancels.  The first batch is not a task: a write it is waiting for
\* is orphaned at once.  The others are cancelled and waited for.
Cancel(j) ==
    /\ phase[j] \notin Ended \cup {"idle"}
    /\ IF phase[j] = "fanout"
       THEN /\ halt[j] # "caller"
            /\ halt' = [halt EXCEPT ![j] = "caller"]
            /\ UNCHANGED <<phase, task>>
       ELSE /\ Goto(j, "cancelled")
            /\ Set(j, 1, CASE task[j][1] = "writing" -> "orphan"
                           [] task[j][1] = "none" -> "none"
                           [] OTHER -> "failed")
            /\ UNCHANGED halt
    /\ UNCHANGED <<world, cache, collection, stored, wrote, mode, text, hash, answer>>

\* A thread or server carries out a write nobody awaits, or does not.
Orphan(j, b) ==
    /\ task[j][b] = "orphan"
    /\ Stored(j, b) \/ UNCHANGED <<stored, wrote>>
    /\ Set(j, b, "failed")
    /\ UNCHANGED <<world, cache, collection, phase, mode, text, hash, answer, halt>>

-----------------------------------------------------------------------------
Coordinator(j) ==
    \/ Parse(j) \/ Fingerprint(j) \/ Lookup(j) \/ Chunk(j)
    \/ EncodeFirst(j) \/ Ensure(j) \/ WriteFirst(j) \/ Raise(j) \/ Conclude(j)
Task(j, b) == Start(j, b) \/ Encode(j, b) \/ Write(j, b) \/ Drop(j, b)
Work(j)    == Coordinator(j) \/ \E b \in Slots : Task(j, b)

Next ==
    \/ Edit \/ Expire
    \/ \E j \in Jobs :
         \/ Begin(j) \/ Cancel(j) \/ Work(j)
         \/ \E b \in Slots : Orphan(j, b)

Spec == Init /\ [][Next]_vars

\* No call of the providers hangs: as long as there is something a job or one of
\* its tasks can do next, it is done.
Fairness == \A j \in Jobs : WF_vars(Work(j))
FairSpec == Spec /\ Fairness

-----------------------------------------------------------------------------
(* Properties *)

\* A task exists only while the coordinator is in charge of it, and the result
\* "created" stands for batches that were confirmed, each and every one.
Correspondence ==
    \A j \in Jobs :
        /\ phase[j] \in Before => \A b \in Slots : task[j][b] = "none"
        /\ phase[j] = "first" => \A b \in Slots \ {1} : task[j][b] = "none"
        /\ phase[j] = "fanout" => task[j][1] = "stored"
        /\ phase[j] \in Ended => \A b \in Slots : task[j][b] \in Settled
        /\ phase[j] = "created" => \A b \in Batches(j) : task[j][b] = "stored"

TypeOK ==
    /\ source \in Versions /\ edits \in 0 .. MaxEdits
    /\ cache \in Versions \cup {None} /\ collection \in BOOLEAN
    /\ stored \in [Chunks -> Versions \cup {NotStored, Untagged}]
    /\ phase \in [Jobs -> Ended \cup Before \cup {"first", "fanout"}]
    /\ mode \in [Jobs -> Modes]
    /\ text \in [Jobs -> Versions \cup {None}]
    /\ hash \in [Jobs -> Versions \cup {None}]
    /\ answer \in [Jobs -> {"none", "absent", "present", "failed"}]
    /\ wrote \in [Jobs -> BOOLEAN]
    /\ task \in [Jobs -> [Slots -> Settled \cup Pending]]
    /\ halt \in [Jobs -> {"no", "failure", "caller"}]

\* No task of a job that has ended is still running: failures and cancellation
\* drain before they propagate (coordinator.py:206).
IngestInv == TypeOK /\ Correspondence

\* Never more batches of a job in flight than its options allow (coordinator.py:200).
InFlightBounded ==
    \A j \in Jobs : Cardinality(Flying(j)) <= MaxInFlight

\* A result that reports chunks written means that all of the text the job parsed
\* is in the store, whatever other jobs and orphaned writes did meanwhile
\* (coordinator.py:245: no partial write is a normal result).
ReportedMeansStored ==
    \A j \in Jobs : phase[j] = "created" =>
        \A b \in Batches(j) : stored[Plan[text[j]][b]] # NotStored

\* A fail-closed job that changes the store in any way -- creates the collection,
\* writes a batch, leaves a write behind that lands after it was cancelled -- was
\* told before that the store holds nothing of its fingerprint, so a lookup that
\* failed has no effect at all (incremental.py:92).  And whichever way a lookup
\* came out, a job reported as skipped, refused or empty has changed nothing and
\* has no write under way that still could.
FailClosed ==
    \A j \in Jobs :
        /\ mode[j] = "closed" /\ wrote[j] => answer[j] = "absent"
        /\ phase[j] \in {"skipped", "refused", "empty"} =>
               ~wrote[j] /\ \A b \in Slots : task[j][b] # "orphan"

\* Every job that began ends: no order of failures and cancellations leaves the
\* coordinator draining for ever or a task waiting for a permit.
JobsEnd ==
    \A j \in Jobs : phase[j] \notin Ended \cup {"idle"} ~> phase[j] \in Ended

\* incremental.py:25 "Return whether a complete prior write has this fingerprint":
\* what is skipped is there already, all of it.  Violated: contains is satisfied
\* by one record, and a failed or cancelled job leaves some.
SkippedMeansComplete ==
    [][\A j \in Jobs :
         phase[j] = "lookup" /\ phase'[j] = "skipped" =>
            \A b \in DOMAIN Plan[hash[j]] : stored[Plan[hash[j]][b]] # NotStored]_vars

\* design.md:338 "The default incremental-ingestion identity is a digest of
\* resolved content": a record carries the fingerprint of the text it was cut
\* from.  Violated: the fingerprint is of the bytes the file has when the job
\* gets that far, the text of the bytes it had when it was parsed or cached.
FingerprintIsOfText ==
    \A j \in Jobs : hash[j] # None => hash[j] = text[j]
=============================================================================
