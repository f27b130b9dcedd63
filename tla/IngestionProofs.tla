-------------------------- MODULE IngestionProofs --------------------------
(***************************************************************************)
(* Theorems about Ingestion, for every set of jobs, versions and batches.  *)
(*                                                                         *)
(* What the runs check follows from JobInv, which says of each job what    *)
(* its phase knows about its text, its fingerprint and its batches.  A     *)
(* step of one job changes nothing that JobInv says of another, except     *)
(* that records appear in the store; records never disappear.              *)
(***************************************************************************)
EXTENDS Ingestion, FiniteSetTheorems, TLAPS

\* A batch that has a task is a batch of the text the job parsed, and a write of
\* it has a fingerprint to carry.
Identified(j) ==
    /\ text[j] \in Versions
    /\ mode[j] # "full" => hash[j] \in Versions

JobInv(j) ==
    /\ phase[j] \in {"parsed", "lookup", "chunking"} => text[j] \in Versions
    /\ phase[j] \in {"lookup", "chunking"} => Identified(j) /\ 1 \in Batches(j)
    /\ phase[j] \in Before => \A b \in Slots : task[j][b] = "none"
    /\ phase[j] \in Before \cup {"first"} => halt[j] = "no"
    /\ phase[j] = "first" =>
         /\ task[j][1] \in {"encoding", "encoded", "writing"}
         /\ \A b \in Slots \ {1} : task[j][b] = "none"
    /\ phase[j] = "fanout" =>
         /\ task[j][1] = "stored"
         /\ \A b \in Batches(j) : task[j][b] # "none"
         /\ halt[j] = "no" => \A b \in Slots : task[j][b] # "orphan"
    /\ phase[j] \in Ended => \A b \in Slots : task[j][b] \in Settled
    /\ phase[j] = "created" =>
         text[j] \in Versions /\ \A b \in Batches(j) : task[j][b] = "stored"
    /\ \A b \in Slots : task[j][b] # "none" => Identified(j) /\ b \in Batches(j)
    /\ \A b \in Slots :
         task[j][b] = "stored" => stored[Plan[text[j]][b]] # NotStored

IInv == TypeOK /\ \A j \in Jobs : JobInv(j)

\* Records never disappear.
Grows == \A c \in Chunks : stored[c] # NotStored => stored'[c] # NotStored

\* What JobInv mentions of a job is as it was.
Kept(j) ==
    /\ phase'[j] = phase[j] /\ mode'[j] = mode[j] /\ text'[j] = text[j]
    /\ hash'[j] = hash[j] /\ task'[j] = task[j] /\ halt'[j] = halt[j]
    /\ answer'[j] = answer[j] /\ wrote'[j] = wrote[j]

-----------------------------------------------------------------------------
\* Plans are made of chunks, and their batches are numbered by Slots.
LEMMA PlanFacts ==
    ASSUME NEW v \in Versions
    PROVE  /\ DOMAIN Plan[v] \subseteq Slots
           /\ Len(Plan[v]) \in Nat
           /\ DOMAIN Plan[v] = 1 .. Len(Plan[v])
           /\ \A b \in DOMAIN Plan[v] : Plan[v][b] \in Chunks
<1>1. Plan[v] \in Seq(Chunks) /\ Len(Plan[v]) <= MaxBatches /\ MaxBatches \in Nat
  BY IngestionAssumption
<1> QED BY <1>1 DEF Slots

\* A plan may have a first batch.
LEMMA SlotOne == 1 \in Slots
BY IngestionAssumption DEF Slots

\* Before the first request nothing is stored and no job has begun.
LEMMA InitIInv == Init => IInv
BY IngestionAssumption DEF Init, IInv, TypeOK, JobInv, Identified, Ended, Before, Modes,
   Settled, Pending, Active, NotStored, Untagged

\* A job keeps its invariant when another job makes a step.
LEMMA Frame ==
    ASSUME TypeOK, NEW j \in Jobs, JobInv(j), Kept(j), Grows
    PROVE  JobInv(j)'
<1>1. Identified(j)' <=> Identified(j)
  BY DEF Kept, Identified
<1>2. Batches(j)' = Batches(j)
  BY DEF Kept, Batches
<1>3. ASSUME NEW b \in Slots, task'[j][b] = "stored"
      PROVE  stored'[Plan[text'[j]][b]] # NotStored
  <2>1. task[j][b] = "stored" /\ task[j][b] # "none" /\ text'[j] = text[j]
    BY <1>3 DEF Kept
  <2>2. text[j] \in Versions /\ b \in DOMAIN Plan[text[j]]
    BY <2>1 DEF JobInv, Identified, Batches
  <2>3. Plan[text[j]][b] \in Chunks
    BY <2>2, PlanFacts
  <2> QED BY <2>1, <2>3 DEF JobInv, Grows
<1> QED BY <1>1, <1>2, <1>3 DEF JobInv, Kept

\* Moving a job changes where that job is and nothing else.
LEMMA GotoFacts ==
    ASSUME TypeOK, NEW j \in Jobs, NEW p, Goto(j, p)
    PROVE  phase'[j] = p /\ \A i \in Jobs \ {j} : phase'[i] = phase[i]
BY DEF TypeOK, Goto

\* Setting the state of one batch changes that and nothing else.
LEMMA SetFacts ==
    ASSUME TypeOK, NEW j \in Jobs, NEW b \in Slots, NEW s, Set(j, b, s)
    PROVE  /\ task'[j][b] = s
           /\ \A c \in Slots \ {b} : task'[j][c] = task[j][c]
           /\ \A i \in Jobs \ {j} : task'[i] = task[i]
BY DEF TypeOK, Set

\* A job may end before it has any batch.
LEMMA EndEarly ==
    ASSUME NEW j \in Jobs, JobInv(j), UNCHANGED <<stored, mode, text, hash, halt>>,
           \A b \in Slots : task[j][b] = "none" /\ task'[j][b] = "none",
           phase'[j] \in Ended \ {"created"}
    PROVE  JobInv(j)'
BY DEF JobInv, Identified, Batches, Ended, Before, Settled

\* A request that is served by the cache has a text to go on with.
LEMMA BeginStep ==
    ASSUME TypeOK, NEW j \in Jobs, JobInv(j), Begin(j)
    PROVE  JobInv(j)'
<1>1. /\ phase[j] = "idle" /\ phase'[j] \in {"parsing", "parsed"}
      /\ phase'[j] = "parsed" => text'[j] \in Versions
  BY GotoFacts DEF Begin, TypeOK
<1>2. UNCHANGED <<stored, task, halt>>
  BY DEF Begin
<1> QED BY <1>1, <1>2 DEF JobInv, Before, Ended

\* A parse yields a text or ends the job.
LEMMA ParseStep ==
    ASSUME TypeOK, NEW j \in Jobs, JobInv(j), Parse(j)
    PROVE  JobInv(j)'
<1>1. /\ phase[j] = "parsing"
      /\ \/ phase'[j] = "parsed" /\ text'[j] \in Versions
         \/ phase'[j] = "failed"
  BY GotoFacts DEF Parse, TypeOK
<1>2. UNCHANGED <<stored, task, halt>>
  BY DEF Parse
<1> QED BY <1>1, <1>2 DEF JobInv, Before, Ended, Settled

\* A job goes on from here with a fingerprint and something to store.
LEMMA FingerprintStep ==
    ASSUME TypeOK, NEW j \in Jobs, JobInv(j), Fingerprint(j)
    PROVE  JobInv(j)'
<1>1. phase[j] = "parsed" /\ text[j] \in Versions /\ \A b \in Slots : task[j][b] = "none"
  BY DEF Fingerprint, JobInv, Before
<1>2. UNCHANGED <<stored, mode, text, task, halt>>
  BY DEF Fingerprint
<1>3. CASE phase'[j] = "empty"
  BY <1>1, <1>2, <1>3 DEF JobInv, Before, Ended, Settled
<1>4. CASE /\ phase'[j] \in {"lookup", "chunking"} /\ Batches(j) # {}
           /\ mode[j] # "full" => hash'[j] \in Versions
  <2>1. 1 \in Batches(j)
    BY <1>1, <1>4, PlanFacts DEF Batches
  <2> QED BY <1>1, <1>2, <1>4, <2>1 DEF JobInv, Identified, Batches, Before, Ended
<1>5. \/ phase'[j] = "empty"
      \/ /\ phase'[j] \in {"lookup", "chunking"} /\ Batches(j) # {}
         /\ mode[j] # "full" => hash'[j] \in Versions
  BY <1>1, GotoFacts DEF Fingerprint, TypeOK
<1> QED BY <1>3, <1>4, <1>5

\* The answer to the lookup ends the job or sends it on as it is.
LEMMA LookupStep ==
    ASSUME TypeOK, NEW j \in Jobs, JobInv(j), Lookup(j)
    PROVE  JobInv(j)'
<1>1. phase[j] = "lookup" /\ phase'[j] \in {"skipped", "refused", "chunking"}
  BY GotoFacts DEF Lookup
<1>2. UNCHANGED <<stored, mode, text, hash, task, halt>>
  BY DEF Lookup
<1>3. \A b \in Slots : task[j][b] = "none"
  BY <1>1 DEF JobInv, Before
<1>4. CASE phase'[j] \in {"skipped", "refused"}
  BY <1>2, <1>3, <1>4, EndEarly DEF Ended
<1>5. CASE phase'[j] = "chunking"
  BY <1>1, <1>2, <1>5 DEF JobInv, Identified, Batches, Before, Ended
<1> QED BY <1>1, <1>4, <1>5

\* Chunking hands the first batch to the coordinator, or ends the job.
LEMMA ChunkStep ==
    ASSUME TypeOK, NEW j \in Jobs, JobInv(j), Chunk(j)
    PROVE  JobInv(j)'
<1>1. /\ phase[j] = "chunking" /\ halt[j] = "no" /\ Identified(j) /\ 1 \in Batches(j)
      /\ \A b \in Slots : task[j][b] = "none"
  BY DEF Chunk, JobInv, Before
<1>2. UNCHANGED <<stored, mode, text, hash, halt>>
  BY DEF Chunk
<1>3. CASE Goto(j, "first") /\ Set(j, 1, "encoding")
  <2>1. /\ phase'[j] = "first" /\ task'[j][1] = "encoding"
        /\ \A b \in Slots \ {1} : task'[j][b] = "none"
    BY <1>1, <1>3, GotoFacts, SetFacts, SlotOne
  <2> QED BY <1>1, <1>2, <2>1 DEF JobInv, Identified, Batches, Before, Ended
<1>4. CASE \E p \in {"empty", "failed"} : Goto(j, p) /\ UNCHANGED task
  <2>1. phase'[j] \in {"empty", "failed"} /\ UNCHANGED task
    BY <1>4, GotoFacts
  <2> QED BY <1>1, <1>2, <2>1, EndEarly DEF Ended
<1> QED BY <1>3, <1>4 DEF Chunk

\* A write that takes effect adds a record, or replaces one.
LEMMA StoredFacts ==
    ASSUME TypeOK, NEW j \in Jobs, JobInv(j), NEW b \in Slots, task[j][b] # "none",
           Stored(j, b)
    PROVE  /\ Grows
           /\ stored'[Plan[text[j]][b]] # NotStored
           /\ stored' \in [Chunks -> Versions \cup {NotStored, Untagged}]
<1>1. Identified(j) /\ b \in Batches(j)
  BY DEF JobInv
<1>2. Plan[text[j]][b] \in Chunks
  BY <1>1, PlanFacts DEF Identified, Batches
<1>3. Tag(j) \in Versions \cup {Untagged} /\ Tag(j) # NotStored
  BY <1>1, IngestionAssumption DEF Identified, Tag, Untagged, NotStored
<1> QED BY <1>2, <1>3 DEF TypeOK, Stored, Grows

\* A step that does not touch the store loses no record.
LEMMA UnchangedGrows == UNCHANGED stored => Grows
BY DEF Grows

\* One batch moves on and is not stored yet.
LEMMA BatchMoves ==
    ASSUME TypeOK, NEW j \in Jobs, JobInv(j), NEW b \in Slots, NEW s, Set(j, b, s),
           UNCHANGED <<mode, text, hash, halt>>, phase'[j] = phase[j], Grows,
           task[j][b] \notin {"none", "stored"}, s \notin {"none", "stored"},
           phase[j] = "first" => s \in {"encoding", "encoded", "writing"},
           s = "orphan" => halt[j] # "no" \/ phase[j] # "fanout",
           phase[j] \in Ended => s \in Settled
    PROVE  JobInv(j)'
<1>1. /\ task'[j][b] = s
      /\ \A c \in Slots \ {b} : task'[j][c] = task[j][c]
  BY SetFacts
<1>2. Identified(j) /\ Identified(j)' /\ Batches(j)' = Batches(j) /\ b \in Batches(j)
  BY DEF JobInv, Identified, Batches
<1>3. /\ phase[j] # "created" /\ phase[j] \notin Before
      /\ phase[j] = "first" => b = 1
      /\ phase[j] = "fanout" => b # 1
  BY <1>2 DEF JobInv
<1>4. Batches(j) \subseteq Slots
  BY <1>2, PlanFacts DEF Identified, Batches
<1>5. ASSUME NEW c \in Slots, task'[j][c] = "stored"
      PROVE  stored'[Plan[text'[j]][c]] # NotStored
  <2>1. c # b /\ task[j][c] = "stored"
    BY <1>1, <1>5
  <2>2. c \in Batches(j) /\ stored[Plan[text[j]][c]] # NotStored
    BY <2>1 DEF JobInv
  <2>3. Plan[text[j]][c] \in Chunks
    BY <1>2, <2>2, PlanFacts DEF Identified, Batches
  <2> QED BY <2>2, <2>3 DEF Grows
<1>6. \A c \in Slots : task'[j][c] # "none" => c \in Batches(j)
  BY <1>1, <1>2 DEF JobInv
<1>7. phase[j] = "fanout" =>
        /\ task'[j][1] = "stored"
        /\ \A c \in Batches(j) : task'[j][c] # "none"
        /\ halt[j] = "no" => \A c \in Slots : task'[j][c] # "orphan"
  BY <1>1, <1>3, <1>4, SlotOne DEF JobInv
<1>8. phase[j] \in Ended => \A c \in Slots : task'[j][c] \in Settled
  BY <1>1 DEF JobInv
<1>9. phase[j] = "first" =>
        /\ halt'[j] = "no" /\ task'[j][1] = s
        /\ \A c \in Slots \ {1} : task'[j][c] = "none"
  BY <1>1, <1>3 DEF JobInv
<1>10. phase[j] \in {"first", "fanout"} \cup Ended
  BY <1>3 DEF TypeOK
<1>11. text' = text /\ halt' = halt
  OBVIOUS
<1>12. CASE phase[j] = "first"
  BY <1>2, <1>5, <1>6, <1>9, <1>11, <1>12 DEF JobInv, Ended, Before
<1>13. CASE phase[j] = "fanout"
  <2>1. /\ phase'[j] = "fanout" /\ task'[j][1] = "stored"
        /\ halt'[j] = "no" => \A c \in Slots : task'[j][c] # "orphan"
        /\ \A c \in Batches(j)' : task'[j][c] # "none"
    BY <1>2, <1>7, <1>11, <1>13
  <2>2. \A c \in Slots : task'[j][c] # "none" => Identified(j)' /\ c \in Batches(j)'
    BY <1>2, <1>6
  <2> QED BY <1>5, <2>1, <2>2 DEF JobInv, Ended, Before
<1>14. CASE phase[j] \in Ended
  BY <1>2, <1>3, <1>5, <1>6, <1>8, <1>11, <1>14 DEF JobInv, Ended, Before
<1> QED BY <1>10, <1>12, <1>13, <1>14

\* A job ends while its first batch is in hand, which fails or is orphaned.
LEMMA FirstGivenUp ==
    ASSUME TypeOK, NEW j \in Jobs, JobInv(j), phase[j] = "first",
           phase'[j] \in {"failed", "cancelled"},
           NEW s \in {"failed", "orphan"}, Set(j, 1, s),
           UNCHANGED <<mode, text, hash, halt>>
    PROVE  JobInv(j)'
<1>1. /\ task'[j][1] = s
      /\ \A b \in Slots \ {1} : task'[j][b] = "none"
  BY SetFacts, SlotOne DEF JobInv
<1>2. Identified(j)' /\ 1 \in Batches(j)'
  BY SlotOne DEF JobInv, Identified, Batches
<1> QED BY <1>1, <1>2 DEF JobInv, Ended, Before, Settled

\* The first batch is encoded, or the job fails with it.
LEMMA EncodeFirstStep ==
    ASSUME TypeOK, NEW j \in Jobs, JobInv(j), EncodeFirst(j)
    PROVE  JobInv(j)'
<1>1. phase[j] = "first" /\ task[j][1] = "encoding" /\ UNCHANGED <<stored, mode, text, hash, halt>>
  BY DEF EncodeFirst
<1>2. CASE Set(j, 1, "encoded") /\ UNCHANGED phase
  BY <1>1, <1>2, SlotOne, BatchMoves, UnchangedGrows DEF Ended
<1>3. CASE Set(j, 1, "failed") /\ Goto(j, "failed")
  BY <1>1, <1>3, GotoFacts, FirstGivenUp
<1> QED BY <1>2, <1>3 DEF EncodeFirst

\* The collection is there for the first batch, or the job fails.
LEMMA EnsureStep ==
    ASSUME TypeOK, NEW j \in Jobs, JobInv(j), Ensure(j)
    PROVE  JobInv(j)'
<1>1. phase[j] = "first" /\ task[j][1] = "encoded" /\ UNCHANGED <<stored, mode, text, hash, halt>>
  BY DEF Ensure
<1>2. CASE Set(j, 1, "writing") /\ UNCHANGED phase
  BY <1>1, <1>2, SlotOne, BatchMoves, UnchangedGrows DEF Ended
<1>3. CASE Set(j, 1, "failed") /\ Goto(j, "failed")
  BY <1>1, <1>3, GotoFacts, FirstGivenUp
<1> QED BY <1>2, <1>3 DEF Ensure

\* Nothing but a confirmed first batch makes a job fan out or report.
LEMMA WriteFirstStep ==
    ASSUME TypeOK, NEW j \in Jobs, JobInv(j), WriteFirst(j)
    PROVE  JobInv(j)'
<1>1. /\ phase[j] = "first" /\ task[j][1] = "writing" /\ halt[j] = "no"
      /\ \A b \in Slots \ {1} : task[j][b] = "none"
      /\ Identified(j) /\ 1 \in Batches(j)
      /\ UNCHANGED <<mode, text, hash, halt>>
  BY SlotOne DEF WriteFirst, JobInv
<1>2. Identified(j)' /\ Batches(j)' = Batches(j) /\ Batches(j) = 1 .. Len(Plan[text[j]])
  BY <1>1, PlanFacts DEF Identified, Batches
<1>3. CASE Set(j, 1, "failed") /\ Goto(j, "failed")
  BY <1>1, <1>3, GotoFacts, FirstGivenUp
<1>4. CASE Stored(j, 1) /\ Len(Plan[text[j]]) = 1 /\ Goto(j, "created") /\ Set(j, 1, "stored")
  <2>1. stored'[Plan[text'[j]][1]] # NotStored
    BY <1>1, <1>4, SlotOne, StoredFacts
  <2>2. /\ phase'[j] = "created" /\ task'[j][1] = "stored"
        /\ \A b \in Slots \ {1} : task'[j][b] = "none"
    BY <1>1, <1>4, SlotOne, GotoFacts, SetFacts
  <2>3. Batches(j) = {1}
    BY <1>2, <1>4
  <2> QED BY <1>1, <1>2, <2>1, <2>2, <2>3 DEF JobInv, Identified, Ended, Before, Settled
<1>5. CASE /\ Stored(j, 1) /\ Goto(j, "fanout")
           /\ task' = [task EXCEPT ![j] = [b \in Slots |->
                         IF b = 1 THEN "stored"
                         ELSE IF b \in Batches(j) THEN "waiting" ELSE "none"]]
  <2>1. stored'[Plan[text'[j]][1]] # NotStored
    BY <1>1, <1>5, SlotOne, StoredFacts
  <2>2. phase'[j] = "fanout"
    BY <1>5, GotoFacts
  <2>3. \A b \in Slots : task'[j][b] = IF b = 1 THEN "stored"
                         ELSE IF b \in Batches(j) THEN "waiting" ELSE "none"
    BY <1>5 DEF TypeOK
  <2>4. Batches(j) \subseteq Slots
    BY <1>1, PlanFacts DEF Identified, Batches
  <2> QED BY <1>1, <1>2, <2>1, <2>2, <2>3, <2>4, SlotOne DEF JobInv, Identified, Ended, Before
<1> QED BY <1>3, <1>4, <1>5 DEF WriteFirst

\* A batch that gets a permit.
LEMMA StartStep ==
    ASSUME TypeOK, NEW j \in Jobs, JobInv(j), NEW b \in Slots, Start(j, b)
    PROVE  JobInv(j)'
<1>1. /\ phase[j] = "fanout" /\ task[j][b] = "waiting" /\ Set(j, b, "encoding")
      /\ UNCHANGED <<stored, phase, mode, text, hash, halt>>
  BY DEF Start, running
<1> QED BY <1>1, BatchMoves, UnchangedGrows DEF Ended

\* A batch of the fan-out is encoded or fails.
LEMMA EncodeStep ==
    ASSUME TypeOK, NEW j \in Jobs, JobInv(j), NEW b \in Slots, Encode(j, b)
    PROVE  JobInv(j)'
<1>1. /\ phase[j] = "fanout" /\ task[j][b] = "encoding"
      /\ UNCHANGED <<stored, phase, mode, text, hash, halt>>
  BY DEF Encode, running
<1>2. PICK s \in {"writing", "failed"} : Set(j, b, s)
  BY DEF Encode
<1> QED BY <1>1, <1>2, BatchMoves, UnchangedGrows DEF Ended

\* A write fails, here or after nobody awaits it any more.
LEMMA WriteFails ==
    ASSUME TypeOK, NEW j \in Jobs, JobInv(j), NEW b \in Slots, phase[j] # "first",
           task[j][b] \in {"writing", "orphan"}, Set(j, b, "failed"),
           Stored(j, b) \/ UNCHANGED <<stored, wrote>>,
           UNCHANGED <<phase, mode, text, hash, halt>>
    PROVE  JobInv(j)'
<1>1. Grows
  BY StoredFacts, UnchangedGrows
<1>2. "failed" \in Settled
  BY DEF Settled
<1> QED BY <1>1, <1>2, BatchMoves

\* A confirmed batch is in the store; one that is not confirmed failed.
LEMMA WriteStep ==
    ASSUME TypeOK, NEW j \in Jobs, JobInv(j), NEW b \in Slots, Write(j, b)
    PROVE  JobInv(j)'
<1>1. /\ phase[j] = "fanout" /\ halt[j] = "no" /\ b # 1 /\ task[j][b] = "writing"
      /\ UNCHANGED <<phase, mode, text, hash, halt>>
  BY DEF Write, running
<1>2. CASE (Stored(j, b) \/ UNCHANGED <<stored, wrote>>) /\ Set(j, b, "failed")
  BY <1>1, <1>2, WriteFails
<1>3. CASE Stored(j, b) /\ Set(j, b, "stored")
  <2>1. Grows /\ stored'[Plan[text[j]][b]] # NotStored
    BY <1>1, <1>3, StoredFacts
  <2>2. /\ task'[j][b] = "stored"
        /\ \A c \in Slots \ {b} : task'[j][c] = task[j][c]
    BY <1>3, SetFacts
  <2>3. Identified(j) /\ Identified(j)' /\ Batches(j)' = Batches(j) /\ b \in Batches(j)
    BY <1>1 DEF JobInv, Identified, Batches
  <2>4. Batches(j) \subseteq Slots
    BY <2>3, PlanFacts DEF Identified, Batches
  <2>5. ASSUME NEW c \in Slots, task'[j][c] = "stored"
        PROVE  stored'[Plan[text'[j]][c]] # NotStored
    <3>1. CASE c = b
      BY <1>1, <2>1, <3>1
    <3>2. CASE c # b
      <4>1. c \in Batches(j) /\ stored[Plan[text[j]][c]] # NotStored
        BY <2>2, <2>5, <3>2 DEF JobInv
      <4>2. Plan[text[j]][c] \in Chunks
        BY <2>3, <4>1, PlanFacts DEF Identified, Batches
      <4> QED BY <1>1, <2>1, <4>1, <4>2 DEF Grows
    <3> QED BY <3>1, <3>2
  <2>6. /\ phase'[j] = "fanout" /\ task'[j][1] = "stored"
        /\ \A c \in Batches(j)' : task'[j][c] # "none"
        /\ \A c \in Slots : task'[j][c] # "orphan"
    BY <1>1, <2>2, <2>3, <2>4, SlotOne DEF JobInv
  <2>7. \A c \in Slots : task'[j][c] # "none" => Identified(j)' /\ c \in Batches(j)'
    BY <2>2, <2>3 DEF JobInv
  <2> QED BY <2>5, <2>6, <2>7 DEF JobInv, Ended, Before
<1> QED BY <1>2, <1>3 DEF Write

\* The first failure halts the other tasks.
LEMMA RaiseStep ==
    ASSUME TypeOK, NEW j \in Jobs, JobInv(j), Raise(j)
    PROVE  JobInv(j)'
<1>1. /\ phase[j] = "fanout" /\ halt'[j] = "failure"
      /\ UNCHANGED <<stored, phase, mode, text, hash, task>>
  BY DEF Raise, running, TypeOK
<1> QED BY <1>1 DEF JobInv, Identified, Batches, Ended, Before

\* A cancelled task leaves a write it awaited orphaned; halt is set by then.
LEMMA DropStep ==
    ASSUME TypeOK, NEW j \in Jobs, JobInv(j), NEW b \in Slots, Drop(j, b)
    PROVE  JobInv(j)'
<1>1. /\ phase[j] = "fanout" /\ halt[j] # "no" /\ task[j][b] \in Pending
      /\ UNCHANGED <<stored, phase, mode, text, hash, halt>>
  BY DEF Drop
<1>2. PICK s \in {"orphan", "failed"} : Set(j, b, s)
  BY DEF Drop
<1> QED BY <1>1, <1>2, BatchMoves, UnchangedGrows DEF Ended, Pending, Active

\* What the coordinator returns when its tasks have ended: "created" only if it
\* was not cancelled, and then none of them is failed or orphaned.
LEMMA ConcludeStep ==
    ASSUME TypeOK, NEW j \in Jobs, JobInv(j), Conclude(j)
    PROVE  JobInv(j)'
<1>1. /\ phase[j] = "fanout" /\ \A b \in Slots : task[j][b] \in Settled
      /\ UNCHANGED <<stored, mode, text, hash, task, halt>>
  BY DEF Conclude
<1>2. halt[j] \in {"no", "failure", "caller"}
  BY DEF TypeOK
<1>3. /\ phase'[j] \in {"created", "failed", "cancelled"}
      /\ phase'[j] = "created" => halt[j] = "no"
  BY <1>2, GotoFacts DEF Conclude
<1>4. /\ Batches(j) \subseteq Slots /\ text[j] \in Versions
      /\ \A b \in Batches(j) : task[j][b] # "none"
  BY <1>1, SlotOne, PlanFacts DEF JobInv, Identified, Batches
<1>5. halt[j] = "no" => \A b \in Batches(j) : task[j][b] = "stored"
  BY <1>1, <1>4 DEF Conclude, JobInv, Settled
<1>6. Batches(j)' = Batches(j) /\ (Identified(j)' <=> Identified(j))
  BY <1>1 DEF Batches, Identified
<1> QED BY <1>1, <1>3, <1>4, <1>5, <1>6 DEF JobInv, Ended, Before

\* A cancelled job drains its tasks first, or gives up its first batch.
LEMMA CancelStep ==
    ASSUME TypeOK, NEW j \in Jobs, JobInv(j), Cancel(j)
    PROVE  JobInv(j)'
<1>1. UNCHANGED <<stored, mode, text, hash>>
  BY DEF Cancel
<1>2. CASE phase[j] = "fanout"
  <2>1. halt'[j] = "caller" /\ UNCHANGED <<phase, task>>
    BY <1>2 DEF Cancel, TypeOK
  <2> QED BY <1>1, <1>2, <2>1 DEF JobInv, Identified, Batches, Ended, Before
<1>3. CASE phase[j] # "fanout"
  <2>1. phase'[j] = "cancelled" /\ UNCHANGED halt
    BY <1>3, GotoFacts DEF Cancel
  <2>2. CASE phase[j] = "first"
    <3>1. PICK s \in {"failed", "orphan"} : Set(j, 1, s)
      BY <1>3, <2>2 DEF Cancel, JobInv
    <3> QED BY <1>1, <2>1, <2>2, <3>1, FirstGivenUp
  <2>3. CASE phase[j] \in Before
    <3>1. \A b \in Slots : task[j][b] = "none"
      BY <2>3 DEF JobInv
    <3>2. Set(j, 1, "none")
      BY <1>3, <3>1, SlotOne DEF Cancel
    <3>3. \A b \in Slots : task'[j][b] = "none"
      BY <3>1, <3>2, SetFacts, SlotOne
    <3> QED BY <1>1, <2>1, <3>1, <3>3, EndEarly DEF Ended
  <2> QED BY <1>3, <2>2, <2>3 DEF Cancel, TypeOK
<1> QED BY <1>2, <1>3

\* An orphaned write ends, with or without effect.
LEMMA OrphanStep ==
    ASSUME TypeOK, NEW j \in Jobs, JobInv(j), NEW b \in Slots, Orphan(j, b)
    PROVE  JobInv(j)'
<1>1. /\ task[j][b] = "orphan" /\ Set(j, b, "failed")
      /\ Stored(j, b) \/ UNCHANGED <<stored, wrote>>
      /\ UNCHANGED <<phase, mode, text, hash, halt>>
  BY DEF Orphan
<1>2. phase[j] # "first"
  BY <1>1, SlotOne DEF JobInv
<1> QED BY <1>1, <1>2, WriteFails

-----------------------------------------------------------------------------
\* What job j may do, or a write it no longer awaits.
Step(j) == Begin(j) \/ Cancel(j) \/ Work(j) \/ \E b \in Slots : Orphan(j, b)

\* A step of a job keeps what is known of that job.
LEMMA StepOwn ==
    ASSUME TypeOK, NEW j \in Jobs, JobInv(j), Step(j)
    PROVE  JobInv(j)'
<1>1. CASE Coordinator(j)
  BY <1>1, ParseStep, FingerprintStep, LookupStep, ChunkStep, EncodeFirstStep, EnsureStep,
     WriteFirstStep, RaiseStep, ConcludeStep DEF Coordinator
<1>2. ASSUME NEW b \in Slots, Task(j, b) PROVE JobInv(j)'
  BY <1>2, StartStep, EncodeStep, WriteStep, DropStep DEF Task
<1>3. CASE Begin(j) \/ Cancel(j) \/ \E b \in Slots : Orphan(j, b)
  BY <1>3, BeginStep, CancelStep, OrphanStep
<1> QED BY <1>1, <1>2, <1>3 DEF Step, Work

\* A step of a job touches nothing that is known of another.
LEMMA StepOthers ==
    ASSUME TypeOK, NEW j \in Jobs, NEW i \in Jobs \ {j}, Step(j)
    PROVE  Kept(i)
<1> USE DEF TypeOK, Kept, Goto, Set, Answer, Wrote, Stored
<1>1. CASE Begin(j)
  BY <1>1 DEF Begin
<1>2. CASE Cancel(j)
  BY <1>2 DEF Cancel
<1>3. CASE Parse(j)
  BY <1>3 DEF Parse
<1>4. CASE Fingerprint(j) \/ Lookup(j) \/ Chunk(j)
  BY <1>4 DEF Fingerprint, Lookup, Chunk
<1>5. CASE EncodeFirst(j) \/ Ensure(j) \/ WriteFirst(j)
  BY <1>5 DEF EncodeFirst, Ensure, WriteFirst
<1>6. CASE Raise(j) \/ Conclude(j)
  BY <1>6 DEF Raise, Conclude
<1>7. ASSUME NEW b \in Slots, Task(j, b) \/ Orphan(j, b) PROVE Kept(i)
  BY <1>7 DEF Task, Start, Encode, Write, Drop, Orphan
<1> QED BY <1>1, <1>2, <1>3, <1>4, <1>5, <1>6, <1>7 DEF Step, Work, Coordinator

\* Only a batch that is being written, here or as an orphan, reaches the store.
LEMMA StepStores ==
    ASSUME TypeOK, NEW j \in Jobs, JobInv(j), Step(j)
    PROVE  Grows /\ stored' \in [Chunks -> Versions \cup {NotStored, Untagged}]
<1>1. \/ UNCHANGED stored
      \/ \E b \in Slots : task[j][b] \in {"writing", "orphan"} /\ Stored(j, b)
  BY SlotOne DEF Step, Work, Coordinator, Task, Begin, Cancel, Parse, Fingerprint, Lookup, Chunk,
                 EncodeFirst, Ensure, WriteFirst, Raise, Conclude, Start, Encode, Write, Drop,
                 Orphan
<1>2. CASE UNCHANGED stored
  BY <1>2, UnchangedGrows DEF TypeOK
<1> QED BY <1>1, <1>2, StoredFacts

\* Where a job may be.
Phases == Ended \cup Before \cup {"first", "fanout"}

\* A step leaves a job in one of the phases.
LEMMA StepPhase ==
    ASSUME TypeOK, NEW j \in Jobs, Step(j)
    PROVE  phase' \in [Jobs -> Phases]
<1> USE DEF Phases, Ended, Before
<1>1. CASE UNCHANGED phase
  BY <1>1 DEF TypeOK
<1>2. CASE \E p \in Phases : Goto(j, p)
  BY <1>2 DEF TypeOK, Goto
<1>3. CASE Coordinator(j)
  <2>1. CASE Conclude(j)
    BY <1>2, <2>1 DEF Conclude, TypeOK
  <2>2. CASE Fingerprint(j) \/ Lookup(j) \/ Parse(j)
    BY <1>2, <2>2 DEF Fingerprint, Lookup, Parse
  <2>3. CASE Chunk(j) \/ EncodeFirst(j) \/ Ensure(j) \/ WriteFirst(j) \/ Raise(j)
    BY <1>1, <1>2, <2>3 DEF Chunk, EncodeFirst, Ensure, WriteFirst, Raise
  <2> QED BY <1>3, <2>1, <2>2, <2>3 DEF Coordinator
<1>4. CASE Begin(j) \/ Cancel(j)
  BY <1>1, <1>2, <1>4 DEF Begin, Cancel
<1>5. ASSUME NEW b \in Slots, Task(j, b) \/ Orphan(j, b) PROVE UNCHANGED phase
  BY <1>5 DEF Task, Start, Encode, Write, Drop, Orphan
<1> QED BY <1>1, <1>3, <1>4, <1>5 DEF Step, Work

\* A step leaves every batch in one of its states.
LEMMA StepTask ==
    ASSUME TypeOK, NEW j \in Jobs, Step(j)
    PROVE  task' \in [Jobs -> [Slots -> Settled \cup Pending]]
<1> USE DEF Settled, Pending, Active
<1>1. CASE UNCHANGED task
  BY <1>1 DEF TypeOK
<1>2. ASSUME NEW b \in Slots, NEW s \in Settled \cup Pending, Set(j, b, s)
      PROVE  task' \in [Jobs -> [Slots -> Settled \cup Pending]]
  BY <1>2 DEF TypeOK, Set
<1>3. CASE WriteFirst(j)
  <2>1. ASSUME task' = [task EXCEPT ![j] = [b \in Slots |->
                          IF b = 1 THEN "stored"
                          ELSE IF b \in Batches(j) THEN "waiting" ELSE "none"]]
        PROVE  task' \in [Jobs -> [Slots -> Settled \cup Pending]]
    BY <2>1 DEF TypeOK
  <2> QED BY <1>2, <1>3, <2>1, SlotOne DEF WriteFirst
<1>4. CASE Chunk(j) \/ EncodeFirst(j) \/ Ensure(j)
  BY <1>1, <1>2, <1>4, SlotOne DEF Chunk, EncodeFirst, Ensure
<1>5. CASE Begin(j) \/ Parse(j) \/ Fingerprint(j) \/ Lookup(j) \/ Raise(j) \/ Conclude(j)
  BY <1>1, <1>5 DEF Begin, Parse, Fingerprint, Lookup, Raise, Conclude
<1>6. CASE Cancel(j)
  BY <1>1, <1>2, <1>6, SlotOne DEF Cancel
<1>7. ASSUME NEW b \in Slots, Task(j, b) \/ Orphan(j, b)
      PROVE  task' \in [Jobs -> [Slots -> Settled \cup Pending]]
  BY <1>2, <1>7 DEF Task, Start, Encode, Write, Drop, Orphan
<1> QED BY <1>3, <1>4, <1>5, <1>6, <1>7 DEF Step, Work, Coordinator

\* A step of a job keeps the types.
LEMMA StepTypeOK ==
    ASSUME TypeOK, NEW j \in Jobs, JobInv(j), Step(j)
    PROVE  TypeOK'
<1>1. UNCHANGED world
  BY DEF Step, Work, Coordinator, Task, Begin, Cancel, Parse, Fingerprint, Lookup, Chunk,
         EncodeFirst, Ensure, WriteFirst, Raise, Conclude, Start, Encode, Write, Drop, Orphan
<1>2. cache' \in Versions \cup {None} /\ collection' \in BOOLEAN
  BY DEF TypeOK, Step, Work, Coordinator, Task, Begin, Cancel, Parse, Fingerprint, Lookup, Chunk,
         EncodeFirst, Ensure, WriteFirst, Raise, Conclude, Start, Encode, Write, Drop, Orphan
<1>3. mode' \in [Jobs -> Modes]
  <2>1. CASE Begin(j)
    <3>1. PICK m \in Requests[j] : mode' = [mode EXCEPT ![j] = m]
      BY <2>1 DEF Begin
    <3>2. m \in Modes
      BY IngestionAssumption
    <3> QED BY <3>1, <3>2 DEF TypeOK
  <2>2. CASE UNCHANGED mode
    BY <2>2 DEF TypeOK
  <2> QED BY <2>1, <2>2
          DEF Step, Work, Coordinator, Task, Cancel, Parse, Fingerprint, Lookup, Chunk,
              EncodeFirst, Ensure, WriteFirst, Raise, Conclude, Start, Encode, Write, Drop, Orphan
<1>4. text' \in [Jobs -> Versions \cup {None}] /\ hash' \in [Jobs -> Versions \cup {None}]
  <2>1. CASE Begin(j) \/ Parse(j)
    BY <2>1 DEF TypeOK, Begin, Parse
  <2>2. CASE Fingerprint(j)
    <3>1. CASE UNCHANGED <<text, hash>>
      BY <3>1 DEF TypeOK
    <3>2. CASE /\ text' = text
               /\ hash' = [hash EXCEPT ![j] = IF IsFile THEN source ELSE text[j]]
      BY <3>2 DEF TypeOK
    <3> QED BY <2>2, <3>1, <3>2 DEF Fingerprint
  <2>3. CASE UNCHANGED <<text, hash>>
    BY <2>3 DEF TypeOK
  <2> QED BY <2>1, <2>2, <2>3
          DEF Step, Work, Coordinator, Task, Cancel, Lookup, Chunk, EncodeFirst, Ensure,
              WriteFirst, Raise, Conclude, Start, Encode, Write, Drop, Orphan
<1>5. halt' \in [Jobs -> {"no", "failure", "caller"}]
  BY DEF TypeOK, Step, Work, Coordinator, Task, Begin, Cancel, Parse, Fingerprint, Lookup, Chunk,
         EncodeFirst, Ensure, WriteFirst, Raise, Conclude, Start, Encode, Write, Drop, Orphan
<1>6. /\ answer' \in [Jobs -> {"none", "absent", "present", "failed"}]
      /\ wrote' \in [Jobs -> BOOLEAN]
  BY DEF TypeOK, Step, Work, Coordinator, Task, Begin, Cancel, Parse, Fingerprint, Lookup, Chunk,
         EncodeFirst, Ensure, WriteFirst, Raise, Conclude, Start, Encode, Write, Drop, Orphan,
         Stored, Wrote, Answer
<1> QED BY <1>1, <1>2, <1>3, <1>4, <1>5, <1>6, StepPhase, StepTask, StepStores DEF TypeOK, Phases, world

\* IInv is inductive.
LEMMA NextIInv == IInv /\ [Next]_vars => IInv'
<1> SUFFICES ASSUME TypeOK, \A j \in Jobs : JobInv(j), [Next]_vars PROVE IInv'
  BY DEF IInv
<1>1. ASSUME NEW j \in Jobs, Step(j) PROVE IInv'
  <2>1. TypeOK' /\ Grows /\ JobInv(j)'
    BY <1>1, StepTypeOK, StepStores, StepOwn
  <2>2. ASSUME NEW i \in Jobs \ {j} PROVE JobInv(i)'
    BY <1>1, <2>1, StepOthers, Frame
  <2> QED BY <2>1, <2>2 DEF IInv
<1>2. CASE Edit \/ Expire \/ UNCHANGED vars
  <2>1. TypeOK'
    BY <1>2, IngestionAssumption DEF Edit, Expire, vars, world, TypeOK
  <2>2. Grows /\ \A i \in Jobs : Kept(i)
    BY <1>2 DEF Edit, Expire, vars, Grows, Kept
  <2> QED BY <2>1, <2>2, Frame DEF IInv
<1> QED BY <1>1, <1>2 DEF Next, Step

\* JobInv holds of every job in every reachable state.
LEMMA Inductive == Spec => []IInv
BY InitIInv, NextIInv, PTL DEF Spec

\* Whatever fails or is cancelled and in whatever order, no batch of a job that
\* has ended is still being worked on, and "created" stands for batches that
\* were confirmed, each and every one.
THEOREM JobsDrain == Spec => []IngestInv
<1>1. IInv => IngestInv
  <2> SUFFICES ASSUME TypeOK, NEW j \in Jobs, JobInv(j)
               PROVE  /\ phase[j] \in Before => \A b \in Slots : task[j][b] = "none"
                      /\ phase[j] = "first" => \A b \in Slots \ {1} : task[j][b] = "none"
                      /\ phase[j] = "fanout" => task[j][1] = "stored"
                      /\ phase[j] \in Ended => \A b \in Slots : task[j][b] \in Settled
                      /\ phase[j] = "created" => \A b \in Batches(j) : task[j][b] = "stored"
    BY DEF IInv, IngestInv, Correspondence
  <2> QED BY DEF JobInv
<1> QED BY <1>1, Inductive, PTL

\* What a job reports as written is in the store, and stays there whatever other
\* jobs and orphaned writes do.
THEOREM ReportedIsStored == Spec => []ReportedMeansStored
<1>1. IInv => ReportedMeansStored
  <2> SUFFICES ASSUME NEW j \in Jobs, JobInv(j), phase[j] = "created", NEW b \in Batches(j)
               PROVE  stored[Plan[text[j]][b]] # NotStored
    BY DEF IInv, ReportedMeansStored
  <2>1. text[j] \in Versions /\ task[j][b] = "stored"
    BY DEF JobInv
  <2>2. b \in Slots
    BY <2>1, PlanFacts DEF Batches
  <2> QED BY <2>1, <2>2 DEF JobInv
<1> QED BY <1>1, Inductive, PTL

-----------------------------------------------------------------------------
\* A set of batches that gains at most one, and only when it was below the
\* limit, stays within the limit.
LEMMA OneMoreFits ==
    ASSUME NEW S \in SUBSET Slots, NEW T \in SUBSET Slots, NEW b \in Slots,
           T \subseteq S \cup {b}, Cardinality(S) < MaxInFlight
    PROVE  Cardinality(T) <= MaxInFlight
<1>1. IsFiniteSet(Slots)
  BY FS_Interval, IngestionAssumption DEF Slots
<1>2. IsFiniteSet(S) /\ IsFiniteSet(S \cup {b})
  BY <1>1, FS_Subset, FS_AddElement
<1>3. /\ Cardinality(S) \in Nat /\ Cardinality(S \cup {b}) \in Nat
      /\ Cardinality(S \cup {b}) <= Cardinality(S) + 1
  BY <1>2, FS_CardinalityType, FS_AddElement
<1>4. Cardinality(T) <= Cardinality(S \cup {b}) /\ Cardinality(T) \in Nat
  BY <1>2, FS_Subset, FS_CardinalityType
<1> QED BY <1>3, <1>4, IngestionAssumption

\* A set of batches that only shrinks stays within the limit.
LEMMA FewerFit ==
    ASSUME NEW S \in SUBSET Slots, NEW T \in SUBSET S, Cardinality(S) <= MaxInFlight
    PROVE  Cardinality(T) <= MaxInFlight
<1>1. IsFiniteSet(Slots)
  BY FS_Interval, IngestionAssumption DEF Slots
<1>2. IsFiniteSet(S)
  BY <1>1, FS_Subset
<1>3. Cardinality(T) <= Cardinality(S) /\ Cardinality(T) \in Nat /\ Cardinality(S) \in Nat
  BY <1>2, FS_Subset, FS_CardinalityType
<1> QED BY <1>3, IngestionAssumption

\* Only Start puts a batch in flight, and it found a permit.
LEMMA StepFlying ==
    ASSUME TypeOK, NEW j \in Jobs, JobInv(j), Step(j), Cardinality(Flying(j)) <= MaxInFlight
    PROVE  Cardinality(Flying(j)') <= MaxInFlight
<1>1. Flying(j) \in SUBSET Slots /\ Flying(j)' \in SUBSET Slots
  BY DEF Flying
<1>2. CASE Flying(j)' \subseteq Flying(j)
  BY <1>1, <1>2, FewerFit
<1>3. ASSUME NEW b \in Slots, Start(j, b)
      PROVE  Cardinality(Flying(j)') <= MaxInFlight
  <2>1. \A c \in Slots \ {b} : task'[j][c] = task[j][c]
    BY <1>3, SetFacts DEF Start
  <2>2. Flying(j)' \subseteq Flying(j) \cup {b}
    BY <2>1 DEF Flying
  <2> QED BY <1>1, <1>3, <2>2, OneMoreFits DEF Start
<1>4. ASSUME NEW b \in Slots, NEW s, Set(j, b, s),
             b = 1 \/ s \notin Active \/ task[j][b] \in Active
      PROVE  Flying(j)' \subseteq Flying(j)
  <2>1. task'[j][b] = s /\ \A c \in Slots \ {b} : task'[j][c] = task[j][c]
    BY <1>4, SetFacts
  <2> QED BY <1>4, <2>1 DEF Flying
<1>5. ASSUME NEW b \in Slots, Encode(j, b) \/ Write(j, b) \/ Drop(j, b) \/ Orphan(j, b)
      PROVE  Flying(j)' \subseteq Flying(j)
  <2>1. PICK s : Set(j, b, s) /\ (s \notin Active \/ task[j][b] \in Active)
    BY <1>5 DEF Encode, Write, Drop, Orphan, Active
  <2> QED BY <1>4, <2>1
<1>6. CASE WriteFirst(j)
  <2>1. ASSUME NEW s, Set(j, 1, s) PROVE Flying(j)' \subseteq Flying(j)
    BY <1>4, <2>1, SlotOne
  <2>2. CASE task' = [task EXCEPT ![j] = [b \in Slots |->
                          IF b = 1 THEN "stored"
                          ELSE IF b \in Batches(j) THEN "waiting" ELSE "none"]]
    <3>1. \A b \in Slots : task'[j][b] \in {"stored", "waiting", "none"}
      BY <2>2 DEF TypeOK
    <3>2. \A b \in Slots : task'[j][b] \notin Active'
      BY <3>1 DEF Active
    <3>3. Flying(j)' = {}
      BY <3>2 DEF Flying
    <3> QED BY <1>2, <3>3
  <2> QED BY <1>2, <1>6, <2>1, <2>2 DEF WriteFirst
<1>7. CASE Chunk(j) \/ EncodeFirst(j) \/ Ensure(j) \/ Cancel(j)
  <2>1. UNCHANGED task \/ \E s : Set(j, 1, s)
    BY <1>7 DEF Chunk, EncodeFirst, Ensure, Cancel
  <2> QED BY <1>2, <1>4, <2>1, SlotOne DEF Flying
<1>8. CASE Begin(j) \/ Parse(j) \/ Fingerprint(j) \/ Lookup(j) \/ Raise(j) \/ Conclude(j)
  <2>1. UNCHANGED task
    BY <1>8 DEF Begin, Parse, Fingerprint, Lookup, Raise, Conclude
  <2> QED BY <1>2, <2>1 DEF Flying
<1> QED BY <1>2, <1>3, <1>5, <1>6, <1>7, <1>8 DEF Step, Work, Coordinator, Task

\* Never more than max_in_flight batches of a job are being encoded or written,
\* for every plan and every limit.
THEOREM BoundedInFlight == Spec => []InFlightBounded
<1>1. Init => InFlightBounded
  <2> SUFFICES ASSUME Init, NEW j \in Jobs PROVE Cardinality(Flying(j)) <= MaxInFlight
    BY DEF InFlightBounded
  <2>1. Flying(j) = {}
    BY DEF Init, Flying, Active
  <2> QED BY <2>1, FS_EmptySet, IngestionAssumption
<1>2. IInv /\ InFlightBounded /\ [Next]_vars => InFlightBounded'
  <2> SUFFICES ASSUME TypeOK, \A j \in Jobs : JobInv(j), InFlightBounded, [Next]_vars,
                      NEW i \in Jobs
               PROVE  Cardinality(Flying(i)') <= MaxInFlight
    BY DEF IInv, InFlightBounded
  <2>1. CASE task'[i] = task[i]
    <3>1. Flying(i)' = Flying(i)
      BY <2>1 DEF Flying
    <3> QED BY <3>1 DEF InFlightBounded
  <2>2. CASE Step(i)
    BY <2>2, StepFlying DEF InFlightBounded
  <2>3. ASSUME NEW j \in Jobs \ {i}, Step(j) PROVE task'[i] = task[i]
    BY <2>3, StepOthers DEF Kept
  <2>4. CASE Edit \/ Expire \/ UNCHANGED vars
    BY <2>1, <2>4 DEF Edit, Expire, vars
  <2> QED BY <2>1, <2>2, <2>3, <2>4 DEF Next, Step
<1> QED BY <1>1, <1>2, Inductive, PTL DEF Spec

-----------------------------------------------------------------------------
\* A job that must not write blindly knows that its fingerprint is not there.
Asked(j) == mode[j] = "closed" => answer[j] = "absent"

Silent == {"skipped", "refused", "empty"}

\* Who may write has asked, and who has not got that far, or reports that it wrote
\* nothing, has neither written nor left a batch behind.
WriteInv(j) ==
    /\ phase[j] = "chunking" \/ wrote[j] \/ (\E b \in Slots : task[j][b] # "none")
         => Asked(j)
    /\ phase[j] \in Before \cup Silent =>
         ~wrote[j] /\ \A b \in Slots : task[j][b] = "none"

\* Up to the lookup a job has no batch; it leaves the lookup to write only with
\* the store's no, or in a mode that does not need it.
LEMMA AskStep ==
    ASSUME TypeOK, NEW j \in Jobs, WriteInv(j),
           Begin(j) \/ Parse(j) \/ Fingerprint(j) \/ Lookup(j)
    PROVE  WriteInv(j)'
<1>1. phase[j] \in Before \ {"chunking"} /\ UNCHANGED <<wrote, task>>
  BY DEF Begin, Parse, Fingerprint, Lookup, Before
<1>2. ~wrote[j] /\ \A b \in Slots : task[j][b] = "none"
  BY <1>1 DEF WriteInv
<1>3. ~wrote'[j] /\ \A b \in Slots : task'[j][b] = "none"
  BY <1>1, <1>2
<1>4. phase'[j] = "chunking" => Asked(j)'
  <2> SUFFICES ASSUME phase'[j] = "chunking" PROVE Asked(j)'
    OBVIOUS
  <2>1. ~Begin(j) /\ ~Parse(j)
    BY GotoFacts DEF Begin, Parse
  <2>2. CASE Fingerprint(j)
    <3>1. mode[j] = "full" /\ UNCHANGED mode
      BY <2>2, GotoFacts DEF Fingerprint
    <3> QED BY <3>1 DEF Asked
  <2>3. CASE Lookup(j)
    <3>1. UNCHANGED mode
      BY <2>3 DEF Lookup
    <3>2. ~Goto(j, "skipped") /\ ~Goto(j, "refused")
      BY GotoFacts
    <3>3. Answer(j, "absent") \/ mode[j] = "lenient"
      BY <2>3, <3>2 DEF Lookup
    <3> QED BY <3>1, <3>3 DEF Asked, Answer, TypeOK
  <2> QED BY <2>1, <2>2, <2>3
<1> QED BY <1>3, <1>4 DEF WriteInv

\* A job that has a batch, or is about to have one, has asked; what it does from
\* there on does not take that back, and never reports that nothing was written
\* unless it is so.
LEMMA BatchStep ==
    ASSUME TypeOK, NEW j \in Jobs, JobInv(j), WriteInv(j), UNCHANGED <<mode, answer>>,
           phase[j] \notin Before \cup Silent,
           \E b \in Slots : task[j][b] # "none",
           phase'[j] \notin Before \cup Silent
    PROVE  WriteInv(j)'
<1>1. Asked(j)'
  BY DEF WriteInv, Asked
<1> QED BY <1>1 DEF WriteInv

\* The chunker hands over a batch, or the job ends without one.
LEMMA ChunkWrites ==
    ASSUME TypeOK, NEW j \in Jobs, WriteInv(j), Chunk(j)
    PROVE  WriteInv(j)'
<1>1. /\ Asked(j) /\ ~wrote[j] /\ \A b \in Slots : task[j][b] = "none"
      /\ UNCHANGED <<mode, answer, wrote>>
  BY DEF Chunk, WriteInv, Before
<1>2. Asked(j)' /\ ~wrote'[j]
  BY <1>1 DEF Asked
<1>3. CASE Goto(j, "first")
  <2>1. phase'[j] \notin Before \cup Silent
    BY <1>3, GotoFacts DEF Before, Silent
  <2> QED BY <1>2, <2>1 DEF WriteInv
<1>4. CASE UNCHANGED task
  BY <1>1, <1>2, <1>4 DEF WriteInv
<1> QED BY <1>3, <1>4 DEF Chunk

\* A cancellation writes nothing, and reports nothing.
LEMMA CancelWrites ==
    ASSUME TypeOK, NEW j \in Jobs, JobInv(j), WriteInv(j), Cancel(j)
    PROVE  WriteInv(j)'
<1>1. UNCHANGED <<mode, answer, wrote>> /\ phase[j] \notin Ended \cup {"idle"}
  BY DEF Cancel
<1>2. phase'[j] \in {"fanout", "cancelled"}
  BY GotoFacts DEF Cancel
<1>3. CASE phase[j] \in Before
  <2>1. ~wrote[j] /\ \A b \in Slots : task[j][b] = "none"
    BY <1>3 DEF WriteInv
  <2>2. Set(j, 1, "none")
    BY <1>3, <2>1, SlotOne DEF Cancel, Before
  <2>3. ~wrote'[j] /\ \A b \in Slots : task'[j][b] = "none"
    BY <1>1, <2>1, <2>2, SetFacts, SlotOne
  <2> QED BY <1>2, <2>3 DEF WriteInv
<1>4. CASE phase[j] \in {"first", "fanout"}
  <2>1. phase[j] \notin Before \cup Silent /\ phase'[j] \notin Before \cup Silent
    BY <1>2, <1>4 DEF Before, Silent
  <2>2. task[j][1] # "none"
    BY <1>4 DEF JobInv
  <2> QED BY <1>1, <2>1, <2>2, SlotOne, BatchStep
<1> QED BY <1>1, <1>3, <1>4 DEF TypeOK

\* What a job does keeps WriteInv of it.
LEMMA StepWrites ==
    ASSUME TypeOK, NEW j \in Jobs, JobInv(j), WriteInv(j), Step(j)
    PROVE  WriteInv(j)'
<1>1. CASE EncodeFirst(j) \/ Ensure(j) \/ WriteFirst(j) \/ Raise(j) \/ Conclude(j)
  <2>1. phase[j] \in {"first", "fanout"} /\ UNCHANGED <<mode, answer>>
    BY <1>1 DEF EncodeFirst, Ensure, WriteFirst, Raise, Conclude, running
  <2>2. phase'[j] \in {"first", "fanout", "created", "failed", "cancelled"}
    <3>1. CASE Conclude(j)
      BY <3>1, GotoFacts DEF Conclude, TypeOK
    <3>2. CASE UNCHANGED phase
      BY <2>1, <3>2
    <3>3. CASE \E p \in {"failed", "created", "fanout"} : Goto(j, p)
      BY <3>3, GotoFacts
    <3> QED BY <1>1, <3>1, <3>2, <3>3 DEF EncodeFirst, Ensure, WriteFirst, Raise
  <2>3. task[j][1] # "none"
    BY <2>1 DEF JobInv
  <2> QED BY <2>1, <2>2, <2>3, SlotOne, BatchStep DEF Before, Silent
<1>2. ASSUME NEW b \in Slots, Task(j, b) \/ Orphan(j, b)
      PROVE  WriteInv(j)'
  <2>1. task[j][b] # "none" /\ UNCHANGED <<phase, mode, answer>>
    BY <1>2 DEF Task, Start, Encode, Write, Drop, Orphan, Pending, Active, running
  <2>2. phase[j] \notin Before \cup Silent
    BY <2>1 DEF WriteInv
  <2> QED BY <2>1, <2>2, BatchStep DEF Before, Silent
<1> QED
  BY <1>1, <1>2, AskStep, ChunkWrites, CancelWrites DEF Step, Work, Coordinator

\* A job keeps WriteInv when another makes a step.
LEMMA FrameWrites ==
    ASSUME NEW j \in Jobs, WriteInv(j), Kept(j)
    PROVE  WriteInv(j)'
BY DEF WriteInv, Asked, Kept, Before, Silent

\* A job that must not write blindly changes the store only if the store answered
\* before that its fingerprint is not there, for every plan and every order of
\* failures, cancellations and late writes; and a job that reports to have written
\* nothing has not, and will not.
THEOREM WritesAreAnswered == Spec => []FailClosed
<1> DEFINE W == \A j \in Jobs : WriteInv(j)
<1>1. Init => W
  BY DEF Init, WriteInv, Before, Silent
<1>2. IInv /\ W /\ [Next]_vars => W'
  <2> SUFFICES ASSUME TypeOK, \A j \in Jobs : JobInv(j), W, [Next]_vars, NEW i \in Jobs
               PROVE  WriteInv(i)'
    BY DEF IInv
  <2>1. CASE Step(i)
    BY <2>1, StepWrites
  <2>2. ASSUME NEW j \in Jobs \ {i}, Step(j) PROVE WriteInv(i)'
    BY <2>2, StepOthers, FrameWrites
  <2>3. CASE Edit \/ Expire \/ UNCHANGED vars
    <3>1. Kept(i)
      BY <2>3 DEF Edit, Expire, vars, Kept
    <3> QED BY <3>1, FrameWrites
  <2> QED BY <2>1, <2>2, <2>3 DEF Next, Step
<1>3. IInv /\ W => FailClosed
  <2> SUFFICES ASSUME NEW j \in Jobs, TypeOK, WriteInv(j)
               PROVE  /\ mode[j] = "closed" /\ wrote[j] => answer[j] = "absent"
                      /\ phase[j] \in {"skipped", "refused", "empty"} =>
                           ~wrote[j] /\ \A b \in Slots : task[j][b] # "orphan"
    BY DEF IInv, FailClosed
  <2> QED BY DEF WriteInv, Asked, Silent
<1> HIDE DEF W
<1> QED BY <1>1, <1>2, <1>3, Inductive, PTL DEF Spec

=============================================================================
