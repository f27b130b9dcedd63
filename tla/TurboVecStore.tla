---------------------------- MODULE TurboVecStore ----------------------------
(***************************************************************************)
(* The local TurboVec collection: docpipe.vectorstores.turbovec.           *)
(*                                                                         *)
(* An operation is awaited by a coroutine that holds the adapter's asyncio *)
(* lock, and carried out by a thread that holds the repository's RLock.    *)
(* Cancelling the coroutine frees the first lock and not the second: the   *)
(* thread works on.  Both locks belong to one adapter instance.            *)
(*                                                                         *)
(* On disk a collection is a directory with a docstore and an index; the   *)
(* docstore carries the digest of the index it was written with.  A write  *)
(* builds a sibling directory, moves the live one aside, moves the new one *)
(* into place and removes the old.                                         *)
(***************************************************************************)
EXTENDS Naturals, FiniteSets

CONSTANTS
    Ops, Records, Batches, Sources, SourceOf,
    Absent, NoCollection, Damaged, Unseen,
    InstanceOf,  \* [Ops -> adapter instances]: who shares locks with whom
    MaxCrashes,  \* process crashes (a bound of the model)
    MaxFaults    \* file-system errors while publishing or removing (a bound)

VARIABLES
    target,   \* what the collection's path holds
    backup,   \* the previous generation an operation moved aside
    req,      \* the request of an operation
    pc,       \* where its thread is
    mem,      \* the generation its thread has read or will publish
    awaited,  \* its coroutine still waits for it
    res,      \* what the repository returned or raised
    crashes, faults

vars == <<target, backup, req, pc, mem, awaited, res, crashes, faults>>

Request ==
    [kind : {"ensure", "drop", "search"}]
        \cup [kind : {"upsert"}, recs : Batches]
        \cup [kind : {"forget"}, source : Sources]

Contents   == [Records -> Ops \cup {Absent}]
Empty      == [r \in Records |-> Absent]
Generation == [docs : Contents, index : Contents]
EmptyGen   == [docs |-> Empty, index |-> Empty]
Directory  == Generation \cup {NoCollection, Damaged}

\* The marks are no contents, and a batch names records.
ASSUME StoreAssumption ==
    /\ Batches \subseteq SUBSET Records
    /\ Absent \notin Ops
    /\ NoCollection # Damaged
    /\ NoCollection \notin Generation /\ NoCollection \notin Contents
    /\ Damaged \notin Generation /\ Damaged \notin Contents

Outside  == {"idle", "adapter", "done"}  \* no thread runs the operation
Critical == {"probe", "docstore", "digest", "index", "stage", "aside", "swap",
             "cleanup", "removing"}      \* its thread holds the RLock

Reply(status, seen) == [status |-> status, seen |-> seen]
NoReply == Reply("none", Unseen)

Init ==
    /\ target \in {NoCollection, EmptyGen}
    /\ backup = [o \in Ops |-> NoCollection]
    /\ req = [o \in Ops |-> [kind |-> "search"]]
    /\ pc = [o \in Ops |-> "idle"]
    /\ mem = [o \in Ops |-> EmptyGen]
    /\ awaited = [o \in Ops |-> FALSE]
    /\ res = [o \in Ops |-> NoReply]
    /\ crashes = 0
    /\ faults = 0

Goto(o, label) == pc' = [pc EXCEPT ![o] = label]

\* The repository method returns or raises: the RLock is released with it, and
\* the adapter's lock too if the coroutine was still there.
Finish(o, status, seen) ==
    /\ Goto(o, "done")
    /\ res' = [res EXCEPT ![o] = Reply(status, seen)]
    /\ awaited' = [awaited EXCEPT ![o] = FALSE]

Siblings(o) == {p \in Ops \ {o} : InstanceOf[p] = InstanceOf[o]}
bounds == <<crashes, faults>>

-----------------------------------------------------------------------------
(* The adapter: one operation at a time per instance, as far as awaiting goes *)

Call(o) ==
    /\ pc[o] = "idle"
    /\ \E r \in Request : req' = [req EXCEPT ![o] = r]
    /\ Goto(o, "adapter")
    /\ awaited' = [awaited EXCEPT ![o] = TRUE]
    /\ UNCHANGED <<target, backup, mem, res, bounds>>

\* async with self._operation_lock, then the blocking runner starts a thread.
Dispatch(o) ==
    /\ pc[o] = "adapter"
    /\ \A p \in Siblings(o) : awaited[p] => pc[p] \in Outside
    /\ Goto(o, "lock")
    /\ UNCHANGED <<target, backup, req, mem, awaited, res, bounds>>

\* Cancelled while queueing, the operation never happens; cancelled later, its
\* thread goes on without anybody to answer to.
CancelCaller(o) ==
    /\ awaited[o]
    /\ IF pc[o] = "adapter"
       THEN Finish(o, "error", Unseen)
       ELSE awaited' = [awaited EXCEPT ![o] = FALSE] /\ UNCHANGED <<pc, res>>
    /\ UNCHANGED <<target, backup, req, mem, bounds>>

-----------------------------------------------------------------------------
(* The repository: under the RLock *)

\* Mutant of Acquire: a repository without its thread lock.
AcquireUnlocked(o) ==
    /\ pc[o] = "lock"
    /\ Goto(o, IF req[o].kind \in {"ensure", "drop"} THEN "probe" ELSE "docstore")
    /\ UNCHANGED <<target, backup, req, mem, awaited, res, bounds>>

Acquire(o) ==
    /\ pc[o] = "lock"
    /\ \A p \in Siblings(o) : pc[p] \notin Critical
    /\ Goto(o, IF req[o].kind \in {"ensure", "drop"} THEN "probe" ELSE "docstore")
    /\ UNCHANGED <<target, backup, req, mem, awaited, res, bounds>>

\* ensure_collection and delete_collection first look whether there is one.
Probe(o) ==
    /\ pc[o] = "probe"
    /\ IF req[o].kind = "ensure"
       THEN /\ Goto(o, IF target = NoCollection THEN "stage" ELSE "docstore")
            /\ mem' = [mem EXCEPT ![o] = EmptyGen]
            /\ UNCHANGED <<res, awaited>>
       ELSE /\ IF target = NoCollection
               THEN Finish(o, "ok", Unseen)
               ELSE Goto(o, "removing") /\ UNCHANGED <<res, awaited>>
            /\ UNCHANGED mem
    /\ UNCHANGED <<target, backup, req, bounds>>

\* _load: the docstore, then the digest of the index file, then the index.
\* Each opens the path afresh.
ReadDocstore(o) ==
    /\ pc[o] = "docstore"
    /\ IF target \in {NoCollection, Damaged}
       THEN /\ Finish(o, IF target = Damaged THEN "error" ELSE "missing", Unseen)
            /\ UNCHANGED mem
       ELSE /\ mem' = [mem EXCEPT ![o] = target]  \* .index stands for the digest
            /\ Goto(o, "digest")
            /\ UNCHANGED <<res, awaited>>
    /\ UNCHANGED <<target, backup, req, bounds>>

ReadDigest(o) ==
    /\ pc[o] = "digest"
    /\ IF target \in {NoCollection, Damaged} \/ target.index # mem[o].index
       THEN Finish(o, "error", Unseen)
       ELSE Goto(o, "index") /\ UNCHANGED <<res, awaited>>
    /\ UNCHANGED <<target, backup, req, mem, bounds>>

Stored(c) == {r \in Records : c[r] # Absent}
Matching(o, c) == {r \in Stored(c) : SourceOf[r] = req[o].source}

\* The contents a write publishes, of the docstore and of the index alike.
Edited(o, c) ==
    CASE req[o].kind = "upsert" ->
           [r \in Records |-> IF r \in req[o].recs THEN o ELSE c[r]]
      [] req[o].kind = "forget" ->
           [r \in Records |-> IF r \in Matching(o, c) THEN Absent ELSE c[r]]

\* Mutant of ReadIndex: the batch is applied to the docstore alone.
ReadIndexDocsOnly(o) ==
    /\ pc[o] = "index"
    /\ \/ /\ target \in {NoCollection, Damaged}
          /\ Finish(o, "error", Unseen) /\ UNCHANGED mem
       \/ /\ target \notin {NoCollection, Damaged}
          /\ req[o].kind \in {"search", "ensure", "forget"}
          /\ Finish(o, "ok", IF req[o].kind = "search" THEN mem[o].docs ELSE Unseen)
          /\ UNCHANGED mem
       \/ /\ target \notin {NoCollection, Damaged}
          /\ req[o].kind = "upsert"
          /\ mem' = [mem EXCEPT ![o] =
               [docs |-> Edited(o, mem[o].docs), index |-> mem[o].index]]
          /\ Goto(o, "stage") /\ UNCHANGED <<res, awaited>>
    /\ UNCHANGED <<target, backup, req, bounds>>

\* The index is opened and counted against the docstore; then the method's own
\* work on the loaded pair: answer, or edit both and go on to publish them.
ReadIndex(o) ==
    /\ pc[o] = "index"
    /\ LET docs == mem[o].docs
           usable == /\ target \notin {NoCollection, Damaged}
                     /\ Cardinality(Stored(target.index)) = Cardinality(Stored(docs))
       IN
       \/ ~usable /\ Finish(o, "error", Unseen) /\ UNCHANGED mem
       \/ /\ usable
          /\ \/ req[o].kind \in {"search", "ensure"}
             \/ req[o].kind = "forget" /\ Matching(o, docs) = {}
          /\ Finish(o, "ok", IF req[o].kind = "search" THEN docs ELSE Unseen)
          /\ UNCHANGED mem
       \/ /\ usable
          /\ \/ req[o].kind = "upsert"
             \/ req[o].kind = "forget" /\ Matching(o, docs) # {}
          /\ mem' = [mem EXCEPT ![o] =
               [docs |-> Edited(o, docs), index |-> Edited(o, target.index)]]
          /\ Goto(o, "stage")
          /\ UNCHANGED <<res, awaited>>
    /\ UNCHANGED <<target, backup, req, bounds>>

-----------------------------------------------------------------------------
(* atomic_publish and the removal of a collection *)

Fault ==
    /\ faults < MaxFaults
    /\ faults' = faults + 1
    /\ UNCHANGED crashes

\* The writer fills the staging directory, or fails and staging is removed.
Stage(o) ==
    /\ pc[o] = "stage"
    /\ \/ Goto(o, "aside") /\ UNCHANGED <<res, awaited, bounds>>
       \/ Fault /\ Finish(o, "error", Unseen)
    /\ UNCHANGED <<target, backup, req, mem>>

\* if target.exists(): os.replace(target, backup)
MoveAside(o) ==
    /\ pc[o] = "aside"
    /\ backup' = [backup EXCEPT ![o] = target]
    /\ target' = NoCollection
    /\ Goto(o, "swap")
    /\ UNCHANGED <<req, mem, awaited, res, bounds>>

\* Mutant of Swap: after a failed swap the old generation is cleaned up too.
SwapDiscards(o) ==
    /\ pc[o] = "swap"
    /\ \/ /\ target = NoCollection
          /\ target' = mem[o]
          /\ Goto(o, "cleanup")
          /\ UNCHANGED <<backup, res, awaited, bounds>>
       \/ /\ Fault
          /\ backup' = [backup EXCEPT ![o] = NoCollection]
          /\ Finish(o, "error", Unseen) /\ UNCHANGED target
    /\ UNCHANGED <<req, mem>>

\* os.replace(staging, target) onto a free path.  It fails if another instance
\* has put a directory there meanwhile, or by itself, and the old generation
\* goes back unless the path is taken.  That this too fails is not modelled.
Swap(o) ==
    /\ pc[o] = "swap"
    /\ \/ /\ target = NoCollection
          /\ target' = mem[o]
          /\ Goto(o, "cleanup")
          /\ UNCHANGED <<backup, res, awaited, bounds>>
       \/ /\ IF target = NoCollection
             THEN /\ Fault
                  /\ target' = backup[o]
                  /\ backup' = [backup EXCEPT ![o] = NoCollection]
             ELSE UNCHANGED <<target, backup, bounds>>
          /\ Finish(o, "error", Unseen)
    /\ UNCHANGED <<req, mem>>

\* The old generation, if there was one, is deleted after the swap: a failure
\* of that is raised although the write is in place.
Cleanup(o) ==
    /\ pc[o] = "cleanup"
    /\ \/ /\ backup' = [backup EXCEPT ![o] = NoCollection]
          /\ Finish(o, "ok", Unseen)
          /\ UNCHANGED bounds
       \/ /\ backup[o] # NoCollection
          /\ Fault /\ Finish(o, "error", Unseen)
          /\ UNCHANGED backup
    /\ UNCHANGED <<target, req, mem>>

\* shutil.rmtree(target): file by file, then the directory itself.  It fails by
\* itself, or because another instance has taken the directory away.
Remove(o) ==
    /\ pc[o] = "removing"
    /\ \/ /\ target \notin {NoCollection, Damaged}
          /\ target' = Damaged
          /\ UNCHANGED <<pc, res, awaited, bounds>>
       \/ /\ target = Damaged
          /\ target' = NoCollection
          /\ Finish(o, "ok", Unseen)
          /\ UNCHANGED bounds
       \/ /\ IF target = NoCollection THEN UNCHANGED bounds ELSE Fault
          /\ Finish(o, "error", Unseen)
          /\ UNCHANGED target
    /\ UNCHANGED <<backup, req, mem>>

\* The process dies and is started again: no code looks for a directory moved
\* aside, and no thread, lock or coroutine survives.
Crash ==
    /\ crashes < MaxCrashes
    /\ crashes' = crashes + 1
    /\ \E o \in Ops : pc[o] \notin {"idle", "done"}
    /\ pc' = [o \in Ops |-> IF pc[o] = "idle" THEN "idle" ELSE "done"]
    /\ res' = [o \in Ops |-> IF pc[o] \in {"idle", "done"} THEN res[o]
                             ELSE Reply("crashed", Unseen)]
    /\ awaited' = [o \in Ops |-> FALSE]
    /\ UNCHANGED <<target, backup, req, mem, faults>>

Next ==
    \/ \E o \in Ops :
         \/ Call(o) \/ Dispatch(o) \/ CancelCaller(o) \/ Acquire(o) \/ Probe(o)
         \/ ReadDocstore(o) \/ ReadDigest(o) \/ ReadIndex(o)
         \/ Stage(o) \/ MoveAside(o) \/ Swap(o) \/ Cleanup(o) \/ Remove(o)
    \/ Crash

Spec == Init /\ [][Next]_vars

-----------------------------------------------------------------------------
(* Safety *)

\* Types, and what the locks and the digest give: one thread per instance is at
\* the files, a moved-aside directory belongs to a publication between its
\* renames or to one that died or failed there, and docstore and index on disk
\* describe the same records.
StoreInv ==
    /\ target \in Directory
    /\ backup \in [Ops -> Directory]
    /\ req \in [Ops -> Request]
    /\ pc \in [Ops -> Outside \cup {"lock"} \cup Critical]
    /\ mem \in [Ops -> Generation]
    /\ awaited \in [Ops -> BOOLEAN]
    /\ \A o \in Ops :
         /\ pc[o] \in Critical => \A p \in Siblings(o) : pc[p] \notin Critical
         /\ pc[o] \notin {"swap", "cleanup", "done"} => backup[o] = NoCollection
         /\ res[o].status = "ok" => backup[o] = NoCollection
    /\ target \in Generation => target.docs = target.index

\* A generation that was moved aside is deleted only once another directory is
\* in its place: no instant, and so no crash, finds neither on disk.
PreviousKept ==
    [][\A o \in Ops : backup[o] # NoCollection /\ backup'[o] = NoCollection
            => target' # NoCollection]_vars

\* What the class promises: "atomic generations", "thread-safe within one
\* process".  Between the two renames the collection is the one moved aside; a
\* removal that has begun is one that has happened.
AbstractColl ==
    LET moving   == {o \in Ops : pc[o] = "swap" /\ backup[o] # NoCollection}
        removing == {o \in Ops : pc[o] = "removing"}
        shown    == IF target = NoCollection /\ moving # {}
                    THEN backup[CHOOSE o \in moving : TRUE]
                    ELSE IF target = Damaged /\ removing # {} THEN NoCollection
                    ELSE target
    IN IF shown \in {NoCollection, Damaged} THEN shown ELSE shown.docs

AbstractStage ==
    [o \in Ops |->
        CASE pc[o] \in {"idle", "done"} -> pc[o]
          [] pc[o] = "cleanup" -> "performed"
          [] pc[o] = "removing" /\ target = Damaged -> "performed"
          [] OTHER -> "pending"]

Abstract == INSTANCE AtomicCollection WITH coll <- AbstractColl, stage <- AbstractStage

\* Every operation of one adapter instance is one atomic step on the
\* collection, whichever callers are cancelled on the way, with the faults and
\* the crash that AtomicCollection admits.
AtomicOperations == Abstract!ASpec

\* An upsert that was acknowledged is found once all operations have ended, if
\* none of them removes anything.
NoLostUpdate ==
    (\A o \in Ops : pc[o] = "done" /\ req[o].kind = "upsert") =>
        \A o \in Ops : res[o].status = "ok" =>
            target \in Generation /\ req[o].recs \subseteq Stored(target.docs)

=============================================================================
