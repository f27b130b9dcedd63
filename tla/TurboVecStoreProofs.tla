------------------------- MODULE TurboVecStoreProofs -------------------------
(***************************************************************************)
(* Theorems about TurboVecStore, for all operations, records and batches.  *)
(* What the repository's lock gives holds whoever shares an adapter.  That *)
(* docstore and index agree, that a replaced generation is never missing,  *)
(* and that operations are atomic is proved for the operations of one      *)
(* adapter instance: several instances on one directory do lose updates.   *)
(***************************************************************************)
EXTENDS TurboVecStore, TLAPS

OneAdapter == \A o, p \in Ops : InstanceOf[o] = InstanceOf[p]

Replies == [status : {"none", "ok", "missing", "error", "crashed"}, seen : Contents \cup {Unseen}]

Types ==
    /\ target \in Directory
    /\ backup \in [Ops -> Directory]
    /\ req \in [Ops -> Request]
    /\ pc \in [Ops -> Outside \cup {"lock"} \cup Critical]
    /\ mem \in [Ops -> Generation]
    /\ awaited \in [Ops -> BOOLEAN]
    /\ res \in [Ops -> Replies]

\* The RLock, and where a directory that was moved aside may be.
Exclusive ==
    \A o \in Ops :
        /\ pc[o] \in Critical => \A p \in Siblings(o) : pc[p] \notin Critical
        /\ pc[o] \notin {"swap", "cleanup", "done"} => backup[o] = NoCollection
        /\ res[o].status = "ok" => backup[o] = NoCollection
        /\ pc[o] # "done" => res[o].status = "none"

LInv == Types /\ Exclusive

\* A generation whose docstore and index describe the same records.
Paired(g) == g \in Generation /\ g.docs = g.index

\* What an operation is about to publish in place of g.
Prepared(o, g) ==
    \/ req[o].kind = "ensure" /\ g = NoCollection /\ mem[o] = EmptyGen
    \/ /\ Paired(g)
       /\ req[o].kind = "upsert" \/ (req[o].kind = "forget" /\ Matching(o, g.docs) # {})
       /\ mem[o] = [docs |-> Edited(o, g.docs), index |-> Edited(o, g.docs)]

\* What the thread that holds the lock knows of the files.
Knows(o) ==
    /\ pc[o] = "probe" => req[o].kind \in {"ensure", "drop"}
    /\ pc[o] \in {"docstore", "digest", "index"} =>
         req[o].kind # "drop" /\ (req[o].kind = "ensure" => target # NoCollection)
    /\ pc[o] \in {"digest", "index"} => target = mem[o]
    /\ pc[o] \in {"stage", "aside"} => Prepared(o, target)
    /\ pc[o] = "swap" => target = NoCollection /\ Prepared(o, backup[o])
    /\ pc[o] = "cleanup" =>
         target = mem[o] /\ Paired(mem[o]) /\ req[o].kind \in {"ensure", "upsert", "forget"}
    /\ pc[o] = "removing" => req[o].kind = "drop" /\ target # NoCollection

Files ==
    /\ target \in Generation => Paired(target)
    /\ \A o \in Ops : Knows(o)

IInv == LInv /\ Files

-----------------------------------------------------------------------------
(* The locks, whoever shares an adapter *)

\* A request that carries records carries a batch of them; one that forgets names a source.
LEMMA RequestFields ==
    ASSUME NEW q \in Request
    PROVE  /\ q.kind \in {"ensure", "drop", "search", "upsert", "forget"}
           /\ q.kind = "upsert" => q.recs \in Batches
BY DEF Request

\* A write maps contents to contents.
LEMMA EditedContents ==
    ASSUME NEW o \in Ops, req \in [Ops -> Request], NEW c \in Contents,
           req[o].kind \in {"upsert", "forget"}
    PROVE  Edited(o, c) \in Contents
<1>1. CASE req[o].kind = "upsert"
  BY <1>1 DEF Edited, Contents
<1>2. CASE req[o].kind = "forget"
  BY <1>2 DEF Edited, Contents
<1> QED BY <1>1, <1>2

\* Nothing is stored in the generation that ensure_collection publishes.
LEMMA EmptyGeneration == EmptyGen \in Generation /\ Paired(EmptyGen)
BY DEF EmptyGen, Empty, Generation, Contents, Paired

\* The answers an operation ends with.
LEMMA ReplyTypes ==
    /\ NoReply \in Replies /\ NoReply.status = "none"
    /\ \A s \in {"ok", "missing", "error", "crashed"}, c \in Contents \cup {Unseen} :
         Reply(s, c) \in Replies /\ Reply(s, c).status = s
BY DEF NoReply, Reply, Replies

\* Before anything is called no thread is at the files and nothing is moved aside.
LEMMA InitLInv == Init => LInv
<1> SUFFICES ASSUME Init PROVE LInv
  OBVIOUS
<1>1. target \in Directory /\ NoCollection \in Directory
  BY EmptyGeneration DEF Init, Directory
<1>2. [kind |-> "search"] \in Request
  BY DEF Request
<1>3. Types
  BY <1>1, <1>2, EmptyGeneration, ReplyTypes DEF Init, Types, Outside
<1>4. Exclusive
  BY ReplyTypes DEF Init, Exclusive, Critical
<1> QED BY <1>3, <1>4 DEF LInv

\* A step of one operation keeps the exclusion when its thread comes to the files only
\* while no sibling's is there, and leaves a moved-aside directory only where it may.
LEMMA OneMoves ==
    ASSUME LInv, Types', NEW o \in Ops,
           \A p \in Ops \ {o} : pc'[p] = pc[p] /\ backup'[p] = backup[p] /\ res'[p] = res[p],
           pc'[o] \in Critical /\ pc[o] \notin Critical =>
             \A p \in Siblings(o) : pc[p] \notin Critical,
           pc'[o] \notin {"swap", "cleanup", "done"} => backup'[o] = NoCollection,
           res'[o].status = "ok" => backup'[o] = NoCollection,
           pc'[o] # "done" => res'[o].status = "none"
    PROVE  LInv'
<1>1. \A p \in Ops : pc'[p] \in Critical => \A q \in Siblings(p) : pc'[q] \notin Critical
  <2>1. \A p, q \in Ops : q \in Siblings(p) <=> p \in Siblings(q)
    BY DEF Siblings
  <2>2. \A p \in Ops : pc[p] \in Critical => \A q \in Siblings(p) : pc[q] \notin Critical
    BY DEF LInv, Exclusive
  <2>3. \A p \in Ops : \A q \in Siblings(p) : q \in Ops /\ q # p
    BY DEF Siblings
  <2>4. pc'[o] \in Critical => \A p \in Siblings(o) : pc[p] \notin Critical
    BY <2>2
  <2> HIDE DEF Siblings
  <2> QED BY <2>1, <2>2, <2>3, <2>4
<1>2. \A p \in Ops : /\ pc'[p] \notin {"swap", "cleanup", "done"} => backup'[p] = NoCollection
                     /\ res'[p].status = "ok" => backup'[p] = NoCollection
                     /\ pc'[p] # "done" => res'[p].status = "none"
  BY DEF LInv, Exclusive
<1>3. Exclusive'
  BY <1>1, <1>2 DEF Exclusive, Siblings
<1> QED BY <1>3 DEF LInv

\* What a thread that ends leaves behind.
LEMMA FinishTypes ==
    ASSUME Types, NEW o \in Ops, NEW s \in {"ok", "missing", "error", "crashed"},
           NEW c \in Contents \cup {Unseen}, Finish(o, s, c)
    PROVE  /\ pc' \in [Ops -> Outside \cup {"lock"} \cup Critical]
           /\ res' \in [Ops -> Replies] /\ awaited' \in [Ops -> BOOLEAN]
           /\ pc'[o] = "done" /\ res'[o] = Reply(s, c) /\ res'[o].status = s
           /\ \A p \in Ops \ {o} : pc'[p] = pc[p] /\ res'[p] = res[p]
BY ReplyTypes DEF Types, Finish, Goto, Outside

\* A thread that goes on.
LEMMA GotoTypes ==
    ASSUME Types, NEW o \in Ops, NEW l \in {"adapter", "lock"} \cup Critical, Goto(o, l)
    PROVE  /\ pc' \in [Ops -> Outside \cup {"lock"} \cup Critical]
           /\ pc'[o] = l /\ \A p \in Ops \ {o} : pc'[p] = pc[p]
BY DEF Types, Goto, Outside

\* The coroutine's side: a call, its turn at the adapter, its cancellation.
LEMMA CallLInv == ASSUME LInv, NEW o \in Ops, Call(o) PROVE LInv'
<1> USE DEF LInv
<1>1. /\ pc[o] = "idle" /\ Goto(o, "adapter")
      /\ \E r \in Request : req' = [req EXCEPT ![o] = r]
      /\ awaited' = [awaited EXCEPT ![o] = TRUE]
      /\ UNCHANGED <<target, backup, mem, res>>
  BY DEF Call
<1>2. pc'[o] = "adapter"
  BY <1>1, GotoTypes
<1>3. Types'
  BY <1>1, GotoTypes DEF Types
<1> QED BY <1>1, <1>2, <1>3, GotoTypes, OneMoves DEF Exclusive, Critical

\* Starting a thread takes no lock yet.
LEMMA DispatchLInv == ASSUME LInv, NEW o \in Ops, Dispatch(o) PROVE LInv'
<1> USE DEF LInv
<1>1. /\ pc[o] = "adapter" /\ Goto(o, "lock")
      /\ UNCHANGED <<target, backup, req, mem, awaited, res>>
  BY DEF Dispatch
<1>2. pc'[o] = "lock"
  BY <1>1, GotoTypes
<1>3. Types'
  BY <1>1, GotoTypes DEF Types
<1> QED BY <1>1, <1>2, <1>3, GotoTypes, OneMoves DEF Exclusive, Critical

\* A cancelled caller leaves its thread where it is.
LEMMA CancelLInv == ASSUME LInv, NEW o \in Ops, CancelCaller(o) PROVE LInv'
<1> USE DEF LInv
<1>1. UNCHANGED <<target, backup, req, mem>>
  BY DEF CancelCaller
<1>2. CASE pc[o] = "adapter"
  <2>1. Finish(o, "error", Unseen)
    BY <1>2 DEF CancelCaller
  <2>2. Types'
    BY <1>1, <2>1, FinishTypes DEF Types
  <2>3. /\ pc'[o] = "done" /\ res'[o].status = "error"
        /\ \A p \in Ops \ {o} : pc'[p] = pc[p] /\ res'[p] = res[p]
    BY <2>1, FinishTypes
  <2> QED BY <1>1, <2>2, <2>3, OneMoves DEF Critical
<1>3. CASE pc[o] # "adapter"
  <2>1. awaited' = [awaited EXCEPT ![o] = FALSE] /\ UNCHANGED <<pc, res>>
    BY <1>3 DEF CancelCaller
  <2>2. Types'
    BY <1>1, <2>1 DEF Types
  <2> QED BY <1>1, <2>1, <2>2, OneMoves DEF Exclusive
<1> QED BY <1>2, <1>3

\* The RLock is taken while no sibling's thread holds it.
LEMMA AcquireLInv == ASSUME LInv, NEW o \in Ops, Acquire(o) PROVE LInv'
<1> USE DEF LInv
<1>1. /\ pc[o] = "lock" /\ \A p \in Siblings(o) : pc[p] \notin Critical
      /\ UNCHANGED <<target, backup, req, mem, awaited, res>>
  BY DEF Acquire
<1>2. PICK l \in {"probe", "docstore"} : Goto(o, l)
  BY DEF Acquire
<1>3. pc'[o] = l /\ l \in Critical
  BY <1>2, GotoTypes DEF Critical
<1>4. Types'
  BY <1>1, <1>2, <1>3, GotoTypes DEF Types
<1> QED BY <1>1, <1>2, <1>3, <1>4, GotoTypes, OneMoves DEF Exclusive

\* A step under the lock that moves neither a directory aside nor back.
LEMMA UnderLock ==
    ASSUME LInv, NEW o \in Ops, pc[o] \in Critical \ {"swap", "cleanup"},
           UNCHANGED <<backup, req>>, target' \in Directory, mem' \in [Ops -> Generation],
           \/ \E l \in Critical : Goto(o, l) /\ UNCHANGED <<res, awaited>>
           \/ \E s \in {"ok", "missing", "error"}, c \in Contents \cup {Unseen} : Finish(o, s, c)
           \/ UNCHANGED <<pc, res, awaited>>
    PROVE  LInv'
<1> USE DEF LInv
<1>1. backup[o] = NoCollection
  BY DEF Exclusive, Critical
<1>2. CASE \E l \in Critical : Goto(o, l) /\ UNCHANGED <<res, awaited>>
  <2>1. PICK l \in Critical : Goto(o, l) /\ UNCHANGED <<res, awaited>>
    BY <1>2
  <2>2. /\ pc'[o] = l /\ \A p \in Ops \ {o} : pc'[p] = pc[p]
        /\ pc' \in [Ops -> Outside \cup {"lock"} \cup Critical]
    BY <2>1, GotoTypes
  <2>3. Types'
    BY <2>1, <2>2 DEF Types
  <2>4. res'[o].status = "none"
    BY <2>1 DEF Exclusive, Critical
  <2> QED BY <1>1, <2>1, <2>2, <2>3, <2>4, OneMoves
<1>3. CASE \E s \in {"ok", "missing", "error"}, c \in Contents \cup {Unseen} : Finish(o, s, c)
  <2>1. PICK s \in {"ok", "missing", "error"}, c \in Contents \cup {Unseen} : Finish(o, s, c)
    BY <1>3
  <2>2. /\ pc'[o] = "done" /\ \A p \in Ops \ {o} : pc'[p] = pc[p] /\ res'[p] = res[p]
        /\ pc' \in [Ops -> Outside \cup {"lock"} \cup Critical]
        /\ res' \in [Ops -> Replies] /\ awaited' \in [Ops -> BOOLEAN]
    BY <2>1, FinishTypes
  <2>3. Types'
    BY <2>2 DEF Types
  <2> QED BY <1>1, <2>2, <2>3, OneMoves DEF Critical
<1>4. CASE UNCHANGED <<pc, res, awaited>>
  <2>1. Types'
    BY <1>4 DEF Types
  <2> QED BY <1>1, <1>4, <2>1, OneMoves DEF Exclusive
<1> QED BY <1>2, <1>3, <1>4

\* Every step of a thread between the lock and the publication's two renames.
LEMMA ReadersLInv ==
    ASSUME LInv, NEW o \in Ops,
           \/ Probe(o) \/ ReadDocstore(o) \/ ReadDigest(o) \/ ReadIndex(o) \/ Stage(o) \/ Remove(o)
    PROVE  LInv'
<1> USE DEF LInv
<1>1. CASE Probe(o)
  <2>1. /\ pc[o] = "probe" /\ UNCHANGED <<target, backup, req>>
        /\ mem' \in {mem, [mem EXCEPT ![o] = EmptyGen]}
        /\ \/ Finish(o, "ok", Unseen)
           \/ \E l \in {"stage", "docstore", "removing"} : Goto(o, l) /\ UNCHANGED <<res, awaited>>
    BY <1>1 DEF Probe
  <2>2. mem' \in [Ops -> Generation]
    BY <2>1, EmptyGeneration DEF Types
  <2> QED BY <2>1, <2>2, UnderLock DEF Critical, Types
<1>2. CASE ReadDocstore(o)
  <2>1. /\ pc[o] = "docstore" /\ UNCHANGED <<target, backup, req>>
        /\ \/ mem' = mem /\ \E s \in {"missing", "error"} : Finish(o, s, Unseen)
           \/ /\ target \notin {NoCollection, Damaged} /\ mem' = [mem EXCEPT ![o] = target]
              /\ Goto(o, "digest") /\ UNCHANGED <<res, awaited>>
    BY <1>2 DEF ReadDocstore
  <2>2. mem' \in [Ops -> Generation]
    BY <2>1 DEF Types, Directory
  <2> QED BY <2>1, <2>2, UnderLock DEF Critical, Types
<1>3. CASE ReadDigest(o)
  <2>1. /\ pc[o] = "digest" /\ UNCHANGED <<target, backup, req, mem>>
        /\ \/ Finish(o, "error", Unseen)
           \/ Goto(o, "index") /\ UNCHANGED <<res, awaited>>
    BY <1>3 DEF ReadDigest
  <2> QED BY <2>1, UnderLock DEF Critical, Types
<1>4. CASE ReadIndex(o)
  <2>1. /\ pc[o] = "index" /\ UNCHANGED <<target, backup, req>>
        /\ mem[o] \in Generation /\ mem[o].docs \in Contents
    BY <1>4 DEF ReadIndex, Types, Generation
  <2>2. CASE /\ mem' = mem
             /\ \E s \in {"ok", "error"}, c \in {mem[o].docs, Unseen} : Finish(o, s, c)
    BY <2>1, <2>2, UnderLock DEF Critical, Types
  <2>3. CASE /\ target \notin {NoCollection, Damaged} /\ req[o].kind \in {"upsert", "forget"}
             /\ mem' = [mem EXCEPT ![o] =
                         [docs |-> Edited(o, mem[o].docs), index |-> Edited(o, target.index)]]
             /\ Goto(o, "stage") /\ UNCHANGED <<res, awaited>>
    <3>1. target.index \in Contents
      BY <2>3 DEF Types, Directory, Generation
    <3>2. Edited(o, mem[o].docs) \in Contents /\ Edited(o, target.index) \in Contents
      BY <2>1, <2>3, <3>1, EditedContents DEF Types
    <3>3. mem' \in [Ops -> Generation]
      BY <2>3, <3>2 DEF Types, Generation
    <3> QED BY <2>1, <2>3, <3>3, UnderLock DEF Critical, Types
  <2> QED BY <1>4, <2>2, <2>3 DEF ReadIndex
<1>5. CASE Stage(o)
  <2>1. /\ pc[o] = "stage" /\ UNCHANGED <<target, backup, req, mem>>
        /\ \/ Finish(o, "error", Unseen)
           \/ Goto(o, "aside") /\ UNCHANGED <<res, awaited>>
    BY <1>5 DEF Stage
  <2> QED BY <2>1, UnderLock DEF Critical, Types
<1>6. CASE Remove(o)
  <2>1. /\ pc[o] = "removing" /\ UNCHANGED <<backup, req, mem>>
        /\ target' \in {target, NoCollection, Damaged}
        /\ \/ \E s \in {"ok", "error"} : Finish(o, s, Unseen)
           \/ UNCHANGED <<pc, res, awaited>>
    BY <1>6 DEF Remove
  <2> QED BY <2>1, UnderLock DEF Critical, Types, Directory
<1> QED BY <1>1, <1>2, <1>3, <1>4, <1>5, <1>6

\* The live directory is moved aside.
LEMMA MoveAsideLInv == ASSUME LInv, NEW o \in Ops, MoveAside(o) PROVE LInv'
<1> USE DEF LInv
<1>1. /\ pc[o] = "aside" /\ Goto(o, "swap")
      /\ backup' = [backup EXCEPT ![o] = target] /\ target' = NoCollection
      /\ UNCHANGED <<req, mem, awaited, res>>
  BY DEF MoveAside
<1>2. /\ pc'[o] = "swap" /\ \A p \in Ops \ {o} : pc'[p] = pc[p]
      /\ pc' \in [Ops -> Outside \cup {"lock"} \cup Critical]
  BY <1>1, GotoTypes DEF Critical
<1>3. Types' /\ \A p \in Ops \ {o} : backup'[p] = backup[p]
  BY <1>1, <1>2 DEF Types, Directory
<1>4. pc[o] \in Critical /\ res'[o].status = "none"
  BY <1>1 DEF Exclusive, Critical
<1> QED BY <1>1, <1>2, <1>3, <1>4, OneMoves

\* The new directory is moved into place, or the old one back.
LEMMA SwapLInv == ASSUME LInv, NEW o \in Ops, Swap(o) PROVE LInv'
<1> USE DEF LInv
<1>1. pc[o] = "swap" /\ pc[o] \in Critical /\ UNCHANGED <<req, mem>>
  BY DEF Swap, Critical
<1>2. CASE /\ target' = mem[o] /\ Goto(o, "cleanup") /\ UNCHANGED <<backup, res, awaited>>
  <2>1. /\ pc'[o] = "cleanup" /\ \A p \in Ops \ {o} : pc'[p] = pc[p]
        /\ pc' \in [Ops -> Outside \cup {"lock"} \cup Critical]
    BY <1>2, GotoTypes DEF Critical
  <2>2. Types'
    BY <1>1, <1>2, <2>1 DEF Types, Directory
  <2>3. res'[o].status = "none"
    BY <1>1, <1>2 DEF Exclusive
  <2> QED BY <1>1, <1>2, <2>1, <2>2, <2>3, OneMoves
<1>3. CASE /\ \/ target' = backup[o] /\ backup' = [backup EXCEPT ![o] = NoCollection]
              \/ UNCHANGED <<target, backup>>
           /\ Finish(o, "error", Unseen)
  <2>1. /\ pc'[o] = "done" /\ \A p \in Ops \ {o} : pc'[p] = pc[p] /\ res'[p] = res[p]
        /\ pc' \in [Ops -> Outside \cup {"lock"} \cup Critical]
        /\ res' \in [Ops -> Replies] /\ awaited' \in [Ops -> BOOLEAN]
        /\ res'[o].status = "error"
    BY <1>3, FinishTypes
  <2>2. Types' /\ \A p \in Ops \ {o} : backup'[p] = backup[p]
    BY <1>1, <1>3, <2>1 DEF Types, Directory
  <2> QED BY <1>1, <2>1, <2>2, OneMoves
<1> QED BY <1>2, <1>3 DEF Swap

\* The old directory is deleted before a write is acknowledged.
LEMMA CleanupLInv == ASSUME LInv, NEW o \in Ops, Cleanup(o) PROVE LInv'
<1> USE DEF LInv
<1>1. PICK s \in {"ok", "error"} :
        /\ pc[o] = "cleanup" /\ UNCHANGED <<target, req, mem>> /\ Finish(o, s, Unseen)
        /\ \/ backup' = [backup EXCEPT ![o] = NoCollection]
           \/ s = "error" /\ backup' = backup
  BY DEF Cleanup
<1>2. /\ pc'[o] = "done" /\ \A p \in Ops \ {o} : pc'[p] = pc[p] /\ res'[p] = res[p]
      /\ pc' \in [Ops -> Outside \cup {"lock"} \cup Critical]
      /\ res' \in [Ops -> Replies] /\ awaited' \in [Ops -> BOOLEAN]
      /\ res'[o].status = s
  BY <1>1, FinishTypes
<1>3. Types' /\ \A p \in Ops \ {o} : backup'[p] = backup[p]
  BY <1>1, <1>2 DEF Types, Directory
<1>4. res'[o].status = "ok" => backup'[o] = NoCollection
  BY <1>1, <1>2 DEF Types
<1> QED BY <1>1, <1>2, <1>3, <1>4, OneMoves DEF Critical

\* No thread survives a crash.
LEMMA CrashLInv == ASSUME LInv, Crash PROVE LInv'
<1> USE DEF LInv
<1>1. /\ pc' = [o \in Ops |-> IF pc[o] = "idle" THEN "idle" ELSE "done"]
      /\ res' = [o \in Ops |-> IF pc[o] \in {"idle", "done"} THEN res[o] ELSE Reply("crashed", Unseen)]
      /\ awaited' = [o \in Ops |-> FALSE]
      /\ UNCHANGED <<target, backup, req, mem>>
  BY DEF Crash
<1>2. Reply("crashed", Unseen) \in Replies /\ Reply("crashed", Unseen).status = "crashed"
  BY ReplyTypes
<1>3. Types'
  BY <1>1, <1>2 DEF Types, Outside
<1>4. Exclusive'
  <2> SUFFICES ASSUME NEW o \in Ops
               PROVE  /\ pc'[o] \notin Critical
                      /\ pc'[o] \notin {"swap", "cleanup", "done"} => backup'[o] = NoCollection
                      /\ res'[o].status = "ok" => backup'[o] = NoCollection
                      /\ pc'[o] # "done" => res'[o].status = "none"
    BY DEF Exclusive
  <2>1. pc'[o] \in {"idle", "done"} /\ pc'[o] \notin Critical
    BY <1>1 DEF Critical
  <2> QED BY <1>1, <1>2, <2>1 DEF Exclusive
<1> QED BY <1>3, <1>4

\* Every step keeps types and exclusion.
LEMMA NextLInv == LInv /\ [Next]_vars => LInv'
<1> SUFFICES ASSUME LInv, [Next]_vars PROVE LInv'
  OBVIOUS
<1>1. CASE UNCHANGED vars
  BY <1>1 DEF vars, LInv, Types, Exclusive, Siblings
<1>2. ASSUME NEW o \in Ops,
             \/ Call(o) \/ Dispatch(o) \/ CancelCaller(o) \/ Acquire(o) \/ Probe(o)
             \/ ReadDocstore(o) \/ ReadDigest(o) \/ ReadIndex(o)
             \/ Stage(o) \/ MoveAside(o) \/ Swap(o) \/ Cleanup(o) \/ Remove(o)
      PROVE  LInv'
  BY <1>2, CallLInv, DispatchLInv, CancelLInv, AcquireLInv, ReadersLInv, MoveAsideLInv,
     SwapLInv, CleanupLInv
<1> QED BY <1>1, <1>2, CrashLInv DEF Next

\* Types and exclusion hold of every behaviour.
LEMMA LocksInductive == Spec => []LInv
BY InitLInv, NextLInv, PTL DEF Spec

\* One thread per adapter instance is at the files, and an acknowledged operation has
\* left no directory aside.
OneThread ==
    \A o \in Ops :
        /\ pc[o] \in Critical => \A p \in Siblings(o) : pc[p] \notin Critical
        /\ res[o].status = "ok" => backup[o] = NoCollection

\* That holds whoever shares which adapter (repository.py:62, persistence.py:33).
THEOREM LocksExclude == Spec => []OneThread
<1>1. LInv => OneThread
  BY DEF LInv, Exclusive, OneThread
<1> QED BY <1>1, LocksInductive, PTL

-----------------------------------------------------------------------------
(* The files, for the operations of one adapter *)

\* One thread at most is at the files, and the others know nothing of them.
LEMMA Alone ==
    ASSUME OneAdapter, LInv, NEW o \in Ops, pc[o] \in Critical
    PROVE  \A p \in Ops \ {o} : pc[p] \notin Critical
BY DEF OneAdapter, LInv, Exclusive, Siblings

\* A step of the one thread at the files: only what that thread knows can change.
LEMMA FilesMove ==
    ASSUME OneAdapter, IInv, LInv', NEW o \in Ops,
           pc[o] \in Critical \/ pc'[o] \in Critical,
           \A p \in Ops \ {o} : pc'[p] = pc[p],
           target' \in Generation => Paired(target'), Knows(o)'
    PROVE  IInv'
<1>1. \A p \in Ops \ {o} : pc'[p] \notin Critical
  <2>1. CASE pc[o] \in Critical
    BY <2>1, Alone DEF IInv
  <2>2. CASE pc'[o] \in Critical
    BY <2>2 DEF OneAdapter, LInv, Exclusive, Siblings
  <2> QED BY <2>1, <2>2
<1>2. \A p \in Ops : Knows(p)'
  <2> SUFFICES ASSUME NEW p \in Ops \ {o} PROVE Knows(p)'
    OBVIOUS
  <2> QED BY <1>1 DEF Knows, Critical
<1> QED BY <1>2 DEF IInv, Files

\* A step that leaves the files and every working thread alone.
LEMMA FilesRest ==
    ASSUME IInv, LInv', UNCHANGED <<target, backup, mem>>,
           \A p \in Ops : pc'[p] \in Critical => pc'[p] = pc[p] /\ req'[p] = req[p]
    PROVE  IInv'
<1>1. \A p \in Ops : Knows(p)'
  <2> SUFFICES ASSUME NEW p \in Ops PROVE Knows(p)'
    OBVIOUS
  <2>1. Knows(p)
    BY DEF IInv, Files
  <2>2. CASE pc'[p] \notin Critical
    BY <2>2 DEF Knows, Critical
  <2>3. CASE pc'[p] = pc[p] /\ req'[p] = req[p]
    BY <2>1, <2>3 DEF Knows, Prepared, Edited, Matching, Stored
  <2> QED BY <2>2, <2>3
<1> QED BY <1>1 DEF IInv, Files, Paired

\* Callers come and go without touching the files.
LEMMA CallersFiles ==
    ASSUME IInv, LInv', NEW o \in Ops, Call(o) \/ Dispatch(o) \/ CancelCaller(o)
    PROVE  IInv'
<1>1. UNCHANGED <<target, backup, mem>>
  BY DEF Call, Dispatch, CancelCaller
<1>2. pc \in [Ops -> Outside \cup {"lock"} \cup Critical] /\ req \in [Ops -> Request]
  BY DEF IInv, LInv, Types
<1>3. \A p \in Ops : pc'[p] \in Critical => pc'[p] = pc[p] /\ req'[p] = req[p]
  <2>1. CASE Call(o)
    BY <1>2, <2>1 DEF Call, Goto, Critical
  <2>2. CASE Dispatch(o)
    BY <1>2, <2>2 DEF Dispatch, Goto, Critical
  <2>3. CASE CancelCaller(o)
    BY <1>2, <2>3 DEF CancelCaller, Finish, Goto, Critical
  <2> QED BY <2>1, <2>2, <2>3
<1> QED BY <1>1, <1>3, FilesRest

\* A thread that comes to the files knows its own request.
LEMMA AcquireFiles ==
    ASSUME OneAdapter, IInv, LInv', NEW o \in Ops, Acquire(o)
    PROVE  IInv'
<1>1. /\ UNCHANGED <<target, backup, req, mem>>
      /\ Goto(o, IF req[o].kind \in {"ensure", "drop"} THEN "probe" ELSE "docstore")
  BY DEF Acquire
<1>2. /\ pc'[o] = IF req[o].kind \in {"ensure", "drop"} THEN "probe" ELSE "docstore"
      /\ \A p \in Ops \ {o} : pc'[p] = pc[p]
      /\ pc'[o] \in Critical
  BY <1>1, GotoTypes DEF IInv, LInv, Critical
<1>3. Knows(o)'
  BY <1>1, <1>2 DEF Knows
<1>4. target' \in Generation => Paired(target')
  BY <1>1 DEF IInv, Files
<1> QED BY <1>2, <1>3, <1>4, FilesMove

\* A thread that ends has nothing more to know.
LEMMA FinishFiles ==
    ASSUME OneAdapter, IInv, LInv', NEW o \in Ops, pc[o] \in Critical,
           NEW s \in {"ok", "missing", "error"}, NEW c \in Contents \cup {Unseen}, Finish(o, s, c),
           target' \in Generation => Paired(target')
    PROVE  IInv'
<1>1. pc'[o] = "done" /\ \A p \in Ops \ {o} : pc'[p] = pc[p]
  BY FinishTypes DEF IInv, LInv
<1>2. Knows(o)'
  BY <1>1 DEF Knows
<1> QED BY <1>1, <1>2, FilesMove

\* A thread that goes on, with what it knows at its new place.
LEMMA GotoFiles ==
    ASSUME OneAdapter, IInv, LInv', NEW o \in Ops, pc[o] \in Critical,
           NEW l \in Critical, Goto(o, l), target' \in Generation => Paired(target'),
           pc'[o] = l => Knows(o)'
    PROVE  IInv'
<1>1. pc'[o] = l /\ \A p \in Ops \ {o} : pc'[p] = pc[p]
  BY GotoTypes DEF IInv, LInv
<1> QED BY <1>1, FilesMove

\* What is found decides whether there is something to stage, to load or to remove.
LEMMA ProbeFiles == ASSUME OneAdapter, IInv, LInv', NEW o \in Ops, Probe(o) PROVE IInv'
<1>1. /\ pc[o] = "probe" /\ pc[o] \in Critical /\ req[o].kind \in {"ensure", "drop"}
      /\ UNCHANGED <<target, backup, req>>
      /\ target' \in Generation => Paired(target')
  BY DEF Probe, Critical, IInv, Files, Knows
<1>2. CASE req[o].kind = "ensure" /\ target = NoCollection
  <2>1. Goto(o, "stage") /\ mem'[o] = EmptyGen
    BY <1>2 DEF Probe, IInv, LInv, Types
  <2>2. pc'[o] = "stage" => Knows(o)'
    BY <1>1, <1>2, <2>1 DEF Knows, Prepared
  <2> QED BY <1>1, <2>1, <2>2, GotoFiles DEF Critical
<1>3. CASE req[o].kind = "ensure" /\ target # NoCollection
  <2>1. Goto(o, "docstore")
    BY <1>3 DEF Probe
  <2>2. pc'[o] = "docstore" => Knows(o)'
    BY <1>1, <1>3 DEF Knows
  <2> QED BY <1>1, <2>1, <2>2, GotoFiles DEF Critical
<1>4. CASE req[o].kind = "drop" /\ target = NoCollection
  BY <1>1, <1>4, FinishFiles DEF Probe
<1>5. CASE req[o].kind = "drop" /\ target # NoCollection
  <2>1. Goto(o, "removing")
    BY <1>5 DEF Probe
  <2>2. pc'[o] = "removing" => Knows(o)'
    BY <1>1, <1>5 DEF Knows
  <2> QED BY <1>1, <2>1, <2>2, GotoFiles DEF Critical
<1> QED BY <1>1, <1>2, <1>3, <1>4, <1>5

\* The generation that was read is the one on disk.
LEMMA ReadDocstoreFiles ==
    ASSUME OneAdapter, IInv, LInv', NEW o \in Ops, ReadDocstore(o) PROVE IInv'
<1>1. /\ pc[o] = "docstore" /\ pc[o] \in Critical /\ req[o].kind # "drop"
      /\ UNCHANGED <<target, backup, req>>
      /\ target' \in Generation => Paired(target')
  BY DEF ReadDocstore, Critical, IInv, Files, Knows
<1>2. CASE target \in {NoCollection, Damaged}
  BY <1>1, <1>2, FinishFiles DEF ReadDocstore
<1>3. CASE target \notin {NoCollection, Damaged}
  <2>1. Goto(o, "digest") /\ mem'[o] = target
    BY <1>3 DEF ReadDocstore, IInv, LInv, Types
  <2>2. pc'[o] = "digest" => Knows(o)'
    BY <1>1, <1>3, <2>1 DEF Knows
  <2> QED BY <1>1, <2>1, <2>2, GotoFiles DEF Critical
<1> QED BY <1>2, <1>3

\* Nobody has touched the files since the docstore was read.
LEMMA ReadDigestFiles ==
    ASSUME OneAdapter, IInv, LInv', NEW o \in Ops, ReadDigest(o) PROVE IInv'
<1>1. /\ pc[o] = "digest" /\ pc[o] \in Critical /\ req[o].kind # "drop"
      /\ req[o].kind = "ensure" => target # NoCollection
      /\ target = mem[o]
      /\ UNCHANGED <<target, backup, req, mem>>
      /\ target' \in Generation => Paired(target')
  BY DEF ReadDigest, Critical, IInv, Files, Knows
<1>2. CASE Finish(o, "error", Unseen)
  BY <1>1, <1>2, FinishFiles
<1>3. CASE Goto(o, "index")
  <2>1. pc'[o] = "index" => Knows(o)'
    BY <1>1 DEF Knows
  <2> QED BY <1>1, <1>3, <2>1, GotoFiles DEF Critical
<1> QED BY <1>2, <1>3 DEF ReadDigest

\* Both halves of what will be published are the same edit of the same generation.
LEMMA ReadIndexFiles ==
    ASSUME OneAdapter, IInv, LInv', NEW o \in Ops, ReadIndex(o) PROVE IInv'
<1>1. /\ pc[o] = "index" /\ pc[o] \in Critical /\ target = mem[o]
      /\ UNCHANGED <<target, backup, req>>
      /\ target' \in Generation => Paired(target')
      /\ mem[o] \in Generation /\ mem[o].docs \in Contents
  BY DEF ReadIndex, Critical, IInv, LInv, Types, Files, Knows, Generation
<1>2. Paired(target)
  BY <1>1 DEF IInv, Files
<1>3. CASE \E s \in {"ok", "error"}, c \in {mem[o].docs, Unseen} : Finish(o, s, c)
  BY <1>1, <1>3, FinishFiles
<1>4. CASE /\ \/ req[o].kind = "upsert"
              \/ req[o].kind = "forget" /\ Matching(o, mem[o].docs) # {}
           /\ mem' = [mem EXCEPT ![o] =
                       [docs |-> Edited(o, mem[o].docs), index |-> Edited(o, target.index)]]
           /\ Goto(o, "stage")
  <2>1. mem'[o] = [docs |-> Edited(o, target.docs), index |-> Edited(o, target.docs)]
    BY <1>1, <1>2, <1>4 DEF IInv, LInv, Types, Paired
  <2>2. Prepared(o, target)'
    BY <1>1, <1>2, <1>4, <2>1 DEF Prepared, Paired, Edited, Matching, Stored
  <2>3. pc'[o] = "stage" => Knows(o)'
    BY <2>2 DEF Knows
  <2> QED BY <1>1, <1>4, <2>3, GotoFiles DEF Critical
<1> QED BY <1>3, <1>4 DEF ReadIndex

\* Staging leaves the live directory as it is.
LEMMA StageFiles == ASSUME OneAdapter, IInv, LInv', NEW o \in Ops, Stage(o) PROVE IInv'
<1>1. /\ pc[o] = "stage" /\ pc[o] \in Critical /\ Prepared(o, target)
      /\ UNCHANGED <<target, backup, req, mem>>
      /\ target' \in Generation => Paired(target')
  BY DEF Stage, Critical, IInv, Files, Knows
<1>2. CASE Finish(o, "error", Unseen)
  BY <1>1, <1>2, FinishFiles
<1>3. CASE Goto(o, "aside")
  <2>1. pc'[o] = "aside" => Knows(o)'
    BY <1>1 DEF Knows, Prepared, Paired, Edited, Matching, Stored
  <2> QED BY <1>1, <1>3, <2>1, GotoFiles DEF Critical
<1> QED BY <1>2, <1>3 DEF Stage

\* What was prepared from the live directory is prepared from the one moved aside.
LEMMA MoveAsideFiles ==
    ASSUME OneAdapter, IInv, LInv', NEW o \in Ops, MoveAside(o) PROVE IInv'
<1>1. /\ pc[o] = "aside" /\ pc[o] \in Critical /\ Prepared(o, target) /\ Goto(o, "swap")
      /\ target' = NoCollection /\ backup'[o] = target /\ UNCHANGED <<req, mem>>
      /\ target' \in Generation => Paired(target')
  BY StoreAssumption DEF MoveAside, Critical, IInv, LInv, Types, Files, Knows
<1>2. pc'[o] = "swap" => Knows(o)'
  BY <1>1 DEF Knows, Prepared, Paired, Edited, Matching, Stored
<1> QED BY <1>1, <1>2, GotoFiles DEF Critical

\* What was prepared is a pair.
LEMMA PreparedPair ==
    ASSUME LInv, NEW o \in Ops, NEW g, Prepared(o, g)
    PROVE  Paired(mem[o]) /\ req[o].kind \in {"ensure", "upsert", "forget"}
BY EmptyGeneration DEF LInv, Types, Prepared, Paired

\* Whatever is moved to the path, the new generation or the old one, is a pair.
LEMMA SwapFiles == ASSUME OneAdapter, IInv, LInv', NEW o \in Ops, Swap(o) PROVE IInv'
<1>1. /\ pc[o] = "swap" /\ pc[o] \in Critical /\ Prepared(o, backup[o])
      /\ target = NoCollection /\ UNCHANGED <<req, mem>>
  BY DEF Swap, Critical, IInv, Files, Knows
<1>2. Paired(mem[o]) /\ req[o].kind \in {"ensure", "upsert", "forget"}
  BY <1>1, PreparedPair DEF IInv
<1>3. CASE target' = mem[o] /\ Goto(o, "cleanup")
  <2>1. pc'[o] = "cleanup" => Knows(o)'
    BY <1>1, <1>2, <1>3 DEF Knows, Paired
  <2> QED BY <1>1, <1>2, <1>3, <2>1, GotoFiles DEF Critical
<1>4. CASE target' = backup[o] /\ Finish(o, "error", Unseen)
  <2>1. backup[o] \in Generation => Paired(backup[o])
    BY <1>1, StoreAssumption DEF Prepared
  <2> QED BY <1>1, <1>4, <2>1, FinishFiles
<1> QED BY <1>1, <1>3, <1>4 DEF Swap

\* Deleting the old generation leaves the path alone.
LEMMA CleanupFiles == ASSUME OneAdapter, IInv, LInv', NEW o \in Ops, Cleanup(o) PROVE IInv'
<1>1. /\ pc[o] = "cleanup" /\ pc[o] \in Critical
      /\ target' \in Generation => Paired(target')
  BY DEF Cleanup, Critical, IInv, Files
<1> QED BY <1>1, FinishFiles DEF Cleanup

\* A removal leaves a damaged directory or none.
LEMMA RemoveFiles == ASSUME OneAdapter, IInv, LInv', NEW o \in Ops, Remove(o) PROVE IInv'
<1>1. /\ pc[o] = "removing" /\ pc[o] \in Critical
      /\ req[o].kind = "drop" /\ target # NoCollection
      /\ UNCHANGED <<backup, req, mem>>
      /\ target' \in {target, NoCollection, Damaged}
      /\ target' \in Generation => Paired(target')
  BY StoreAssumption DEF Remove, Critical, IInv, Files, Knows
<1>2. CASE \E s \in {"ok", "error"} : Finish(o, s, Unseen)
  BY <1>1, <1>2, FinishFiles
<1>3. CASE target' = Damaged /\ UNCHANGED pc
  <2>1. Knows(o)'
    BY <1>1, <1>3, StoreAssumption DEF Knows
  <2> QED BY <1>1, <1>3, <2>1, FilesMove
<1> QED BY <1>2, <1>3 DEF Remove

\* After a crash nobody knows anything of the files.
LEMMA CrashFiles == ASSUME IInv, LInv', Crash PROVE IInv'
<1>1. UNCHANGED <<target, backup, mem>> /\ \A p \in Ops : pc'[p] \in {"idle", "done"}
  BY DEF Crash
<1>2. \A p \in Ops : pc'[p] \notin Critical
  BY <1>1 DEF Critical
<1> QED BY <1>1, <1>2, FilesRest

\* A store begins with no collection or an empty pair.
LEMMA InitIInv == Init => IInv
<1> SUFFICES ASSUME Init PROVE IInv
  OBVIOUS
<1>1. target \in Generation => Paired(target)
  BY EmptyGeneration, StoreAssumption DEF Init
<1>2. \A o \in Ops : Knows(o)
  BY DEF Init, Knows
<1> QED BY <1>1, <1>2, InitLInv DEF IInv, Files

\* Every step of the operations of one adapter keeps the invariant.
LEMMA NextIInv == ASSUME OneAdapter PROVE IInv /\ [Next]_vars => IInv'
<1> SUFFICES ASSUME IInv, [Next]_vars PROVE IInv'
  OBVIOUS
<1>1. LInv'
  BY NextLInv DEF IInv
<1>2. CASE UNCHANGED vars
  BY <1>1, <1>2, FilesRest DEF vars
<1>3. ASSUME NEW o \in Ops,
             \/ Call(o) \/ Dispatch(o) \/ CancelCaller(o) \/ Acquire(o) \/ Probe(o)
             \/ ReadDocstore(o) \/ ReadDigest(o) \/ ReadIndex(o)
             \/ Stage(o) \/ MoveAside(o) \/ Swap(o) \/ Cleanup(o) \/ Remove(o)
      PROVE  IInv'
  BY <1>1, <1>3, CallersFiles, AcquireFiles, ProbeFiles, ReadDocstoreFiles, ReadDigestFiles,
     ReadIndexFiles, StageFiles, MoveAsideFiles, SwapFiles, CleanupFiles, RemoveFiles
<1> QED BY <1>1, <1>2, <1>3, CrashFiles DEF Next

\* The inductive invariant holds of every behaviour.
LEMMA FilesInductive == ASSUME OneAdapter PROVE Spec => []IInv
<1>1. IInv /\ [Next]_vars => IInv'
  BY NextIInv
<1> QED BY <1>1, InitIInv, PTL DEF Spec

\* Types, the lock, and one directory: for the operations of one adapter a generation
\* on disk always has a docstore and an index of the same records (repository.py:213).
THEOREM StoreInvariant == ASSUME OneAdapter PROVE Spec => []StoreInv
<1>1. IInv => StoreInv
  BY DEF IInv, LInv, Types, Exclusive, Files, Paired, StoreInv
<1> QED BY <1>1, FilesInductive, PTL

\* A generation that was moved aside is deleted only with another in its place, so that
\* no instant finds neither (persistence.py:33).
THEOREM PreviousGeneration == ASSUME OneAdapter PROVE Spec => PreviousKept
<1> DEFINE Step == \A o \in Ops : backup[o] # NoCollection /\ backup'[o] = NoCollection
                     => target' # NoCollection
<1>1. ASSUME IInv, [Next]_vars PROVE Step
  <2> SUFFICES ASSUME NEW o \in Ops, backup[o] # NoCollection, backup'[o] = NoCollection
               PROVE  target' # NoCollection
    OBVIOUS
  <2>1. backup \in [Ops -> Directory] /\ Knows(o) /\ \A p \in Ops : Knows(p)
    BY <1>1 DEF IInv, LInv, Types, Files
  <2>2. pc[o] \in {"swap", "cleanup", "done"}
    BY <1>1 DEF IInv, LInv, Exclusive
  <2>3. PICK p \in Ops : MoveAside(p) \/ Swap(p) \/ Cleanup(p)
    BY <1>1 DEF Next, vars, Call, Dispatch, CancelCaller, Acquire, Probe, ReadDocstore,
                ReadDigest, ReadIndex, Stage, Remove, Crash
  <2>4. CASE MoveAside(p)
    BY <2>1, <2>2, <2>4 DEF MoveAside
  <2>5. CASE Swap(p)
    BY <2>1, <2>5 DEF Swap
  <2>6. CASE Cleanup(p)
    <3>1. target' = mem[p] /\ mem[p] \in Generation
      BY <2>1, <2>6 DEF Cleanup, Knows, Paired
    <3> QED BY <3>1, StoreAssumption
  <2> QED BY <2>3, <2>4, <2>5, <2>6
<1>2. Spec => [][Step]_vars
  BY <1>1, FilesInductive, PTL DEF Spec
<1> QED BY <1>2 DEF PreviousKept

-----------------------------------------------------------------------------
(* Every operation of one adapter is one atomic step of AtomicCollection *)

Moving   == {o \in Ops : pc[o] = "swap" /\ backup[o] # NoCollection}
Removing == {o \in Ops : pc[o] = "removing"}

\* What the abstract collection shows while nobody but o may be at the files: what is on
\* disk, what o moved aside between its two renames, nothing once o's removal has begun.
View(o) ==
    IF target = NoCollection
    THEN IF pc[o] = "swap" /\ backup[o] # NoCollection THEN backup[o].docs ELSE NoCollection
    ELSE IF target = Damaged THEN IF pc[o] = "removing" THEN NoCollection ELSE Damaged
    ELSE target.docs

Shown ==
    \A o \in Ops :
        /\ \A p \in Ops \ {o} : pc[p] \notin Critical
        /\ backup[o] \in {NoCollection} \cup Generation \/ pc[o] # "swap"
        => AbstractColl = View(o)

\* The stage of one operation.
StageOf(o) ==
    CASE pc[o] \in {"idle", "done"} -> pc[o]
      [] pc[o] = "cleanup" -> "performed"
      [] pc[o] = "removing" /\ target = Damaged -> "performed"
      [] OTHER -> "pending"

\* The view of the thread at the files is what shows.
LEMMA ShownContents == Shown
<1> SUFFICES ASSUME NEW o \in Ops, \A p \in Ops \ {o} : pc[p] \notin Critical,
                    backup[o] \in {NoCollection} \cup Generation \/ pc[o] # "swap"
             PROVE  AbstractColl = View(o)
  BY DEF Shown
<1>1. /\ {p \in Ops : pc[p] = "swap" /\ backup[p] # NoCollection}
           = IF pc[o] = "swap" /\ backup[o] # NoCollection THEN {o} ELSE {}
      /\ {p \in Ops : pc[p] = "removing"} = IF pc[o] = "removing" THEN {o} ELSE {}
  BY DEF Critical
<1>2. CASE pc[o] = "swap" /\ backup[o] # NoCollection
  <2>1. (CHOOSE p \in {o} : TRUE) = o
    OBVIOUS
  <2>2. backup[o] \notin {NoCollection, Damaged}
    BY <1>2, StoreAssumption
  <2> QED BY <1>1, <1>2, <2>1, <2>2, StoreAssumption DEF AbstractColl, View
<1>3. CASE ~(pc[o] = "swap" /\ backup[o] # NoCollection)
  BY <1>1, <1>3, StoreAssumption DEF AbstractColl, View
<1> QED BY <1>2, <1>3

\* So it is after a step.
LEMMA ShownNext == Shown'
BY ShownContents, PTL

\* Nothing shows when files and renaming threads stay as they are.
LEMMA SameColl ==
    ASSUME UNCHANGED <<target, backup>>,
           \A p \in Ops : \A l \in {"swap", "removing"} : pc'[p] = l <=> pc[p] = l
    PROVE  AbstractColl' = AbstractColl
<1>1. /\ {p \in Ops : pc'[p] = "swap" /\ backup'[p] # NoCollection}
           = {p \in Ops : pc[p] = "swap" /\ backup[p] # NoCollection}
      /\ {p \in Ops : pc'[p] = "removing"} = {p \in Ops : pc[p] = "removing"}
  OBVIOUS
<1> QED BY <1>1 DEF AbstractColl

\* A thread's step changes the stage of no other.
LEMMA StageMoves ==
    ASSUME NEW o \in Ops,
           \A p \in Ops \ {o} : pc'[p] = pc[p] /\ (pc[p] = "removing" => target' = target)
    PROVE  /\ AbstractStage' = [AbstractStage EXCEPT ![o] = StageOf(o)']
           /\ AbstractStage[o] = StageOf(o)
<1>1. AbstractStage = [p \in Ops |-> StageOf(p)] /\ AbstractStage' = [p \in Ops |-> StageOf(p)']
  BY DEF AbstractStage, StageOf
<1>2. \A p \in Ops \ {o} : StageOf(p)' = StageOf(p)
  BY DEF StageOf
<1> HIDE DEF StageOf
<1> QED BY <1>1, <1>2

\* What a step under the lock changes of the abstract state.
LEMMA LockedView ==
    ASSUME OneAdapter, IInv, IInv', NEW o \in Ops, pc[o] \in Critical,
           \A p \in Ops \ {o} : pc'[p] = pc[p]
    PROVE  /\ AbstractColl = View(o) /\ AbstractColl' = View(o)'
           /\ AbstractStage' = [AbstractStage EXCEPT ![o] = StageOf(o)']
           /\ AbstractStage[o] = StageOf(o)
<1>1. \A p \in Ops \ {o} : pc[p] \notin Critical /\ pc'[p] \notin Critical
  BY Alone DEF IInv
<1>2. AbstractStage' = [AbstractStage EXCEPT ![o] = StageOf(o)'] /\ AbstractStage[o] = StageOf(o)
  BY <1>1, StageMoves DEF Critical
<1>3. pc[o] = "swap" => backup[o] \in {NoCollection} \cup Generation
  BY DEF IInv, Files, Knows, Prepared, Paired
<1>4. pc'[o] = "swap" => backup'[o] \in {NoCollection} \cup Generation
  BY DEF IInv, Files, Knows, Prepared, Paired
<1> QED BY <1>1, <1>2, <1>3, <1>4, ShownContents, ShownNext DEF Shown

\* A step that nobody outside can tell.
LEMMA Silent ==
    ASSUME NEW o \in Ops, AbstractStage' = [AbstractStage EXCEPT ![o] = StageOf(o)'],
           AbstractStage[o] = StageOf(o), StageOf(o)' = StageOf(o),
           AbstractColl' = AbstractColl, UNCHANGED <<req, res>>
    PROVE  UNCHANGED Abstract!avars
<1>1. AbstractStage \in [Ops -> {AbstractStage[p] : p \in Ops}]
  BY DEF AbstractStage
<1>2. AbstractStage' = AbstractStage
  BY <1>1
<1> QED BY <1>2 DEF Abstract!avars

\* An operation ends without having changed anything: with an error, or with the answer
\* that the contents give.
LEMMA Responds ==
    ASSUME NEW o \in Ops, NEW s, NEW c, Types, StageOf(o) = "pending", Finish(o, s, c),
           AbstractStage' = [AbstractStage EXCEPT ![o] = StageOf(o)'],
           AbstractStage[o] = StageOf(o), AbstractColl' = AbstractColl, UNCHANGED req,
           \/ s = "error" /\ c = Unseen
           \/ ~Abstract!Writes(o) /\ Reply(s, c) = Abstract!Answer(o)
    PROVE  Abstract!ANext
<1>1. pc'[o] = "done" /\ res' = [res EXCEPT ![o] = Reply(s, c)]
  BY DEF Finish, Goto, Types
<1>2. StageOf(o)' = "done"
  BY <1>1 DEF StageOf
<1>3. Abstract!Done(o, Reply(s, c))
  BY <1>1, <1>2 DEF Abstract!Done
<1>4. Abstract!Respond(o)
  BY <1>3 DEF Abstract!Respond, Abstract!Reply, Reply
<1> QED BY <1>4 DEF Abstract!ANext

\* A write takes effect.
LEMMA Performs ==
    ASSUME NEW o \in Ops, StageOf(o) = "pending", StageOf(o)' = "performed",
           AbstractStage' = [AbstractStage EXCEPT ![o] = StageOf(o)'],
           AbstractStage[o] = StageOf(o), UNCHANGED <<req, res>>,
           Abstract!Writes(o), AbstractColl' = Abstract!Effect(o, AbstractColl)
    PROVE  Abstract!ANext
<1>1. Abstract!Perform(o)
  BY DEF Abstract!Perform
<1> QED BY <1>1 DEF Abstract!ANext

\* A write that took effect is answered, or fails to be.
LEMMA Acknowledges ==
    ASSUME NEW o \in Ops, NEW s \in {"ok", "error"}, Types, StageOf(o) = "performed",
           Finish(o, s, Unseen),
           AbstractStage' = [AbstractStage EXCEPT ![o] = StageOf(o)'],
           AbstractStage[o] = StageOf(o), UNCHANGED req,
           \/ AbstractColl' = AbstractColl
           \/ s = "error" /\ req[o].kind = "drop" /\ AbstractColl' = Damaged
    PROVE  Abstract!ANext
<1>1. pc'[o] = "done" /\ res' = [res EXCEPT ![o] = Reply(s, Unseen)]
  BY DEF Finish, Goto, Types
<1>2. StageOf(o)' = "done"
  BY <1>1 DEF StageOf
<1>3. Abstract!Done(o, Reply(s, Unseen))
  BY <1>1, <1>2 DEF Abstract!Done
<1>4. Abstract!Acknowledge(o)
  BY <1>3 DEF Abstract!Acknowledge, Abstract!Reply, Reply
<1> QED BY <1>4 DEF Abstract!ANext

\* The caller's side: a call asks, a cancellation in the adapter's queue is an error.
LEMMA CallersRefine ==
    ASSUME IInv, NEW o \in Ops, Call(o) \/ Dispatch(o) \/ CancelCaller(o)
    PROVE  Abstract!ANext \/ UNCHANGED Abstract!avars
<1>1. /\ pc \in [Ops -> Outside \cup {"lock"} \cup Critical]
      /\ UNCHANGED <<target, backup>> /\ Types
  BY DEF IInv, LInv, Types, Call, Dispatch, CancelCaller
<1>2. CASE Call(o)
  <2>1. /\ pc[o] = "idle" /\ pc' = [pc EXCEPT ![o] = "adapter"] /\ UNCHANGED res
        /\ \E r \in Request : req' = [req EXCEPT ![o] = r]
    BY <1>2 DEF Call, Goto
  <2>2. AbstractColl' = AbstractColl
    BY <1>1, <2>1, SameColl
  <2>3. /\ AbstractStage' = [AbstractStage EXCEPT ![o] = StageOf(o)']
        /\ AbstractStage[o] = StageOf(o)
    BY <1>1, <2>1, StageMoves
  <2>4. StageOf(o) = "idle" /\ StageOf(o)' = "pending"
    BY <1>1, <2>1 DEF StageOf
  <2>5. Abstract!Ask(o)
    BY <2>1, <2>2, <2>3, <2>4 DEF Abstract!Ask, Abstract!Request, Request
  <2> QED BY <2>5 DEF Abstract!ANext
<1>3. CASE Dispatch(o)
  <2>1. pc[o] = "adapter" /\ pc' = [pc EXCEPT ![o] = "lock"] /\ UNCHANGED <<req, res>>
    BY <1>3 DEF Dispatch, Goto
  <2>2. AbstractColl' = AbstractColl
    BY <1>1, <2>1, SameColl
  <2>3. /\ AbstractStage' = [AbstractStage EXCEPT ![o] = StageOf(o)']
        /\ AbstractStage[o] = StageOf(o)
    BY <1>1, <2>1, StageMoves
  <2>4. StageOf(o)' = StageOf(o)
    BY <1>1, <2>1 DEF StageOf
  <2> QED BY <2>1, <2>2, <2>3, <2>4, Silent
<1>4. CASE CancelCaller(o) /\ pc[o] = "adapter"
  <2>1. Finish(o, "error", Unseen) /\ UNCHANGED req
    BY <1>4 DEF CancelCaller
  <2>2. pc' = [pc EXCEPT ![o] = "done"]
    BY <2>1 DEF Finish, Goto
  <2>3. AbstractColl' = AbstractColl
    BY <1>1, <1>4, <2>2, SameColl
  <2>4. /\ AbstractStage' = [AbstractStage EXCEPT ![o] = StageOf(o)']
        /\ AbstractStage[o] = StageOf(o)
    BY <1>1, <2>2, StageMoves
  <2>5. StageOf(o) = "pending"
    BY <1>4 DEF StageOf
  <2> QED BY <1>1, <2>1, <2>3, <2>4, <2>5, Responds
<1>5. CASE CancelCaller(o) /\ pc[o] # "adapter"
  <2>1. UNCHANGED <<target, backup, pc, req, res>>
    BY <1>5 DEF CancelCaller
  <2>2. AbstractColl' = AbstractColl
    BY <2>1, SameColl
  <2>3. AbstractStage' = AbstractStage
    BY <2>1 DEF AbstractStage
  <2> QED BY <2>1, <2>2, <2>3 DEF Abstract!avars
<1> QED BY <1>2, <1>3, <1>4, <1>5

\* Taking the lock does not show.
LEMMA AcquireRefines ==
    ASSUME IInv, NEW o \in Ops, Acquire(o)
    PROVE  UNCHANGED Abstract!avars
<1>1. /\ pc[o] = "lock" /\ UNCHANGED <<target, backup, req, res>>
      /\ \E l \in {"probe", "docstore"} : pc' = [pc EXCEPT ![o] = l]
      /\ pc \in [Ops -> Outside \cup {"lock"} \cup Critical]
  BY DEF Acquire, Goto, IInv, LInv, Types
<1>2. AbstractColl' = AbstractColl
  BY <1>1, SameColl
<1>3. /\ AbstractStage' = [AbstractStage EXCEPT ![o] = StageOf(o)']
      /\ AbstractStage[o] = StageOf(o)
  BY <1>1, StageMoves
<1>4. StageOf(o)' = StageOf(o)
  BY <1>1 DEF StageOf
<1> QED BY <1>1, <1>2, <1>3, <1>4, Silent

\* Places where a thread has changed nothing that shows.
Reading == {"probe", "docstore", "digest", "index", "stage", "aside"}

\* A step from one such place to another, or to an end.
LEMMA ReaderMoves ==
    ASSUME OneAdapter, IInv, IInv', NEW o \in Ops, pc[o] \in Reading,
           NEW l \in Reading, Goto(o, l), UNCHANGED <<target, req, res>>
    PROVE  UNCHANGED Abstract!avars
<1>1. /\ pc[o] \in Critical /\ pc'[o] = l
      /\ \A p \in Ops \ {o} : pc'[p] = pc[p]
  BY GotoTypes DEF IInv, LInv, Critical, Reading
<1>2. View(o)' = View(o) /\ StageOf(o)' = StageOf(o)
  BY <1>1 DEF View, StageOf, Reading
<1> QED BY <1>1, <1>2, LockedView, Silent

\* A thread that ends at such a place answers with an error, or with what shows.
LEMMA ReaderEnds ==
    ASSUME OneAdapter, IInv, IInv', NEW o \in Ops, pc[o] \in Reading,
           NEW s \in {"ok", "missing", "error"}, NEW c \in Contents \cup {Unseen},
           Finish(o, s, c), UNCHANGED <<target, req>>,
           \/ s = "error" /\ c = Unseen
           \/ AbstractColl = View(o) => ~Abstract!Writes(o) /\ Reply(s, c) = Abstract!Answer(o)
    PROVE  Abstract!ANext
<1>1. Types /\ pc[o] \in Critical /\ pc'[o] = "done" /\ \A p \in Ops \ {o} : pc'[p] = pc[p]
  BY FinishTypes DEF IInv, LInv, Critical, Reading
<1>2. View(o)' = View(o) /\ StageOf(o) = "pending"
  BY <1>1 DEF View, StageOf, Reading
<1>3. /\ AbstractColl = View(o) /\ AbstractColl' = View(o)'
      /\ AbstractStage' = [AbstractStage EXCEPT ![o] = StageOf(o)']
      /\ AbstractStage[o] = StageOf(o)
  BY <1>1, LockedView
<1> QED BY <1>1, <1>2, <1>3, Responds

\* Looking whether there is a collection.  A removal of what an earlier one left is
\* one that has happened.
LEMMA ProbeRefines ==
    ASSUME OneAdapter, IInv, IInv', NEW o \in Ops, Probe(o)
    PROVE  Abstract!ANext \/ UNCHANGED Abstract!avars
<1>1. /\ pc[o] = "probe" /\ pc[o] \in Reading /\ pc[o] \in Critical
      /\ req[o].kind \in {"ensure", "drop"}
      /\ UNCHANGED <<target, backup, req>>
  BY DEF Probe, Reading, Critical, IInv, Files, Knows
<1>2. CASE req[o].kind = "ensure"
  BY <1>1, <1>2, ReaderMoves DEF Probe, Reading
<1>3. CASE req[o].kind = "drop" /\ target = NoCollection
  <2>1. Finish(o, "ok", Unseen)
    BY <1>3 DEF Probe
  <2>2. AbstractColl = View(o) => ~Abstract!Writes(o) /\ Reply("ok", Unseen) = Abstract!Answer(o)
    <3> SUFFICES ASSUME AbstractColl = NoCollection
                 PROVE  ~Abstract!Writes(o) /\ Reply("ok", Unseen) = Abstract!Answer(o)
      BY <1>1, <1>3 DEF View
    <3>1. ~Abstract!Writes(o)
      BY <1>3 DEF Abstract!Writes
    <3>2. Reply("ok", Unseen) = Abstract!Answer(o)
      BY <1>3, StoreAssumption DEF Abstract!Answer, Abstract!Reply, Reply
    <3> QED BY <3>1, <3>2
  <2> QED BY <1>1, <2>1, <2>2, ReaderEnds
<1>4. CASE req[o].kind = "drop" /\ target # NoCollection
  <2>1. Goto(o, "removing") /\ UNCHANGED res
    BY <1>4 DEF Probe
  <2>2. pc'[o] = "removing" /\ \A p \in Ops \ {o} : pc'[p] = pc[p]
    BY <2>1, GotoTypes DEF IInv, LInv, Critical
  <2>3. /\ AbstractColl = View(o) /\ AbstractColl' = View(o)'
        /\ AbstractStage' = [AbstractStage EXCEPT ![o] = StageOf(o)']
        /\ AbstractStage[o] = StageOf(o)
    BY <1>1, <2>2, LockedView
  <2>4. CASE target = Damaged
    <3>1. StageOf(o) = "pending" /\ StageOf(o)' = "performed"
      BY <1>1, <2>2, <2>4 DEF StageOf
    <3>2. View(o) = Damaged /\ View(o)' = NoCollection
      BY <1>1, <1>4, <2>2, <2>4 DEF View
    <3>3. Abstract!Writes(o) /\ AbstractColl' = Abstract!Effect(o, AbstractColl)
      BY <1>4, <2>3, <3>2, StoreAssumption DEF Abstract!Writes, Abstract!Effect
    <3> QED BY <1>1, <2>1, <2>3, <3>1, <3>3, Performs
  <2>5. CASE target # Damaged
    <3>1. View(o)' = View(o) /\ StageOf(o)' = StageOf(o)
      BY <1>1, <1>4, <2>2, <2>5 DEF View, StageOf
    <3> QED BY <1>1, <2>1, <2>3, <3>1, Silent
  <2> QED BY <2>4, <2>5
<1> QED BY <1>1, <1>2, <1>3, <1>4

\* Loading the pair: missing, unreadable, or read.
LEMMA LoadRefines ==
    ASSUME OneAdapter, IInv, IInv', NEW o \in Ops, ReadDocstore(o) \/ ReadDigest(o) \/ Stage(o)
    PROVE  Abstract!ANext \/ UNCHANGED Abstract!avars
<1>1. CASE ReadDocstore(o)
  <2>1. /\ pc[o] = "docstore" /\ pc[o] \in Reading /\ UNCHANGED <<target, backup, req>>
        /\ req[o].kind # "drop" /\ (req[o].kind = "ensure" => target # NoCollection)
        /\ req[o].kind \in {"ensure", "drop", "search", "upsert", "forget"}
    BY <1>1, RequestFields DEF ReadDocstore, Reading, IInv, LInv, Types, Files, Knows
  <2>2. CASE target = NoCollection
    <3>1. Finish(o, "missing", Unseen)
      BY <1>1, <2>2, StoreAssumption DEF ReadDocstore
    <3>2. AbstractColl = View(o) =>
            ~Abstract!Writes(o) /\ Reply("missing", Unseen) = Abstract!Answer(o)
      <4> SUFFICES ASSUME AbstractColl = NoCollection
                   PROVE  ~Abstract!Writes(o) /\ Reply("missing", Unseen) = Abstract!Answer(o)
        BY <2>1, <2>2 DEF View
      <4>1. ~Abstract!Writes(o)
        BY <2>1, <2>2 DEF Abstract!Writes, Abstract!Usable
      <4>2. Reply("missing", Unseen) = Abstract!Answer(o)
        BY <2>1, StoreAssumption DEF Abstract!Answer, Abstract!Reply, Reply
      <4> QED BY <4>1, <4>2
    <3> QED BY <2>1, <3>1, <3>2, ReaderEnds
  <2>3. CASE target = Damaged
    BY <1>1, <2>1, <2>3, ReaderEnds DEF ReadDocstore
  <2>4. CASE target \notin {NoCollection, Damaged}
    BY <1>1, <2>1, <2>4, ReaderMoves DEF ReadDocstore, Reading
  <2> QED BY <2>2, <2>3, <2>4
<1>2. CASE ReadDigest(o)
  BY <1>2, ReaderMoves, ReaderEnds DEF ReadDigest, Reading
<1>3. CASE Stage(o)
  BY <1>3, ReaderMoves, ReaderEnds DEF Stage, Reading
<1> QED BY <1>1, <1>2, <1>3

\* A search answers with the contents that show; so does a request that changes nothing.
LEMMA ReadIndexRefines ==
    ASSUME OneAdapter, IInv, IInv', NEW o \in Ops, ReadIndex(o)
    PROVE  Abstract!ANext \/ UNCHANGED Abstract!avars
<1>1. /\ pc[o] = "index" /\ pc[o] \in Reading /\ UNCHANGED <<target, backup, req>>
      /\ target = mem[o] /\ mem[o] \in Generation /\ target.docs \in Contents
      /\ target \notin {NoCollection, Damaged}
  BY StoreAssumption DEF ReadIndex, Reading, IInv, LInv, Types, Files, Knows, Generation
<1>2. View(o) = target.docs /\ target.docs \notin {NoCollection, Damaged}
  BY <1>1, StoreAssumption DEF View
<1>3. CASE Finish(o, "error", Unseen)
  BY <1>1, <1>3, ReaderEnds
<1>4. CASE /\ \/ req[o].kind \in {"search", "ensure"}
              \/ req[o].kind = "forget" /\ Matching(o, mem[o].docs) = {}
           /\ Finish(o, "ok", IF req[o].kind = "search" THEN mem[o].docs ELSE Unseen)
  <2> DEFINE c == IF req[o].kind = "search" THEN mem[o].docs ELSE Unseen
  <2>1. c \in Contents \cup {Unseen}
    BY <1>1
  <2>2. ASSUME AbstractColl = View(o)
        PROVE  ~Abstract!Writes(o) /\ Reply("ok", c) = Abstract!Answer(o)
    <3>1. Reply("ok", c) = Abstract!Answer(o)
      BY <1>1, <1>2, <2>2 DEF Abstract!Answer, Abstract!Reply, Reply
    <3>2. CASE req[o].kind \in {"search", "ensure"}
      BY <1>2, <2>2, <3>1, <3>2 DEF Abstract!Writes
    <3>3. CASE req[o].kind = "forget" /\ Matching(o, mem[o].docs) = {}
      <4>1. ~Abstract!Stores(o, req[o].source)
        BY <1>1, <1>2, <2>2, <3>3 DEF Abstract!Stores, Matching, Stored
      <4> QED BY <3>1, <3>3, <4>1 DEF Abstract!Writes
    <3> QED BY <1>4, <3>2, <3>3
  <2> QED BY <1>1, <1>4, <2>1, <2>2, ReaderEnds
<1>5. CASE Goto(o, "stage") /\ UNCHANGED res
  BY <1>1, <1>5, ReaderMoves DEF Reading
<1> QED BY <1>3, <1>4, <1>5 DEF ReadIndex

\* Between the renames the collection is the one moved aside.
LEMMA MoveAsideRefines ==
    ASSUME OneAdapter, IInv, IInv', NEW o \in Ops, MoveAside(o)
    PROVE  UNCHANGED Abstract!avars
<1>1. /\ pc[o] = "aside" /\ pc[o] \in Critical /\ Prepared(o, target) /\ Goto(o, "swap")
      /\ target' = NoCollection /\ backup'[o] = target /\ UNCHANGED <<req, res>>
  BY DEF MoveAside, Critical, IInv, LInv, Types, Files, Knows
<1>2. pc'[o] = "swap" /\ \A p \in Ops \ {o} : pc'[p] = pc[p]
  BY <1>1, GotoTypes DEF IInv, LInv, Critical
<1>3. View(o)' = View(o) /\ StageOf(o)' = StageOf(o)
  BY <1>1, <1>2, StoreAssumption DEF View, StageOf, Prepared, Paired
<1> QED BY <1>1, <1>2, <1>3, LockedView, Silent

\* The second rename is the instant of a write; its failure changes nothing.
LEMMA SwapRefines ==
    ASSUME OneAdapter, IInv, IInv', NEW o \in Ops, Swap(o)
    PROVE  Abstract!ANext
<1>1. /\ pc[o] = "swap" /\ pc[o] \in Critical /\ Prepared(o, backup[o])
      /\ target = NoCollection /\ UNCHANGED <<req, mem>>
  BY DEF Swap, Critical, IInv, Files, Knows
<1>2. View(o) = IF backup[o] = NoCollection THEN NoCollection ELSE backup[o].docs
  BY <1>1 DEF View
<1>3. mem[o] \in Generation /\ mem[o] \notin {NoCollection, Damaged}
  BY <1>1, StoreAssumption DEF IInv, LInv, Types
<1>4. CASE target' = mem[o] /\ Goto(o, "cleanup") /\ UNCHANGED res
  <2>1. pc'[o] = "cleanup" /\ \A p \in Ops \ {o} : pc'[p] = pc[p]
    BY <1>4, GotoTypes DEF IInv, LInv, Critical
  <2>2. /\ AbstractColl = View(o) /\ AbstractColl' = View(o)'
        /\ AbstractStage' = [AbstractStage EXCEPT ![o] = StageOf(o)']
        /\ AbstractStage[o] = StageOf(o)
    BY <1>1, <2>1, LockedView
  <2>3. StageOf(o) = "pending" /\ StageOf(o)' = "performed" /\ View(o)' = mem[o].docs
    BY <1>1, <1>3, <1>4, <2>1 DEF StageOf, View
  <2>4. Abstract!Writes(o) /\ mem[o].docs = Abstract!Effect(o, View(o))
    <3>1. CASE req[o].kind = "ensure" /\ backup[o] = NoCollection /\ mem[o] = EmptyGen
      BY <1>2, <2>2, <3>1 DEF Abstract!Writes, Abstract!Effect, EmptyGen, Abstract!Empty, Empty
    <3>2. CASE Paired(backup[o])
      <4>1. /\ backup[o] \in Generation /\ backup[o].docs \in Contents
            /\ backup[o] # NoCollection /\ View(o) = backup[o].docs
            /\ View(o) \notin {NoCollection, Damaged}
        BY <1>2, <3>2, StoreAssumption DEF Paired, Generation
      <4>2. CASE req[o].kind = "upsert" /\ mem[o].docs = Edited(o, backup[o].docs)
        BY <2>2, <4>1, <4>2
        DEF Abstract!Writes, Abstract!Effect, Abstract!Usable, Edited
      <4>3. CASE /\ req[o].kind = "forget" /\ Matching(o, backup[o].docs) # {}
                 /\ mem[o].docs = Edited(o, backup[o].docs)
        <5>1. Abstract!Stores(o, req[o].source)
          BY <2>2, <4>1, <4>3 DEF Abstract!Stores, Matching, Stored
        <5>2. Abstract!Writes(o)
          BY <2>2, <4>1, <4>3, <5>1 DEF Abstract!Writes, Abstract!Usable
        <5>3. Edited(o, backup[o].docs) =
                [r \in Records |-> IF SourceOf[r] = req[o].source THEN Absent
                                   ELSE backup[o].docs[r]]
          BY <4>1, <4>3 DEF Edited, Matching, Stored
        <5> QED BY <4>1, <4>3, <5>2, <5>3 DEF Abstract!Effect
      <4>4. CASE req[o].kind = "ensure"
        BY <1>1, <4>1, <4>4 DEF Prepared
      <4> QED BY <1>1, <4>1, <4>2, <4>3, <4>4 DEF Prepared
    <3> QED BY <1>1, <3>1, <3>2 DEF Prepared
  <2> QED BY <1>1, <1>4, <2>2, <2>3, <2>4, Performs
<1>5. CASE target' = backup[o] /\ Finish(o, "error", Unseen)
  <2>1. Types /\ pc'[o] = "done" /\ \A p \in Ops \ {o} : pc'[p] = pc[p]
    BY <1>5, FinishTypes DEF IInv, LInv
  <2>2. View(o)' = View(o) /\ StageOf(o) = "pending"
    BY <1>1, <1>2, <1>5, <2>1, StoreAssumption DEF View, StageOf, Prepared, Paired
  <2> QED BY <1>1, <1>5, <2>1, <2>2, LockedView, Responds
<1> QED BY <1>1, <1>4, <1>5 DEF Swap

\* A publication ends: the write has happened whether or not the old one could go.
LEMMA CleanupRefines ==
    ASSUME OneAdapter, IInv, IInv', NEW o \in Ops, Cleanup(o)
    PROVE  Abstract!ANext
<1>1. PICK s \in {"ok", "error"} :
        pc[o] = "cleanup" /\ UNCHANGED <<target, req, mem>> /\ Finish(o, s, Unseen)
  BY DEF Cleanup
<1>2. /\ Types /\ pc[o] \in Critical /\ pc'[o] = "done"
      /\ \A p \in Ops \ {o} : pc'[p] = pc[p]
  BY <1>1, FinishTypes DEF IInv, LInv, Critical
<1>3. View(o)' = View(o) /\ StageOf(o) = "performed"
  BY <1>1, <1>2 DEF View, StageOf
<1>4. /\ AbstractColl' = AbstractColl
      /\ AbstractStage' = [AbstractStage EXCEPT ![o] = StageOf(o)']
      /\ AbstractStage[o] = StageOf(o)
  BY <1>2, <1>3, LockedView
<1> QED BY <1>1, <1>2, <1>3, <1>4, Acknowledges

\* A removal happens with the first file; cut short, it leaves what only a removal clears.
LEMMA RemoveRefines ==
    ASSUME OneAdapter, IInv, IInv', NEW o \in Ops, Remove(o)
    PROVE  Abstract!ANext
<1>1. /\ pc[o] = "removing" /\ pc[o] \in Critical /\ req[o].kind = "drop"
      /\ target # NoCollection /\ UNCHANGED <<req, mem>> /\ Types
  BY DEF Remove, Critical, IInv, LInv, Files, Knows
<1>2. CASE target # Damaged /\ target' = Damaged /\ UNCHANGED <<pc, res>>
  <2>1. /\ AbstractColl = View(o) /\ AbstractColl' = View(o)'
        /\ AbstractStage' = [AbstractStage EXCEPT ![o] = StageOf(o)']
        /\ AbstractStage[o] = StageOf(o)
    BY <1>1, <1>2, LockedView
  <2>2. target \in Generation /\ target.docs \in Contents
    BY <1>1, <1>2 DEF Types, Directory, Generation
  <2>3. /\ StageOf(o) = "pending" /\ StageOf(o)' = "performed"
        /\ View(o) = target.docs /\ View(o)' = NoCollection
    BY <1>1, <1>2, StoreAssumption DEF StageOf, View
  <2>4. Abstract!Writes(o) /\ AbstractColl' = Abstract!Effect(o, AbstractColl)
    BY <1>1, <2>1, <2>2, <2>3, StoreAssumption DEF Abstract!Writes, Abstract!Effect
  <2> QED BY <1>1, <1>2, <2>1, <2>3, <2>4, Performs
<1>3. ASSUME NEW s \in {"ok", "error"}, Finish(o, s, Unseen),
             \/ target = Damaged /\ s = "ok" /\ target' = NoCollection
             \/ s = "error" /\ target' = target
      PROVE  Abstract!ANext
  <2>1. pc'[o] = "done" /\ \A p \in Ops \ {o} : pc'[p] = pc[p]
    BY <1>1, <1>3, FinishTypes
  <2>2. /\ AbstractColl = View(o) /\ AbstractColl' = View(o)'
        /\ AbstractStage' = [AbstractStage EXCEPT ![o] = StageOf(o)']
        /\ AbstractStage[o] = StageOf(o)
    BY <1>1, <2>1, LockedView
  <2>3. CASE target = Damaged /\ s = "ok" /\ target' = NoCollection
    <3>1. View(o)' = View(o) /\ StageOf(o) = "performed"
      BY <1>1, <2>1, <2>3, StoreAssumption DEF View, StageOf
    <3> QED BY <1>1, <1>3, <2>2, <3>1, Acknowledges
  <2>4. CASE target = Damaged /\ s = "error" /\ target' = target
    <3>1. View(o)' = Damaged /\ StageOf(o) = "performed"
      BY <1>1, <2>1, <2>4, StoreAssumption DEF View, StageOf
    <3> QED BY <1>1, <1>3, <2>2, <2>4, <3>1, Acknowledges
  <2>5. CASE target # Damaged /\ s = "error" /\ target' = target
    <3>1. View(o)' = View(o) /\ StageOf(o) = "pending"
      BY <1>1, <2>1, <2>5 DEF View, StageOf
    <3> QED BY <1>1, <1>3, <2>2, <2>5, <3>1, Responds
  <2> QED BY <1>3, <2>3, <2>4, <2>5
<1> QED BY <1>1, <1>2, <1>3 DEF Remove

\* A crash: a collection between the renames is gone from its path, one being removed is
\* left damaged.
LEMMA CrashRefines ==
    ASSUME OneAdapter, IInv, IInv', Crash
    PROVE  Abstract!ANext
<1> DEFINE flying == {o \in Ops : AbstractStage[o] \in {"pending", "performed"}}
<1>1. /\ pc' = [o \in Ops |-> IF pc[o] = "idle" THEN "idle" ELSE "done"]
      /\ res' = [o \in Ops |-> IF pc[o] \in {"idle", "done"} THEN res[o] ELSE Reply("crashed", Unseen)]
      /\ UNCHANGED <<target, backup, req, mem>>
      /\ \E o \in Ops : pc[o] \notin {"idle", "done"}
  BY DEF Crash
<1>2. \A o \in Ops : /\ AbstractStage[o] = StageOf(o) /\ AbstractStage'[o] = StageOf(o)'
                     /\ o \in flying <=> pc[o] \notin {"idle", "done"}
  BY DEF AbstractStage, StageOf
<1>3. AbstractStage' = [o \in Ops |-> IF o \in flying THEN "done" ELSE AbstractStage[o]]
  <2>1. AbstractStage' = [o \in Ops |-> StageOf(o)']
    BY DEF AbstractStage, StageOf
  <2>2. \A o \in Ops : StageOf(o)' = IF o \in flying THEN "done" ELSE AbstractStage[o]
    BY <1>1, <1>2 DEF StageOf
  <2> HIDE DEF flying, StageOf
  <2> QED BY <2>1, <2>2
<1>4. res' = [o \in Ops |-> IF o \in flying THEN Abstract!Reply("crashed", Unseen) ELSE res[o]]
  <2>1. \A o \in Ops : (IF pc[o] \in {"idle", "done"} THEN res[o] ELSE Reply("crashed", Unseen))
                     = IF o \in flying THEN Abstract!Reply("crashed", Unseen) ELSE res[o]
    BY <1>2 DEF Reply, Abstract!Reply
  <2> HIDE DEF flying
  <2> QED BY <1>1, <2>1
<1>5. AbstractColl' \in {AbstractColl}
         \cup (IF \E o \in flying : req[o].kind \in {"upsert", "forget"}
               THEN {NoCollection} ELSE {})
         \cup (IF \E o \in flying : req[o].kind = "drop" THEN {Damaged} ELSE {})
  <2>1. PICK o \in Ops : /\ pc[o] \notin {"idle", "done"}
                         /\ (\E p \in Ops : pc[p] \in Critical) => pc[o] \in Critical
    BY <1>1 DEF Critical
  <2>2. \A p \in Ops \ {o} : pc[p] \notin Critical
    BY <2>1, Alone DEF IInv
  <2>3. \A p \in Ops : pc'[p] \in {"idle", "done"} /\ pc'[p] \notin Critical
    BY <1>1 DEF Critical
  <2>4. pc[o] = "swap" => target = NoCollection /\ Prepared(o, backup[o])
    BY DEF IInv, Files, Knows
  <2>5. AbstractColl = View(o)
    <3>1. backup[o] \in {NoCollection} \cup Generation \/ pc[o] # "swap"
      BY <2>4 DEF Prepared, Paired
    <3> QED BY <2>2, <3>1, ShownContents DEF Shown
  <2>6. AbstractColl' = View(o)'
    BY <2>3, ShownNext DEF Shown
  <2>7. o \in flying
    BY <1>2, <2>1
  <2>8. CASE pc[o] = "swap" /\ backup[o] # NoCollection
    <3>1. req[o].kind \in {"upsert", "forget"}
      BY <2>4, <2>8 DEF Prepared
    <3>2. AbstractColl' = NoCollection
      BY <1>1, <2>3, <2>4, <2>6, <2>8 DEF View
    <3> HIDE DEF flying
    <3> QED BY <2>7, <3>1, <3>2
  <2>9. CASE pc[o] = "removing" /\ target = Damaged
    <3>1. req[o].kind = "drop"
      BY <2>9 DEF IInv, Files, Knows
    <3>2. AbstractColl' = Damaged
      BY <1>1, <2>3, <2>6, <2>9, StoreAssumption DEF View
    <3> HIDE DEF flying
    <3> QED BY <2>7, <3>1, <3>2
  <2>10. CASE /\ ~(pc[o] = "swap" /\ backup[o] # NoCollection)
              /\ ~(pc[o] = "removing" /\ target = Damaged)
    <3>1. View(o)' = View(o)
      BY <1>1, <2>3, <2>10 DEF View
    <3> QED BY <2>5, <2>6, <3>1
  <2> QED BY <2>8, <2>9, <2>10
<1>6. Abstract!ACrash
  BY <1>1, <1>3, <1>4, <1>5 DEF Abstract!ACrash
<1> QED BY <1>6 DEF Abstract!ANext

\* The initial states are those of the abstract collection.
LEMMA InitRefines == Init => Abstract!AInit
<1> SUFFICES ASSUME Init PROVE Abstract!AInit
  OBVIOUS
<1>1. /\ target \in {NoCollection, EmptyGen} /\ \A o \in Ops : pc[o] = "idle"
      /\ req = [o \in Ops |-> [kind |-> "search"]] /\ res = [o \in Ops |-> NoReply]
  BY DEF Init
<1>2. AbstractStage = [o \in Ops |-> "idle"]
  BY <1>1 DEF AbstractStage
<1>3. AbstractColl \in {NoCollection, Empty}
  <2>1. {o \in Ops : pc[o] = "swap" /\ backup[o] # NoCollection} = {}
    BY <1>1
  <2>2. EmptyGen \notin {NoCollection, Damaged} /\ EmptyGen.docs = Empty
        /\ Empty \notin {NoCollection, Damaged}
    BY EmptyGeneration, StoreAssumption DEF EmptyGen, Empty, Contents
  <2> QED BY <1>1, <2>1, <2>2, StoreAssumption DEF AbstractColl
<1> QED BY <1>1, <1>2, <1>3
    DEF Abstract!AInit, Abstract!Empty, Empty, Abstract!NoReply, Abstract!Reply, NoReply, Reply

\* Every step is a step of the abstract collection or does not show.
LEMMA NextRefines ==
    ASSUME OneAdapter
    PROVE  IInv /\ IInv' /\ [Next]_vars => [Abstract!ANext]_Abstract!avars
<1> SUFFICES ASSUME IInv, IInv', [Next]_vars
             PROVE  Abstract!ANext \/ UNCHANGED Abstract!avars
  OBVIOUS
<1>1. CASE UNCHANGED vars
  <2>1. AbstractColl' = AbstractColl /\ AbstractStage' = AbstractStage /\ UNCHANGED <<req, res>>
    BY <1>1 DEF vars, AbstractColl, AbstractStage
  <2> QED BY <2>1 DEF Abstract!avars
<1>2. ASSUME NEW o \in Ops,
             \/ Call(o) \/ Dispatch(o) \/ CancelCaller(o) \/ Acquire(o) \/ Probe(o)
             \/ ReadDocstore(o) \/ ReadDigest(o) \/ ReadIndex(o)
             \/ Stage(o) \/ MoveAside(o) \/ Swap(o) \/ Cleanup(o) \/ Remove(o)
      PROVE  Abstract!ANext \/ UNCHANGED Abstract!avars
  BY <1>2, CallersRefine, AcquireRefines, ProbeRefines, LoadRefines, ReadIndexRefines,
     MoveAsideRefines, SwapRefines, CleanupRefines, RemoveRefines
<1> QED BY <1>1, <1>2, CrashRefines DEF Next

\* Every operation of one adapter takes effect at one instant, whichever callers are
\* cancelled on the way: the store implements AtomicCollection (repository.py).
THEOREM Atomicity == ASSUME OneAdapter PROVE Spec => AtomicOperations
<1>1. IInv /\ IInv' /\ [Next]_vars => [Abstract!ANext]_Abstract!avars
  BY NextRefines
<1>2. Spec => Abstract!AInit /\ [][Abstract!ANext]_Abstract!avars
  BY <1>1, InitRefines, FilesInductive, PTL DEF Spec
<1> QED BY <1>2 DEF AtomicOperations, Abstract!ASpec
=============================================================================
