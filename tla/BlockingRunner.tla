--------------------------- MODULE BlockingRunner ---------------------------
(***************************************************************************)
(* docpipe.core.blocking.BoundedBlockingRunner: blocking adapter calls run *)
(* on a private thread pool behind an asyncio semaphore of the same size.  *)
(*                                                                         *)
(* A call is a coroutine on the event loop (phase); its function is a work *)
(* item in the pool (item).  The two part company when the call is         *)
(* cancelled or its deadline passes: the coroutine returns and releases    *)
(* its permit; a work item not yet started is cancelled with it but stays  *)
(* in the executor's queue until a worker takes it out; one already        *)
(* running keeps its thread until the function returns.                    *)
(***************************************************************************)
EXTENDS Naturals, FiniteSets

CONSTANTS
    Calls,           \* the calls made to run()
    MaxConcurrency,  \* size of the semaphore and of the thread pool
    Bounded,         \* calls whose OperationContext carries a deadline
    Hanging          \* calls whose function never returns

ASSUME RunnerAssumption ==
    /\ IsFiniteSet(Calls)
    /\ MaxConcurrency \in Nat \ {0}
    /\ Bounded \subseteq Calls
    /\ Hanging \subseteq Calls

VARIABLES
    closed,   \* _closed
    phase,    \* where the coroutine of a call is
    outcome,  \* what run() returned or raised
    item      \* the work item submitted to the pool for a call

vars == <<closed, phase, outcome, item>>

Phase   == {"idle", "waiting", "holding", "returned"}
Outcome == {"none", "result", "cancelled", "deadline", "rejected"}
Item    == {"none", "queued", "cancelled", "running", "finished", "dropped"}

TypeOK ==
    /\ closed \in BOOLEAN
    /\ phase \in [Calls -> Phase]
    /\ outcome \in [Calls -> Outcome]
    /\ item \in [Calls -> Item]

Init ==
    /\ closed = FALSE
    /\ phase = [c \in Calls |-> "idle"]
    /\ outcome = [c \in Calls |-> "none"]
    /\ item = [c \in Calls |-> "none"]

Holders == {c \in Calls : phase[c] = "holding"}
Running == {c \in Calls : item[c] = "running"}

\* The executor's work queue: items still wanted and items whose future has
\* been cancelled, which only a worker or the shutdown removes.
Wanted == {c \in Calls : item[c] = "queued"}
Queue  == {c \in Calls : item[c] \in {"queued", "cancelled"}}

Return(c, how) ==
    /\ phase' = [phase EXCEPT ![c] = "returned"]
    /\ outcome' = [outcome EXCEPT ![c] = how]

\* The entry checks of run(): a closed runner and an expired deadline are
\* refused before anything is submitted.
Begin(c) ==
    /\ phase[c] = "idle"
    /\ \/ closed /\ Return(c, "rejected")
       \/ ~closed /\ c \in Bounded /\ Return(c, "deadline")
       \/ /\ ~closed
          /\ phase' = [phase EXCEPT ![c] = "waiting"]
          /\ UNCHANGED outcome
    /\ UNCHANGED <<closed, item>>

\* Mutant of Submit: no semaphore.
SubmitUnbounded(c) ==
    /\ phase[c] = "waiting"
    /\ IF closed
       THEN Return(c, "rejected") /\ UNCHANGED item
       ELSE /\ phase' = [phase EXCEPT ![c] = "holding"]
            /\ item' = [item EXCEPT ![c] = "queued"]
            /\ UNCHANGED outcome
    /\ UNCHANGED closed

\* Mutant of Submit: a call that reaches a shut-down pool is left waiting.
SubmitWhileOpen(c) ==
    /\ phase[c] = "waiting"
    /\ Cardinality(Holders) < MaxConcurrency
    /\ ~closed
    /\ phase' = [phase EXCEPT ![c] = "holding"]
    /\ item' = [item EXCEPT ![c] = "queued"]
    /\ UNCHANGED <<closed, outcome>>

\* A permit is free: enter the semaphore and submit.  The pool refuses work
\* once it is shut down, and the permit goes back with the exception.
Submit(c) ==
    /\ phase[c] = "waiting"
    /\ Cardinality(Holders) < MaxConcurrency
    /\ IF closed
       THEN Return(c, "rejected") /\ UNCHANGED item
       ELSE /\ phase' = [phase EXCEPT ![c] = "holding"]
            /\ item' = [item EXCEPT ![c] = "queued"]
            /\ UNCHANGED outcome
    /\ UNCHANGED closed

\* Mutant of TakeItem: a worker does not look whether the future was cancelled.
TakeAnyItem(c) ==
    /\ item[c] \in {"queued", "cancelled"}
    /\ Cardinality(Running) < MaxConcurrency
    /\ item' = [item EXCEPT ![c] = "running"]
    /\ UNCHANGED <<closed, phase, outcome>>

\* Mutant of TakeItem: a worker leaves the items of cancelled futures where
\* they are.
TakeWantedItem(c) ==
    /\ item[c] = "queued"
    /\ Cardinality(Running) < MaxConcurrency
    /\ item' = [item EXCEPT ![c] = "running"]
    /\ UNCHANGED <<closed, phase, outcome>>

\* ThreadPoolExecutor: an idle worker takes an item out of the queue, and runs
\* its function unless its future was cancelled meanwhile.
TakeItem(c) ==
    /\ item[c] \in {"queued", "cancelled"}
    /\ Cardinality(Running) < MaxConcurrency
    /\ item' = [item EXCEPT ![c] = IF item[c] = "queued" THEN "running" ELSE "none"]
    /\ UNCHANGED <<closed, phase, outcome>>

\* The function returns; a result nobody awaits any more is thrown away.
FinishWork(c) ==
    /\ item[c] = "running"
    /\ item' = [item EXCEPT ![c] =
                  IF phase[c] = "holding" THEN "finished" ELSE "none"]
    /\ UNCHANGED <<closed, phase, outcome>>

\* Mutant of Deliver: the cancellation of a dropped item reaches nobody.
DeliverResultsOnly(c) ==
    /\ phase[c] = "holding" /\ item[c] = "finished"
    /\ Return(c, "result")
    /\ item' = [item EXCEPT ![c] = "none"]
    /\ UNCHANGED closed

\* The event loop resumes the awaiting coroutine with the posted result, or
\* with the CancelledError of an item dropped by close().
Deliver(c) ==
    /\ phase[c] = "holding"
    /\ \/ item[c] = "finished" /\ Return(c, "result")
       \/ item[c] = "dropped"  /\ Return(c, "cancelled")
    /\ item' = [item EXCEPT ![c] = "none"]
    /\ UNCHANGED closed

\* What an abandoned coroutine does to its work item: the cancelled asyncio
\* future cancels the pool's future, which works only before it has started,
\* and takes nothing out of the queue.
AbandonedItem(c) ==
    CASE item[c] = "running" -> "running"
      [] item[c] = "queued"  -> "cancelled"
      [] OTHER               -> "none"

Abandon(c, how) ==
    /\ phase[c] \in {"waiting", "holding"}
    /\ Return(c, how)
    /\ item' = [item EXCEPT ![c] = AbandonedItem(c)]
    /\ UNCHANGED closed

Cancel(c) == Abandon(c, "cancelled")
Expire(c) == c \in Bounded /\ Abandon(c, "deadline")

\* Mutant of Close: shutdown without cancel_futures.
CloseKeepsFutures ==
    /\ ~closed
    /\ closed' = TRUE
    /\ UNCHANGED <<phase, outcome, item>>

\* close(): refuse new work, empty the queue and cancel the futures in it, do
\* not wait.  The semaphore is left as it is.
Close ==
    /\ ~closed
    /\ closed' = TRUE
    /\ item' = [c \in Calls |-> CASE item[c] = "queued"    -> "dropped"
                                 [] item[c] = "cancelled" -> "none"
                                 [] OTHER                 -> item[c]]
    /\ UNCHANGED <<phase, outcome>>

Next ==
    \/ \E c \in Calls :
         \/ Begin(c) \/ Submit(c) \/ TakeItem(c) \/ FinishWork(c)
         \/ Deliver(c) \/ Cancel(c) \/ Expire(c)
    \/ Close

Spec == Init /\ [][Next]_vars

\* asyncio wakes semaphore waiters, and the pool takes its items, in arrival
\* order (strong fairness); a posted result is delivered, a deadline fires and
\* a function that does not hang returns.  Nothing makes a caller call, cancel
\* or close.
Fairness ==
    \A c \in Calls :
        /\ SF_vars(Submit(c))
        /\ SF_vars(TakeItem(c))
        /\ WF_vars(Deliver(c))
        /\ WF_vars(Expire(c))
        /\ c \notin Hanging => WF_vars(FinishWork(c))

FairSpec == Spec /\ Fairness

-----------------------------------------------------------------------------
(* Safety *)

\* The correspondence of coroutines and work items, inductive as it stands: a
\* coroutine that has not submitted has no item, one that awaits has a live one,
\* and all that a returned call leaves in the pool is a cancelled item nobody
\* has taken out yet or a thread still running its function -- its late result
\* is discarded, not kept.  A closed runner's queue is empty.  The last
\* conjuncts are the limits the class promises: permits held, and threads busy
\* whether or not anybody still waits for them.
RunnerInv ==
    /\ TypeOK
    /\ \A c \in Calls :
         /\ phase[c] \in {"idle", "waiting"} => item[c] = "none"
         /\ phase[c] = "holding" => item[c] \notin {"none", "cancelled"}
         /\ phase[c] = "returned" => item[c] \in {"none", "cancelled", "running"}
         /\ phase[c] = "returned" <=> outcome[c] # "none"
         /\ closed => item[c] \notin {"queued", "cancelled"}
         /\ item[c] = "dropped" => closed
    /\ Cardinality(Holders) <= MaxConcurrency
    /\ Cardinality(Running) <= MaxConcurrency

\* Of the items in the executor's queue at most MaxConcurrency are wanted, each
\* by a call that still holds a permit.  Nothing bounds the rest: every call
\* whose deadline passes before a worker is free leaves an item behind and
\* frees its permit for the next.
WantedBounded ==
    /\ Wanted \subseteq Holders
    /\ Cardinality(Wanted) <= MaxConcurrency

\* No function starts for a caller that has already been told of its
\* cancellation or deadline, and none starts once the runner is closed.
StartsOnlyWanted ==
    [][\A c \in Calls : item[c] # "running" /\ item'[c] = "running"
            => phase[c] = "holding" /\ ~closed]_vars

-----------------------------------------------------------------------------
(* Liveness *)

\* Every thread is held by a function that never returns.
ThreadsHang == Cardinality(Running \cap Hanging) = MaxConcurrency

\* Every permit is held by a call that still awaits such a function.
PermitsHang == Cardinality(Holders \cap Running \cap Hanging) = MaxConcurrency

\* What given-up calls leave in the executor's queue does not stay there,
\* unless every thread hangs: only then does the queue grow.
QueueDrains ==
    \A c \in Calls : item[c] = "cancelled" ~> item[c] = "none" \/ ThreadsHang

\* Unless every thread hangs, each other call that was let in returns: hanging
\* calls cost threads, and no answers while a thread is left.
CallsReturn ==
    \A c \in Calls \ Hanging :
        phase[c] = "waiting" ~> phase[c] = "returned" \/ ThreadsHang

\* close() strands nobody whose function is not running, not even the callers
\* of functions that would hang: those queued see their futures cancelled, and
\* those at the semaphore are refused as soon as they reach the pool.  The one
\* exception is the semaphore itself, which close() does not touch: when every
\* permit is held by a call that awaits a hanging function, its waiters wait on.
CloseReleasesCallers ==
    \A c \in Calls :
        closed /\ phase[c] \in {"waiting", "holding"} /\ item[c] # "running"
            ~> phase[c] = "returned" \/ (phase[c] = "waiting" /\ PermitsHang)

=============================================================================
