----------------------------- MODULE PluginScope -----------------------------
(***************************************************************************)
(* The plugin lifecycle: docpipe.plugins.lifecycle.  A tree of scopes      *)
(* (process, request, operation), each with a cache of instances, an exit  *)
(* stack and an asyncio lock.                                              *)
(*                                                                         *)
(* A resource is named by the task whose acquire built it.  Requests and   *)
(* operations are left as `async with` blocks are: after the tasks that    *)
(* work in them.  The process scope is left when the runtime is, whoever   *)
(* is still working.                                                       *)
(***************************************************************************)
EXTENDS Naturals, Sequences, FiniteSets

CONSTANTS
    Scopes, Process,  \* the tree of scopes and its root
    Parent,           \* [Scopes \ {Process} -> Scopes]
    Keys, Tasks,
    Home,             \* [Tasks -> Scopes]: the handle a task works with
    None

ASSUME ScopeAssumption ==
    /\ Process \in Scopes
    /\ Parent \in [Scopes \ {Process} -> Scopes]
    /\ Home \in [Tasks -> Scopes]
    /\ None \notin Tasks

Nested == Scopes \ {Process}

VARIABLES
    state,  \* of a scope: unborn, open, closing (awaiting its exits), closed
    lock,   \* the task holding a scope's lock
    stack,  \* a scope's exit stack
    cache,  \* its instances
    raised, \* one of its exits raised
    pc,     \* where a task's acquire is
    want,   \* the scope and the key it is for
    got,    \* the resource it returned
    life    \* of a resource: unmade, plain (no context manager), entered, ...

scopes == <<state, stack, cache, raised>>
vars   == <<scopes, lock, pc, want, got, life>>

Returned == {"done", "error"}
Inside   == {"building", "entering"}  \* the lock is held
Live     == {"entered", "exiting"}

Init ==
    /\ state = [n \in Scopes |-> "unborn"]
    /\ lock = [n \in Scopes |-> None]
    /\ stack = [n \in Scopes |-> <<>>]
    /\ cache = [n \in Scopes |-> [k \in Keys |-> None]]
    /\ raised = [n \in Scopes |-> FALSE]
    /\ pc = [i \in Tasks |-> "idle"]
    /\ want = [i \in Tasks |-> None]
    /\ got = [i \in Tasks |-> None]
    /\ life = [i \in Tasks |-> "unmade"]

Goto(i, p) == pc' = [pc EXCEPT ![i] = p]
Give(n, i) == lock' = [lock EXCEPT ![n] = i]

\* target: a handle reaches its own scope and those it is nested in.
Reach(n) ==
    {n} \cup IF n = Process THEN {}
             ELSE {Parent[n]} \cup IF Parent[n] = Process THEN {} ELSE {Process}

Waiters(n) == {i \in Tasks : pc[i] = "waiting" /\ want[i].scope = n}

\* The resources built for a scope, and those of them that are held.
Made(n) == {r \in Tasks : life[r] # "unmade" /\ want[r].scope = n}
Held(n) == {r \in Made(n) : life[r] \in Live}

-----------------------------------------------------------------------------
(* Entering scopes and acquiring *)

\* request_scope asks for an active runtime; an operation scope is opened from
\* the handle of a request.
Open(n) ==
    /\ state[n] = "unborn"
    /\ n \in Nested => state[Parent[n]] = "open"
    /\ state' = [state EXCEPT ![n] = "open"]
    /\ UNCHANGED <<lock, stack, cache, raised, pc, want, got, life>>

\* Under the lock: a cached instance is the answer, or the factory is called.
Inspect(i, n, k) ==
    IF cache[n][k] # None
    THEN /\ got' = [got EXCEPT ![i] = cache[n][k]]
         /\ Goto(i, "done")
         /\ Give(n, None)
    ELSE Goto(i, "building") /\ Give(n, i) /\ UNCHANGED got

\* Mutant of Ask: no lock.
AskUnlocked(i, n, k) ==
    /\ pc[i] = "idle" /\ n \in Reach(Home[i]) /\ state[Home[i]] # "unborn"
    /\ Home[i] \in Nested => state[Home[i]] = "open"
    /\ want' = [want EXCEPT ![i] = [scope |-> n, key |-> k]]
    /\ Inspect(i, n, k)
    /\ UNCHANGED <<scopes, life>>

\* acquire: refused by a closed scope.  A lock that is free is taken without
\* giving way to anybody; otherwise the task queues.
Ask(i, n, k) ==
    /\ pc[i] = "idle" /\ n \in Reach(Home[i]) /\ state[Home[i]] # "unborn"
    /\ Home[i] \in Nested => state[Home[i]] = "open"
    /\ want' = [want EXCEPT ![i] = [scope |-> n, key |-> k]]
    /\ IF state[n] # "open"
       THEN Goto(i, "error") /\ UNCHANGED <<lock, got>>
       ELSE IF lock[n] = None /\ Waiters(n) = {}
       THEN Inspect(i, n, k)
       ELSE Goto(i, "waiting") /\ UNCHANGED <<lock, got>>
    /\ UNCHANGED <<scopes, life>>

\* The lock comes free.  Nobody asks again whether the scope is closed.
Wake(i) ==
    /\ pc[i] = "waiting" /\ lock[want[i].scope] = None
    /\ Inspect(i, want[i].scope, want[i].key)
    /\ UNCHANGED <<scopes, want, life>>

\* Mutant of Build: the instance is published before it is entered.
BuildPublishing(i) ==
    /\ pc[i] = "building"
    /\ Goto(i, "entering")
    /\ cache' = [cache EXCEPT ![want[i].scope][want[i].key] = i]
    /\ UNCHANGED <<state, stack, raised, lock, want, got, life>>

Build(i) ==
    /\ pc[i] = "building"
    /\ Goto(i, "entering")
    /\ UNCHANGED <<scopes, lock, want, got, life>>

\* _enter_resource, and the instance is cached; the lock is released.
Enter(i) ==
    LET n == want[i].scope IN
    /\ pc[i] = "entering"
    /\ \/ /\ life' = [life EXCEPT ![i] = "entered"]
          /\ stack' = [stack EXCEPT ![n] = Append(@, i)]
       \/ life' = [life EXCEPT ![i] = "plain"] /\ UNCHANGED stack
    /\ cache' = [cache EXCEPT ![n][want[i].key] = i]
    /\ got' = [got EXCEPT ![i] = i]
    /\ Goto(i, "done")
    /\ Give(n, None)
    /\ UNCHANGED <<state, raised, want>>

\* Mutant of Fail: the lock is not released on the way out.
FailKeepingLock(i) ==
    /\ pc[i] \in Inside
    /\ Goto(i, "error")
    /\ UNCHANGED <<scopes, lock, want, got, life>>

\* The factory or __aenter__ raises, or is cancelled.
Fail(i) ==
    /\ pc[i] \in Inside
    /\ Goto(i, "error")
    /\ Give(want[i].scope, None)
    /\ UNCHANGED <<scopes, want, got, life>>

\* The task is cancelled while it queues.
Cancel(i) ==
    /\ pc[i] = "waiting"
    /\ Goto(i, "error")
    /\ UNCHANGED <<scopes, lock, want, got, life>>

-----------------------------------------------------------------------------
(* Leaving scopes *)

\* aclose takes the last exit off the stack and awaits it.  With none left the
\* scope is closed, and its instances are forgotten unless an exit raised.
Unwind(n, exited, error) ==
    IF stack[n] = <<>>
    THEN /\ state' = [state EXCEPT ![n] = "closed"]
         /\ cache' = IF error THEN cache ELSE [cache EXCEPT ![n] = [k \in Keys |-> None]]
         /\ life' = [r \in Tasks |-> IF r \in exited THEN "exited" ELSE life[r]]
         /\ UNCHANGED stack
    ELSE LET next == stack[n][Len(stack[n])] IN
         /\ state' = [state EXCEPT ![n] = "closing"]
         /\ stack' = [stack EXCEPT ![n] = SubSeq(@, 1, Len(@) - 1)]
         /\ life' = [r \in Tasks |-> IF r = next THEN "exiting"
                                     ELSE IF r \in exited THEN "exited" ELSE life[r]]
         /\ UNCHANGED cache

\* A nested scope is left when its block is: the tasks working in it have
\* returned and the scopes opened in it are closed.
Close(n) ==
    /\ state[n] = "open"
    /\ n \in Nested =>
         /\ \A i \in Tasks : Home[i] = n => pc[i] \in Returned \cup {"idle"}
         /\ \A m \in Nested : Parent[m] = n => state[m] \in {"unborn", "closed"}
    /\ Unwind(n, {}, FALSE)
    /\ UNCHANGED <<lock, raised, pc, want, got>>

\* Mutant of Exited: an exit that raises ends the unwinding.
ExitedStopsAtError(n) ==
    /\ state[n] = "closing"
    /\ \E e \in BOOLEAN :
         /\ raised' = [raised EXCEPT ![n] = @ \/ e]
         /\ IF e
            THEN /\ state' = [state EXCEPT ![n] = "closed"]
                 /\ life' = [r \in Tasks |-> IF r \in Made(n) /\ life[r] = "exiting"
                                             THEN "exited" ELSE life[r]]
                 /\ UNCHANGED <<stack, cache>>
            ELSE Unwind(n, {r \in Made(n) : life[r] = "exiting"}, raised'[n])
    /\ UNCHANGED <<lock, pc, want, got>>

\* An exit returns or raises; the next follows either way.
Exited(n) ==
    /\ state[n] = "closing"
    /\ \E e \in BOOLEAN :
         /\ raised' = [raised EXCEPT ![n] = @ \/ e]
         /\ Unwind(n, {r \in Made(n) : life[r] = "exiting"}, raised'[n])
    /\ UNCHANGED <<lock, pc, want, got>>

-----------------------------------------------------------------------------
Acquire(i) == Wake(i) \/ Build(i) \/ Enter(i) \/ Fail(i)

Next ==
    \/ \E n \in Scopes : Open(n) \/ Close(n) \/ Exited(n)
    \/ \E i \in Tasks : Cancel(i) \/ Acquire(i) \/ \E n \in Scopes, k \in Keys : Ask(i, n, k)

Spec == Init /\ [][Next]_vars

\* Factories, entries and exits return.
Fairness ==
    /\ \A i \in Tasks : WF_vars(Acquire(i))
    /\ \A n \in Scopes : WF_vars(Exited(n))
FairSpec == Spec /\ Fairness

-----------------------------------------------------------------------------
(* Properties *)

Wanted == [scope : Scopes, key : Keys]

\* Who is inside holds the lock, and the stack holds what is entered: every
\* entered resource once.
Correspondence ==
    /\ \A i \in Tasks : (pc[i] \in Inside) <=> \E n \in Scopes : lock[n] = i
    /\ \A i \in Tasks : pc[i] \in Inside => lock[want[i].scope] = i
    /\ \A n \in Scopes :
         /\ \A x, y \in DOMAIN stack[n] : x # y => stack[n][x] # stack[n][y]
         /\ {stack[n][x] : x \in DOMAIN stack[n]} =
               {r \in Made(n) : life[r] = "entered"}

\* Types, and the two halves of a scope agree: no acquire is inside without the
\* lock, and what has been entered and not exited is on the stack to be exited
\* once (lifecycle.py:72).
ScopeInv ==
    /\ state \in [Scopes -> {"unborn", "open", "closing", "closed"}]
    /\ lock \in [Scopes -> Tasks \cup {None}]
    /\ stack \in [Scopes -> Seq(Tasks)]
    /\ cache \in [Scopes -> [Keys -> Tasks \cup {None}]]
    /\ raised \in [Scopes -> BOOLEAN]
    /\ pc \in [Tasks -> {"idle", "waiting"} \cup Inside \cup Returned]
    /\ \A i \in Tasks : IF pc[i] = "idle" THEN want[i] = None ELSE want[i] \in Wanted
    /\ got \in [Tasks -> Tasks \cup {None}]
    /\ life \in [Tasks -> {"unmade", "plain", "exited"} \cup Live]
    /\ Correspondence

\* A scope holds one instance of a key at a time, however acquires and closing
\* interleave (lifecycle.py:58 "Construct and enter a resource once within this
\* node").
OneInstancePerKey ==
    \A n \in Scopes : \A r, s \in Held(n) : want[r].key = want[s].key => r = s

\* When a nested scope is closed nothing it entered is left open, also when exits
\* raised, factories failed or tasks were cancelled.
NestedScopesRelease ==
    \A n \in Nested : state[n] = "closed" => Held(n) = {}

\* An acquire never returns a resource that was not entered, nor one that is being
\* or has been exited, unless it is answered by a process scope being left.
AcquiredIsUsable ==
    [][\A i \in Tasks :
         pc[i] # "done" /\ pc'[i] = "done" =>
            \/ life'[got'[i]] \in {"entered", "plain"}
            \/ want'[i].scope = Process /\ state[Process] # "open"]_vars

\* An acquire that queued for the lock returns, whatever those before it met with.
AcquiresReturn == \A i \in Tasks : pc[i] = "waiting" ~> pc[i] \in Returned

\* lifecycle.py:72 "Close all entered resources exactly once in reverse order":
\* a closed scope holds nothing.  Violated on the process scope by an acquire that
\* passed the check before the close and enters its resource after it.
ClosedScopesHoldNothing ==
    \A n \in Scopes : state[n] = "closed" => Held(n) = {}
=============================================================================
