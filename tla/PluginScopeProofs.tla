-------------------------- MODULE PluginScopeProofs --------------------------
(***************************************************************************)
(* Theorems about PluginScope, for every tree of scopes and all tasks: the *)
(* correspondence of lock, exit stack and resources, one instance per key, *)
(* the release of nested scopes, and what an acquire may return.           *)
(***************************************************************************)
EXTENDS PluginScope, SequenceTheorems, TLAPS

Active == {"waiting"} \cup Inside

\* The types of ScopeInv, and of want as a function.
Types ==
    /\ state \in [Scopes -> {"unborn", "open", "closing", "closed"}]
    /\ lock \in [Scopes -> Tasks \cup {None}]
    /\ stack \in [Scopes -> Seq(Tasks)]
    /\ cache \in [Scopes -> [Keys -> Tasks \cup {None}]]
    /\ raised \in [Scopes -> BOOLEAN]
    /\ pc \in [Tasks -> {"idle", "waiting"} \cup Inside \cup Returned]
    /\ want \in [Tasks -> Wanted \cup {None}]
    /\ \A i \in Tasks : IF pc[i] = "idle" THEN want[i] = None ELSE want[i] \in Wanted
    /\ got \in [Tasks -> Tasks \cup {None}]
    /\ life \in [Tasks -> {"unmade", "plain", "exited"} \cup Live]

\* A lock and the task inside it name each other.
Locks ==
    /\ \A i \in Tasks : pc[i] \in Inside => lock[want[i].scope] = i
    /\ \A n \in Scopes : lock[n] # None => pc[lock[n]] \in Inside /\ want[lock[n]].scope = n

\* Stacks hold what is entered, once; a resource belongs to an acquire that is done,
\* and is being exited only by a scope that is being left.
Stacks ==
    /\ \A n \in Scopes : \A x, y \in DOMAIN stack[n] : stack[n][x] = stack[n][y] => x = y
    /\ \A n \in Scopes : \A x \in DOMAIN stack[n] :
         life[stack[n][x]] = "entered" /\ want[stack[n][x]].scope = n
    /\ \A r \in Tasks : life[r] = "entered" =>
         \E x \in DOMAIN stack[want[r].scope] : stack[want[r].scope][x] = r
    /\ \A r \in Tasks : life[r] # "unmade" => pc[r] = "done"
    /\ \A r \in Tasks : life[r] = "exiting" => state[want[r].scope] = "closing"

\* A cache holds resources of its own, usable until the scope is left; whatever is
\* held is cached; and who is inside is there because nothing was cached.
Caches ==
    /\ \A n \in Scopes, k \in Keys : cache[n][k] # None =>
         /\ life[cache[n][k]] # "unmade" /\ want[cache[n][k]].scope = n
         /\ state[n] \in {"unborn", "open"} => life[cache[n][k]] \in {"entered", "plain"}
    /\ \A r \in Tasks : life[r] \in Live => cache[want[r].scope][want[r].key] = r
    /\ \A i \in Tasks : pc[i] \in Inside => cache[want[i].scope][want[i].key] = None

\* Whoever is at work in a nested scope finds it, and those around it, open; a closed
\* one holds nothing.
Blocks ==
    /\ \A i \in Tasks : pc[i] \in Active =>
         /\ want[i].scope \in Reach(Home[i])
         /\ Home[i] \in Nested => state[Home[i]] = "open"
    /\ \A m \in Nested : state[m] \in {"open", "closing"} /\ Parent[m] \in Nested =>
         state[Parent[m]] = "open"
    /\ \A r \in Tasks : life[r] \in Live /\ want[r].scope \in Nested =>
         state[want[r].scope] # "closed"

IInv == Types /\ Locks /\ Stacks /\ Caches /\ Blocks

-----------------------------------------------------------------------------
\* Before anything happens there is nothing to correspond.
LEMMA InitIInv == Init => IInv
<1> SUFFICES ASSUME Init PROVE IInv
  OBVIOUS
<1>1. Types
  BY ScopeAssumption DEF Init, Types, Inside, Returned, Live
<1>2. Locks /\ Caches
  BY DEF Init, Locks, Caches, Inside, Live
<1>3. Stacks
  BY DEF Init, Stacks
<1>4. Blocks
  BY ScopeAssumption DEF Init, Blocks, Active, Inside, Live, Nested
<1> QED BY <1>1, <1>2, <1>3, <1>4 DEF IInv

\* A task at work in a nested scope finds it open: its home is that scope, or one
\* that was opened in it.
LEMMA WorkedIsOpen ==
    ASSUME IInv, NEW i \in Tasks, pc[i] \in Active, want[i].scope \in Nested
    PROVE  state[want[i].scope] = "open"
<1>1. /\ want[i].scope \in Reach(Home[i])
      /\ Home[i] \in Nested => state[Home[i]] = "open"
  BY DEF IInv, Blocks
<1>2. Home[i] \in Scopes
  BY ScopeAssumption
<1>3. CASE Home[i] = Process
  BY <1>1, <1>3 DEF Reach, Nested
<1>4. CASE Home[i] \in Nested
  <2>1. want[i].scope \in {Home[i], Parent[Home[i]]}
    BY <1>1, <1>4 DEF Reach, Nested
  <2>2. Parent[Home[i]] \in Nested => state[Parent[Home[i]]] = "open"
    BY <1>1, <1>4 DEF IInv, Blocks
  <2> QED BY <1>1, <1>4, <2>1, <2>2
<1> QED BY <1>2, <1>3, <1>4 DEF Nested

\* A scope that opens holds nothing and nobody works in it.
LEMMA OpenStep == ASSUME IInv, NEW n \in Scopes, Open(n) PROVE IInv'
<1> USE DEF IInv
<1>1. /\ state[n] = "unborn" /\ state' = [state EXCEPT ![n] = "open"]
      /\ n \in Nested => state[Parent[n]] = "open"
      /\ UNCHANGED <<lock, stack, cache, raised, pc, want, got, life>>
  BY DEF Open
<1>2. state \in [Scopes -> {"unborn", "open", "closing", "closed"}]
  BY DEF Types
<1>3. Types'
  BY <1>1 DEF Types
<1>4. Locks'
  BY <1>1 DEF Locks
<1>5. Stacks'
  BY <1>1, <1>2 DEF Stacks
<1>6. Caches'
  BY <1>1, <1>2 DEF Caches
<1>7. Blocks'
  <2>1. \A i \in Tasks : pc'[i] \in Active =>
          /\ want'[i].scope \in Reach(Home[i])
          /\ Home[i] \in Nested => state'[Home[i]] = "open"
    BY <1>1, <1>2, ScopeAssumption DEF Blocks, Nested
  <2>2. \A m \in Nested : state'[m] \in {"open", "closing"} /\ Parent[m] \in Nested =>
          state'[Parent[m]] = "open"
    BY <1>1, <1>2, ScopeAssumption DEF Blocks, Nested
  <2>3. \A r \in Tasks : life'[r] \in Live /\ want'[r].scope \in Nested =>
          state'[want'[r].scope] # "closed"
    BY <1>1, <1>2 DEF Blocks, Nested
  <2> QED BY <2>1, <2>2, <2>3 DEF Blocks, Reach
<1> QED BY <1>3, <1>4, <1>5, <1>6, <1>7

\* Whoever comes under the lock of a scope it may work in takes the cached instance
\* and frees the lock, or keeps it to build one.
LEMMA Settles ==
    ASSUME IInv, NEW i \in Tasks, NEW n \in Scopes, NEW k \in Keys,
           pc[i] \in {"idle", "waiting"}, lock[n] = None,
           n \in Reach(Home[i]), Home[i] \in Nested => state[Home[i]] = "open",
           want' = [want EXCEPT ![i] = [scope |-> n, key |-> k]],
           Inspect(i, n, k), UNCHANGED <<scopes, life>>
    PROVE  IInv'
<1> USE DEF IInv
<1> DEFINE W == [scope |-> n, key |-> k]
<1>1. /\ W \in Wanted /\ W.scope = n /\ W.key = k
      /\ want' \in [Tasks -> Wanted \cup {None}] /\ want'[i] = W
      /\ \A j \in Tasks : j # i => want'[j] = want[j]
  BY ScopeAssumption DEF Types, Wanted
<1>2. UNCHANGED <<state, stack, cache, raised, life>>
  BY DEF scopes
<1>3. life[i] = "unmade"
  BY DEF Stacks, Types
<1>4. /\ \A m \in Scopes, q \in Keys : cache[m][q] # None => cache[m][q] \in Tasks \ {i}
      /\ \A m \in Scopes : lock[m] # None => lock[m] \in Tasks \ {i}
      /\ \A m \in Scopes : \A x \in DOMAIN stack[m] : stack[m][x] \in Tasks \ {i}
  <2>1. \A m \in Scopes, q \in Keys : cache[m][q] # None => cache[m][q] \in Tasks \ {i}
    BY <1>3 DEF Types, Caches
  <2>2. \A m \in Scopes : lock[m] # None => lock[m] \in Tasks \ {i}
    <3>1. pc[i] \notin Inside
      BY DEF Inside
    <3> QED BY <3>1 DEF Types, Locks
  <2>3. \A m \in Scopes : \A x \in DOMAIN stack[m] : stack[m][x] \in Tasks
    BY ElementOfSeq DEF Types
  <2>4. \A m \in Scopes : \A x \in DOMAIN stack[m] : life[stack[m][x]] = "entered"
    BY DEF Stacks
  <2> QED BY <1>3, <2>1, <2>2, <2>3, <2>4
<1>5. /\ pc' \in [Tasks -> {"idle", "waiting"} \cup Inside \cup Returned]
      /\ \A j \in Tasks : j # i => pc'[j] = pc[j]
      /\ got' \in [Tasks -> Tasks \cup {None}]
      /\ lock' \in [Scopes -> Tasks \cup {None}]
      /\ \A m \in Scopes : m # n => lock'[m] = lock[m]
  <2>1. CASE cache[n][k] # None
    <3>1. cache[n][k] \in Tasks
      BY <1>4, <2>1
    <3>2. /\ got' = [got EXCEPT ![i] = cache[n][k]]
          /\ pc' = [pc EXCEPT ![i] = "done"]
          /\ lock' = [lock EXCEPT ![n] = None]
      BY <2>1 DEF Inspect, Goto, Give
    <3> QED BY <3>1, <3>2 DEF Types, Returned
  <2>2. CASE cache[n][k] = None
    <3>1. /\ got' = got
          /\ pc' = [pc EXCEPT ![i] = "building"]
          /\ lock' = [lock EXCEPT ![n] = i]
      BY <2>2 DEF Inspect, Goto, Give
    <3> QED BY <3>1 DEF Types, Inside
  <2> QED BY <2>1, <2>2
<1>6. \/ cache[n][k] # None /\ pc'[i] = "done" /\ lock'[n] = None
      \/ cache[n][k] = None /\ pc'[i] = "building" /\ lock'[n] = i
  BY DEF Inspect, Types, Goto, Give
<1>7. Types'
  <2>1. \A j \in Tasks : IF pc'[j] = "idle" THEN want'[j] = None ELSE want'[j] \in Wanted
    BY <1>1, <1>5, <1>6 DEF Types
  <2> QED BY <1>1, <1>2, <1>5, <2>1 DEF Types
<1>8. Locks'
  <2>1. \A j \in Tasks : pc'[j] \in Inside => lock'[want'[j].scope] = j
    <3> SUFFICES ASSUME NEW j \in Tasks, pc'[j] \in Inside
                 PROVE  lock'[want'[j].scope] = j
      OBVIOUS
    <3>1. CASE j = i
      BY <1>1, <1>6, <3>1 DEF Inside
    <3>2. CASE j # i
      <4>1. pc[j] \in Inside /\ lock[want[j].scope] = j /\ want[j] \in Wanted
        BY <1>5, <3>2 DEF Locks, Types, Inside
      <4>2. want[j].scope # n
        BY <4>1, ScopeAssumption
      <4> QED BY <1>1, <1>5, <3>2, <4>1, <4>2 DEF Wanted
    <3> QED BY <3>1, <3>2
  <2>2. ASSUME NEW m \in Scopes, lock'[m] # None
        PROVE  pc'[lock'[m]] \in Inside /\ want'[lock'[m]].scope = m
    <3>1. CASE m = n
      BY <1>1, <1>6, <2>2, <3>1 DEF Inside
    <3>2. CASE m # n
      <4>1. lock'[m] = lock[m] /\ lock[m] \in Tasks \ {i}
        BY <1>4, <1>5, <2>2, <3>2
      <4>2. pc[lock[m]] \in Inside /\ want[lock[m]].scope = m
        BY <2>2, <4>1 DEF Locks
      <4> QED BY <1>1, <1>5, <4>1, <4>2
    <3> QED BY <3>1, <3>2
  <2> QED BY <2>1, <2>2 DEF Locks
<1>9. Stacks'
  <2>1. \A m \in Scopes : \A x \in DOMAIN stack[m] :
          life[stack[m][x]] = "entered" /\ want'[stack[m][x]].scope = m
    BY <1>1, <1>4 DEF Stacks
  <2>2. \A r \in Tasks : life[r] # "unmade" => pc'[r] = "done" /\ want'[r] = want[r]
    BY <1>1, <1>3, <1>5 DEF Stacks
  <2>3. \A r \in Tasks : life[r] = "entered" =>
          \E x \in DOMAIN stack[want'[r].scope] : stack[want'[r].scope][x] = r
    BY <2>2 DEF Stacks
  <2>4. \A r \in Tasks : life[r] = "exiting" => state[want'[r].scope] = "closing"
    BY <2>2 DEF Stacks
  <2> QED BY <1>2, <2>1, <2>2, <2>3, <2>4 DEF Stacks
<1>10. Caches'
  <2>1. \A m \in Scopes, q \in Keys : cache[m][q] # None => want'[cache[m][q]] = want[cache[m][q]]
    BY <1>1, <1>4
  <2>2. \A r \in Tasks : life[r] \in Live => want'[r] = want[r]
    BY <1>1, <1>3 DEF Live
  <2>3. ASSUME NEW j \in Tasks, pc'[j] \in Inside
        PROVE  cache[want'[j].scope][want'[j].key] = None
    <3>1. CASE j = i
      BY <1>1, <1>6, <2>3, <3>1 DEF Inside
    <3>2. CASE j # i
      BY <1>1, <1>5, <2>3, <3>2 DEF Caches
    <3> QED BY <3>1, <3>2
  <2> QED BY <1>2, <2>1, <2>2, <2>3 DEF Caches
<1>11. Blocks'
  <2>1. \A j \in Tasks : pc'[j] \in Active =>
          /\ want'[j].scope \in Reach(Home[j])
          /\ Home[j] \in Nested => state[Home[j]] = "open"
    BY <1>1, <1>5 DEF Blocks
  <2>2. \A r \in Tasks : life[r] \in Live /\ want'[r].scope \in Nested =>
          state[want'[r].scope] # "closed"
    BY <1>1, <1>3 DEF Blocks, Live
  <2> QED BY <1>2, <2>1, <2>2 DEF Blocks, Reach
<1> QED BY <1>7, <1>8, <1>9, <1>10, <1>11

\* A task that queues, goes from building to entering, or gives up: the lock it held,
\* if any, is free when it gives up, and nothing else moves.
LEMMA Moves ==
    ASSUME IInv, NEW i \in Tasks, NEW p \in {"waiting", "entering", "error"}, NEW w \in Wanted,
           pc[i] # "done",
           p = "entering" => pc[i] = "building",
           pc[i] \in Inside => w = want[i] /\ p # "waiting",
           p = "waiting" =>
             w.scope \in Reach(Home[i]) /\ (Home[i] \in Nested => state[Home[i]] = "open"),
           pc' = [pc EXCEPT ![i] = p], want' = [want EXCEPT ![i] = w],
           lock' = IF pc[i] \in Inside /\ p = "error" THEN [lock EXCEPT ![w.scope] = None] ELSE lock,
           UNCHANGED <<scopes, got, life>>
    PROVE  IInv'
<1> USE DEF IInv
<1>1. /\ want' \in [Tasks -> Wanted \cup {None}] /\ want'[i] = w /\ w.scope \in Scopes
      /\ \A j \in Tasks : j # i => want'[j] = want[j]
      /\ pc' \in [Tasks -> {"idle", "waiting"} \cup Inside \cup Returned] /\ pc'[i] = p
      /\ \A j \in Tasks : j # i => pc'[j] = pc[j]
      /\ lock' \in [Scopes -> Tasks \cup {None}]
  BY ScopeAssumption DEF Types, Wanted, Inside, Returned
<1>2. UNCHANGED <<state, stack, cache, raised, got, life>>
  BY DEF scopes
<1>3. life[i] = "unmade"
  BY DEF Stacks, Types
<1>4. /\ \A m \in Scopes, q \in Keys : cache[m][q] # None => cache[m][q] \in Tasks \ {i}
      /\ \A m \in Scopes : \A x \in DOMAIN stack[m] : stack[m][x] \in Tasks \ {i}
  <2>1. \A m \in Scopes, q \in Keys : cache[m][q] # None => cache[m][q] \in Tasks \ {i}
    BY <1>3 DEF Types, Caches
  <2>2. \A m \in Scopes : \A x \in DOMAIN stack[m] : stack[m][x] \in Tasks
    BY ElementOfSeq DEF Types
  <2>3. \A m \in Scopes : \A x \in DOMAIN stack[m] : life[stack[m][x]] = "entered"
    BY DEF Stacks
  <2> QED BY <1>3, <2>1, <2>2, <2>3
<1>5. pc'[i] \in Inside => pc[i] = "building" /\ want'[i] = want[i]
  BY <1>1 DEF Inside
<1>6. Types'
  <2>1. \A j \in Tasks : IF pc'[j] = "idle" THEN want'[j] = None ELSE want'[j] \in Wanted
    BY <1>1 DEF Types
  <2> QED BY <1>1, <1>2, <2>1 DEF Types
<1>7. Locks'
  <2>1. CASE pc[i] \in Inside /\ p = "error"
    <3>1. /\ w = want[i] /\ lock[w.scope] = i
          /\ lock'[w.scope] = None
          /\ \A m \in Scopes : m # w.scope => lock'[m] = lock[m]
      BY <1>1, <2>1 DEF Locks, Types
    <3>2. pc'[i] \notin Inside
      BY <1>1, <2>1 DEF Inside
    <3>3. ASSUME NEW j \in Tasks, pc'[j] \in Inside
          PROVE  lock'[want'[j].scope] = j
      <4>1. j # i
        BY <3>2, <3>3
      <4>2. pc[j] \in Inside /\ want'[j] = want[j] /\ lock[want[j].scope] = j
        BY <1>1, <3>3, <4>1 DEF Locks
      <4>3. pc[j] # "idle"
        BY <4>2 DEF Inside
      <4>4. want[j] \in Wanted
        BY <4>3 DEF Types
      <4> QED BY <3>1, <4>1, <4>2, <4>4 DEF Wanted
    <3>4. ASSUME NEW m \in Scopes, lock'[m] # None
          PROVE  pc'[lock'[m]] \in Inside /\ want'[lock'[m]].scope = m
      <4>1. lock'[m] = lock[m] /\ m # w.scope
        BY <3>1, <3>4
      <4>2. lock[m] \in Tasks /\ pc[lock[m]] \in Inside /\ want[lock[m]].scope = m
        BY <3>4, <4>1 DEF Locks, Types
      <4> QED BY <1>1, <3>1, <4>1, <4>2
    <3> QED BY <3>3, <3>4 DEF Locks
  <2>2. CASE ~(pc[i] \in Inside /\ p = "error")
    <3>1. lock' = lock /\ (pc[i] \in Inside <=> pc'[i] \in Inside)
      BY <1>1, <2>2 DEF Inside
    <3>2. pc[i] \in Inside => want'[i] = want[i]
      BY <1>1
    <3>3. \A m \in Scopes : lock[m] # None => lock[m] \in Tasks
      BY DEF Types
    <3> QED BY <1>1, <3>1, <3>2, <3>3 DEF Locks
  <2> QED BY <2>1, <2>2
<1>8. Stacks'
  <2>1. \A m \in Scopes : \A x \in DOMAIN stack[m] :
          life[stack[m][x]] = "entered" /\ want'[stack[m][x]].scope = m
    BY <1>1, <1>4 DEF Stacks
  <2>2. \A r \in Tasks : life[r] # "unmade" => pc'[r] = "done" /\ want'[r] = want[r]
    BY <1>1, <1>3 DEF Stacks
  <2>3. \A r \in Tasks : life[r] = "entered" =>
          \E x \in DOMAIN stack[want'[r].scope] : stack[want'[r].scope][x] = r
    BY <2>2 DEF Stacks
  <2>4. \A r \in Tasks : life[r] = "exiting" => state[want'[r].scope] = "closing"
    BY <2>2 DEF Stacks
  <2> QED BY <1>2, <2>1, <2>2, <2>3, <2>4 DEF Stacks
<1>9. Caches'
  <2>1. \A m \in Scopes, q \in Keys : cache[m][q] # None => want'[cache[m][q]] = want[cache[m][q]]
    BY <1>1, <1>4
  <2>2. \A r \in Tasks : life[r] \in Live => want'[r] = want[r]
    BY <1>1, <1>3 DEF Live
  <2>3. \A j \in Tasks : pc'[j] \in Inside => pc[j] \in Inside /\ want'[j] = want[j]
    BY <1>1, <1>5 DEF Inside
  <2> QED BY <1>2, <2>1, <2>2, <2>3 DEF Caches
<1>10. Blocks'
  <2>1. pc'[i] \in Active =>
          /\ want'[i].scope \in Reach(Home[i])
          /\ Home[i] \in Nested => state[Home[i]] = "open"
    BY <1>1, <1>5 DEF Blocks, Active, Inside
  <2>2. \A j \in Tasks : pc'[j] \in Active =>
          /\ want'[j].scope \in Reach(Home[j])
          /\ Home[j] \in Nested => state[Home[j]] = "open"
    BY <1>1, <2>1 DEF Blocks
  <2>3. \A r \in Tasks : life[r] \in Live /\ want'[r].scope \in Nested =>
          state[want'[r].scope] # "closed"
    BY <1>1, <1>3 DEF Blocks, Live
  <2> QED BY <1>2, <2>2, <2>3 DEF Blocks, Reach
<1> QED BY <1>6, <1>7, <1>8, <1>9, <1>10

\* Asking is refused, answered, queued, or begins to build.
LEMMA AskStep ==
    ASSUME IInv, NEW i \in Tasks, NEW n \in Scopes, NEW k \in Keys, Ask(i, n, k) PROVE IInv'
<1> DEFINE W == [scope |-> n, key |-> k]
<1>1. /\ pc[i] = "idle" /\ n \in Reach(Home[i])
      /\ Home[i] \in Nested => state[Home[i]] = "open"
      /\ want' = [want EXCEPT ![i] = W]
      /\ UNCHANGED <<scopes, life>>
  BY DEF Ask
<1>2. W \in Wanted /\ W.scope = n
  BY DEF Wanted
<1>3. \/ lock[n] = None /\ Inspect(i, n, k)
      \/ \E p \in {"waiting", "error"} : pc' = [pc EXCEPT ![i] = p] /\ UNCHANGED <<lock, got>>
  BY DEF Ask, Goto
<1>4. CASE lock[n] = None /\ Inspect(i, n, k)
  BY <1>1, <1>4, Settles
<1>5. ASSUME NEW p \in {"waiting", "error"}, pc' = [pc EXCEPT ![i] = p], UNCHANGED <<lock, got>>
      PROVE  IInv'
  <2>1. pc[i] \notin Inside /\ pc[i] # "done"
    BY <1>1 DEF Inside
  <2> HIDE DEF W
  <2> QED BY <1>1, <1>2, <1>5, <2>1, Moves
<1> QED BY <1>3, <1>4, <1>5

\* The lock goes to one that queued.
LEMMA WakeStep == ASSUME IInv, NEW i \in Tasks, Wake(i) PROVE IInv'
<1>1. /\ pc[i] = "waiting" /\ lock[want[i].scope] = None
      /\ Inspect(i, want[i].scope, want[i].key)
      /\ UNCHANGED <<scopes, want, life>>
  BY DEF Wake
<1>2. want[i] \in Wanted /\ want \in [Tasks -> Wanted \cup {None}]
  BY <1>1 DEF IInv, Types
<1>3. /\ want[i].scope \in Scopes /\ want[i].key \in Keys
      /\ want[i] = [scope |-> want[i].scope, key |-> want[i].key]
  BY <1>2 DEF Wanted
<1>4. want' = [want EXCEPT ![i] = [scope |-> want[i].scope, key |-> want[i].key]]
  BY <1>1, <1>2, <1>3
<1>5. /\ want[i].scope \in Reach(Home[i])
      /\ Home[i] \in Nested => state[Home[i]] = "open"
  BY <1>1 DEF IInv, Blocks, Active
<1> QED BY <1>1, <1>3, <1>4, <1>5, Settles

\* The factory returns.
LEMMA BuildStep == ASSUME IInv, NEW i \in Tasks, Build(i) PROVE IInv'
<1>1. /\ pc[i] = "building" /\ pc' = [pc EXCEPT ![i] = "entering"]
      /\ UNCHANGED <<scopes, lock, want, got, life>>
  BY DEF Build, Goto
<1>2. want[i] \in Wanted /\ want' = [want EXCEPT ![i] = want[i]]
  BY <1>1 DEF IInv, Types
<1> QED BY <1>1, <1>2, Moves

\* The factory or the entry raises: the lock is free again.
LEMMA FailStep == ASSUME IInv, NEW i \in Tasks, Fail(i) PROVE IInv'
<1>1. /\ pc[i] \in Inside /\ pc' = [pc EXCEPT ![i] = "error"]
      /\ lock' = [lock EXCEPT ![want[i].scope] = None]
      /\ UNCHANGED <<scopes, want, got, life>>
  BY DEF Fail, Goto, Give
<1>2. pc[i] # "idle" /\ pc[i] # "done"
  BY <1>1 DEF Inside
<1>3. want[i] \in Wanted /\ want' = [want EXCEPT ![i] = want[i]]
  BY <1>1, <1>2 DEF IInv, Types
<1> QED BY <1>1, <1>2, <1>3, Moves

\* One that queued is cancelled: it held nothing.
LEMMA CancelStep == ASSUME IInv, NEW i \in Tasks, Cancel(i) PROVE IInv'
<1>1. /\ pc[i] = "waiting" /\ pc' = [pc EXCEPT ![i] = "error"]
      /\ UNCHANGED <<scopes, lock, want, got, life>>
  BY DEF Cancel, Goto
<1>2. want[i] \in Wanted /\ want' = [want EXCEPT ![i] = want[i]] /\ pc[i] \notin Inside
  BY <1>1 DEF IInv, Types, Inside
<1> QED BY <1>1, <1>2, Moves

\* What was built is entered, cached and returned, and the lock is free again.
LEMMA EnterStep == ASSUME IInv, NEW i \in Tasks, Enter(i) PROVE IInv'
<1> USE DEF IInv
<1> DEFINE n == want[i].scope
           k == want[i].key
<1>1. /\ pc[i] = "entering" /\ want[i] \in Wanted /\ n \in Scopes /\ k \in Keys
      /\ lock[n] = i /\ cache[n][k] = None
      /\ n \in Nested => state[n] = "open"
  <2>1. pc[i] = "entering" /\ pc[i] \in Inside /\ pc[i] \in Active /\ pc[i] # "idle"
    BY DEF Enter, Inside, Active
  <2>2. want[i] \in Wanted
    BY <2>1 DEF Types
  <2> QED BY <2>1, <2>2, WorkedIsOpen DEF Locks, Caches, Wanted
<1>2. /\ cache' = [cache EXCEPT ![n][k] = i]
      /\ got' = [got EXCEPT ![i] = i]
      /\ pc' = [pc EXCEPT ![i] = "done"]
      /\ lock' = [lock EXCEPT ![n] = None]
      /\ UNCHANGED <<state, raised, want>>
      /\ \/ life' = [life EXCEPT ![i] = "entered"] /\ stack' = [stack EXCEPT ![n] = Append(@, i)]
         \/ life' = [life EXCEPT ![i] = "plain"] /\ stack' = stack
  BY DEF Enter, Goto, Give
<1> HIDE DEF n, k
<1>3. life[i] = "unmade"
  BY <1>1 DEF Stacks, Types
<1>4. stack[n] \in Seq(Tasks)
  BY <1>1 DEF Types
<1>5. /\ pc'[i] = "done" /\ \A j \in Tasks : j # i => pc'[j] = pc[j]
      /\ lock'[n] = None /\ \A m \in Scopes : m # n => lock'[m] = lock[m]
      /\ life'[i] \in {"entered", "plain"} /\ \A r \in Tasks : r # i => life'[r] = life[r]
      /\ cache'[n][k] = i
      /\ \A m \in Scopes, q \in Keys : m # n \/ q # k => cache'[m][q] = cache[m][q]
  BY <1>1, <1>2, ScopeAssumption DEF Types
<1>6. Types'
  <2>1. Append(stack[n], i) \in Seq(Tasks)
    BY <1>4, AppendProperties
  <2>2. stack' \in [Scopes -> Seq(Tasks)]
    BY <1>2, <2>1 DEF Types
  <2>3. life' \in [Tasks -> {"unmade", "plain", "exited"} \cup Live]
    BY <1>2 DEF Types, Live
  <2>4. pc' \in [Tasks -> {"idle", "waiting"} \cup Inside \cup Returned]
    BY <1>2 DEF Types, Returned
  <2>5. \A j \in Tasks : IF pc'[j] = "idle" THEN want'[j] = None ELSE want'[j] \in Wanted
    BY <1>1, <1>2, <1>5 DEF Types
  <2>6. cache' \in [Scopes -> [Keys -> Tasks \cup {None}]]
    BY <1>1, <1>2 DEF Types
  <2>7. /\ lock' \in [Scopes -> Tasks \cup {None}] /\ got' \in [Tasks -> Tasks \cup {None}]
        /\ want' \in [Tasks -> Wanted \cup {None}]
        /\ state' \in [Scopes -> {"unborn", "open", "closing", "closed"}]
        /\ raised' \in [Scopes -> BOOLEAN]
    BY <1>2 DEF Types
  <2> QED BY <2>2, <2>3, <2>4, <2>5, <2>6, <2>7 DEF Types
<1>7. Locks'
  <2>1. ASSUME NEW j \in Tasks, pc'[j] \in Inside
        PROVE  lock'[want'[j].scope] = j
    <3>1. j # i
      BY <1>5, <2>1 DEF Inside
    <3>2. pc[j] \in Inside /\ pc[j] # "idle"
      BY <1>5, <2>1, <3>1 DEF Inside
    <3>3. lock[want[j].scope] = j /\ want[j] \in Wanted
      BY <3>2 DEF Locks, Types
    <3> QED BY <1>1, <1>2, <1>5, <3>1, <3>3 DEF Wanted
  <2>2. ASSUME NEW m \in Scopes, lock'[m] # None
        PROVE  pc'[lock'[m]] \in Inside /\ want'[lock'[m]].scope = m
    <3>1. m # n /\ lock'[m] = lock[m]
      BY <1>5, <2>2
    <3>2. lock[m] \in Tasks /\ pc[lock[m]] \in Inside /\ want[lock[m]].scope = m
      BY <2>2, <3>1 DEF Locks, Types
    <3>3. lock[m] # i
      BY <3>1, <3>2 DEF n
    <3> QED BY <1>2, <1>5, <3>1, <3>2, <3>3
  <2> QED BY <2>1, <2>2 DEF Locks
<1>8. Stacks'
  <2>1. \A m \in Scopes : \A x \in DOMAIN stack[m] : stack[m][x] \in Tasks \ {i}
    <3>1. \A m \in Scopes : \A x \in DOMAIN stack[m] : stack[m][x] \in Tasks
      BY ElementOfSeq DEF Types
    <3>2. \A m \in Scopes : \A x \in DOMAIN stack[m] : life[stack[m][x]] = "entered"
      BY DEF Stacks
    <3> QED BY <1>3, <3>1, <3>2
  <2>2. \A r \in Tasks : life'[r] # "unmade" => pc'[r] = "done"
    BY <1>5 DEF Stacks
  <2>3. \A r \in Tasks : life'[r] = "exiting" => state'[want'[r].scope] = "closing"
    BY <1>2, <1>5 DEF Stacks
  <2>4. CASE life' = [life EXCEPT ![i] = "plain"] /\ stack' = stack
    <3>1. life'[i] = "plain"
      BY <2>4 DEF Types
    <3>2. \A m \in Scopes : \A x \in DOMAIN stack'[m] :
            life'[stack'[m][x]] = "entered" /\ want'[stack'[m][x]].scope = m
      BY <1>2, <1>5, <2>1, <2>4 DEF Stacks
    <3>3. \A r \in Tasks : life'[r] = "entered" =>
            \E x \in DOMAIN stack'[want'[r].scope] : stack'[want'[r].scope][x] = r
      BY <1>2, <1>5, <2>4, <3>1 DEF Stacks
    <3> QED BY <2>2, <2>3, <2>4, <3>2, <3>3 DEF Stacks
  <2>5. CASE life' = [life EXCEPT ![i] = "entered"] /\ stack' = [stack EXCEPT ![n] = Append(@, i)]
    <3> DEFINE s == stack[n]
               t == stack'[n]
    <3>1. /\ Len(s) \in Nat /\ DOMAIN s = 1..Len(s)
          /\ t \in Seq(Tasks) /\ Len(t) = Len(s) + 1 /\ DOMAIN t = 1..(Len(s) + 1)
          /\ \A x \in 1..Len(s) : t[x] = s[x]
          /\ t[Len(s) + 1] = i
      <4>1. t = Append(s, i)
        BY <1>1, <2>5 DEF Types
      <4>2. Append(s, i) \in Seq(Tasks)
        BY <1>4, AppendProperties
      <4> QED BY <1>4, <4>1, <4>2, AppendProperties, LenProperties
    <3>2. \A m \in Scopes : m # n => stack'[m] = stack[m]
      BY <2>5 DEF Types
    <3>3. life'[i] = "entered"
      BY <2>5 DEF Types
    <3>4. \A x \in 1..Len(s) : s[x] # i /\ s[x] \in Tasks
      BY <1>1, <2>1, <3>1
    <3>5. ASSUME NEW m \in Scopes, NEW x \in DOMAIN stack'[m], NEW y \in DOMAIN stack'[m],
                 stack'[m][x] = stack'[m][y]
          PROVE  x = y
      <4>1. CASE m # n
        BY <3>2, <3>5, <4>1 DEF Stacks
      <4>2. CASE m = n
        <5>1. x \in 1..(Len(s) + 1) /\ y \in 1..(Len(s) + 1) /\ t[x] = t[y]
          BY <3>1, <3>5, <4>2
        <5>2. CASE x \in 1..Len(s) /\ y \in 1..Len(s)
          BY <1>1, <3>1, <5>1, <5>2 DEF Stacks
        <5>3. CASE x = Len(s) + 1 \/ y = Len(s) + 1
          <6> HIDE DEF s, t
          <6> QED BY <3>1, <3>4, <5>1, <5>3
        <5> HIDE DEF s, t
        <5> QED BY <3>1, <5>1, <5>2, <5>3
      <4> QED BY <4>1, <4>2
    <3>6. ASSUME NEW m \in Scopes, NEW x \in DOMAIN stack'[m]
          PROVE  life'[stack'[m][x]] = "entered" /\ want'[stack'[m][x]].scope = m
      <4>1. CASE m # n
        BY <1>2, <1>5, <2>1, <3>2, <3>6, <4>1 DEF Stacks
      <4>2. CASE m = n
        <5>1. x \in 1..(Len(s) + 1)
          BY <3>1, <3>6, <4>2
        <5>2. CASE x = Len(s) + 1
          BY <1>2, <3>1, <3>3, <4>2, <5>2 DEF n
        <5>3. CASE x \in 1..Len(s)
          <6>1. t[x] = s[x] /\ s[x] \in Tasks \ {i}
            BY <3>1, <3>4, <5>3
          <6>2. life[s[x]] = "entered" /\ want[s[x]].scope = n
            BY <1>1, <3>1, <5>3 DEF Stacks
          <6> QED BY <1>2, <1>5, <4>2, <6>1, <6>2
        <5> HIDE DEF s, t
        <5> QED BY <3>1, <5>1, <5>2, <5>3
      <4> QED BY <4>1, <4>2
    <3>7. ASSUME NEW r \in Tasks, life'[r] = "entered"
          PROVE  \E x \in DOMAIN stack'[want'[r].scope] : stack'[want'[r].scope][x] = r
      <4>1. CASE r = i
        <5>1. Len(s) + 1 \in DOMAIN t /\ t[Len(s) + 1] = r
          <6> HIDE DEF s, t
          <6> QED BY <3>1, <4>1
        <5>2. want'[r].scope = n
          BY <1>2, <4>1 DEF n
        <5> QED BY <5>1, <5>2
      <4>2. CASE r # i
        <5>1. life[r] = "entered" /\ want'[r] = want[r]
          BY <1>2, <1>5, <3>7, <4>2
        <5>2. PICK x \in DOMAIN stack[want[r].scope] : stack[want[r].scope][x] = r
          BY <5>1 DEF Stacks
        <5>3. pc[r] # "idle"
          BY <5>1 DEF Stacks
        <5>4. want[r].scope \in Scopes
          BY <5>3 DEF Types, Wanted
        <5>5. CASE want[r].scope = n
          <6>1. x \in 1..Len(s) /\ s[x] = r
            BY <3>1, <5>2, <5>5
          <6>2. x \in DOMAIN t /\ t[x] = r
            <7> HIDE DEF s, t
            <7> QED BY <3>1, <6>1
          <6> QED BY <5>1, <5>5, <6>2
        <5>6. CASE want[r].scope # n
          BY <3>2, <5>1, <5>2, <5>4, <5>6
        <5> QED BY <5>5, <5>6
      <4> QED BY <4>1, <4>2
    <3> QED BY <2>2, <2>3, <3>5, <3>6, <3>7 DEF Stacks
  <2> QED BY <1>2, <2>4, <2>5
<1>9. Caches'
  <2>1. ASSUME NEW m \in Scopes, NEW q \in Keys, cache'[m][q] # None
        PROVE  /\ life'[cache'[m][q]] # "unmade" /\ want'[cache'[m][q]].scope = m
               /\ state'[m] \in {"unborn", "open"} => life'[cache'[m][q]] \in {"entered", "plain"}
    <3>1. CASE m = n /\ q = k
      BY <1>2, <1>5, <3>1 DEF n
    <3>2. CASE m # n \/ q # k
      <4>1. cache'[m][q] = cache[m][q] /\ cache[m][q] # None
        BY <1>5, <2>1, <3>2
      <4>2. cache[m][q] \in Tasks \ {i}
        BY <1>3, <4>1 DEF Caches, Types
      <4> QED BY <1>2, <1>5, <4>1, <4>2 DEF Caches
    <3> QED BY <3>1, <3>2
  <2>2. ASSUME NEW r \in Tasks, life'[r] \in Live
        PROVE  cache'[want'[r].scope][want'[r].key] = r
    <3>1. CASE r = i
      BY <1>2, <1>5, <3>1 DEF n, k
    <3>2. CASE r # i
      <4>1. life[r] \in Live /\ pc[r] # "idle"
        BY <1>5, <2>2, <3>2 DEF Stacks, Live
      <4>2. want[r] \in Wanted /\ cache[want[r].scope][want[r].key] = r
        BY <4>1 DEF Caches, Types
      <4>3. want[r].scope # n \/ want[r].key # k
        BY <1>1, <4>2, ScopeAssumption
      <4> QED BY <1>2, <1>5, <4>2, <4>3 DEF Wanted
    <3> QED BY <3>1, <3>2
  <2>3. ASSUME NEW j \in Tasks, pc'[j] \in Inside
        PROVE  cache'[want'[j].scope][want'[j].key] = None
    <3>1. j # i
      BY <1>5, <2>3 DEF Inside
    <3>2. pc[j] \in Inside /\ pc[j] # "idle"
      BY <1>5, <2>3, <3>1 DEF Inside
    <3>3. lock[want[j].scope] = j /\ want[j] \in Wanted /\ cache[want[j].scope][want[j].key] = None
      BY <3>2 DEF Locks, Types, Caches
    <3>4. want[j].scope # n
      BY <1>1, <3>1, <3>3
    <3> QED BY <1>2, <1>5, <3>3, <3>4 DEF Wanted
  <2> QED BY <2>1, <2>2, <2>3 DEF Caches
<1>10. Blocks'
  <2>1. \A j \in Tasks : pc'[j] \in Active =>
          /\ want'[j].scope \in Reach(Home[j])
          /\ Home[j] \in Nested => state'[Home[j]] = "open"
    <3>1. pc'[i] \notin Active
      BY <1>5 DEF Active, Inside
    <3> QED BY <1>2, <1>5, <3>1 DEF Blocks
  <2>2. \A r \in Tasks : life'[r] \in Live /\ want'[r].scope \in Nested =>
          state'[want'[r].scope] # "closed"
    BY <1>1, <1>2, <1>5 DEF Blocks, n
  <2> QED BY <1>2, <2>1, <2>2 DEF Blocks, Reach
<1> QED BY <1>6, <1>7, <1>8, <1>9, <1>10

\* One step of aclose, whether it begins the unwinding or continues it.  Nobody is at
\* work in a nested scope by then, and what was opened in it is closed.
LEMMA Unwinds ==
    ASSUME IInv, NEW n \in Scopes, NEW exited, NEW e \in BOOLEAN,
           state[n] \in {"open", "closing"},
           exited = {r \in Made(n) : life[r] = "exiting"},
           n \in Nested => \A i \in Tasks : Home[i] = n => pc[i] \notin Active,
           \A m \in Nested : Parent[m] = n /\ n \in Nested => state[m] \notin {"open", "closing"},
           Unwind(n, exited, e), raised' \in [Scopes -> BOOLEAN],
           UNCHANGED <<lock, pc, want, got>>
    PROVE  IInv'
<1> USE DEF IInv
<1>1. /\ stack[n] \in Seq(Tasks)
      /\ Len(stack[n]) \in Nat /\ DOMAIN stack[n] = 1..Len(stack[n])
      /\ stack[n] # <<>> => Len(stack[n]) \in Nat \ {0}
  BY LenProperties, EmptySeq DEF Types
<1>2. \A r \in Tasks : r \in exited <=> life[r] = "exiting" /\ want[r].scope = n
  BY DEF Made
<1>3. Locks'
  BY DEF Locks
<1>4. \A r \in Tasks : life[r] # "unmade" => want[r] \in Wanted
  BY DEF Stacks, Types
<1>5. \A i \in Tasks : pc'[i] \in Active =>
        /\ want'[i].scope \in Reach(Home[i])
        /\ Home[i] \in Nested => state[Home[i]] = "open" /\ Home[i] # n
  BY DEF Blocks
<1>6. CASE stack[n] = <<>>
  <2>1. /\ state' = [state EXCEPT ![n] = "closed"]
        /\ stack' = stack
        /\ cache' = IF e THEN cache ELSE [cache EXCEPT ![n] = [k \in Keys |-> None]]
        /\ life' = [r \in Tasks |-> IF r \in exited THEN "exited" ELSE life[r]]
    BY <1>6 DEF Unwind
  <2>2. DOMAIN stack[n] = {}
    BY <1>1, <1>6, EmptySeq
  <2>3. \A r \in Tasks : life'[r] \in Live => life[r] = life'[r] /\ want[r].scope # n
    BY <1>2, <2>1, <2>2 DEF Stacks, Live
  <2>4. \A r \in Tasks : /\ life'[r] # "unmade" <=> life[r] # "unmade"
                         /\ life[r] \in {"entered", "plain"} => life'[r] = life[r]
    BY <1>2, <2>1
  <2>5. /\ state'[n] = "closed"
        /\ \A m \in Scopes : m # n => state'[m] = state[m]
    BY <2>1 DEF Types
  <2>6. /\ cache' \in [Scopes -> [Keys -> Tasks \cup {None}]]
        /\ \A m \in Scopes, k \in Keys : cache'[m][k] \in {None, cache[m][k]}
        /\ \A m \in Scopes, k \in Keys : m # n => cache'[m][k] = cache[m][k]
    <3>1. CASE e
      BY <2>1, <3>1 DEF Types
    <3>2. CASE ~e
      BY <2>1, <3>2 DEF Types
    <3> QED BY <3>1, <3>2
  <2>7. Types'
    <3>1. life' \in [Tasks -> {"unmade", "plain", "exited"} \cup Live]
      BY <2>1 DEF Types
    <3>2. state' \in [Scopes -> {"unborn", "open", "closing", "closed"}]
      BY <2>1 DEF Types
    <3> QED BY <2>1, <2>6, <3>1, <3>2 DEF Types
  <2>8. Stacks'
    <3>1. \A m \in Scopes : \A x \in DOMAIN stack'[m] :
            life'[stack'[m][x]] = "entered" /\ want'[stack'[m][x]].scope = m
      <4>1. \A m \in Scopes : \A x \in DOMAIN stack[m] : stack[m][x] \in Tasks
        BY ElementOfSeq DEF Types
      <4> QED BY <2>1, <2>4, <4>1 DEF Stacks
    <3>2. \A r \in Tasks : life'[r] = "exiting" => state'[want'[r].scope] = "closing"
      BY <1>4, <2>3, <2>5 DEF Stacks, Live, Wanted
    <3>3. \A r \in Tasks : life'[r] = "entered" =>
            \E x \in DOMAIN stack'[want'[r].scope] : stack'[want'[r].scope][x] = r
      BY <2>1, <2>3 DEF Stacks, Live
    <3>4. \A r \in Tasks : life'[r] # "unmade" => pc'[r] = "done"
      BY <2>4 DEF Stacks
    <3> QED BY <2>1, <3>1, <3>2, <3>3, <3>4 DEF Stacks
  <2>9. Caches'
    <3>1. ASSUME NEW m \in Scopes, NEW k \in Keys, cache'[m][k] # None
          PROVE  /\ life'[cache'[m][k]] # "unmade" /\ want'[cache'[m][k]].scope = m
                 /\ state'[m] \in {"unborn", "open"} => life'[cache'[m][k]] \in {"entered", "plain"}
      <4>1. cache'[m][k] = cache[m][k] /\ cache[m][k] \in Tasks
        BY <2>6, <3>1 DEF Types
      <4>2. /\ life[cache[m][k]] # "unmade" /\ want[cache[m][k]].scope = m
            /\ state[m] \in {"unborn", "open"} => life[cache[m][k]] \in {"entered", "plain"}
        BY <3>1, <4>1 DEF Caches
      <4>3. state'[m] \in {"unborn", "open"} => state'[m] = state[m]
        BY <2>5
      <4> QED BY <2>4, <4>1, <4>2, <4>3
    <3>2. \A r \in Tasks : life'[r] \in Live => cache'[want'[r].scope][want'[r].key] = r
      BY <1>4, <2>3, <2>6 DEF Caches, Wanted, Live
    <3>3. ASSUME NEW i \in Tasks, pc'[i] \in Inside
          PROVE  cache'[want'[i].scope][want'[i].key] = None
      <4>1. cache[want[i].scope][want[i].key] = None /\ pc[i] # "idle"
        BY <3>3 DEF Caches, Inside
      <4>2. want[i] \in Wanted
        BY <4>1 DEF Types
      <4> QED BY <2>6, <4>1, <4>2 DEF Wanted
    <3> QED BY <3>1, <3>2, <3>3 DEF Caches
  <2>10. Blocks'
    <3>1. \A i \in Tasks : pc'[i] \in Active =>
            /\ want'[i].scope \in Reach(Home[i])
            /\ Home[i] \in Nested => state'[Home[i]] = "open"
      BY <1>5, <2>5 DEF Nested
    <3>2. \A m \in Nested : state'[m] \in {"open", "closing"} /\ Parent[m] \in Nested =>
            state'[Parent[m]] = "open"
      BY <2>5 DEF Blocks, Nested
    <3>3. \A r \in Tasks : life'[r] \in Live /\ want'[r].scope \in Nested =>
            state'[want'[r].scope] # "closed"
      BY <2>3, <2>5 DEF Blocks, Nested
    <3> QED BY <3>1, <3>2, <3>3 DEF Blocks, Reach
  <2> QED BY <1>3, <2>7, <2>8, <2>9, <2>10
<1>7. CASE stack[n] # <<>>
  <2> DEFINE s == stack[n]
             L == Len(s)
             next == s[L]
             t == SubSeq(s, 1, L - 1)
  <2>1. /\ state' = [state EXCEPT ![n] = "closing"]
        /\ stack' = [stack EXCEPT ![n] = t]
        /\ life' = [r \in Tasks |-> IF r = next THEN "exiting"
                                    ELSE IF r \in exited THEN "exited" ELSE life[r]]
        /\ cache' = cache
    BY <1>7 DEF Unwind
  <2>2. L \in Nat \ {0} /\ DOMAIN s = 1..L /\ s \in Seq(Tasks)
    BY <1>1, <1>7
  <2>3. \A x \in 1..L : s[x] \in Tasks
    BY <2>2, ElementOfSeq
  <2>4. /\ t \in Seq(Tasks) /\ DOMAIN t = 1..(L - 1)
        /\ \A x \in 1..(L - 1) : t[x] = s[x]
    <3> HIDE DEF s, L
    <3>1. /\ 1 \in Int /\ L - 1 \in Int /\ \A x \in 1..(L - 1) : s[x] \in Tasks
          /\ IF 1 <= L - 1 THEN L - 1 - 1 + 1 = L - 1 ELSE 0 = L - 1
          /\ 1..(L - 1 - 1 + 1) = 1..(L - 1) /\ \A x \in 1..(L - 1) : 1 + x - 1 = x
      BY <2>2, <2>3
    <3>2. /\ t \in Seq(Tasks) /\ Len(t) = IF 1 <= L - 1 THEN L - 1 - 1 + 1 ELSE 0
          /\ \A x \in 1..(L - 1 - 1 + 1) : t[x] = s[1 + x - 1]
      BY <3>1, SubSeqProperties
    <3> HIDE DEF t
    <3>3. Len(t) = L - 1 /\ \A x \in 1..(L - 1) : t[x] = s[x]
      BY <3>1, <3>2
    <3> QED BY <3>2, <3>3, LenProperties
  <2>5. /\ next \in Tasks /\ life[next] = "entered" /\ want[next].scope = n
        /\ \A x \in 1..(L - 1) : s[x] # next
    <3>1. L \in DOMAIN s /\ \A x \in 1..(L - 1) : x \in DOMAIN s /\ x # L
      <4> HIDE DEF L, s
      <4> QED BY <2>2
    <3> QED BY <2>2, <2>3, <3>1 DEF Stacks
  <2> HIDE DEF s, L, next, t
  <2>6. /\ life'[next] = "exiting"
        /\ \A r \in Tasks \ {next} : /\ life[r] # "exiting" => life'[r] = life[r]
                                     /\ life'[r] = "exiting" => want[r].scope # n
                                     /\ life[r] # "unmade" <=> life'[r] # "unmade"
                                     /\ life'[r] \in Live => life[r] = life'[r]
    BY <1>2, <2>1, <2>5 DEF Live
  <2>7. /\ state'[n] = "closing" /\ \A m \in Scopes : m # n => state'[m] = state[m]
        /\ stack'[n] = t /\ \A m \in Scopes : m # n => stack'[m] = stack[m]
    BY <2>1 DEF Types
  <2>8. Types'
    <3>1. life' \in [Tasks -> {"unmade", "plain", "exited"} \cup Live]
      BY <2>1 DEF Types, Live
    <3>2. state' \in [Scopes -> {"unborn", "open", "closing", "closed"}]
      BY <2>1 DEF Types
    <3>3. stack' \in [Scopes -> Seq(Tasks)]
      BY <2>1, <2>4 DEF Types
    <3> QED BY <2>1, <3>1, <3>2, <3>3 DEF Types
  <2>9. Stacks'
    <3>1. ASSUME NEW m \in Scopes, NEW x \in DOMAIN stack'[m], NEW y \in DOMAIN stack'[m],
                 stack'[m][x] = stack'[m][y]
          PROVE  x = y
      <4>1. CASE m = n
        <5>1. x \in DOMAIN s /\ y \in DOMAIN s /\ s[x] = s[y]
          BY <2>2, <2>4, <2>7, <3>1, <4>1
        <5> QED BY <5>1 DEF Stacks, s
      <4>2. CASE m # n
        BY <2>7, <3>1, <4>2 DEF Stacks
      <4> QED BY <4>1, <4>2
    <3>2. ASSUME NEW m \in Scopes, NEW x \in DOMAIN stack'[m]
          PROVE  life'[stack'[m][x]] = "entered" /\ want'[stack'[m][x]].scope = m
      <4>1. CASE m = n
        <5>1. x \in DOMAIN s /\ x \in 1..(L - 1) /\ stack'[m][x] = s[x]
          BY <2>2, <2>4, <2>7, <3>2, <4>1
        <5>2. s[x] \in Tasks \ {next} /\ life[s[x]] = "entered" /\ want[s[x]].scope = n
          BY <2>2, <2>3, <2>5, <5>1 DEF Stacks, s
        <5> QED BY <2>6, <4>1, <5>1, <5>2
      <4>2. CASE m # n
        <5>1. /\ x \in DOMAIN stack[m] /\ stack'[m][x] = stack[m][x]
              /\ stack[m][x] \in Tasks
          BY <2>7, <3>2, <4>2, ElementOfSeq DEF Types
        <5>2. life[stack[m][x]] = "entered" /\ want[stack[m][x]].scope = m
          BY <5>1 DEF Stacks
        <5> QED BY <2>5, <2>6, <4>2, <5>1, <5>2
      <4> QED BY <4>1, <4>2
    <3>3. ASSUME NEW r \in Tasks, life'[r] = "entered"
          PROVE  \E x \in DOMAIN stack'[want'[r].scope] : stack'[want'[r].scope][x] = r
      <4>1. r # next /\ life[r] = "entered"
        BY <2>6, <3>3 DEF Live
      <4>2. PICK x \in DOMAIN stack[want[r].scope] : stack[want[r].scope][x] = r
        BY <4>1 DEF Stacks
      <4>3. want[r].scope \in Scopes
        BY <1>4, <4>1 DEF Wanted
      <4>4. CASE want[r].scope = n
        <5>1. x \in 1..L /\ s[x] = r
          BY <2>2, <4>2, <4>4 DEF s
        <5>2. x \in 1..(L - 1)
          BY <2>2, <4>1, <5>1 DEF next
        <5> QED BY <2>4, <2>7, <4>4, <5>1, <5>2
      <4>5. CASE want[r].scope # n
        BY <2>7, <4>2, <4>3, <4>5
      <4> QED BY <4>4, <4>5
    <3>4. \A r \in Tasks : life'[r] # "unmade" => pc'[r] = "done"
      BY <2>5, <2>6 DEF Stacks
    <3>5. ASSUME NEW r \in Tasks, life'[r] = "exiting"
          PROVE  state'[want'[r].scope] = "closing"
      <4>1. CASE r = next
        BY <2>5, <2>7, <4>1
      <4>2. CASE r # next
        <5>1. life[r] = "exiting" /\ want[r].scope # n
          BY <2>6, <3>5, <4>2 DEF Live
        <5>2. want[r].scope \in Scopes
          BY <1>4, <5>1 DEF Wanted
        <5> QED BY <2>7, <5>1, <5>2 DEF Stacks
      <4> QED BY <4>1, <4>2
    <3> QED BY <3>1, <3>2, <3>3, <3>4, <3>5 DEF Stacks
  <2>10. Caches'
    <3>1. ASSUME NEW m \in Scopes, NEW k \in Keys, cache'[m][k] # None
          PROVE  /\ life'[cache'[m][k]] # "unmade" /\ want'[cache'[m][k]].scope = m
                 /\ state'[m] \in {"unborn", "open"} => life'[cache'[m][k]] \in {"entered", "plain"}
      <4>1. cache'[m][k] = cache[m][k] /\ cache[m][k] \in Tasks
        BY <2>1, <3>1 DEF Types
      <4>2. /\ life[cache[m][k]] # "unmade" /\ want[cache[m][k]].scope = m
            /\ state[m] \in {"unborn", "open"} => life[cache[m][k]] \in {"entered", "plain"}
        BY <3>1, <4>1 DEF Caches
      <4>3. state'[m] \in {"unborn", "open"} => state'[m] = state[m] /\ m # n
        BY <2>7
      <4> QED BY <2>5, <2>6, <4>1, <4>2, <4>3
    <3>2. \A r \in Tasks : life'[r] \in Live => life[r] \in Live
      BY <2>5, <2>6 DEF Live
    <3> QED BY <2>1, <3>1, <3>2 DEF Caches
  <2>11. Blocks'
    <3>1. \A i \in Tasks : pc'[i] \in Active =>
            /\ want'[i].scope \in Reach(Home[i])
            /\ Home[i] \in Nested => state'[Home[i]] = "open"
      BY <1>5, <2>7 DEF Nested
    <3>2. \A m \in Nested : state'[m] \in {"open", "closing"} /\ Parent[m] \in Nested =>
            state'[Parent[m]] = "open"
      <4>1. \A m \in Nested : Parent[m] \in Scopes
        BY ScopeAssumption DEF Nested
      <4> QED BY <2>7, <4>1 DEF Blocks, Nested
    <3>3. \A r \in Tasks : life'[r] \in Live /\ want'[r].scope \in Nested =>
            state'[want'[r].scope] # "closed"
      BY <2>5, <2>6, <2>7 DEF Blocks, Nested, Live
    <3> QED BY <3>1, <3>2, <3>3 DEF Blocks, Reach
  <2> QED BY <1>3, <2>8, <2>9, <2>10, <2>11
<1> QED BY <1>6, <1>7

\* A scope begins to be left.  Nothing of an open scope is being exited yet.
LEMMA CloseStep == ASSUME IInv, NEW n \in Scopes, Close(n) PROVE IInv'
<1>1. /\ state[n] = "open"
      /\ n \in Nested => \A i \in Tasks : Home[i] = n => pc[i] \in Returned \cup {"idle"}
      /\ n \in Nested => \A m \in Nested : Parent[m] = n => state[m] \in {"unborn", "closed"}
      /\ Unwind(n, {}, FALSE)
      /\ UNCHANGED <<lock, raised, pc, want, got>>
  BY DEF Close
<1>2. {} = {r \in Made(n) : life[r] = "exiting"}
  BY <1>1 DEF IInv, Stacks, Made
<1>3. n \in Nested => \A i \in Tasks : Home[i] = n => pc[i] \notin Active
  BY <1>1 DEF Returned, Active, Inside
<1>4. \A m \in Nested : Parent[m] = n /\ n \in Nested => state[m] \notin {"open", "closing"}
  BY <1>1
<1>5. raised' \in [Scopes -> BOOLEAN]
  BY <1>1 DEF IInv, Types
<1> QED BY <1>1, <1>2, <1>3, <1>4, <1>5, Unwinds

\* An exit ends and the next begins.
LEMMA ExitedStep == ASSUME IInv, NEW n \in Scopes, Exited(n) PROVE IInv'
<1>1. PICK e \in BOOLEAN :
        /\ state[n] = "closing"
        /\ raised' = [raised EXCEPT ![n] = @ \/ e]
        /\ Unwind(n, {r \in Made(n) : life[r] = "exiting"}, raised'[n])
        /\ UNCHANGED <<lock, pc, want, got>>
  BY DEF Exited
<1>2. raised' \in [Scopes -> BOOLEAN] /\ raised'[n] \in BOOLEAN
  <2>1. raised \in [Scopes -> BOOLEAN]
    BY DEF IInv, Types
  <2>2. (raised[n] \/ e) \in BOOLEAN
    BY <2>1
  <2> QED BY <1>1, <2>1, <2>2
<1>3. n \in Nested => \A i \in Tasks : Home[i] = n => pc[i] \notin Active
  BY <1>1 DEF IInv, Blocks
<1>4. \A m \in Nested : Parent[m] = n /\ n \in Nested => state[m] \notin {"open", "closing"}
  BY <1>1 DEF IInv, Blocks
<1> QED BY <1>1, <1>2, <1>3, <1>4, Unwinds

\* A step of some task or scope keeps the invariant.
LEMMA NextIInv == IInv /\ [Next]_vars => IInv'
<1> SUFFICES ASSUME IInv, [Next]_vars PROVE IInv'
  OBVIOUS
<1>1. CASE UNCHANGED vars
  BY <1>1 DEF vars, scopes, IInv, Types, Locks, Stacks, Caches, Blocks
<1>2. ASSUME NEW n \in Scopes, Open(n) \/ Close(n) \/ Exited(n)
      PROVE  IInv'
  BY <1>2, OpenStep, CloseStep, ExitedStep
<1>3. ASSUME NEW i \in Tasks, Cancel(i) \/ Acquire(i)
      PROVE  IInv'
  BY <1>3, CancelStep, WakeStep, BuildStep, EnterStep, FailStep DEF Acquire
<1>4. ASSUME NEW i \in Tasks, NEW n \in Scopes, NEW k \in Keys, Ask(i, n, k)
      PROVE  IInv'
  BY <1>4, AskStep
<1> QED BY <1>1, <1>2, <1>3, <1>4 DEF Next

\* The inductive invariant holds of every behaviour.
LEMMA Inductive == Spec => []IInv
BY InitIInv, NextIInv, PTL DEF Spec

-----------------------------------------------------------------------------
\* What a stack holds is what has been entered for its scope and not yet left.
LEMMA StackHoldsEntered ==
    ASSUME IInv, NEW n \in Scopes
    PROVE  {stack[n][x] : x \in DOMAIN stack[n]} = {r \in Made(n) : life[r] = "entered"}
<1>1. \A x \in DOMAIN stack[n] : stack[n][x] \in Tasks
  BY ElementOfSeq DEF IInv, Types
<1>2. \A x \in DOMAIN stack[n] : stack[n][x] \in {r \in Made(n) : life[r] = "entered"}
  BY <1>1 DEF IInv, Stacks, Made
<1>3. ASSUME NEW r \in Made(n), life[r] = "entered"
      PROVE  r \in {stack[n][x] : x \in DOMAIN stack[n]}
  BY <1>3 DEF IInv, Stacks, Made
<1> QED BY <1>2, <1>3

\* Types, and lock, exit stack and resources of every scope agree, for every tree of
\* scopes: no acquire is inside without the lock, and what was entered and not exited
\* is on the stack once (lifecycle.py, _ScopeNode).
THEOREM ScopeInvariant == Spec => []ScopeInv
<1>1. ASSUME IInv PROVE ScopeInv
  <2> USE <1>1 DEF IInv
  <2>1. \A i \in Tasks : (pc[i] \in Inside) <=> \E n \in Scopes : lock[n] = i
    <3>1. ASSUME NEW i \in Tasks, pc[i] \in Inside PROVE \E n \in Scopes : lock[n] = i
      <4>1. pc[i] # "idle" /\ lock[want[i].scope] = i
        BY <3>1 DEF Inside, Locks
      <4>2. want[i].scope \in Scopes
        BY <4>1 DEF Types, Wanted
      <4> QED BY <4>1, <4>2
    <3>2. ASSUME NEW i \in Tasks, NEW n \in Scopes, lock[n] = i PROVE pc[i] \in Inside
      BY <3>2, ScopeAssumption DEF Locks
    <3> QED BY <3>1, <3>2
  <2>2. \A n \in Scopes : {stack[n][x] : x \in DOMAIN stack[n]} = {r \in Made(n) : life[r] = "entered"}
    BY StackHoldsEntered
  <2>3. \A n \in Scopes : \A x, y \in DOMAIN stack[n] : x # y => stack[n][x] # stack[n][y]
    BY DEF Stacks
  <2>4. Correspondence
    BY <2>1, <2>2, <2>3 DEF Correspondence, Locks
  <2> QED BY <2>4 DEF ScopeInv, Types
<1> QED BY <1>1, Inductive, PTL

\* A scope holds one instance of a key at a time, however acquires and closing
\* interleave: every held instance is the cached one (lifecycle.py:58).
THEOREM OneInstance == Spec => []OneInstancePerKey
<1>1. IInv => OneInstancePerKey
  BY DEF IInv, Caches, OneInstancePerKey, Held, Made
<1> QED BY <1>1, Inductive, PTL

\* A nested scope that is closed holds nothing, whatever raised or was cancelled on the
\* way (lifecycle.py:72).
THEOREM NestedRelease == Spec => []NestedScopesRelease
<1>1. IInv => NestedScopesRelease
  BY DEF IInv, Blocks, NestedScopesRelease, Held, Made
<1> QED BY <1>1, Inductive, PTL

\* A cached instance that a task meets under the lock of an open scope is usable.
LEMMA CachedIsUsable ==
    ASSUME IInv, NEW i \in Tasks, NEW n \in Scopes, NEW k \in Keys,
           state[n] = "open", Inspect(i, n, k), UNCHANGED life, pc[i] # "done", pc'[i] = "done"
    PROVE  life'[got'[i]] \in {"entered", "plain"}
<1>1. cache[n][k] # None
  BY DEF Inspect, Goto, IInv, Types
<1>2. got'[i] = cache[n][k]
  BY <1>1 DEF Inspect, IInv, Types
<1> QED BY <1>1, <1>2 DEF IInv, Caches

\* An acquire returns what is entered or needs no entering, unless a process scope that
\* is being left answers it (lifecycle.py, _ScopeNode.acquire).
THEOREM UsableAcquired == Spec => AcquiredIsUsable
<1> DEFINE Usable(i) == \/ life'[got'[i]] \in {"entered", "plain"}
                        \/ want'[i].scope = Process /\ state[Process] # "open"
           Step == \A i \in Tasks : pc[i] # "done" /\ pc'[i] = "done" => Usable(i)
<1>1. ASSUME IInv, [Next]_vars PROVE Step
  <2> SUFFICES ASSUME NEW i \in Tasks, pc[i] # "done", pc'[i] = "done" PROVE Usable(i)
    OBVIOUS
  <2>1. pc \in [Tasks -> {"idle", "waiting"} \cup Inside \cup Returned]
    BY <1>1 DEF IInv, Types
  <2>2. CASE UNCHANGED vars
    BY <2>2 DEF vars
  <2>3. ASSUME NEW n \in Scopes, Open(n) \/ Close(n) \/ Exited(n) PROVE Usable(i)
    BY <2>3 DEF Open, Close, Exited
  <2>4. ASSUME NEW j \in Tasks, Cancel(j) \/ Build(j) \/ Fail(j) PROVE Usable(i)
    BY <2>1, <2>4 DEF Cancel, Build, Fail, Goto
  <2>5. ASSUME NEW j \in Tasks, Enter(j) PROVE Usable(i)
    <3>1. i = j
      BY <2>1, <2>5 DEF Enter, Goto
    <3>2. got \in [Tasks -> Tasks \cup {None}] /\ life \in [Tasks -> {"unmade", "plain", "exited"} \cup Live]
      BY <1>1 DEF IInv, Types
    <3>3. got'[i] = i /\ life'[i] \in {"entered", "plain"}
      BY <2>5, <3>1, <3>2 DEF Enter
    <3> QED BY <3>3
  <2>6. ASSUME NEW j \in Tasks, Wake(j) PROVE Usable(i)
    <3>1. /\ pc[j] = "waiting" /\ Inspect(j, want[j].scope, want[j].key)
          /\ UNCHANGED <<state, life, want>>
      BY <2>6 DEF Wake, scopes
    <3>2. i = j
      BY <2>1, <3>1 DEF Inspect, Goto
    <3>3. want[j] \in Wanted /\ pc[j] \in Active
      BY <1>1, <3>1 DEF IInv, Types, Active
    <3>4. want[j].scope \in Scopes /\ want[j].key \in Keys
      BY <3>3 DEF Wanted
    <3>5. CASE state[want[j].scope] = "open"
      BY <1>1, <3>1, <3>2, <3>4, <3>5, CachedIsUsable
    <3>6. CASE state[want[j].scope] # "open"
      BY <1>1, <3>1, <3>2, <3>3, <3>4, <3>6, WorkedIsOpen DEF Nested
    <3> QED BY <3>5, <3>6
  <2>7. ASSUME NEW j \in Tasks, NEW n \in Scopes, NEW k \in Keys, Ask(j, n, k) PROVE Usable(i)
    <3>1. i = j
      BY <2>1, <2>7 DEF Ask, Inspect, Goto
    <3>2. state[n] = "open" /\ Inspect(j, n, k) /\ UNCHANGED life
      BY <2>1, <2>7, <3>1 DEF Ask, Goto
    <3> QED BY <1>1, <3>1, <3>2, CachedIsUsable
  <2> QED BY <1>1, <2>2, <2>3, <2>4, <2>5, <2>6, <2>7 DEF Next, Acquire
<1>2. Spec => [][Step]_vars
  BY <1>1, Inductive, PTL DEF Spec
<1> QED BY <1>2 DEF AcquiredIsUsable
=============================================================================
