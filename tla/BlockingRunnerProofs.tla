------------------------ MODULE BlockingRunnerProofs ------------------------
(***************************************************************************)
(* Theorems about BlockingRunner, for every set of calls and every         *)
(* MaxConcurrency: RunnerInv is inductive, and the bound on the wanted     *)
(* items and the rule about which functions may start follow from it.      *)
(***************************************************************************)
EXTENDS BlockingRunner, FiniteSetTheorems, TLAPS

\* A set of calls that gains at most one call, and only when it was below the
\* limit, stays within the limit.
LEMMA OneMoreFits ==
    ASSUME NEW S \in SUBSET Calls, NEW T \in SUBSET Calls, NEW c \in Calls,
           T \subseteq S \cup {c}, Cardinality(S) < MaxConcurrency
    PROVE  Cardinality(T) <= MaxConcurrency
<1>1. IsFiniteSet(S) /\ IsFiniteSet(S \cup {c})
  BY FS_Subset, FS_AddElement, RunnerAssumption
<1>2. Cardinality(S) \in Nat /\ Cardinality(S \cup {c}) <= Cardinality(S) + 1
  BY <1>1, FS_CardinalityType, FS_AddElement, RunnerAssumption
<1>3. Cardinality(T) <= Cardinality(S \cup {c}) /\ Cardinality(T) \in Nat
  BY <1>1, FS_Subset, FS_CardinalityType
<1>4. Cardinality(S \cup {c}) \in Nat
  BY <1>1, FS_CardinalityType
<1> QED BY <1>2, <1>3, <1>4, RunnerAssumption

\* A set of calls that only shrinks stays within the limit.
LEMMA FewerFit ==
    ASSUME NEW S \in SUBSET Calls, NEW T \in SUBSET S,
           Cardinality(S) <= MaxConcurrency
    PROVE  Cardinality(T) <= MaxConcurrency
<1>1. IsFiniteSet(S)
  BY FS_Subset, RunnerAssumption
<1>2. Cardinality(T) <= Cardinality(S) /\ Cardinality(T) \in Nat /\ Cardinality(S) \in Nat
  BY <1>1, FS_Subset, FS_CardinalityType
<1> QED BY <1>2, RunnerAssumption

\* Before the first call no permit is held and no thread is busy.
LEMMA InitRunnerInv == Init => RunnerInv
<1> SUFFICES ASSUME Init PROVE RunnerInv
  OBVIOUS
<1>1. Holders = {} /\ Running = {}
  BY DEF Init, Holders, Running
<1>2. Cardinality(Holders) <= MaxConcurrency /\ Cardinality(Running) <= MaxConcurrency
  BY <1>1, FS_EmptySet, RunnerAssumption
<1> QED BY <1>2 DEF Init, RunnerInv, TypeOK, Phase, Outcome, Item

\* RunnerInv without its two limits, and inductive without them.
Correspondence ==
    \A c \in Calls :
        /\ phase[c] \in {"idle", "waiting"} => item[c] = "none"
        /\ phase[c] = "holding" => item[c] \notin {"none", "cancelled"}
        /\ phase[c] = "returned" => item[c] \in {"none", "cancelled", "running"}
        /\ phase[c] = "returned" <=> outcome[c] # "none"
        /\ closed => item[c] \notin {"queued", "cancelled"}
        /\ item[c] = "dropped" => closed

\* Every step keeps coroutines and work items in correspondence.
LEMMA NextCorrespondence ==
    TypeOK /\ Correspondence /\ [Next]_vars => TypeOK' /\ Correspondence'
<1> SUFFICES ASSUME TypeOK, Correspondence, [Next]_vars
             PROVE  TypeOK' /\ Correspondence'
  OBVIOUS
<1> USE DEF TypeOK, Correspondence, Phase, Outcome, Item
<1>1. ASSUME NEW c \in Calls, Begin(c) PROVE TypeOK' /\ Correspondence'
  BY <1>1 DEF Begin, Return
<1>2. ASSUME NEW c \in Calls, Submit(c) PROVE TypeOK' /\ Correspondence'
  BY <1>2 DEF Submit, Return
<1>3. ASSUME NEW c \in Calls, TakeItem(c) PROVE TypeOK' /\ Correspondence'
  BY <1>3 DEF TakeItem
<1>4. ASSUME NEW c \in Calls, FinishWork(c) PROVE TypeOK' /\ Correspondence'
  BY <1>4 DEF FinishWork
<1>5. ASSUME NEW c \in Calls, Deliver(c) PROVE TypeOK' /\ Correspondence'
  BY <1>5 DEF Deliver, Return
<1>6. ASSUME NEW c \in Calls, NEW how \in {"cancelled", "deadline"}, Abandon(c, how)
      PROVE  TypeOK' /\ Correspondence'
  BY <1>6 DEF Abandon, AbandonedItem, Return
<1>7. CASE Close
  BY <1>7 DEF Close
<1>8. CASE UNCHANGED vars
  BY <1>8 DEF vars
<1> QED
  BY <1>1, <1>2, <1>3, <1>4, <1>5, <1>6, <1>7, <1>8 DEF Next, Cancel, Expire

\* Permits: only Submit takes one, and it found one free.
LEMMA NextHolders ==
    ASSUME TypeOK, Cardinality(Holders) <= MaxConcurrency, [Next]_vars
    PROVE  Cardinality(Holders') <= MaxConcurrency
<1>1. Holders \in SUBSET Calls /\ Holders' \in SUBSET Calls
  BY DEF Holders
<1>2. ASSUME NEW c \in Calls, Submit(c) PROVE Cardinality(Holders') <= MaxConcurrency
  <2>1. Holders' \subseteq Holders \cup {c}
    BY <1>2 DEF TypeOK, Submit, Return, Holders
  <2> QED BY <1>1, <1>2, <2>1, OneMoreFits DEF Submit
<1>3. CASE Holders' \subseteq Holders
  BY <1>1, <1>3, FewerFit
<1>4. ASSUME NEW c \in Calls,
             Begin(c) \/ TakeItem(c) \/ FinishWork(c) \/ Deliver(c) \/ Cancel(c) \/ Expire(c)
      PROVE  Holders' \subseteq Holders
  BY <1>4 DEF TypeOK, Holders, Begin, TakeItem, FinishWork, Deliver, Cancel, Expire,
              Abandon, Return
<1>5. CASE Close \/ UNCHANGED vars
  BY <1>3, <1>5 DEF Close, vars, Holders
<1> QED BY <1>2, <1>3, <1>4, <1>5 DEF Next

\* Threads: only TakeItem occupies one, and it found one idle.
LEMMA NextRunning ==
    ASSUME TypeOK, Cardinality(Running) <= MaxConcurrency, [Next]_vars
    PROVE  Cardinality(Running') <= MaxConcurrency
<1>1. Running \in SUBSET Calls /\ Running' \in SUBSET Calls
  BY DEF Running
<1>2. ASSUME NEW c \in Calls, TakeItem(c) PROVE Cardinality(Running') <= MaxConcurrency
  <2>1. Running' \subseteq Running \cup {c}
    BY <1>2 DEF TypeOK, TakeItem, Running
  <2> QED BY <1>1, <1>2, <2>1, OneMoreFits DEF TakeItem
<1>3. CASE Running' \subseteq Running
  BY <1>1, <1>3, FewerFit
<1>4. ASSUME NEW c \in Calls,
             Begin(c) \/ Submit(c) \/ FinishWork(c) \/ Deliver(c) \/ Cancel(c) \/ Expire(c)
      PROVE  Running' \subseteq Running
  BY <1>4 DEF TypeOK, Running, Begin, Submit, FinishWork, Deliver, Cancel, Expire,
              Abandon, AbandonedItem, Return
<1>5. CASE Close \/ UNCHANGED vars
  BY <1>3, <1>5 DEF TypeOK, Close, vars, Running
<1> QED BY <1>2, <1>3, <1>4, <1>5 DEF Next

\* The correspondence and both limits hold in every reachable state: never more
\* functions run than there are threads, however many callers gave up.
THEOREM RunnerInvariant == Spec => []RunnerInv
<1>1. RunnerInv /\ [Next]_vars => RunnerInv'
  <2> SUFFICES ASSUME RunnerInv, [Next]_vars PROVE RunnerInv'
    OBVIOUS
  <2>1. TypeOK /\ Correspondence
    BY DEF RunnerInv, Correspondence
  <2>2. TypeOK' /\ Correspondence'
    BY <2>1, NextCorrespondence
  <2>3. Cardinality(Holders') <= MaxConcurrency /\ Cardinality(Running') <= MaxConcurrency
    BY <2>1, NextHolders, NextRunning DEF RunnerInv
  <2> QED BY <2>2, <2>3 DEF RunnerInv, Correspondence
<1> QED BY InitRunnerInv, <1>1, PTL DEF Spec

\* At most MaxConcurrency items of the executor's queue are wanted, each by a
\* call that still holds a permit; the cancelled ones nothing bounds.
THEOREM WantedItems == Spec => []WantedBounded
<1>1. RunnerInv => WantedBounded
  <2> SUFFICES ASSUME RunnerInv PROVE WantedBounded
    OBVIOUS
  <2>1. Wanted \subseteq Holders
    BY DEF RunnerInv, TypeOK, Wanted, Holders, Phase
  <2>2. Holders \in SUBSET Calls
    BY DEF Holders
  <2> QED BY <2>1, <2>2, FewerFit DEF RunnerInv, WantedBounded
<1> QED BY <1>1, RunnerInvariant, PTL

\* A function starts only for a caller that still waits and a runner that is open.
THEOREM OnlyWantedStart == Spec => StartsOnlyWanted
<1> DEFINE A == \A c \in Calls : item[c] # "running" /\ item'[c] = "running"
                    => phase[c] = "holding" /\ ~closed
<1>1. ASSUME RunnerInv, [Next]_vars PROVE A
  <2> SUFFICES ASSUME NEW c \in Calls, item[c] # "running", item'[c] = "running"
               PROVE  phase[c] = "holding" /\ ~closed
    OBVIOUS
  <2>1. ASSUME NEW d \in Calls,
               Begin(d) \/ Submit(d) \/ FinishWork(d) \/ Deliver(d) \/ Cancel(d) \/ Expire(d)
        PROVE  FALSE
    BY <1>1, <2>1 DEF RunnerInv, TypeOK, Begin, Submit, FinishWork, Deliver, Cancel, Expire,
                      Abandon, AbandonedItem, Return
  <2>2. ~Close /\ ~UNCHANGED vars
    BY <1>1 DEF RunnerInv, TypeOK, Close, vars
  <2>3. PICK d \in Calls : TakeItem(d)
    BY <1>1, <2>1, <2>2 DEF Next
  <2>4. d = c
    BY <1>1, <2>3 DEF RunnerInv, TypeOK, TakeItem
  <2> QED BY <1>1, <2>3, <2>4 DEF RunnerInv, TypeOK, Phase, TakeItem
<1>2. RunnerInv /\ [Next]_vars => [A]_vars
  BY <1>1
<1> QED BY <1>2, RunnerInvariant, PTL DEF Spec, StartsOnlyWanted

=============================================================================
