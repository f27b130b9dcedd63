-------------------------- MODULE AgentSessionsProofs --------------------------
(***************************************************************************)
(* Theorems about AgentSessions, for all requests, threads, calls, and     *)
(* limits: the type of the agent's state, the reviewer's gate, the bound   *)
(* on repeated calls, and what a thread is left with when a run is over.   *)
(***************************************************************************)
EXTENDS AgentSessions, FiniteSetTheorems, TLAPS

\* The last write of a turn, and the places after it that answer a call.
LastWrite(turn) ==
    LET writes == {i \in DOMAIN turn : turn[i].call \in WriteCalls}
    IN  IF writes = {} THEN 0 ELSE CHOOSE i \in writes : \A k \in writes : k <= i

Marks(c, turn) == {i \in LastWrite(turn) + 1 .. Len(turn) : turn[i].call = c}

\* What RepeatsBounded says of a turn.
Bounded(turn) ==
    \A c \in Calls : \E response \in Responses :
        Cardinality({i \in DOMAIN CompletedCalls(turn) : CompletedCalls(turn)[i].call = c})
            < RepeatCap + Len(response)

Graph == [next : Nodes \cup {"none", "end"}, calls : Seq(Calls), turn : Seq(Answer),
          steps : Nat, attempts : 0 .. MaxRetries, ungrounded : BOOLEAN, granted : BOOLEAN]

\* A state a run can be in between two nodes, and a checkpoint can hold: calls are
\* open only at the gate and the tools, they are a response none of whose calls is
\* repeated too often, and the tools take those that need it with an approval.
Legal(g) ==
    /\ g \in Graph /\ ~g.ungrounded
    /\ g.steps <= IF g.next = "fallback" THEN MaxSteps + 1 ELSE MaxSteps
    /\ g.next \in {"agent", "fallback", "verify"} => g.calls = <<>>
    /\ g.next \in {"approval_gate", "tools"} =>
         /\ g.calls \in Responses
         /\ \A i \in DOMAIN g.calls : ~WouldRepeatTooOften(g.calls[i], g.turn)
    /\ g.next = "tools" /\ (\E i \in DOMAIN g.calls : g.calls[i] \in ApprovalCalls) =>
         g.granted
    /\ Bounded(g.turn)

Stages == {"idle", "checked", "running", "refused"} \cup Outcomes

\* Where a request is that has, or may have, worked on its thread.
Worked == {"checked", "running"} \cup (Outcomes \ {"pending", "nothing"})

Types ==
    /\ DOMAIN saver = Threads /\ saver = [t \in Threads |-> saver[t]]
    /\ run \in [Requests -> [graph : Graph, left : 0 .. RecursionLimit,
                             decision : {"none", "approve", "reject"}]]
    /\ pc \in [Requests -> Stages]
    /\ order \in Seq(Sessions) /\ Len(order) <= MaxSessions /\ IsInjective(order)

States ==
    /\ \A t \in Threads : Legal(saver[t]) \/ saver[t].next = "end"
    /\ \A r \in Requests : Legal(run[r].graph) /\ run[r].graph.next # "end"
    /\ \A r \in Requests : run[r].decision # "none" => Kind[r] = "decide"

\* A checkpoint between two nodes other than the gate is that of a run that goes on
\* from there or that failed.
Explained ==
    \A t \in Threads : saver[t].next \notin {"none", "end", "approval_gate"} =>
        \E r \in Requests :
            /\ ThreadOf[r] = t
            /\ \/ pc[r] \in {"failed", "looped"}
               \/ pc[r] = "running" /\ run[r].graph.next = saver[t].next

\* The node a request on its way, or paused, goes on with.
Expected(r) == IF pc[r] = "paused" THEN "approval_gate" ELSE run[r].graph.next

\* The checkpoint of a request on its way, or paused, is its own until another has
\* worked on the thread, or the store has forgotten it.
Held ==
    \A r \in Requests : pc[r] \in {"running", "paused"} =>
        \/ saver[ThreadOf[r]].next = Expected(r)
        \/ \E q \in Requests \ {r} : ThreadOf[q] = ThreadOf[r] /\ pc[q] \in Worked
        \/ /\ ThreadOf[r] \in Sessions /\ ~Contains(order, ThreadOf[r])
           /\ saver[ThreadOf[r]].next = "none"

IInv == Types /\ States /\ Explained /\ Held /\ AnsweredUnlessRejected

-----------------------------------------------------------------------------
(* The loop guard *)

\* A set of numbers up to a bound has a greatest one.
LEMMA Greatest ==
    ASSUME NEW n \in Nat, NEW S, S \subseteq 0 .. n, S # {}
    PROVE  \E m \in S : \A k \in S : k <= m
<1> DEFINE T == {n - k : k \in S}
<1>1. T \subseteq Nat /\ T # {}
    <2>1. \A k \in S : n - k \in Nat
        OBVIOUS
    <2>2. PICK k \in S : TRUE
        OBVIOUS
    <2>3. n - k \in T
        OBVIOUS
    <2> QED  BY <2>1, <2>3
<1>2. PICK x \in T : \A y \in T : ~(<<y, x>> \in OpToRel(<, Nat))
    <2> HIDE DEF T
    <2> QED  BY <1>1, WFMin, NatLessThanWellFounded
<1>3. \A y \in T : ~(y < x)
    BY <1>1, <1>2 DEF OpToRel
<1>4. PICK m \in S : x = n - m
    OBVIOUS
<1>5. \A k \in S : k <= m
    <2> TAKE k \in S
    <2>1. n - k \in T
        OBVIOUS
    <2>2. ~(n - k < n - m)
        BY <2>1, <1>3, <1>4
    <2>3. k \in Nat /\ m \in Nat
        OBVIOUS
    <2> QED  BY <2>2, <2>3
<1> QED  BY <1>5

\* The last write is a place of the turn that holds a write and has none after it.
LEMMA LastWriteIsLast ==
    ASSUME NEW turn \in Seq(Answer)
    PROVE  /\ LastWrite(turn) \in 0 .. Len(turn)
           /\ LastWrite(turn) # 0 => turn[LastWrite(turn)].call \in WriteCalls
           /\ \A i \in DOMAIN turn : turn[i].call \in WriteCalls => i <= LastWrite(turn)
<1> DEFINE W == {i \in DOMAIN turn : turn[i].call \in WriteCalls}
<1>0. DOMAIN turn = 1 .. Len(turn) /\ Len(turn) \in Nat
    OBVIOUS
<1>1. LastWrite(turn) = IF W = {} THEN 0 ELSE CHOOSE i \in W : \A k \in W : k <= i
    BY DEF LastWrite
<1>2. CASE W = {}
    BY <1>0, <1>1, <1>2
<1>3. CASE W # {}
    <2>1. W \subseteq 0 .. Len(turn)
        BY <1>0
    <2>2. \E m \in W : \A k \in W : k <= m
        <3> HIDE DEF W
        <3>1. Len(turn) \in Nat
            BY <1>0
        <3> QED  BY <3>1, <1>3, <2>1, Greatest
    <2>3. LastWrite(turn) \in W /\ \A k \in W : k <= LastWrite(turn)
        <3> HIDE DEF W
        <3> QED  BY <1>1, <1>3, <2>2
    <2> QED  BY <1>0, <2>3
<1> QED  BY <1>2, <1>3

\* What has been completed since the last write.
LEMMA Completed ==
    ASSUME NEW turn \in Seq(Answer)
    PROVE  LET done == CompletedCalls(turn)
           IN  /\ DOMAIN done = 1 .. Len(turn) - LastWrite(turn)
               /\ \A i \in DOMAIN done : done[i] = turn[i + LastWrite(turn)]
<1>1. CompletedCalls(turn) = SubSeq(turn, LastWrite(turn) + 1, Len(turn))
    BY DEF CompletedCalls, LastWrite
<1>2. LastWrite(turn) \in 0 .. Len(turn) /\ Len(turn) \in Nat
    BY LastWriteIsLast
<1> QED  BY <1>1, <1>2

\* The guard's count of a call, as a count of places of the turn.
LEMMA CountIsMarks ==
    ASSUME NEW turn \in Seq(Answer), NEW c
    PROVE  LET done == CompletedCalls(turn)
           IN  Cardinality({i \in DOMAIN done : done[i].call = c}) = Cardinality(Marks(c, turn))
<1> DEFINE done == CompletedCalls(turn)
           D == {i \in DOMAIN done : done[i].call = c}
           w == LastWrite(turn)
           f == [i \in D |-> i + w]
<1>1. w \in 0 .. Len(turn) /\ Len(turn) \in Nat
    BY LastWriteIsLast
<1>2. DOMAIN done = 1 .. Len(turn) - w /\ \A i \in DOMAIN done : done[i] = turn[i + w]
    BY Completed
<1> HIDE DEF done, w
<1>3. D \subseteq 1 .. Len(turn) - w
    BY <1>2
<1>4. Marks(c, turn) = {i \in w + 1 .. Len(turn) : turn[i].call = c}
    BY DEF Marks, w
<1>5. f \in [D -> Marks(c, turn)]
    BY <1>1, <1>2, <1>4
<1>6. \A i, j \in D : f[i] = f[j] => i = j
    BY <1>1, <1>3
<1>7. \A m \in Marks(c, turn) : \E i \in D : f[i] = m
    <2> TAKE m \in Marks(c, turn)
    <2>1. m - w \in 1 .. Len(turn) - w /\ m = (m - w) + w
        BY <1>1, <1>4
    <2>2. m - w \in D
        BY <1>2, <1>4, <2>1
    <2> QED  BY <2>1, <2>2
<1>8. f \in Bijection(D, Marks(c, turn))
    <2> HIDE DEF f, D
    <2>1. f \in Injection(D, Marks(c, turn))
        BY <1>5, <1>6 DEF Injection, IsInjective
    <2>2. f \in Surjection(D, Marks(c, turn))
        BY <1>5, <1>7 DEF Surjection
    <2> QED  BY <2>1, <2>2 DEF Bijection
<1>9. IsFiniteSet(D)
    <2>1. IsFiniteSet(1 .. Len(turn) - w)
        BY <1>1, FS_Interval
    <2> HIDE DEF D
    <2> QED  BY <2>1, <1>3, FS_Subset
<1>10. Cardinality(Marks(c, turn)) = Cardinality(D)
    <2> HIDE DEF f, D
    <2> QED  BY <1>8, <1>9, FS_Bijection DEF ExistsBijection
<1> QED  BY <1>10 DEF done

\* Places of a turn, and how many there may be.
LEMMA Places ==
    ASSUME NEW a \in Nat, NEW b \in Nat, a <= b, NEW S, S \subseteq a + 1 .. b
    PROVE  IsFiniteSet(S) /\ Cardinality(S) \in Nat /\ Cardinality(S) <= b - a
<1>0. a + 1 \in Int /\ b \in Int
    OBVIOUS
<1>1. IsFiniteSet(a + 1 .. b) /\ Cardinality(a + 1 .. b) <= b - a
    <2>1. /\ IsFiniteSet(a + 1 .. b)
          /\ Cardinality(a + 1 .. b) = IF a + 1 > b THEN 0 ELSE b - (a + 1) + 1
        BY <1>0, FS_Interval
    <2> QED  BY <2>1
<1>2. IsFiniteSet(S) /\ Cardinality(S) <= Cardinality(a + 1 .. b)
    BY <1>1, FS_Subset
<1>3. Cardinality(S) \in Nat /\ Cardinality(a + 1 .. b) \in Nat
    BY <1>1, <1>2, FS_CardinalityType
<1> QED  BY <1>1, <1>2, <1>3

\* The turn with the calls of a response answered.
Answered(turn, calls, res) ==
    turn \o [i \in DOMAIN calls |-> [call |-> calls[i], result |-> res[i]]]

\* It has its type, and the calls at the end.
LEMMA AnsweredPlaces ==
    ASSUME NEW turn \in Seq(Answer), NEW calls \in Seq(Calls),
           NEW res \in [DOMAIN calls -> Results]
    PROVE  LET new == Answered(turn, calls, res)
           IN  /\ new \in Seq(Answer) /\ Len(new) = Len(turn) + Len(calls)
               /\ \A i \in 1 .. Len(turn) : new[i] = turn[i]
               /\ \A i \in DOMAIN calls : new[i + Len(turn)].call = calls[i]
<1> DEFINE more == [i \in DOMAIN calls |-> [call |-> calls[i], result |-> res[i]]]
<1>1. DOMAIN calls = 1 .. Len(calls) /\ Len(calls) \in Nat
    OBVIOUS
<1>2. more \in [1 .. Len(calls) -> Answer]
    BY <1>1 DEF Answer
<1>3. more \in Seq(Answer) /\ Len(more) = Len(calls)
    <2> HIDE DEF more
    <2> QED  BY <1>1, <1>2
<1>4. \A i \in DOMAIN calls : more[i].call = calls[i]
    OBVIOUS
<1>5. Answered(turn, calls, res) = turn \o more
    BY DEF Answered
<1> HIDE DEF more
<1>6. /\ turn \o more \in Seq(Answer) /\ Len(turn \o more) = Len(turn) + Len(calls)
      /\ \A i \in 1 .. Len(turn) : (turn \o more)[i] = turn[i]
    BY <1>3
<1>7. \A i \in DOMAIN calls : (turn \o more)[i + Len(turn)] = more[i]
    <2> TAKE i \in DOMAIN calls
    <2>1. i \in 1 .. Len(more) /\ Len(turn) \in Nat
        BY <1>1, <1>3
    <2>2. (turn \o more)[i + Len(turn)] = more[(i + Len(turn)) - Len(turn)]
        BY <1>3, <2>1
    <2>3. (i + Len(turn)) - Len(turn) = i
        BY <2>1
    <2> QED  BY <2>2, <2>3
<1> QED  BY <1>4, <1>5, <1>6, <1>7

\* Answering a response none of whose calls is repeated too often keeps every count
\* below the cap and the calls of one response.
LEMMA AnsweringIsBounded ==
    ASSUME NEW turn \in Seq(Answer), Bounded(turn), NEW calls \in Responses,
           NEW res \in [DOMAIN calls -> Results],
           \A i \in DOMAIN calls : ~WouldRepeatTooOften(calls[i], turn)
    PROVE  Bounded(Answered(turn, calls, res))
<1> DEFINE new == Answered(turn, calls, res)
<1>0. calls \in Seq(Calls) /\ RepeatCap \in Nat \ {0}
    BY ToolAgentAssumption
<1>1. /\ new \in Seq(Answer) /\ Len(new) = Len(turn) + Len(calls)
      /\ \A i \in 1 .. Len(turn) : new[i] = turn[i]
      /\ \A i \in DOMAIN calls : new[i + Len(turn)].call = calls[i]
    BY <1>0, AnsweredPlaces
<1> HIDE DEF new
<1>2. DOMAIN calls = 1 .. Len(calls) /\ Len(calls) \in Nat /\ Len(turn) \in Nat
    BY <1>0
<1>3. DOMAIN turn = 1 .. Len(turn) /\ DOMAIN new = 1 .. Len(turn) + Len(calls)
    BY <1>0, <1>1
<1> SUFFICES ASSUME NEW c \in Calls
             PROVE  \E response \in Responses :
                        Cardinality(Marks(c, new)) < RepeatCap + Len(response)
    BY <1>1, CountIsMarks DEF Bounded, new
<1>4. PICK before \in Responses : Cardinality(Marks(c, turn)) < RepeatCap + Len(before)
    BY CountIsMarks DEF Bounded
<1>5. Len(before) \in Nat
    BY ToolAgentAssumption
<1>6. LastWrite(turn) \in 0 .. Len(turn) /\ LastWrite(new) \in 0 .. Len(new)
    BY <1>1, LastWriteIsLast
<1>7. CASE \E i \in DOMAIN calls : calls[i] \in WriteCalls
    <2>1. LastWrite(new) > Len(turn)
        <3>1. PICK i \in DOMAIN calls : calls[i] \in WriteCalls
            BY <1>7
        <3>2. i + Len(turn) \in DOMAIN new /\ new[i + Len(turn)].call \in WriteCalls
            BY <1>1, <1>2, <1>3, <3>1
        <3>3. i + Len(turn) <= LastWrite(new)
            BY <1>1, <3>2, LastWriteIsLast
        <3> QED  BY <1>2, <1>6, <3>3
    <2>2. Marks(c, new) \subseteq Len(turn) + 1 .. Len(turn) + Len(calls)
        BY <1>1, <1>2, <1>6, <2>1 DEF Marks
    <2>3. Cardinality(Marks(c, new)) \in Nat /\ Cardinality(Marks(c, new)) <= Len(calls)
        <3>1. Len(turn) + Len(calls) \in Nat /\ Len(turn) <= Len(turn) + Len(calls)
            BY <1>2
        <3>2. Cardinality(Marks(c, new)) \in Nat
              /\ Cardinality(Marks(c, new)) <= (Len(turn) + Len(calls)) - Len(turn)
            BY <1>2, <2>2, <3>1, Places
        <3> QED  BY <1>2, <3>2
    <2> QED  BY <1>0, <1>2, <2>3
<1>8. CASE ~\E i \in DOMAIN calls : calls[i] \in WriteCalls
    <2>1. LastWrite(new) = LastWrite(turn)
        <3>1. LastWrite(new) <= Len(turn)
            <4> SUFFICES ASSUME LastWrite(new) > Len(turn)  PROVE FALSE
                BY <1>2, <1>6
            <4>1. LastWrite(new) - Len(turn) \in DOMAIN calls /\ LastWrite(new) # 0
                BY <1>1, <1>2, <1>6
            <4>2. new[(LastWrite(new) - Len(turn)) + Len(turn)].call
                      = calls[LastWrite(new) - Len(turn)]
                BY <1>1, <4>1
            <4>3. (LastWrite(new) - Len(turn)) + Len(turn) = LastWrite(new)
                BY <1>2, <1>6
            <4>4. new[LastWrite(new)].call \in WriteCalls
                BY <1>1, <4>1, LastWriteIsLast
            <4> QED  BY <1>8, <4>1, <4>2, <4>3, <4>4
        <3>2. LastWrite(new) <= LastWrite(turn)
            <4>1. CASE LastWrite(new) = 0
                BY <1>6, <4>1
            <4>2. CASE LastWrite(new) # 0
                <5>1. new[LastWrite(new)].call \in WriteCalls
                    BY <1>1, <4>2, LastWriteIsLast
                <5>2. LastWrite(new) \in DOMAIN turn /\ turn[LastWrite(new)].call \in WriteCalls
                    BY <1>1, <1>2, <1>3, <1>6, <3>1, <4>2, <5>1
                <5> QED  BY <5>2, LastWriteIsLast
            <4> QED  BY <4>1, <4>2
        <3>3. LastWrite(turn) <= LastWrite(new)
            <4>1. CASE LastWrite(turn) = 0
                BY <1>6, <4>1
            <4>2. CASE LastWrite(turn) # 0
                <5>1. turn[LastWrite(turn)].call \in WriteCalls /\ LastWrite(turn) \in 1 .. Len(turn)
                    BY <1>6, <4>2, LastWriteIsLast
                <5>2. LastWrite(turn) \in DOMAIN new /\ new[LastWrite(turn)].call \in WriteCalls
                    BY <1>1, <1>2, <1>3, <5>1
                <5> QED  BY <1>1, <5>2, LastWriteIsLast
            <4> QED  BY <4>1, <4>2
        <3> QED  BY <1>1, <1>2, <1>6, <3>2, <3>3
    <2> DEFINE extra == {i \in Len(turn) + 1 .. Len(turn) + Len(calls) : new[i].call = c}
    <2>2. Marks(c, new) \subseteq Marks(c, turn) \cup extra
        <3> SUFFICES ASSUME NEW i \in Marks(c, new)  PROVE i \in Marks(c, turn) \cup extra
            OBVIOUS
        <3>1. i \in LastWrite(turn) + 1 .. Len(turn) + Len(calls) /\ new[i].call = c
            BY <1>1, <2>1 DEF Marks
        <3>2. CASE i <= Len(turn)
            <4>1. i \in LastWrite(turn) + 1 .. Len(turn) /\ i \in 1 .. Len(turn)
                BY <1>2, <1>6, <3>1, <3>2
            <4>2. turn[i].call = c
                BY <1>1, <3>1, <4>1
            <4> QED  BY <4>1, <4>2 DEF Marks
        <3>3. CASE i > Len(turn)
            <4>1. i \in Len(turn) + 1 .. Len(turn) + Len(calls)
                BY <1>2, <1>6, <3>1, <3>3
            <4> QED  BY <3>1, <4>1
        <3> QED  BY <1>2, <1>6, <3>1, <3>2, <3>3
    <2>3. /\ IsFiniteSet(Marks(c, turn)) /\ Cardinality(Marks(c, turn)) \in Nat
          /\ IsFiniteSet(extra) /\ Cardinality(extra) \in Nat
          /\ Cardinality(extra) <= Len(calls)
        <3>1. Marks(c, turn) \subseteq LastWrite(turn) + 1 .. Len(turn)
            BY DEF Marks
        <3>2. LastWrite(turn) \in Nat /\ LastWrite(turn) <= Len(turn)
            BY <1>2, <1>6
        <3>3. IsFiniteSet(Marks(c, turn)) /\ Cardinality(Marks(c, turn)) \in Nat
            BY <1>2, <3>1, <3>2, Places
        <3>4. Len(turn) + Len(calls) \in Nat /\ Len(turn) <= Len(turn) + Len(calls)
            BY <1>2
        <3>5. extra \subseteq Len(turn) + 1 .. Len(turn) + Len(calls)
            OBVIOUS
        <3> HIDE DEF extra
        <3>6. IsFiniteSet(extra) /\ Cardinality(extra) \in Nat
              /\ Cardinality(extra) <= (Len(turn) + Len(calls)) - Len(turn)
            BY <1>2, <3>4, <3>5, Places
        <3> QED  BY <1>2, <3>3, <3>6
    <2>4. /\ Cardinality(Marks(c, new)) \in Nat
          /\ Cardinality(Marks(c, new)) <= Cardinality(Marks(c, turn)) + Cardinality(extra)
        <3> HIDE DEF extra
        <3>1. LET both == Marks(c, turn) \cup extra
              IN  /\ IsFiniteSet(both)
                  /\ Cardinality(both) = Cardinality(Marks(c, turn)) + Cardinality(extra)
                                           - Cardinality(Marks(c, turn) \cap extra)
            BY <2>3, FS_Union
        <3>2. IsFiniteSet(Marks(c, turn) \cap extra)
            BY <2>3, FS_Intersection
        <3>3. Cardinality(Marks(c, turn) \cap extra) \in Nat
            BY <3>2, FS_CardinalityType
        <3>4. /\ IsFiniteSet(Marks(c, new))
              /\ Cardinality(Marks(c, new)) <= Cardinality(Marks(c, turn) \cup extra)
            BY <2>2, <3>1, FS_Subset
        <3>5. Cardinality(Marks(c, new)) \in Nat
            BY <3>4, FS_CardinalityType
        <3> QED  BY <2>3, <3>1, <3>3, <3>4, <3>5
    <2>5. CASE extra = {}
        <3>1. Cardinality(extra) = 0
            BY <2>5, FS_EmptySet
        <3> QED  BY <1>0, <1>4, <1>5, <2>3, <2>4, <3>1
    <2>6. CASE extra # {}
        <3>1. PICK i \in DOMAIN calls : calls[i] = c
            <4>1. PICK k \in Len(turn) + 1 .. Len(turn) + Len(calls) : new[k].call = c
                BY <2>6
            <4>2. k - Len(turn) \in DOMAIN calls /\ (k - Len(turn)) + Len(turn) = k
                BY <1>2
            <4> QED  BY <1>1, <4>1, <4>2
        <3>2. ~WouldRepeatTooOften(c, turn)
            BY <3>1
        <3>3. Cardinality(Marks(c, turn)) < RepeatCap
            BY <1>0, <2>3, <3>2, CountIsMarks DEF WouldRepeatTooOften
        <3> HIDE DEF extra
        <3> QED  BY <1>0, <1>2, <2>3, <2>4, <3>3
    <2> QED  BY <2>5, <2>6
<1> QED  BY <1>7, <1>8

\* A turn that has just begun is bounded.
LEMMA EmptyIsBounded ==
    ASSUME NEW turn \in Seq(Answer), Len(turn) = 0
    PROVE  Bounded(turn)
<1> SUFFICES ASSUME NEW c \in Calls
             PROVE  \E response \in Responses :
                        Cardinality(Marks(c, turn)) < RepeatCap + Len(response)
    BY CountIsMarks DEF Bounded
<1>1. PICK response \in Responses : Len(response) \in Nat
    BY ToolAgentAssumption
<1>2. Marks(c, turn) = {}
    <2>1. LastWrite(turn) \in 0 .. 0
        BY LastWriteIsLast
    <2>2. LastWrite(turn) + 1 .. Len(turn) = {}
        BY <2>1
    <2> QED  BY <2>2 DEF Marks
<1>3. Cardinality(Marks(c, turn)) = 0
    BY <1>2, FS_EmptySet
<1>4. RepeatCap \in Nat \ {0}
    BY ToolAgentAssumption
<1> QED  BY <1>1, <1>3, <1>4

-----------------------------------------------------------------------------
(* What a request does with its thread *)

\* The four things a run on its way does: it fails, it pauses at the gate, it goes on
\* with another node, or it finishes, with calls open only where they were rejected.
Stops(r) == \E outcome \in {"failed", "looped"} : End(r, outcome) /\ UNCHANGED saver

Pauses(r) ==
    /\ run[r].graph.next = "approval_gate"
    /\ End(r, "paused") /\ UNCHANGED saver

GoesOn(r) ==
    \E g :
        /\ Legal(g) /\ g.next \notin {"none", "end"} /\ run[r].left > 0
        /\ Complete(r, g)

Finishes(r) ==
    \E g :
        /\ g.next = "end" /\ (g.calls # <<>> => Kind[r] = "decide" /\ ~g.ungrounded)
        /\ Complete(r, g)

Moves(r) == pc[r] = "running" /\ (Stops(r) \/ Pauses(r) \/ GoesOn(r) \/ Finishes(r))

\* A thread that holds nothing is a legal state.
LEMMA NoThreadIsLegal ==
    NoThread \in Graph /\ Legal(NoThread)
<1>1. <<>> \in Seq(Calls) /\ <<>> \in Seq(Answer) /\ Len(<<>>) = 0
    OBVIOUS
<1>2. 0 \in 0 .. MaxRetries /\ 0 <= MaxSteps
    BY ToolAgentAssumption
<1>3. NoThread \in Graph
    BY <1>1, <1>2 DEF NoThread, Graph
<1>4. Bounded(<<>>)
    BY <1>1, EmptyIsBounded
<1> QED  BY <1>2, <1>3, <1>4 DEF Legal, NoThread

\* So is the thread of a question that starts.
LEMMA AskedIsLegal ==
    LET g == [NoThread EXCEPT !.next = "agent"] IN g \in Graph /\ Legal(g)
<1>1. NoThread.turn = <<>> /\ Bounded(<<>>)
    BY NoThreadIsLegal DEF Legal, NoThread
<1> DEFINE g == [NoThread EXCEPT !.next = "agent"]
<1>2. g \in Graph
    BY NoThreadIsLegal DEF Graph, Nodes
<1>3. /\ g.next = "agent" /\ g.turn = <<>> /\ g.calls = <<>> /\ g.steps = 0 /\ ~g.ungrounded
    BY DEF NoThread
<1>4. 0 <= MaxSteps
    BY ToolAgentAssumption
<1> HIDE DEF g
<1>5. Legal(g)
    BY <1>1, <1>2, <1>3, <1>4 DEF Legal
<1> QED  BY <1>2, <1>5 DEF g

\* The agent asks its model, or gives up.
LEMMA AgentMoves ==
    ASSUME Types, States, NEW r \in Requests, AgentNode(r)
    PROVE  Moves(r)
<1> DEFINE g == run[r].graph
           halt == [g EXCEPT !.steps = @ + 1, !.next = "fallback"]
<1>1. pc[r] = "running" /\ g.next = "agent" /\ run[r].left > 0
    BY DEF AgentNode, At
<1>2. Legal(g) /\ g \in Graph
    BY DEF States, Legal
<1>3. g.calls = <<>> /\ g.steps <= MaxSteps /\ ~g.ungrounded /\ Bounded(g.turn) /\ g.steps \in Nat
    BY <1>1, <1>2 DEF Legal, Graph
<1>4. MaxSteps \in Nat
    BY ToolAgentAssumption
<1>5. halt \in Graph /\ Legal(halt) /\ halt.next = "fallback"
    <2>1. /\ halt.next = "fallback" /\ halt.calls = <<>> /\ halt.turn = g.turn
          /\ halt.steps = g.steps + 1 /\ ~halt.ungrounded
        BY <1>2, <1>3 DEF Graph
    <2>2. halt \in Graph
        <3>1. g.steps + 1 \in Nat
            BY <1>3
        <3> QED  BY <1>2, <3>1 DEF Graph, Nodes
    <2>3. halt.steps <= MaxSteps + 1
        BY <1>3, <1>4, <2>1
    <2> HIDE DEF halt, g
    <2>4. Legal(halt)
        BY <1>3, <2>1, <2>2, <2>3 DEF Legal
    <2> QED  BY <2>1, <2>2, <2>4
<1>6. ASSUME NEW c \in Responses, ~Halted(g),
             ~\E i \in DOMAIN c : WouldRepeatTooOften(c[i], g.turn)
      PROVE  Routed(g, c) \in Graph /\ Legal(Routed(g, c)) /\ Routed(g, c).next \notin {"none", "end"}
    <2> DEFINE n == Routed(g, c)
               risky == \E i \in DOMAIN c : c[i] \in ApprovalCalls
    <2>0. c \in Seq(Calls)
        BY ToolAgentAssumption
    <2>1. /\ n.steps = g.steps + 1 /\ n.calls = c /\ n.granted = FALSE /\ n.turn = g.turn
          /\ ~n.ungrounded
        BY <1>2, <1>3 DEF Routed, Graph
    <2>2. n.next = CASE c = <<>> -> "verify" [] risky -> "approval_gate" [] OTHER -> "tools"
        BY <1>2 DEF Routed, Graph
    <2>3. c = <<>> => ~risky
        BY <2>0
    <2>4. /\ n.next \in {"verify", "approval_gate", "tools"}
          /\ n.next = "verify" => c = <<>>
          /\ n.next = "tools" => ~risky
        <3> HIDE DEF n, risky
        <3>1. CASE c = <<>>
            BY <2>2, <2>3, <3>1
        <3>2. CASE c # <<>> /\ risky
            BY <2>2, <3>2
        <3>3. CASE c # <<>> /\ ~risky
            BY <2>2, <3>3
        <3> QED  BY <3>1, <3>2, <3>3
    <2>5. n \in Graph
        <3>1. g.steps + 1 \in Nat
            BY <1>3
        <3>2. n.next \in Nodes
            BY <2>4 DEF Nodes
        <3>3. n = [g EXCEPT !.steps = g.steps + 1, !.calls = c, !.granted = FALSE,
                            !.next = n.next]
            BY <1>2 DEF Routed, Graph
        <3> HIDE DEF n
        <3> QED  BY <1>2, <2>0, <3>1, <3>2, <3>3 DEF Graph
    <2>6. n.steps <= MaxSteps
        BY <1>3, <1>4, <1>6, <2>1 DEF Halted
    <2> HIDE DEF n, g
    <2>7. Legal(n)
        BY <1>3, <1>6, <2>1, <2>4, <2>5, <2>6 DEF Legal
    <2> QED  BY <2>4, <2>5, <2>7 DEF n
<1>7. \/ Halted(g) /\ Complete(r, halt)
      \/ /\ ~Halted(g)
         /\ \/ \E c \in Responses :
                 Complete(r, IF \E i \in DOMAIN c : WouldRepeatTooOften(c[i], g.turn)
                             THEN halt ELSE Routed(g, c))
            \/ Fail(r)
    BY DEF AgentNode
<1> HIDE DEF halt, g
<1>8. CASE Complete(r, halt)
    BY <1>1, <1>5, <1>8 DEF Moves, GoesOn
<1>9. CASE Fail(r)
    BY <1>1, <1>9 DEF Moves, Stops, Fail
<1>10. CASE \E c \in Responses :
                ~Halted(g) /\ Complete(r, Routed(g, c))
                /\ ~\E i \in DOMAIN c : WouldRepeatTooOften(c[i], g.turn)
    BY <1>1, <1>6, <1>10 DEF Moves, GoesOn
<1>11. \/ Complete(r, halt) \/ Fail(r)
       \/ \E c \in Responses :
              ~Halted(g) /\ Complete(r, Routed(g, c))
              /\ ~\E i \in DOMAIN c : WouldRepeatTooOften(c[i], g.turn)
    <2>1. CASE Halted(g)
        BY <1>7, <2>1
    <2>2. CASE ~Halted(g)
        <3>1. CASE Fail(r)
            BY <3>1
        <3>2. CASE ~Fail(r)
            <4>1. PICK c \in Responses :
                      Complete(r, IF \E i \in DOMAIN c : WouldRepeatTooOften(c[i], g.turn)
                                  THEN halt ELSE Routed(g, c))
                BY <1>7, <2>2, <3>2
            <4>2. CASE \E i \in DOMAIN c : WouldRepeatTooOften(c[i], g.turn)
                BY <4>1, <4>2
            <4>3. CASE ~\E i \in DOMAIN c : WouldRepeatTooOften(c[i], g.turn)
                BY <2>2, <4>1, <4>3
            <4> QED  BY <4>2, <4>3
        <3> QED  BY <3>1, <3>2
    <2> QED  BY <2>1, <2>2
<1> QED  BY <1>8, <1>9, <1>10, <1>11

\* The tools answer the calls of a response that may run.
LEMMA ToolsMoves ==
    ASSUME Types, States, NEW r \in Requests, ToolsNode(r)
    PROVE  Moves(r)
<1> DEFINE g == run[r].graph
<1>1. pc[r] = "running" /\ g.next = "tools" /\ run[r].left > 0
    BY DEF ToolsNode, At
<1>2. Legal(g) /\ g \in Graph
    BY DEF States, Legal
<1>3. /\ g.calls \in Responses /\ g.steps <= MaxSteps /\ ~g.ungrounded /\ Bounded(g.turn)
      /\ \A i \in DOMAIN g.calls : ~WouldRepeatTooOften(g.calls[i], g.turn)
      /\ g.turn \in Seq(Answer) /\ g.calls \in Seq(Calls)
    BY <1>1, <1>2 DEF Legal, Graph
<1>4. PICK res \in [DOMAIN g.calls -> Results] :
          Complete(r, [g EXCEPT !.next = "agent", !.calls = <<>>,
                                !.turn = Answered(g.turn, g.calls, res)])
    BY <1>2 DEF ToolsNode, Answered, Graph
<1> DEFINE n == [g EXCEPT !.next = "agent", !.calls = <<>>, !.turn = Answered(g.turn, g.calls, res)]
<1>5. Bounded(Answered(g.turn, g.calls, res)) /\ Answered(g.turn, g.calls, res) \in Seq(Answer)
    <2> HIDE DEF g
    <2> QED  BY <1>3, AnsweringIsBounded, AnsweredPlaces
<1>6. /\ n.next = "agent" /\ n.calls = <<>> /\ n.turn = Answered(g.turn, g.calls, res)
      /\ n.steps = g.steps /\ ~n.ungrounded
    BY <1>2, <1>3 DEF Graph
<1>7. n \in Graph
    <2>1. <<>> \in Seq(Calls)
        OBVIOUS
    <2> QED  BY <1>2, <1>5, <2>1 DEF Graph, Nodes
<1> HIDE DEF n, g
<1>8. Legal(n)
    BY <1>3, <1>5, <1>6, <1>7 DEF Legal
<1> QED  BY <1>1, <1>4, <1>6, <1>7, <1>8 DEF Moves, GoesOn, n

\* The fallback answers and ends the turn.
LEMMA FallbackMoves ==
    ASSUME Types, States, NEW r \in Requests, FallbackNode(r)
    PROVE  Moves(r)
<1> DEFINE g == run[r].graph
           n == [g EXCEPT !.next = "end"]
<1>1. pc[r] = "running" /\ g.next = "fallback" /\ Complete(r, n)
    BY DEF FallbackNode, At
<1>2. Legal(g) /\ g \in Graph
    BY DEF States, Legal
<1>3. n.next = "end" /\ n.calls = <<>>
    BY <1>1, <1>2 DEF Legal, Graph
<1> HIDE DEF n, g
<1> QED  BY <1>1, <1>3 DEF Moves, Finishes

\* The gate lets approved calls through, ends a rejected turn, or pauses.
LEMMA ApprovalMoves ==
    ASSUME Types, States, NEW r \in Requests, ApprovalNode(r)
    PROVE  Moves(r)
<1> DEFINE g == run[r].graph
           needsNone(c) == c \notin ApprovalCalls
           n == [g EXCEPT !.next = "tools", !.granted = TRUE]
           e == [g EXCEPT !.next = "end", !.calls = SelectSeq(@, needsNone)]
<1>1. pc[r] = "running" /\ g.next = "approval_gate" /\ run[r].left > 0
    BY DEF ApprovalNode, At
<1>2. Legal(g) /\ g \in Graph
    BY DEF States, Legal
<1>3. /\ g.calls \in Responses /\ g.steps <= MaxSteps /\ ~g.ungrounded /\ Bounded(g.turn)
      /\ \A i \in DOMAIN g.calls : ~WouldRepeatTooOften(g.calls[i], g.turn)
      /\ g.calls \in Seq(Calls)
    BY <1>1, <1>2 DEF Legal, Graph
<1>4. run[r].decision \in {"none", "approve", "reject"}
    BY DEF Types
<1>5. CASE run[r].decision = "approve"
    <2>1. Complete(r, n)
        BY <1>5 DEF ApprovalNode
    <2>2. /\ n.next = "tools" /\ n.calls = g.calls /\ n.turn = g.turn
          /\ n.steps = g.steps /\ ~n.ungrounded /\ n.granted
        BY <1>2, <1>3 DEF Graph
    <2>3. n \in Graph
        BY <1>2 DEF Graph, Nodes
    <2> HIDE DEF n, g
    <2>4. Legal(n)
        BY <1>3, <2>2, <2>3 DEF Legal
    <2> QED  BY <1>1, <2>1, <2>2, <2>3, <2>4 DEF Moves, GoesOn
<1>6. CASE run[r].decision = "reject"
    <2>1. Complete(r, e)
        BY <1>6 DEF ApprovalNode
    <2>3. e.next = "end" /\ ~e.ungrounded
        <3> HIDE DEF needsNone
        <3> QED  BY <1>2, <1>3 DEF Graph
    <2>4. Kind[r] = "decide"
        BY <1>6 DEF States
    <2> HIDE DEF e, g
    <2> QED  BY <1>1, <2>1, <2>3, <2>4 DEF Moves, Finishes
<1>7. CASE run[r].decision = "none"
    <2>1. End(r, "paused") /\ UNCHANGED saver
        BY <1>7 DEF ApprovalNode
    <2> QED  BY <1>1, <2>1 DEF Moves, Pauses
<1> QED  BY <1>4, <1>5, <1>6, <1>7

\* An answer is accepted, retried, or withheld.
LEMMA VerifyMoves ==
    ASSUME Types, States, NEW r \in Requests, VerifyNode(r)
    PROVE  Moves(r)
<1> DEFINE g == run[r].graph
           e == [g EXCEPT !.next = "end"]
           a == [g EXCEPT !.next = "agent", !.attempts = @ + 1]
           u == [g EXCEPT !.next = "end", !.ungrounded = TRUE]
<1>1. pc[r] = "running" /\ g.next = "verify" /\ run[r].left > 0
    BY DEF VerifyNode, At
<1>2. Legal(g) /\ g \in Graph
    BY DEF States, Legal
<1>3. /\ g.calls = <<>> /\ g.steps <= MaxSteps /\ ~g.ungrounded /\ Bounded(g.turn)
      /\ g.attempts \in 0 .. MaxRetries /\ MaxRetries \in Nat
    BY <1>1, <1>2, ToolAgentAssumption DEF Legal, Graph
<1>4. \/ Complete(r, e)
      \/ g.attempts < MaxRetries /\ Complete(r, a)
      \/ Complete(r, u)
    BY DEF VerifyNode
<1>5. e.next = "end" /\ e.calls = <<>>
    BY <1>2, <1>3 DEF Graph
<1>6. u.next = "end" /\ u.calls = <<>>
    BY <1>2, <1>3 DEF Graph
<1>7. CASE g.attempts < MaxRetries /\ Complete(r, a)
    <2>1. a.next = "agent" /\ a.calls = <<>> /\ a.turn = g.turn /\ a.steps = g.steps /\ ~a.ungrounded
        BY <1>2, <1>3 DEF Graph
    <2>2. g.attempts + 1 \in 0 .. MaxRetries
        BY <1>3, <1>7
    <2>3. a \in Graph
        BY <1>2, <2>2 DEF Graph, Nodes
    <2> HIDE DEF a, g
    <2>4. Legal(a)
        BY <1>3, <2>1, <2>3 DEF Legal
    <2> QED  BY <1>1, <1>7, <2>1, <2>3, <2>4 DEF Moves, GoesOn
<1> HIDE DEF e, u, g
<1>8. CASE Complete(r, e)
    BY <1>1, <1>5, <1>8 DEF Moves, Finishes
<1>9. CASE Complete(r, u)
    BY <1>1, <1>6, <1>9 DEF Moves, Finishes
<1> QED  BY <1>4, <1>7, <1>8, <1>9

\* Every step of a run on its way is one of the four.
LEMMA RunningMoves ==
    ASSUME Types, States, NEW r \in Requests, Running(r)
    PROVE  Moves(r)
<1>1. CASE OutOfSteps(r)
    BY <1>1 DEF OutOfSteps, Moves, Stops
<1> QED  BY <1>1, AgentMoves, ToolsMoves, FallbackMoves, ApprovalMoves, VerifyMoves DEF Running

-----------------------------------------------------------------------------
(* The steps keep the invariant *)

\* A run that ends leaves its place and its copy of the state, and no other.
LEMMA EndMoves ==
    ASSUME Types, NEW r \in Requests, NEW o \in Stages, End(r, o)
    PROVE  /\ pc' \in [Requests -> Stages] /\ pc'[r] = o
           /\ run' \in [Requests -> [graph : Graph, left : 0 .. RecursionLimit,
                                     decision : {"none", "approve", "reject"}]]
           /\ run'[r] = Idle
           /\ \A q \in Requests \ {r} : pc'[q] = pc[q] /\ run'[q] = run[q]
<1>1. 0 \in 0 .. RecursionLimit
    BY ToolAgentAssumption
<1>2. Idle \in [graph : Graph, left : 0 .. RecursionLimit,
                decision : {"none", "approve", "reject"}]
    BY <1>1, NoThreadIsLegal DEF Idle
<1> QED  BY <1>2 DEF End, Types, Stages

\* A run that stops where it is, the checkpoints and the store as they were.
LEMMA EndKeeps ==
    ASSUME IInv, NEW r \in Requests, NEW o \in Stages, End(r, o), UNCHANGED <<saver, order>>,
           pc[r] \in {"idle", "checked", "running"},
           pc[r] \in {"checked", "running"} => o \in Worked \ {"checked", "running"},
           pc[r] = "running" => \/ o \in {"failed", "looped"}
                                \/ o = "paused" /\ run[r].graph.next = "approval_gate",
           pc[r] # "running" => o \notin {"running", "paused"}
    PROVE  IInv'
<1>0. Types /\ States /\ Explained /\ Held /\ AnsweredUnlessRejected
    BY DEF IInv
<1>1. /\ pc' \in [Requests -> Stages] /\ pc'[r] = o
      /\ run' \in [Requests -> [graph : Graph, left : 0 .. RecursionLimit,
                                decision : {"none", "approve", "reject"}]]
      /\ run'[r] = Idle
      /\ \A q \in Requests \ {r} : pc'[q] = pc[q] /\ run'[q] = run[q]
    BY <1>0, EndMoves
<1>2. Types'
    BY <1>0, <1>1 DEF Types, Stages
<1>3. Idle.graph = NoThread /\ Idle.decision = "none" /\ NoThread.next = "none"
    BY DEF Idle, NoThread
<1>4. States'
    BY <1>0, <1>1, <1>3, NoThreadIsLegal DEF States
<1>5. Explained'
    <2> SUFFICES ASSUME NEW t \in Threads,
                        saver[t].next \notin {"none", "end", "approval_gate"}
                 PROVE  \E q \in Requests :
                            /\ ThreadOf[q] = t
                            /\ \/ pc'[q] \in {"failed", "looped"}
                               \/ pc'[q] = "running" /\ run'[q].graph.next = saver[t].next
        BY DEF Explained
    <2>1. PICK q \in Requests :
              /\ ThreadOf[q] = t
              /\ \/ pc[q] \in {"failed", "looped"}
                 \/ pc[q] = "running" /\ run[q].graph.next = saver[t].next
        BY <1>0 DEF Explained
    <2>2. CASE q = r
        BY <1>1, <2>1, <2>2
    <2>3. CASE q # r
        BY <1>1, <2>1, <2>3
    <2> QED  BY <2>2, <2>3
<1>6. Held'
    <2> SUFFICES ASSUME NEW q \in Requests, pc'[q] \in {"running", "paused"}
                 PROVE  \/ saver[ThreadOf[q]].next = Expected(q)'
                        \/ \E p \in Requests \ {q} : ThreadOf[p] = ThreadOf[q] /\ pc'[p] \in Worked
                        \/ /\ ThreadOf[q] \in Sessions /\ ~Contains(order, ThreadOf[q])
                           /\ saver[ThreadOf[q]].next = "none"
        BY DEF Held
    <2>1. pc[q] \in {"running", "paused"} /\ Expected(q)' = Expected(q)
        <3>1. CASE q = r
            BY <1>1, <3>1 DEF Expected
        <3>2. CASE q # r
            BY <1>1, <3>2 DEF Expected
        <3> QED  BY <3>1, <3>2
    <2>2. \A p \in Requests : pc[p] \in Worked => pc'[p] \in Worked
        BY <1>1 DEF Worked, Outcomes
    <2> QED  BY <1>0, <2>1, <2>2 DEF Held
<1>7. AnsweredUnlessRejected'
    <2>1. \A q \in Requests : pc[q] = "answered" => pc'[q] = "answered"
        BY <1>1
    <2> QED  BY <1>0, <2>1 DEF AnsweredUnlessRejected
<1> QED  BY <1>2, <1>4, <1>5, <1>6, <1>7 DEF IInv

\* A run that works on its thread: it is invoked, or completes a node that is not
\* the last.
LEMMA WorkKeeps ==
    ASSUME IInv, NEW r \in Requests, NEW g, NEW k \in 0 .. RecursionLimit,
           NEW d \in {"none", "approve", "reject"},
           pc[r] \in {"checked", "running"}, Legal(g), g.next \notin {"none", "end"},
           d # "none" => Kind[r] = "decide",
           saver' = [saver EXCEPT ![ThreadOf[r]] = g],
           run' = [run EXCEPT ![r] = [graph |-> g, left |-> k, decision |-> d]],
           pc' = [pc EXCEPT ![r] = "running"],
           UNCHANGED order
    PROVE  IInv'
<1> DEFINE t == ThreadOf[r]
<1>0. Types /\ States /\ Explained /\ Held /\ AnsweredUnlessRejected
    BY DEF IInv
<1>1. t \in Threads
    BY ToolAgentAssumption
<1>2. /\ saver'[t] = g
      /\ \A s \in Threads \ {t} : saver'[s] = saver[s]
    BY <1>0, <1>1 DEF Types
<1>3. /\ pc'[r] = "running" /\ run'[r].graph = g /\ run'[r].decision = d
      /\ \A q \in Requests \ {r} : pc'[q] = pc[q] /\ run'[q] = run[q]
    BY <1>0 DEF Types
<1>4. Types'
    <2>1. DOMAIN saver' = Threads /\ saver' = [s \in Threads |-> saver'[s]]
        BY <1>0 DEF Types
    <2>2. [graph |-> g, left |-> k, decision |-> d] \in
              [graph : Graph, left : 0 .. RecursionLimit,
               decision : {"none", "approve", "reject"}]
        BY DEF Legal
    <2>3. run' \in [Requests -> [graph : Graph, left : 0 .. RecursionLimit,
                                 decision : {"none", "approve", "reject"}]]
        BY <1>0, <2>2 DEF Types
    <2>4. pc' \in [Requests -> Stages]
        BY <1>0 DEF Types, Stages
    <2> QED  BY <1>0, <2>1, <2>3, <2>4 DEF Types, Stages
<1>5. States'
    BY <1>0, <1>1, <1>2, <1>3 DEF States
<1>6. Explained'
    <2> SUFFICES ASSUME NEW s \in Threads,
                        saver'[s].next \notin {"none", "end", "approval_gate"}
                 PROVE  \E q \in Requests :
                            /\ ThreadOf[q] = s
                            /\ \/ pc'[q] \in {"failed", "looped"}
                               \/ pc'[q] = "running" /\ run'[q].graph.next = saver'[s].next
        BY DEF Explained
    <2>1. CASE s = t
        BY <1>2, <1>3, <2>1
    <2>2. CASE s # t
        <3>1. PICK q \in Requests :
                  /\ ThreadOf[q] = s
                  /\ \/ pc[q] \in {"failed", "looped"}
                     \/ pc[q] = "running" /\ run[q].graph.next = saver[s].next
            BY <1>0, <1>2, <2>2 DEF Explained
        <3>2. q # r
            BY <2>2, <3>1
        <3> QED  BY <1>2, <1>3, <2>2, <3>1, <3>2
    <2> QED  BY <2>1, <2>2
<1>7. Held'
    <2> SUFFICES ASSUME NEW q \in Requests, pc'[q] \in {"running", "paused"}
                 PROVE  \/ saver'[ThreadOf[q]].next = Expected(q)'
                        \/ \E p \in Requests \ {q} : ThreadOf[p] = ThreadOf[q] /\ pc'[p] \in Worked
                        \/ /\ ThreadOf[q] \in Sessions /\ ~Contains(order, ThreadOf[q])
                           /\ saver'[ThreadOf[q]].next = "none"
        BY DEF Held
    <2>1. CASE q = r
        BY <1>2, <1>3, <2>1 DEF Expected
    <2>2. CASE q # r /\ ThreadOf[q] = t
        BY <1>3, <2>2 DEF Worked
    <2>3. CASE q # r /\ ThreadOf[q] # t
        <3>1. ThreadOf[q] \in Threads
            BY ToolAgentAssumption
        <3>2. /\ pc[q] \in {"running", "paused"} /\ Expected(q)' = Expected(q)
              /\ saver'[ThreadOf[q]] = saver[ThreadOf[q]]
            BY <1>2, <1>3, <2>3, <3>1 DEF Expected
        <3>3. \A p \in Requests : pc[p] \in Worked => pc'[p] \in Worked
            BY <1>3 DEF Worked
        <3> QED  BY <1>0, <3>2, <3>3 DEF Held
    <2> QED  BY <2>1, <2>2, <2>3
<1>8. AnsweredUnlessRejected'
    <2> SUFFICES ASSUME NEW s \in Threads, saver'[s].next = "end", saver'[s].calls # <<>>
                 PROVE  \E q \in Requests :
                            ThreadOf[q] = s /\ Kind[q] = "decide" /\ pc'[q] = "answered"
        BY DEF AnsweredUnlessRejected
    <2>1. s # t
        BY <1>2
    <2>2. saver[s].next = "end" /\ saver[s].calls # <<>>
        BY <1>2, <2>1
    <2>3. PICK q \in Requests : ThreadOf[q] = s /\ Kind[q] = "decide" /\ pc[q] = "answered"
        BY <1>0, <2>2 DEF AnsweredUnlessRejected
    <2> QED  BY <1>3, <2>1, <2>3
<1> QED  BY <1>4, <1>5, <1>6, <1>7, <1>8 DEF IInv

\* A run that completes its last node.
LEMMA FinishKeeps ==
    ASSUME IInv, NEW r \in Requests, pc[r] = "running", Finishes(r), UNCHANGED order
    PROVE  IInv'
<1> DEFINE t == ThreadOf[r]
<1>0. Types /\ States /\ Explained /\ Held /\ AnsweredUnlessRejected
    BY DEF IInv
<1>1. PICK g : /\ g.next = "end" /\ (g.calls # <<>> => Kind[r] = "decide" /\ ~g.ungrounded)
               /\ Complete(r, g)
    BY DEF Finishes
<1> DEFINE o == IF g.ungrounded THEN "hallucinated" ELSE "answered"
           e == [NoThread EXCEPT !.next = "end", !.calls = g.calls]
<1>2. saver' = [saver EXCEPT ![t] = e] /\ End(r, o)
    BY <1>1 DEF Complete
<1>3. o \in {"hallucinated", "answered"} /\ (~g.ungrounded => o = "answered")
    OBVIOUS
<1>4. e.next = "end" /\ e.calls = g.calls
    BY DEF NoThread
<1>5. t \in Threads
    BY ToolAgentAssumption
<1> HIDE DEF o, e
<1>6. /\ pc' \in [Requests -> Stages] /\ pc'[r] = o
      /\ run' \in [Requests -> [graph : Graph, left : 0 .. RecursionLimit,
                                decision : {"none", "approve", "reject"}]]
      /\ run'[r] = Idle
      /\ \A q \in Requests \ {r} : pc'[q] = pc[q] /\ run'[q] = run[q]
    <2>1. o \in Stages
        BY <1>3 DEF Stages, Outcomes
    <2> QED  BY <1>0, <1>2, <2>1, EndMoves
<1>7. /\ saver'[t] = e
      /\ \A s \in Threads \ {t} : saver'[s] = saver[s]
    BY <1>0, <1>2, <1>5 DEF Types
<1>8. Types'
    <2>1. DOMAIN saver' = Threads /\ saver' = [s \in Threads |-> saver'[s]]
        BY <1>0, <1>2 DEF Types
    <2> QED  BY <1>0, <1>6, <2>1 DEF Types, Stages
<1>9. States'
    <2>1. Idle.graph = NoThread /\ Idle.decision = "none" /\ NoThread.next = "none"
        BY DEF Idle, NoThread
    <2> QED  BY <1>0, <1>4, <1>5, <1>6, <1>7, <2>1, NoThreadIsLegal DEF States
<1>10. Explained'
    <2> SUFFICES ASSUME NEW s \in Threads,
                        saver'[s].next \notin {"none", "end", "approval_gate"}
                 PROVE  \E q \in Requests :
                            /\ ThreadOf[q] = s
                            /\ \/ pc'[q] \in {"failed", "looped"}
                               \/ pc'[q] = "running" /\ run'[q].graph.next = saver'[s].next
        BY DEF Explained
    <2>1. s # t
        BY <1>4, <1>7
    <2>2. PICK q \in Requests :
              /\ ThreadOf[q] = s
              /\ \/ pc[q] \in {"failed", "looped"}
                 \/ pc[q] = "running" /\ run[q].graph.next = saver[s].next
        BY <1>0, <1>7, <2>1 DEF Explained
    <2> QED  BY <1>6, <1>7, <2>1, <2>2
<1>11. Held'
    <2> SUFFICES ASSUME NEW q \in Requests, pc'[q] \in {"running", "paused"}
                 PROVE  \/ saver'[ThreadOf[q]].next = Expected(q)'
                        \/ \E p \in Requests \ {q} : ThreadOf[p] = ThreadOf[q] /\ pc'[p] \in Worked
                        \/ /\ ThreadOf[q] \in Sessions /\ ~Contains(order, ThreadOf[q])
                           /\ saver'[ThreadOf[q]].next = "none"
        BY DEF Held
    <2>1. q # r
        BY <1>3, <1>6
    <2>2. pc'[r] \in Worked
        BY <1>3, <1>6 DEF Worked, Outcomes
    <2>3. CASE ThreadOf[q] = t
        BY <2>1, <2>2, <2>3
    <2>4. CASE ThreadOf[q] # t
        <3>1. ThreadOf[q] \in Threads
            BY ToolAgentAssumption
        <3>2. /\ pc[q] \in {"running", "paused"} /\ Expected(q)' = Expected(q)
              /\ saver'[ThreadOf[q]] = saver[ThreadOf[q]]
            BY <1>6, <1>7, <2>1, <2>4, <3>1 DEF Expected
        <3>3. \A p \in Requests : pc[p] \in Worked => pc'[p] \in Worked
            BY <1>6, <2>2
        <3> QED  BY <1>0, <3>2, <3>3 DEF Held
    <2> QED  BY <2>3, <2>4
<1>12. AnsweredUnlessRejected'
    <2> SUFFICES ASSUME NEW s \in Threads, saver'[s].next = "end", saver'[s].calls # <<>>
                 PROVE  \E q \in Requests :
                            ThreadOf[q] = s /\ Kind[q] = "decide" /\ pc'[q] = "answered"
        BY DEF AnsweredUnlessRejected
    <2>1. CASE s = t
        BY <1>1, <1>3, <1>4, <1>6, <1>7, <2>1
    <2>2. CASE s # t
        <3>1. saver[s].next = "end" /\ saver[s].calls # <<>>
            BY <1>7, <2>2
        <3>2. PICK q \in Requests : ThreadOf[q] = s /\ Kind[q] = "decide" /\ pc[q] = "answered"
            BY <1>0, <3>1 DEF AnsweredUnlessRejected
        <3> QED  BY <1>6, <2>2, <3>2
    <2> QED  BY <2>1, <2>2
<1> QED  BY <1>8, <1>9, <1>10, <1>11, <1>12 DEF IInv

\* What touching a thread does to the store: it forgets one session at most, another
\* one, which it then no longer holds.
LEMMA TouchMoves ==
    ASSUME Types, NEW t \in Threads, Touch(t)
    PROVE  /\ order' \in Seq(Sessions) /\ Len(order') <= MaxSessions /\ IsInjective(order')
           /\ DOMAIN saver' = Threads /\ saver' = [s \in Threads |-> saver'[s]]
           /\ saver'[t] = saver[t]
           /\ t \in Sessions => Contains(order', t)
           /\ \A s \in Threads : Contains(order', s) => Contains(order, s) \/ s = t
           /\ \A s \in Threads : saver'[s] # saver[s] =>
                  saver'[s] = NoThread /\ s \in Sessions /\ ~Contains(order', s)
<1>0. /\ order \in Seq(Sessions) /\ Len(order) <= MaxSessions /\ Len(order) \in Nat
      /\ \A i, j \in 1 .. Len(order) : order[i] = order[j] => i = j
      /\ \A i \in 1 .. Len(order) : order[i] \in Sessions
      /\ MaxSessions \in Nat \ {0} /\ Sessions \subseteq Threads
    BY SessionsAssumption DEF Types, IsInjective
<1>1. CASE t \notin Sessions \/ Contains(order, t)
    BY <1>1 DEF Touch, Types
<1>2. CASE t \in Sessions /\ ~Contains(order, t) /\ Len(order) < MaxSessions
    <2>1. order' = Append(order, t) /\ saver' = saver
        BY <1>2 DEF Touch
    <2>2. /\ order' \in Seq(Sessions) /\ Len(order') = Len(order) + 1
          /\ order'[Len(order) + 1] = t
          /\ \A i \in 1 .. Len(order) : order'[i] = order[i]
        BY <1>0, <1>2, <2>1
    <2>3. \A i \in 1 .. Len(order) : order[i] # t
        BY <1>2 DEF Contains
    <2>4. IsInjective(order')
        <3>1. DOMAIN order' = 1 .. Len(order) + 1
            BY <2>2
        <3>2. ASSUME NEW i \in 1 .. Len(order) + 1, NEW j \in 1 .. Len(order) + 1,
                     order'[i] = order'[j]
              PROVE  i = j
            <4>1. CASE i = Len(order) + 1 /\ j = Len(order) + 1
                BY <4>1
            <4>2. CASE i \in 1 .. Len(order) /\ j \in 1 .. Len(order)
                BY <1>0, <2>2, <3>2, <4>2
            <4>3. CASE i = Len(order) + 1 /\ j \in 1 .. Len(order)
                BY <2>2, <2>3, <3>2, <4>3
            <4>4. CASE i \in 1 .. Len(order) /\ j = Len(order) + 1
                BY <2>2, <2>3, <3>2, <4>4
            <4> QED  BY <1>0, <4>1, <4>2, <4>3, <4>4
        <3> QED  BY <3>1, <3>2 DEF IsInjective
    <2>5. Contains(order', t)
        BY <1>0, <2>2 DEF Contains
    <2>6. \A s \in Threads : Contains(order', s) => Contains(order, s) \/ s = t
        BY <1>0, <2>2 DEF Contains
    <2>7. Len(order') <= MaxSessions
        BY <1>0, <1>2, <2>2
    <2> QED  BY <2>1, <2>2, <2>4, <2>5, <2>6, <2>7 DEF Types
<1>3. CASE t \in Sessions /\ ~Contains(order, t) /\ ~(Len(order) < MaxSessions)
    <2> DEFINE n == Len(order)
               h == Head(order)
    <2>1. order' = Append(Tail(order), t) /\ saver' = [saver EXCEPT ![h] = NoThread]
        BY <1>3 DEF Touch
    <2>2. n = MaxSessions /\ n > 0 /\ order # <<>>
        BY <1>0, <1>3
    <2>3. h = order[1] /\ h \in Sessions /\ h # t /\ h \in Threads
        <3>1. h = order[1] /\ 1 \in 1 .. Len(order)
            BY <1>0, <2>2
        <3> QED  BY <1>0, <1>3, <3>1 DEF Contains
    <2>4. /\ Tail(order) \in Seq(Sessions) /\ Len(Tail(order)) = n - 1
          /\ \A i \in 1 .. n - 1 : Tail(order)[i] = order[i + 1]
        BY <1>0, <2>2
    <2>5. /\ order' \in Seq(Sessions) /\ Len(order') = n /\ order'[n] = t
          /\ \A i \in 1 .. n - 1 : order'[i] = order[i + 1]
        BY <1>0, <1>3, <2>1, <2>2, <2>4
    <2>6. \A i \in 1 .. n : order[i] # t
        BY <1>3 DEF Contains
    <2>7. IsInjective(order')
        <3>1. DOMAIN order' = 1 .. n
            BY <2>5
        <3>2. ASSUME NEW i \in 1 .. n, NEW j \in 1 .. n, order'[i] = order'[j]
              PROVE  i = j
            <4>1. CASE i = n /\ j = n
                BY <4>1
            <4>2. CASE i \in 1 .. n - 1 /\ j \in 1 .. n - 1
                <5>1. order[i + 1] = order[j + 1] /\ i + 1 \in 1 .. n /\ j + 1 \in 1 .. n
                    BY <1>0, <2>5, <3>2, <4>2
                <5>2. i + 1 = j + 1
                    BY <1>0, <5>1
                <5> QED  BY <4>2, <5>2
            <4>3. CASE i = n /\ j \in 1 .. n - 1
                <5>1. order'[j] = order[j + 1] /\ j + 1 \in 1 .. n
                    BY <1>0, <2>5, <4>3
                <5> QED  BY <2>5, <2>6, <3>2, <4>3, <5>1
            <4>4. CASE i \in 1 .. n - 1 /\ j = n
                <5>1. order'[i] = order[i + 1] /\ i + 1 \in 1 .. n
                    BY <1>0, <2>5, <4>4
                <5> QED  BY <2>5, <2>6, <3>2, <4>4, <5>1
            <4> QED  BY <1>0, <4>1, <4>2, <4>3, <4>4
        <3> QED  BY <3>1, <3>2 DEF IsInjective
    <2>8. Contains(order', t)
        <3>1. n \in 1 .. Len(order')
            BY <1>0, <2>2, <2>5
        <3> QED  BY <2>5, <3>1 DEF Contains
    <2>9. \A s \in Threads : Contains(order', s) =>
              s = t \/ \E i \in 2 .. n : order[i] = s
        <3> SUFFICES ASSUME NEW s \in Threads, Contains(order', s), s # t
                     PROVE  \E i \in 2 .. n : order[i] = s
            OBVIOUS
        <3>1. PICK i \in 1 .. n : order'[i] = s
            BY <2>5 DEF Contains
        <3>2. i \in 1 .. n - 1 /\ i + 1 \in 2 .. n
            BY <1>0, <2>2, <2>5, <3>1
        <3> QED  BY <2>5, <3>1, <3>2
    <2>10. \A s \in Threads : Contains(order', s) => Contains(order, s) \/ s = t
        <3>1. \A i \in 2 .. n : i \in 1 .. Len(order)
            BY <1>0
        <3> QED  BY <2>9, <3>1 DEF Contains
    <2>11. ~Contains(order', h)
        <3>1. \A i \in 2 .. n : order[i] # h
            <4> SUFFICES ASSUME NEW i \in 2 .. n, order[i] = h  PROVE FALSE
                OBVIOUS
            <4>1. i \in 1 .. Len(order) /\ 1 \in 1 .. Len(order) /\ order[i] = order[1]
                BY <1>0, <2>2, <2>3
            <4>2. i = 1
                BY <1>0, <4>1
            <4> QED  BY <4>2
        <3> QED  BY <2>3, <2>9, <3>1
    <2>12. \A s \in Threads : saver'[s] = IF s = h THEN NoThread ELSE saver[s]
        BY <2>1 DEF Types
    <2>13. DOMAIN saver' = Threads /\ saver' = [s \in Threads |-> saver'[s]]
        BY <2>1 DEF Types
    <2>14. Len(order') <= MaxSessions
        BY <2>2, <2>5
    <2> HIDE DEF n, h
    <2> QED  BY <2>3, <2>5, <2>7, <2>8, <2>10, <2>11, <2>12, <2>13, <2>14
<1> QED  BY <1>1, <1>2, <1>3

\* A question that is accepted, or finds its thread pending.
LEMMA QueryKeeps ==
    ASSUME IInv, NEW r \in Requests, Query(r)
    PROVE  IInv'
<1> DEFINE t == ThreadOf[r]
           o == IF Pending(t) THEN "pending" ELSE "checked"
<1>0. Types /\ States /\ Explained /\ Held /\ AnsweredUnlessRejected
    BY DEF IInv
<1>1. t \in Threads
    BY ToolAgentAssumption
<1>2. pc[r] = "idle" /\ Touch(t) /\ End(r, o)
    BY DEF Query, Check
<1>3. /\ order' \in Seq(Sessions) /\ Len(order') <= MaxSessions /\ IsInjective(order')
      /\ DOMAIN saver' = Threads /\ saver' = [s \in Threads |-> saver'[s]]
      /\ saver'[t] = saver[t]
      /\ \A s \in Threads : Contains(order', s) => Contains(order, s) \/ s = t
      /\ \A s \in Threads : saver'[s] # saver[s] =>
             saver'[s] = NoThread /\ s \in Sessions /\ ~Contains(order', s)
    BY <1>0, <1>1, <1>2, TouchMoves
<1>4. o \in {"pending", "checked"} /\ (saver[t].next = "none" => o = "checked")
    BY DEF Pending
<1> HIDE DEF o
<1>5. /\ pc' \in [Requests -> Stages] /\ pc'[r] = o
      /\ run' \in [Requests -> [graph : Graph, left : 0 .. RecursionLimit,
                                decision : {"none", "approve", "reject"}]]
      /\ run'[r] = Idle
      /\ \A q \in Requests \ {r} : pc'[q] = pc[q] /\ run'[q] = run[q]
    <2>1. o \in Stages
        BY <1>4 DEF Stages, Outcomes
    <2> QED  BY <1>0, <1>2, <2>1, EndMoves
<1>6. Types'
    BY <1>3, <1>5 DEF Types, Stages
<1>7. NoThread.next = "none" /\ Idle.graph = NoThread /\ Idle.decision = "none"
    BY DEF NoThread, Idle
<1>8. States'
    <2>1. \A s \in Threads : Legal(saver'[s]) \/ saver'[s].next = "end"
        <3> TAKE s \in Threads
        <3>1. CASE saver'[s] = saver[s]
            BY <1>0, <3>1 DEF States
        <3>2. CASE saver'[s] # saver[s]
            BY <1>3, <3>2, NoThreadIsLegal
        <3> QED  BY <3>1, <3>2
    <2>2. \A q \in Requests : Legal(run'[q].graph) /\ run'[q].graph.next # "end"
                              /\ (run'[q].decision # "none" => Kind[q] = "decide")
        <3> TAKE q \in Requests
        <3>1. CASE q = r
            BY <1>5, <1>7, <3>1, NoThreadIsLegal
        <3>2. CASE q # r
            BY <1>0, <1>5, <3>2 DEF States
        <3> QED  BY <3>1, <3>2
    <2> QED  BY <2>1, <2>2 DEF States
<1>9. \A s \in Threads : saver'[s].next # "none" => saver'[s] = saver[s]
    BY <1>3, <1>7
<1>10. Explained'
    <2> SUFFICES ASSUME NEW s \in Threads,
                        saver'[s].next \notin {"none", "end", "approval_gate"}
                 PROVE  \E q \in Requests :
                            /\ ThreadOf[q] = s
                            /\ \/ pc'[q] \in {"failed", "looped"}
                               \/ pc'[q] = "running" /\ run'[q].graph.next = saver'[s].next
        BY DEF Explained
    <2>1. PICK q \in Requests :
              /\ ThreadOf[q] = s
              /\ \/ pc[q] \in {"failed", "looped"}
                 \/ pc[q] = "running" /\ run[q].graph.next = saver[s].next
        BY <1>0, <1>9 DEF Explained
    <2>2. q # r
        BY <1>2, <2>1
    <2> QED  BY <1>5, <1>9, <2>1, <2>2
<1>11. Held'
    <2> SUFFICES ASSUME NEW q \in Requests, pc'[q] \in {"running", "paused"}
                 PROVE  \/ saver'[ThreadOf[q]].next = Expected(q)'
                        \/ \E p \in Requests \ {q} : ThreadOf[p] = ThreadOf[q] /\ pc'[p] \in Worked
                        \/ /\ ThreadOf[q] \in Sessions /\ ~Contains(order', ThreadOf[q])
                           /\ saver'[ThreadOf[q]].next = "none"
        BY DEF Held
    <2>1. q # r /\ pc[q] \in {"running", "paused"} /\ Expected(q)' = Expected(q)
        <3>1. q # r
            BY <1>4, <1>5
        <3> QED  BY <1>5, <3>1 DEF Expected
    <2>2. ThreadOf[q] \in Threads
        BY ToolAgentAssumption
    <2>3. CASE saver[ThreadOf[q]].next = Expected(q)
        <3>1. CASE saver'[ThreadOf[q]] = saver[ThreadOf[q]]
            BY <2>1, <2>3, <3>1
        <3>2. CASE saver'[ThreadOf[q]] # saver[ThreadOf[q]]
            BY <1>3, <1>7, <2>2, <3>2
        <3> QED  BY <3>1, <3>2
    <2>4. CASE \E p \in Requests \ {q} : ThreadOf[p] = ThreadOf[q] /\ pc[p] \in Worked
        <3>1. PICK p \in Requests \ {q} : ThreadOf[p] = ThreadOf[q] /\ pc[p] \in Worked
            BY <2>4
        <3>2. p # r
            BY <1>2, <3>1 DEF Worked, Outcomes
        <3> QED  BY <1>5, <3>1, <3>2
    <2>5. CASE /\ ThreadOf[q] \in Sessions /\ ~Contains(order, ThreadOf[q])
               /\ saver[ThreadOf[q]].next = "none"
        <3>1. CASE ThreadOf[q] = t
            <4>1. pc'[r] \in Worked
                BY <1>4, <1>5, <2>5, <3>1 DEF Worked
            <4> QED  BY <2>1, <3>1, <4>1
        <3>2. CASE ThreadOf[q] # t
            <4>1. ~Contains(order', ThreadOf[q])
                BY <1>3, <2>2, <2>5, <3>2
            <4>2. saver'[ThreadOf[q]].next = "none"
                BY <1>9, <2>2, <2>5
            <4> QED  BY <2>5, <4>1, <4>2
        <3> QED  BY <3>1, <3>2
    <2> QED  BY <1>0, <2>1, <2>3, <2>4, <2>5 DEF Held
<1>12. AnsweredUnlessRejected'
    <2> SUFFICES ASSUME NEW s \in Threads, saver'[s].next = "end", saver'[s].calls # <<>>
                 PROVE  \E q \in Requests :
                            ThreadOf[q] = s /\ Kind[q] = "decide" /\ pc'[q] = "answered"
        BY DEF AnsweredUnlessRejected
    <2>1. saver'[s] = saver[s]
        BY <1>9
    <2>2. PICK q \in Requests : ThreadOf[q] = s /\ Kind[q] = "decide" /\ pc[q] = "answered"
        BY <1>0, <2>1 DEF AnsweredUnlessRejected
    <2>3. q # r
        BY <1>2, <2>2
    <2> QED  BY <1>5, <2>2, <2>3
<1> QED  BY <1>6, <1>8, <1>10, <1>11, <1>12 DEF IInv

\* A request that is invoked works on its thread, or finds nothing to do.
LEMMA InvokeKeeps ==
    ASSUME IInv, NEW r \in Requests, Invoke(r), UNCHANGED order
    PROVE  IInv'
<1> DEFINE t == ThreadOf[r]
           g == IF Kind[r] = "ask" THEN [NoThread EXCEPT !.next = "agent"] ELSE saver[t]
<1>0. Types /\ States
    BY DEF IInv
<1>1. pc[r] = "checked" /\ t \in Threads /\ Kind[r] \in {"ask", "decide"}
    BY ToolAgentAssumption DEF Invoke
<1>2. CASE g.next \in {"none", "end"}
    <2>1. End(r, "answered") /\ UNCHANGED <<saver, order>>
        BY <1>2 DEF Invoke
    <2>2. "answered" \in Stages /\ "answered" \in Worked
        BY DEF Stages, Worked, Outcomes
    <2> QED  BY <1>1, <2>1, <2>2, EndKeeps
<1>3. CASE g.next \notin {"none", "end"}
    <2>1. PICK d \in IF Kind[r] = "ask" THEN {"none"} ELSE {"approve", "reject"} :
              run' = [run EXCEPT ![r] = [graph |-> g, left |-> RecursionLimit, decision |-> d]]
        BY <1>3 DEF Invoke
    <2>2. saver' = [saver EXCEPT ![t] = g] /\ pc' = [pc EXCEPT ![r] = "running"]
        BY <1>3 DEF Invoke
    <2>3. Legal(g)
        <3>1. CASE Kind[r] = "ask"
            BY <3>1, AskedIsLegal
        <3>2. CASE Kind[r] # "ask"
            BY <1>0, <1>1, <1>3, <3>2 DEF States
        <3> QED  BY <3>1, <3>2
    <2>4. d \in {"none", "approve", "reject"} /\ (d # "none" => Kind[r] = "decide")
        BY <1>1
    <2>5. RecursionLimit \in 0 .. RecursionLimit
        BY ToolAgentAssumption
    <2> HIDE DEF g
    <2> QED  BY <1>1, <1>3, <2>1, <2>2, <2>3, <2>4, <2>5, WorkKeeps
<1> QED  BY <1>2, <1>3

\* A run on its way.
LEMMA RunningKeeps ==
    ASSUME IInv, NEW r \in Requests, Running(r), UNCHANGED order
    PROVE  IInv'
<1>0. Types /\ States
    BY DEF IInv
<1>1. pc[r] = "running" /\ (Stops(r) \/ Pauses(r) \/ GoesOn(r) \/ Finishes(r))
    BY <1>0, RunningMoves DEF Moves
<1>2. CASE Stops(r)
    <2>1. PICK o \in {"failed", "looped"} : End(r, o) /\ UNCHANGED saver
        BY <1>2 DEF Stops
    <2>2. o \in Stages /\ o \in Worked
        BY DEF Stages, Worked, Outcomes
    <2> QED  BY <1>1, <2>1, <2>2, EndKeeps
<1>3. CASE Pauses(r)
    <2>1. "paused" \in Stages /\ "paused" \in Worked
        BY DEF Stages, Worked, Outcomes
    <2> QED  BY <1>1, <1>3, <2>1, EndKeeps DEF Pauses
<1>4. CASE GoesOn(r)
    <2>1. PICK g : Legal(g) /\ g.next \notin {"none", "end"} /\ run[r].left > 0 /\ Complete(r, g)
        BY <1>4 DEF GoesOn
    <2>2. /\ saver' = [saver EXCEPT ![ThreadOf[r]] = g]
          /\ run' = [run EXCEPT ![r] = [graph |-> g, left |-> run[r].left - 1, decision |-> "none"]]
          /\ UNCHANGED pc
        BY <1>0, <2>1 DEF Complete, Types
    <2>3. pc' = [pc EXCEPT ![r] = "running"]
        BY <1>0, <1>1, <2>2 DEF Types
    <2>4. run[r].left - 1 \in 0 .. RecursionLimit
        <3>1. run[r].left \in 0 .. RecursionLimit /\ RecursionLimit \in Nat
            BY <1>0, ToolAgentAssumption DEF Types
        <3> QED  BY <2>1, <3>1
    <2> QED  BY <1>1, <2>1, <2>2, <2>3, <2>4, WorkKeeps
<1>5. CASE Finishes(r)
    BY <1>1, <1>5, FinishKeeps
<1> QED  BY <1>1, <1>2, <1>3, <1>4, <1>5

-----------------------------------------------------------------------------
(* Theorems *)

\* Nothing is known of a thread, nobody has asked: the invariant holds.
LEMMA InitInvariant == Init => IInv
<1> SUFFICES ASSUME Init  PROVE IInv
    OBVIOUS
<1>1. /\ saver = [t \in Threads |-> NoThread] /\ run = [r \in Requests |-> Idle]
      /\ pc = [r \in Requests |-> "idle"] /\ order = <<>>
    BY DEF Init, AgentInit
<1>2. Idle \in [graph : Graph, left : 0 .. RecursionLimit,
                decision : {"none", "approve", "reject"}]
    <2>1. 0 \in 0 .. RecursionLimit
        BY ToolAgentAssumption
    <2> QED  BY <2>1, NoThreadIsLegal DEF Idle
<1>3. NoThread.next = "none" /\ Idle.graph = NoThread /\ Idle.decision = "none"
    BY DEF NoThread, Idle
<1>4. Types
    <2>1. order \in Seq(Sessions) /\ Len(order) <= MaxSessions /\ IsInjective(order)
        BY <1>1, SessionsAssumption DEF IsInjective
    <2> QED  BY <1>1, <1>2, <2>1 DEF Types, Stages
<1>5. States
    BY <1>1, <1>3, NoThreadIsLegal DEF States
<1>6. Explained /\ AnsweredUnlessRejected
    BY <1>1, <1>3 DEF Explained, AnsweredUnlessRejected
<1>7. Held
    BY <1>1 DEF Held
<1> QED  BY <1>4, <1>5, <1>6, <1>7 DEF IInv

\* Every step keeps it.
LEMMA NextInvariant == IInv /\ [Next]_vars => IInv'
<1> SUFFICES ASSUME IInv, [Next]_vars  PROVE IInv'
    OBVIOUS
<1>1. CASE UNCHANGED vars
    BY <1>1 DEF vars, agentVars, IInv, Types, States, Explained, Held, Expected,
                AnsweredUnlessRejected
<1>2. ASSUME NEW r \in Requests, Refuse(r)
      PROVE  IInv'
    <2>1. "refused" \in Stages
        BY DEF Stages
    <2> QED  BY <1>2, <2>1, EndKeeps DEF Refuse
<1>3. ASSUME NEW r \in Requests, Resume(r)
      PROVE  IInv'
    <2>1. PICK o \in {"checked", "nothing"} : End(r, o)
        BY <1>3 DEF Resume, Check
    <2>2. o \in Stages
        BY DEF Stages, Outcomes
    <2> QED  BY <1>3, <2>1, <2>2, EndKeeps DEF Resume
<1>4. ASSUME NEW r \in Requests, Step(r)
      PROVE  IInv'
    BY <1>4, InvokeKeeps, RunningKeeps DEF Step
<1>5. ASSUME NEW r \in Requests, Cancel(r)
      PROVE  IInv'
    <2>1. pc[r] = "running" /\ End(r, "failed") /\ UNCHANGED <<saver, order>>
        BY <1>5 DEF Cancel, Fail
    <2>2. "failed" \in Stages /\ "failed" \in Worked
        BY DEF Stages, Worked, Outcomes
    <2> QED  BY <2>1, <2>2, EndKeeps
<1> QED  BY <1>1, <1>2, <1>3, <1>4, <1>5, QueryKeeps DEF Next

\* Each reachable state satisfies it.
LEMMA Invariant == FairSpec => []IInv
<1>1. Init => IInv
    BY InitInvariant
<1>2. IInv /\ [Next]_vars => IInv'
    BY NextInvariant
<1> QED  BY <1>1, <1>2, PTL DEF FairSpec

\* The agent's state has its type: a run stays within the step budget and the verify
\* retries, and the store within its limit, whatever the model answers.
THEOREM AgentInvariant == FairSpec => []AgentInv
<1>1. IInv => AgentInv
    <2> SUFFICES ASSUME IInv  PROVE AgentInv
        OBVIOUS
    <2>1. /\ order \in Seq(Sessions) /\ Len(order) <= MaxSessions /\ IsInjective(order)
        BY DEF IInv, Types
    <2>2. ASSUME NEW r \in Requests
          PROVE  /\ pc[r] \in {"idle", "checked", "running", "refused"} \cup Outcomes
                 /\ run[r].left \in 0 .. RecursionLimit
                 /\ LET g == run[r].graph
                    IN  /\ g.next \in Nodes \cup {"none", "end"}
                        /\ g.steps \in 0 .. MaxSteps + 1 /\ g.attempts \in 0 .. MaxRetries
                        /\ g.calls \in Seq(Calls) /\ g.turn \in Seq(Answer)
                        /\ g.ungrounded => g.next = "end"
        <3>1. Legal(run[r].graph) /\ MaxSteps \in Nat
            BY ToolAgentAssumption DEF IInv, States
        <3>2. run[r].graph.steps \in 0 .. MaxSteps + 1
            BY <3>1 DEF Legal, Graph
        <3> QED  BY <3>1, <3>2 DEF IInv, Types, Stages, Legal, Graph
    <2> QED  BY <2>1, <2>2 DEF AgentInv
<1> QED  BY <1>1, Invariant, PTL

\* Tools that need a reviewer run only in a turn the gate has let through, also when the
\* run that calls them resumed from the checkpoint of another (loop_guard, approval_gate).
THEOREM GateGuardsTools == FairSpec => []ApprovalGuardsTools
<1>1. IInv => ApprovalGuardsTools
    BY DEF IInv, States, Legal, ApprovalGuardsTools
<1> QED  BY <1>1, Invariant, PTL

\* The model cannot make the agent repeat a call: between two writes a call is answered
\* fewer times than the cap and the calls of one response, for every cap and model.
THEOREM RepeatsAreBounded == FairSpec => []RepeatsBounded
<1>1. IInv => RepeatsBounded
    BY DEF IInv, States, Legal, Bounded, RepeatsBounded
<1> QED  BY <1>1, Invariant, PTL

\* A turn ends with calls open only where a reviewer rejected the calls beside them.
THEOREM OpenCallsWereRejected == FairSpec => []AnsweredUnlessRejected
<1>1. IInv => AnsweredUnlessRejected
    BY DEF IInv
<1> QED  BY <1>1, Invariant, PTL

\* A thread that blocks its next question waits at the gate, is being worked on, or was
\* left there by a run that failed, however many requests share it.
THEOREM WedgesAreExplained == FairSpec => []WedgeExplained
<1>1. IInv => WedgeExplained
    BY DEF IInv, Explained, WedgeExplained, Pending, Active
<1> QED  BY <1>1, Invariant, PTL

\* A paused question can be decided until another request has worked on its session or
\* the store has forgotten it.
THEOREM PausedStaysDecidable == FairSpec => []PausedUntilDecided
<1>1. IInv => PausedUntilDecided
    <2> SUFFICES ASSUME IInv, NEW r \in Requests, pc[r] = "paused",
                        ThreadOf[r] \in Sessions => Contains(order, ThreadOf[r])
                 PROVE  \/ saver[ThreadOf[r]].next = "approval_gate"
                        \/ \E q \in Requests \ {r} :
                               /\ ThreadOf[q] = ThreadOf[r]
                               /\ pc[q] \notin {"idle", "refused", "pending", "nothing"}
        BY DEF PausedUntilDecided
    <2>1. Expected(r) = "approval_gate"
        BY DEF Expected
    <2> QED  BY <2>1 DEF IInv, Held, Worked, Outcomes
<1> QED  BY <1>1, Invariant, PTL
=============================================================================
