---------------------------- MODULE AgentSessions ----------------------------
(***************************************************************************)
(* The agent behind docpipe's query endpoint: requests of several users    *)
(* run the tool agent over sessions kept in one store, which forgets the   *)
(* session that was first used longest ago when it holds too many.         *)
(* A request without a session id runs over a thread of its own.           *)
(***************************************************************************)
EXTENDS ToolAgent, SequencesExt

CONSTANTS
    Sessions,     \* the threads that have a session id
    MaxSessions   \* MAX_SESSIONS

ASSUME SessionsAssumption ==
    /\ Sessions \subseteq Threads
    /\ MaxSessions \in Nat \ {0}
    /\ \A r1, r2 \in Requests :
           ThreadOf[r1] = ThreadOf[r2] => r1 = r2 \/ ThreadOf[r1] \in Sessions

VARIABLE order  \* the sessions of the store, the one started first in front

vars == <<agentVars, order>>

Init == AgentInit /\ order = <<>>

\* Mutant of Touch: the session used last leaves the order, the first one the saver.
TouchConfused(t) ==
    IF t \notin Sessions \/ Contains(order, t) THEN UNCHANGED <<order, saver>>
    ELSE IF Len(order) < MaxSessions
         THEN order' = Append(order, t) /\ UNCHANGED saver
         ELSE /\ UNCHANGED order
              /\ saver' = [saver EXCEPT ![Head(order)] = NoThread]

Touch(t) ==
    IF t \notin Sessions \/ Contains(order, t) THEN UNCHANGED <<order, saver>>
    ELSE IF Len(order) < MaxSessions
         THEN order' = Append(order, t) /\ UNCHANGED saver
         ELSE /\ order' = Append(Tail(order), t)
              /\ saver' = [saver EXCEPT ![Head(order)] = NoThread]

\* The guardrails refuse a question before the session is touched.
Refuse(r) ==
    /\ pc[r] = "idle" /\ Kind[r] = "ask"
    /\ End(r, "refused")
    /\ UNCHANGED <<saver, order>>

\* aquery: the session is touched and its snapshot read before the first suspension.
Query(r) ==
    /\ pc[r] = "idle" /\ Kind[r] = "ask"
    /\ Touch(ThreadOf[r])
    /\ Check(r)

Resume(r) ==
    /\ pc[r] = "idle" /\ Kind[r] # "ask"
    /\ Check(r)
    /\ UNCHANGED <<saver, order>>

Step(r) == (Invoke(r) \/ Running(r)) /\ UNCHANGED order

\* The task of a request is cancelled at the node it has reached, or a node other
\* than the model's raises: the checkpoint of the node before stays.
Cancel(r) == pc[r] = "running" /\ Fail(r) /\ UNCHANGED order

Next == \E r \in Requests : Refuse(r) \/ Query(r) \/ Resume(r) \/ Step(r) \/ Cancel(r)

\* The event loop runs a request that can go on; nobody has to send or cancel one.
FairSpec == Init /\ [][Next]_vars /\ \A r \in Requests : WF_vars(Step(r))

-----------------------------------------------------------------------------
(* Properties *)

\* The agent's state has its type: a run stays within the step budget and the verify
\* retries, the store within its limit, and only a finished run reports withheld values.
AgentInv ==
    /\ order \in Seq(Sessions) /\ Len(order) <= MaxSessions /\ IsInjective(order)
    /\ \A r \in Requests :
         /\ pc[r] \in {"idle", "checked", "running", "refused"} \cup Outcomes
         /\ run[r].left \in 0 .. RecursionLimit
         /\ LET g == run[r].graph
            IN  /\ g.next \in Nodes \cup {"none", "end"}
                /\ g.steps \in 0 .. MaxSteps + 1 /\ g.attempts \in 0 .. MaxRetries
                /\ g.calls \in Seq(Calls) /\ g.turn \in Seq(Answer)
                /\ g.ungrounded => g.next = "end"

\* A tool with side effects that are not allowed without a reviewer runs only in a run
\* whose turn passed the gate with an approval (loop_guard, approval_gate).
ApprovalGuardsTools ==
    \A r \in Requests :
        LET g == run[r].graph
        IN  g.next = "tools" /\ (\E i \in DOMAIN g.calls : g.calls[i] \in ApprovalCalls)
            => g.granted

\* The model cannot make the agent repeat a call: between two writes a call is answered
\* at most RepeatCap - 1 times, and once more per place of the response that reached it.
RepeatsBounded ==
    \A r \in Requests, c \in Calls :
        LET done == CompletedCalls(run[r].graph.turn)
        IN  \E response \in Responses :
                Cardinality({i \in DOMAIN done : done[i].call = c})
                    < RepeatCap + Len(response)

\* An ended turn leaves calls without an answer only where a reviewer rejected the
\* calls beside them: every other way out of the graph answers each call first.
AnsweredUnlessRejected ==
    \A t \in Threads :
        saver[t].next = "end" /\ saver[t].calls # <<>>
        => \E r \in Requests : ThreadOf[r] = t /\ Kind[r] = "decide" /\ pc[r] = "answered"

\* A thread that blocks its next question although nobody works on it either waits at
\* the gate or was left there by a run that failed.
WedgeExplained ==
    \A t \in Threads :
        Pending(t) /\ saver[t].next # "approval_gate"
        => \E r \in Requests :
               ThreadOf[r] = t /\ (Active(r) \/ pc[r] \in {"failed", "looped"})

\* A question that was paused for a reviewer can be decided until another request has
\* worked on its session or the store has forgotten it.
PausedUntilDecided ==
    \A r \in Requests :
        LET t == ThreadOf[r]
        IN  pc[r] = "paused" /\ (t \in Sessions => Contains(order, t))
            => \/ saver[t].next = "approval_gate"
               \/ \E q \in Requests \ {r} :
                      ThreadOf[q] = t /\ pc[q] \notin {"idle", "refused", "pending", "nothing"}

\* Every request that was accepted ends, whatever the model answers.
QueriesEnd == \A r \in Requests : Active(r) ~> ~Active(r)
=============================================================================
