------------------------------ MODULE ToolAgent ------------------------------
(***************************************************************************)
(* The tool-using agent: a graph of nodes, run once per request over a     *)
(* thread (a session) whose state is checkpointed after every node.        *)
(*                                                                         *)
(* A run works on its own copy of the thread's state, and each node it     *)
(* completes overwrites the checkpoint.  A run that fails leaves the       *)
(* checkpoint of the node it did not complete.                             *)
(***************************************************************************)
EXTENDS LoopGuard

CONSTANTS
    Requests,
    Threads,
    ThreadOf,       \* [Requests -> Threads]
    Kind,           \* [Requests -> {"ask", "decide"}]
    ApprovalCalls,  \* calls approval_reason has a reason for
    Verifies,       \* a verifier is configured
    MaxSteps,       \* MAX_TOTAL_STEPS
    MaxRetries,     \* MAX_VERIFY_RETRIES
    RecursionLimit,
    Responses       \* what the model may answer: sequences of calls

ASSUME ToolAgentAssumption ==
    /\ ThreadOf \in [Requests -> Threads]
    /\ Kind \in [Requests -> {"ask", "decide"}]
    /\ WriteCalls \cup ApprovalCalls \subseteq Calls
    /\ Verifies \in BOOLEAN
    /\ {RepeatCap, Window, Repeats, MaxSteps, RecursionLimit} \subseteq Nat \ {0}
    /\ MaxRetries \in Nat
    /\ Responses \subseteq Seq(Calls) /\ IsFiniteSet(Responses) /\ Responses # {}

VARIABLES
    saver,  \* the checkpoint of each thread
    run,    \* a request's copy of the graph's state
    pc      \* where a request is

agentVars == <<saver, run, pc>>

Nodes == {"agent", "fallback", "approval_gate", "verify", "tools"}
Outcomes == {"answered", "paused", "pending", "nothing", "failed", "looped", "hallucinated"}

\* next: the node to run; calls: those of the model's last message that have no
\* answer yet; turn: those that have; granted: the reviewer approved calls.
NoThread == [next |-> "none", calls |-> <<>>, turn |-> <<>>, steps |-> 0, attempts |-> 0,
             ungrounded |-> FALSE, granted |-> FALSE]
Idle == [graph |-> NoThread, left |-> 0, decision |-> "none"]

AgentInit ==
    /\ saver = [t \in Threads |-> NoThread]
    /\ run = [r \in Requests |-> Idle]
    /\ pc = [r \in Requests |-> "idle"]

Pending(t) == saver[t].next \notin {"none", "end"}  \* snapshot.next
Active(r)  == pc[r] \in {"checked", "running"}

\* The copy of the state dies with the run.
End(r, outcome) ==
    /\ pc' = [pc EXCEPT ![r] = outcome]
    /\ run' = [run EXCEPT ![r] = Idle]
At(r, node)     == pc[r] = "running" /\ run[r].graph.next = node /\ run[r].left > 0

\* Mutant of Complete: the last node is not checkpointed.
CompleteUnsaved(r, g) ==
    IF g.next = "end" THEN UNCHANGED saver /\ End(r, "answered")
    ELSE /\ saver' = [saver EXCEPT ![ThreadOf[r]] = g]
         /\ run' = [run EXCEPT ![r] = [graph |-> g, left |-> @.left - 1, decision |-> "none"]]
         /\ UNCHANGED pc

\* A node is completed: its state is checkpointed, a resume value is gone.  Of a
\* turn that has ended only the calls without an answer matter to the next one.
Complete(r, g) ==
    IF g.next = "end"
    THEN /\ saver' = [saver EXCEPT ![ThreadOf[r]] = [NoThread EXCEPT !.next = "end",
                                                                   !.calls = g.calls]]
         /\ End(r, IF g.ungrounded THEN "hallucinated" ELSE "answered")
    ELSE /\ saver' = [saver EXCEPT ![ThreadOf[r]] = g]
         /\ run' = [run EXCEPT ![r] = [graph |-> g, left |-> @.left - 1, decision |-> "none"]]
         /\ UNCHANGED pc

-----------------------------------------------------------------------------
(* execute and resume_approval *)

\* The snapshot is read: a question needs a thread with nothing pending, a
\* decision one that has.
Check(r) ==
    IF Kind[r] = "ask"
    THEN End(r, IF Pending(ThreadOf[r]) THEN "pending" ELSE "checked")
    ELSE End(r, IF Pending(ThreadOf[r]) THEN "checked" ELSE "nothing")

\* The graph is invoked.  It loads the thread as it is by then; a question
\* starts a turn.  A decision on a thread with nothing pending any more has
\* nothing to run.
Invoke(r) ==
    /\ pc[r] = "checked"
    /\ LET t == ThreadOf[r]
           g == IF Kind[r] = "ask" THEN [NoThread EXCEPT !.next = "agent"] ELSE saver[t]
       IN  IF g.next \in {"none", "end"}
           THEN End(r, "answered") /\ UNCHANGED saver
           ELSE /\ \E d \in IF Kind[r] = "ask" THEN {"none"} ELSE {"approve", "reject"} :
                     run' = [run EXCEPT ![r] = [graph |-> g, left |-> RecursionLimit,
                                                decision |-> d]]
                /\ saver' = [saver EXCEPT ![t] = g]
                /\ pc' = [pc EXCEPT ![r] = "running"]

\* The run ends with the node it is at: that raises, times out or is cancelled.
Fail(r) == End(r, "failed") /\ UNCHANGED saver

\* Mutant of OutOfSteps: the error of the graph is not mapped, the request hangs.
OutOfStepsIgnored(r) == FALSE

OutOfSteps(r) ==
    /\ pc[r] = "running" /\ run[r].left = 0
    /\ End(r, "looped")
    /\ UNCHANGED saver

-----------------------------------------------------------------------------
(* The nodes *)

Halted(g) == g.steps + 1 > MaxSteps \/ NoProgress(g.turn)

\* Mutant of Routed: only the first call of a response is looked at.
RoutedByFirst(g, c) ==
    [g EXCEPT !.steps = @ + 1, !.calls = c, !.granted = FALSE,
              !.next = IF c = <<>> THEN "verify"
                       ELSE IF c[1] \in ApprovalCalls THEN "approval_gate" ELSE "tools"]

\* The state with the model's response c, and where it leads.
Routed(g, c) ==
    [g EXCEPT !.steps = @ + 1, !.calls = c, !.granted = FALSE,
              !.next = CASE c = <<>> -> "verify"
                         [] \E i \in DOMAIN c : c[i] \in ApprovalCalls -> "approval_gate"
                         [] OTHER -> "tools"]

\* Mutant of AgentNode: the response of a repeating model is kept.
AgentNodeKeeping(r) ==
    /\ At(r, "agent")
    /\ LET g == run[r].graph
           halt == [g EXCEPT !.steps = @ + 1, !.next = "fallback"]
       IN  IF Halted(g) THEN Complete(r, halt)
           ELSE \/ \E c \in Responses :
                     Complete(r, IF \E i \in DOMAIN c : WouldRepeatTooOften(c[i], g.turn)
                                 THEN [halt EXCEPT !.calls = c] ELSE Routed(g, c))
                \/ Fail(r)

\* Mutant of AgentNode: the repeat cap is forgotten.
AgentNodeUncapped(r) ==
    /\ At(r, "agent")
    /\ LET g == run[r].graph
       IN  IF Halted(g)
           THEN Complete(r, [g EXCEPT !.steps = @ + 1, !.next = "fallback"])
           ELSE \/ \E c \in Responses : Complete(r, Routed(g, c))
                \/ Fail(r)

\* The budget and the progress are checked before the model is asked, the repeats
\* after; the response of a repeating model is dropped.
AgentNode(r) ==
    /\ At(r, "agent")
    /\ LET g == run[r].graph
           halt == [g EXCEPT !.steps = @ + 1, !.next = "fallback"]
       IN  IF Halted(g) THEN Complete(r, halt)
           ELSE \/ \E c \in Responses :
                     Complete(r, IF \E i \in DOMAIN c : WouldRepeatTooOften(c[i], g.turn)
                                 THEN halt ELSE Routed(g, c))
                \/ Fail(r)

\* Errors of tools are results like any other.
ToolsNode(r) ==
    /\ At(r, "tools")
    /\ LET g == run[r].graph
       IN  \E res \in [DOMAIN g.calls -> Results] :
             Complete(r, [g EXCEPT !.next = "agent", !.calls = <<>>,
                 !.turn = @ \o [i \in DOMAIN g.calls |->
                                   [call |-> g.calls[i], result |-> res[i]]]])

FallbackNode(r) ==
    /\ At(r, "fallback")
    /\ Complete(r, [run[r].graph EXCEPT !.next = "end"])

\* Without a decision the run is interrupted here.  A rejection answers the calls
\* that needed approval and ends the turn; calls beside them stay unanswered.
ApprovalNode(r) ==
    /\ At(r, "approval_gate")
    /\ LET g == run[r].graph
           needsNone(c) == c \notin ApprovalCalls
       IN  CASE run[r].decision = "approve" ->
                  Complete(r, [g EXCEPT !.next = "tools", !.granted = TRUE])
             [] run[r].decision = "reject" ->
                  Complete(r, [g EXCEPT !.next = "end", !.calls = SelectSeq(@, needsNone)])
             [] OTHER -> End(r, "paused") /\ UNCHANGED saver

\* Mutant of VerifyNode: one retry too many.
VerifyNodeOnceMore(r) ==
    /\ At(r, "verify")
    /\ LET g == run[r].graph
       IN  \/ Complete(r, [g EXCEPT !.next = "end"])
           \/ /\ Verifies
              /\ Complete(r, IF g.attempts <= MaxRetries
                             THEN [g EXCEPT !.next = "agent", !.attempts = @ + 1]
                             ELSE [g EXCEPT !.next = "end", !.ungrounded = TRUE])

\* An answer with values no tool returned is retried, then withheld.
VerifyNode(r) ==
    /\ At(r, "verify")
    /\ LET g == run[r].graph
       IN  \/ Complete(r, [g EXCEPT !.next = "end"])
           \/ /\ Verifies
              /\ Complete(r, IF g.attempts < MaxRetries
                             THEN [g EXCEPT !.next = "agent", !.attempts = @ + 1]
                             ELSE [g EXCEPT !.next = "end", !.ungrounded = TRUE])

Running(r) ==
    \/ AgentNode(r) \/ ToolsNode(r) \/ FallbackNode(r) \/ ApprovalNode(r) \/ VerifyNode(r)
    \/ OutOfSteps(r)
=============================================================================
