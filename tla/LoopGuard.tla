------------------------------ MODULE LoopGuard ------------------------------
(***************************************************************************)
(* The loop guard of the tool agent: what LoopGuardrail reads off a turn.  *)
(* A turn is the sequence of tool calls that have been answered since the  *)
(* user's question; two calls, or two results, are equal when the guard's  *)
(* digests of them are.                                                    *)
(***************************************************************************)
EXTENDS Naturals, Sequences, FiniteSets

CONSTANTS
    Calls,      \* tool name and arguments
    WriteCalls, \* calls of the guard's write_tools
    Results,
    RepeatCap,  \* MAX_IDENTICAL_TOOL_CALLS
    Window,     \* NO_PROGRESS_WINDOW
    Repeats     \* NO_PROGRESS_REPEATS

Answer == [call : Calls, result : Results]

\* A write starts a fresh window.
CompletedCalls(turn) ==
    LET writes == {i \in DOMAIN turn : turn[i].call \in WriteCalls}
        last   == IF writes = {} THEN 0 ELSE CHOOSE i \in writes : \A k \in writes : k <= i
    IN  SubSeq(turn, last + 1, Len(turn))

WouldRepeatTooOften(c, turn) ==
    LET done == CompletedCalls(turn)
    IN  Cardinality({i \in DOMAIN done : done[i].call = c}) >= RepeatCap

NoProgress(turn) ==
    LET done   == CompletedCalls(turn)
        oldest == IF Len(done) > Window THEN Len(done) - Window + 1 ELSE 1
        window == oldest .. Len(done)
    IN  \E i \in window :
            Cardinality({k \in window : done[k].result = done[i].result}) >= Repeats
=============================================================================
