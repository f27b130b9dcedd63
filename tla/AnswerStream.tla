----------------------------- MODULE AnswerStream -----------------------------
(***************************************************************************)
(* POST /rag/stream around a stream of the pipeline: the generator of the  *)
(* service makes events of tokens, the connection carries them as lines,   *)
(* and the iterator of docpipe.http.DocpipeClient makes chunks of the      *)
(* lines.  Either side or the network may end the connection at any time.  *)
(***************************************************************************)
EXTENDS RagPipeline

CONSTANTS
    Answer,     \* the tokens a model says, of which it may leave out the last ones
    HighWater,  \* unread lines from which the transport makes the server wait
    Done, Usage, Failure

\* A token is its lines, a line [word, padded]: what it says, and whether white
\* space stands around it. No line begins with "data:" or "event:".
ASSUME AnswerAssumption ==
    /\ HighWater \in Nat /\ MaxTokens \in Nat /\ Len(Answer) >= MaxTokens
    /\ \A i \in DOMAIN Answer : Answer[i] # <<>>
    /\ Done \notin {Usage, Failure} /\ None \notin {"metadata", "error"}

VARIABLE stream
    \* of a call: the tokens sent, where the generator is after the last one, the lines
    \* on their way and the link (up, cut by the network, left by the client); where the
    \* iterator is or how it ended, its event_name, and the chunks it has yielded

StreamInit ==
    stream = [r \in Requests |-> [sent |-> 0, told |-> "none", wire |-> <<>>, link |-> "up",
                                  at |-> "idle", event |-> None, got |-> <<>>]]

Streams(r) == ~Sdk(r) /\ ask[r].kind = "stream"
Link(r)    == stream[r].link
Wire(r)    == stream[r].wire

-----------------------------------------------------------------------------
(* The server: RAGService.stream.generate *)

\* Lines without a field are left out: the client skips them.
Line(field, value) == [field |-> field, value |-> value]

\* data: {token}: only its first line is of the field.
TokenEvent(token) == <<Line("data", token[1].word)>>
NamedEvent(name, value) == <<Line("event", name), Line("data", value)>>

Send(r, lines, sent, told) ==
    /\ Len(Wire(r)) <= HighWater
    /\ stream' = [stream EXCEPT ![r].sent = sent, ![r].told = told,
                                ![r].wire = IF Link(r) = "up" THEN @ \o lines ELSE @]

YieldToken(r) ==
    /\ Pull(r)
    /\ Send(r, TokenEvent(Answer[work[r].tokens]), stream[r].sent + 1, "none")

\* The pipeline has come to its end, and the generator not.
Closing(r, status) == pc[r] = "ended" /\ result[r].status = status /\ UNCHANGED <<caches, pipeline>>

\* Where the model said what it used.
YieldUsage(r) ==
    /\ Closing(r, "answered") /\ stream[r].told = "none"
    /\ Send(r, NamedEvent("metadata", Usage), stream[r].sent, "usage")

YieldDone(r) ==
    /\ Closing(r, "answered") /\ stream[r].told \in {"none", "usage"}
    /\ Send(r, <<Line("data", Done)>>, stream[r].sent, "done")

\* Mutant: a failure ends the stream like an answer.
YieldQuietError(r) ==
    /\ Closing(r, "failed") /\ stream[r].told = "none"
    /\ Send(r, <<Line("data", Done)>>, stream[r].sent, "error")

YieldError(r) ==
    /\ Closing(r, "failed") /\ stream[r].told = "none"
    /\ Send(r, NamedEvent("error", Failure), stream[r].sent, "error")

\* The response is cancelled as its client is gone: at an await of the pipeline, or
\* while the generator is suspended at a token.
Disconnected(r) ==
    /\ Link(r) # "up"
    /\ CloseEarly(r) \/ Cancel(r)
    /\ UNCHANGED stream

-----------------------------------------------------------------------------
(* The client: rag_stream, and httpx below it *)

Reader(r, f)  == stream' = [stream EXCEPT ![r] = f]
Leaves(f, how) == [f EXCEPT !.at = how, !.link = IF @ = "up" THEN "left" ELSE @]

\* The status is sent before the generator runs.
RaiseForStatus(r) ==
    /\ stream[r].at = "idle" /\ pc[r] # "idle" /\ Link(r) = "up"
    /\ Reader(r, IF result[r].status \in {"limited", "forbidden", "unauthorized"}
                 THEN Leaves(stream[r], "refused") ELSE [stream[r] EXCEPT !.at = "reading"])

Ends(line)          == line.field = "data" /\ line.value = Done
Names(line)         == line.field = "event"
Tells(line, event)  == ~Ends(line) /\ ~Names(line) /\ event = "metadata"
Raises(line, event) == ~Ends(line) /\ ~Names(line) /\ event = "error"

ReadLine(r) ==
    /\ stream[r].at = "reading" /\ Wire(r) # <<>>
    /\ LET line == Head(Wire(r))
           f == [stream[r] EXCEPT !.wire = Tail(@)]
       IN  Reader(r, CASE Ends(line)            -> Leaves(f, "ended")
                       [] Names(line)           -> [f EXCEPT !.event = line.value]
                       [] Tells(line, f.event)  -> [f EXCEPT !.event = None]
                       [] Raises(line, f.event) -> Leaves(f, "failed")
                       [] OTHER -> [f EXCEPT !.event = None, !.at = "yielded", !.got = Append(@, line.value)])

\* An incomplete body is an error, and so is a server that is silent for too long. The
\* end of a whole body is never read: the line in front of it ends the loop.
BreakOff(r) ==
    /\ stream[r].at = "reading" \/ (stream[r].at = "idle" /\ pc[r] # "idle")
    /\ Wire(r) = <<>>
    /\ Link(r) = "cut" \/ stream[r].told \notin {"done", "error"}
    /\ Reader(r, Leaves(stream[r], "broken"))

NextChunk(r) == stream[r].at = "yielded" /\ Reader(r, [stream[r] EXCEPT !.at = "reading"])
CloseIterator(r) == stream[r].at = "yielded" /\ Reader(r, Leaves(stream[r], "closed"))

\* What was on its way arrives in part.
Cut(r) ==
    /\ Link(r) = "up" /\ pc[r] # "idle"
    /\ \E n \in 0 .. Len(Wire(r)) :
         Reader(r, [stream[r] EXCEPT !.link = "cut", !.wire = SubSeq(@, 1, n)])

Yield(r)   == Streams(r) /\ (YieldToken(r) \/ YieldUsage(r) \/ YieldDone(r) \/ YieldError(r) \/ Disconnected(r))
Iterate(r) == Streams(r) /\ (RaiseForStatus(r) \/ ReadLine(r) \/ BreakOff(r)) /\ UNCHANGED <<caches, pipeline>>
Wanders(r) == Streams(r) /\ (NextChunk(r) \/ CloseIterator(r) \/ Cut(r)) /\ UNCHANGED <<caches, pipeline>>
=============================================================================
