---------------------------- MODULE SourceHandle ----------------------------
(***************************************************************************)
(* A resolved source while it is used: the one-shot handle of              *)
(* docpipe.plugins.contracts.source.handle with the stream, materialize    *)
(* and cleanup callbacks of the local, HTTP and S3 resolvers.  Tasks of    *)
(* the parser use it at will; some may outlive the block that owns it.     *)
(***************************************************************************)
EXTENDS StoredSource, FiniteSets, SequencesExt

CONSTANTS Tasks, Owner  \* the tasks of the parser; the one that resolved the source

ASSUME HandleAssumption == Owner \notin Tasks /\ None \notin Tasks \cup {Owner}

VARIABLES
    desc,      \* of the resolved source: [n, id, etag, text], text being fingerprinted
    active, closed,
    closer,    \* the task that holds the close lock
    unlinking, \* the blocking job that removes the artifact: none, queued, running, ended
    artifact,  \* S3: whether a materialized artifact has been recorded
    writer,    \* S3: the task that holds the artifact lock
    use,       \* of a task: [pc, n, text, got]
    lost,      \* history: a blocking job was cancelled in its queue, or failed
    overtaken  \* history: the handle was closed while an artifact was being written

lifecycle == <<desc, active, closed, closer, unlinking, overtaken>>
handle    == <<lifecycle, artifact, writer, use, lost>>

HandleInit ==
    /\ desc = None /\ active = FALSE /\ closed = FALSE /\ closer = None
    /\ unlinking = "none" /\ artifact = FALSE /\ writer = None
    /\ use = [t \in Tasks |-> [pc |-> "idle", n |-> 0, text |-> <<>>, got |-> <<>>]]
    /\ lost = FALSE /\ overtaken = FALSE

Goto(t, p)   == use' = [use EXCEPT ![t].pc = p]
Streaming    == {"opened", "reading"}
Materializing == {"locking", "getting", "writing"}
WithPath     == {"path", "parsing"}
Ended        == {"streamed", "done", "error"}

-----------------------------------------------------------------------------
(* Streams.  Whatever is read is handed on only if the handle is still active. *)

Open(t) ==
    /\ use[t].pc = "idle"
    /\ Goto(t, IF active THEN "opened" ELSE "error")
    /\ UNCHANGED <<lifecycle, artifact, writer, lost, disk>>

\* The stream callback runs at the first fragment asked for.
Start(t) ==
    /\ use[t].pc = "opened"
    /\ \/ /\ kind = "http"
          /\ IF disk = None THEN Goto(t, "error")
             ELSE use' = [use EXCEPT ![t].pc = "reading", ![t].text = disk]
       \/ /\ kind = "local"
          /\ IF Unchanged(desc.id) THEN use' = [use EXCEPT ![t].pc = "reading", ![t].n = at]
             ELSE Goto(t, "error")
       \/ /\ kind = "s3"
          /\ LET n == Got(desc.n, desc.etag)
             IN  IF n = 0 \/ Len(files[n].text) > MaxBytes THEN Goto(t, "error")
                 ELSE use' = [use EXCEPT ![t].pc = "reading", ![t].n = n]
    /\ UNCHANGED <<lifecycle, artifact, writer, lost, disk>>

\* An open file shows what is written in place; an object's body does not change.
Source(t) == IF kind = "http" THEN use[t].text ELSE files[use[t].n].text

Fragment(t) ==
    /\ use[t].pc = "reading" /\ Len(use[t].got) < Len(Source(t))
    /\ IF active /\ Len(use[t].got) < MaxBytes
       THEN use' = [use EXCEPT ![t].got = Append(@, Source(t)[Len(@) + 1])]
       ELSE Goto(t, "error")
    /\ UNCHANGED <<lifecycle, artifact, writer, lost, disk>>

EndOfStream(t) ==
    /\ use[t].pc = "reading" /\ Len(use[t].got) >= Len(Source(t))
    /\ Goto(t, "streamed")
    /\ UNCHANGED <<lifecycle, artifact, writer, lost, disk>>

-----------------------------------------------------------------------------
(* Materializing *)

Materialize(t) ==
    /\ use[t].pc = "idle"
    /\ Goto(t, IF ~active THEN "error"
               ELSE CASE kind = "http"  -> IF disk # None THEN "path" ELSE "error"
                      [] kind = "local" -> "checking"
                      [] OTHER          -> "locking")
    /\ UNCHANGED <<lifecycle, artifact, writer, lost, disk>>

\* The file is opened once more, and the handle must still be active.
Recheck(t) ==
    /\ use[t].pc = "checking"
    /\ Goto(t, IF Unchanged(desc.id) /\ active THEN "path" ELSE "error")
    /\ UNCHANGED <<lifecycle, artifact, writer, lost, disk>>

\* Mutant: no lock around the artifact.
EnterUnlocked(t) ==
    /\ use[t].pc = "locking"
    /\ IF artifact THEN Goto(t, IF active THEN "path" ELSE "error") /\ UNCHANGED <<writer, disk>>
       ELSE Goto(t, "getting") /\ writer' = t /\ disk' = <<>>
    /\ UNCHANGED <<lifecycle, artifact, lost>>

\* One artifact serves every call: the first call writes it, under the lock.
EnterArtifact(t) ==
    /\ use[t].pc = "locking" /\ writer = None
    /\ IF artifact THEN Goto(t, IF active THEN "path" ELSE "error") /\ UNCHANGED <<writer, disk>>
       ELSE Goto(t, "getting") /\ writer' = t /\ disk' = <<>>
    /\ UNCHANGED <<lifecycle, artifact, lost>>

\* The finally clause of materialize_object.
Discard(t) == disk' = None /\ writer' = None /\ Goto(t, "error") /\ UNCHANGED artifact

GetObject(t) ==
    /\ use[t].pc = "getting"
    /\ LET n == Got(desc.n, desc.etag)
       IN  IF n = 0 \/ Len(files[n].text) > MaxBytes THEN Discard(t)
           ELSE use' = [use EXCEPT ![t].pc = "writing", ![t].n = n] /\ UNCHANGED <<disk, writer, artifact>>
    /\ UNCHANGED <<lifecycle, lost>>

WriteFragment(t) ==
    /\ use[t].pc = "writing" /\ Len(disk) < Len(Source(t))
    /\ disk' = Append(disk, Source(t)[Len(disk) + 1])
    /\ UNCHANGED handle

\* Mutant: the digest of what was written is not compared.
CompleteUnverified(t) ==
    /\ use[t].pc = "writing" /\ Len(disk) >= Len(Source(t))
    /\ artifact' = TRUE /\ writer' = None
    /\ Goto(t, IF active THEN "path" ELSE "error")
    /\ UNCHANGED <<lifecycle, lost, disk>>

\* The digest must be the one of the descriptor; then the artifact is recorded, and
\* only then is the handle asked whether it is still active.
Complete(t) ==
    /\ use[t].pc = "writing" /\ Len(disk) >= Len(Source(t))
    /\ IF disk # desc.text THEN Discard(t)
       ELSE /\ artifact' = TRUE /\ writer' = None
            /\ Goto(t, IF active THEN "path" ELSE "error")
            /\ UNCHANGED disk
    /\ UNCHANGED <<lifecycle, lost>>

\* An S3 transfer breaks or meets its deadline; a task is cancelled in the middle.
Break(t) ==
    /\ IF use[t].pc \in {"getting", "writing"} THEN Discard(t)
       ELSE Goto(t, "error") /\ UNCHANGED <<disk, writer, artifact>>
    /\ UNCHANGED <<lifecycle, lost>>

Deadline(t) == kind = "s3" /\ use[t].pc \in {"opened", "reading", "getting", "writing"} /\ Break(t)

\* The parser reads the path, in a worker thread or by itself, and returns.
Parse(t) ==
    /\ \/ use[t].pc = "path" /\ Goto(t, "parsing")
       \/ use[t].pc \in {"parsing", "orphan"} /\ Goto(t, "done")
    /\ UNCHANGED <<lifecycle, artifact, writer, lost, disk>>

\* A synchronous parser goes on in its thread when the task that called it is
\* cancelled; everything else stops.
Cancelled(t) ==
    /\ use[t].pc \notin Ended
    /\ IF use[t].pc = "parsing"
       THEN \E p \in {"orphan", "error"} : Goto(t, p) /\ UNCHANGED <<lifecycle, artifact, writer, lost, disk>>
       ELSE Break(t)

-----------------------------------------------------------------------------
(* Entering and closing *)

\* The resolver returns the handle, and the adapter enters it at once.
Enter(d) ==
    /\ desc' = d /\ active' = TRUE
    /\ UNCHANGED <<closed, closer, unlinking, overtaken, artifact, writer, use, lost>>

\* Only an artifact that has been recorded is removed; a local file is the caller's.
MustUnlink == kind = "http" \/ (kind = "s3" /\ artifact)

\* aclose up to its first suspension; whoever finds the handle closed just returns.
Close(c) ==
    /\ closer = None
    /\ active' = FALSE /\ closed' = TRUE
    /\ overtaken' = (overtaken \/ (~closed /\ \E t \in Tasks : use[t].pc \in Materializing))
    /\ IF ~closed /\ MustUnlink THEN closer' = c /\ unlinking' = "queued"
       ELSE UNCHANGED <<closer, unlinking>>
    /\ UNCHANGED <<desc, artifact, writer, lost, disk>>

CloseReturns(c) ==
    /\ closer = c /\ unlinking = "ended" /\ closer' = None
    /\ UNCHANGED <<desc, active, closed, unlinking, overtaken, artifact, writer, lost, disk>>

\* The lock is released, and nobody runs the cleanup again.
CloseCancelled(c) ==
    /\ closer = c /\ closer' = None
    /\ IF unlinking = "queued" THEN unlinking' = "ended" /\ lost' = TRUE
       ELSE UNCHANGED <<unlinking, lost>>
    /\ UNCHANGED <<desc, active, closed, overtaken, artifact, writer, disk>>

\* The thread that unlinks, which may fail.
Unlink ==
    /\ \/ unlinking = "queued" /\ unlinking' = "running" /\ UNCHANGED <<disk, lost>>
       \/ unlinking = "running" /\ unlinking' = "ended" /\ disk' = None /\ UNCHANGED lost
       \/ unlinking = "running" /\ unlinking' = "ended" /\ lost' = TRUE /\ UNCHANGED disk
    /\ UNCHANGED <<desc, active, closed, closer, overtaken, artifact, writer, use>>
=============================================================================
