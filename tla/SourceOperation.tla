--------------------------- MODULE SourceOperation ---------------------------
(***************************************************************************)
(* One source from its name to the parsed document: the selector of        *)
(* docpipe.sources.selection resolves it in scopes of its own, and the     *)
(* adapter of docpipe.parsers.input_adapter gives the handle to a parser.  *)
(* The source changes meanwhile, and the operation may be cancelled.       *)
(***************************************************************************)
EXTENDS SourceHandle, HttpDownload

CONSTANTS
    Main,        \* the task the operation waits for: the parser itself
    Requested,   \* the URLs that are asked for
    MaxChanges   \* BOUND: changes of the source outside the program

\* A file as fstat or a version as head_object describes it; what has been read of it
\* before it is resolved; what it is resolved to.
Contents   == Seq(Fragments)
Identities == [n: Nat, stamp: Nat, size: Nat]
Seen       == [id: Identities, etag: Contents, n: Nat, got: Contents]
Descriptor == [n: Nat, id: Identities \cup {None}, etag: Contents \cup {None}, text: Contents]

ASSUME OperationAssumption ==
    /\ Main \in Tasks /\ MaxChanges \in Nat /\ Requested \subseteq Urls
    /\ Texts \cup Original \subseteq Contents
    /\ None \notin Contents \cup Identities \cup Seen \cup Descriptor

VARIABLES
    opc,       \* where the operation is
    aware,     \* whether the parser takes the handle; otherwise it wants a path
    client,    \* of the resolver: none, open, closed
    hash,      \* local and S3: what has been read to resolve it: [id, etag, n, got]
    cancelled, \* history: the operation was cancelled
    changes

fixed == <<kind, pin, aware>>
own   == <<opc, client, hash, cancelled>>
vars  == <<fixed, world, disk, handle, download, own, changes>>

Init ==
    /\ WorldInit /\ HandleInit /\ disk = None
    /\ \E u \in Requested : DownloadInit(u) /\ (kind # "http" => u = CHOOSE v \in Requested : TRUE)
    /\ opc = "idle" /\ aware \in BOOLEAN /\ client = "none" /\ hash = None
    /\ cancelled = FALSE /\ changes = 0

Step(p) == opc' = p

-----------------------------------------------------------------------------
(* Resolving *)

\* The scheme, the plugin, its options and its temporary root; then the scopes and
\* the resolver, which has a client if its sources are remote.
Select ==
    /\ opc = "idle" /\ (Step("acquire") \/ Step("ended"))
    /\ UNCHANGED <<fixed, world, disk, handle, download, client, hash, cancelled, changes>>

\* The resolver is built in the scope, and its client opened with it.
AcquireFails ==
    /\ opc = "acquire" /\ Step("exit")
    /\ UNCHANGED <<fixed, world, disk, handle, download, client, hash, cancelled, changes>>

Acquire ==
    /\ opc = "acquire" /\ Step("resolve")
    /\ client' = IF kind = "local" THEN "none" ELSE "open"
    /\ UNCHANGED <<fixed, world, disk, handle, download, hash, cancelled, changes>>

\* Outside the policy of the resolver, or failed halfway.
ResolveFails ==
    /\ opc = "resolve" /\ kind # "http" /\ Step("exit")
    /\ UNCHANGED <<fixed, world, disk, handle, download, client, hash, cancelled, changes>>

Return(d) == Enter(d) /\ Step("work")

\* BOUND: how a file was downloaded is not distinguished any more.
Forget == /\ url' = CHOOSE u \in Requested : TRUE
          /\ hop' = 0 /\ declared' = None /\ contacts' = <<>> /\ UNCHANGED phase

Downloading ==
    /\ opc = "resolve" /\ kind = "http"
    /\ CASE phase = "idle"   -> StartDownload /\ UNCHANGED <<handle, opc>>
         [] phase = "failed" -> Step("exit") /\ UNCHANGED <<handle, download, disk>>
         [] phase = "done"   -> /\ Return([n |-> 0, id |-> None, etag |-> None, text |-> disk])
                                /\ Forget /\ UNCHANGED disk
         [] OTHER            -> Interrupt /\ UNCHANGED <<handle, opc>>
    /\ UNCHANGED <<fixed, world, client, hash, cancelled, changes>>

WebReplies ==
    /\ opc = "resolve" /\ Reply
    /\ UNCHANGED <<fixed, world, handle, own, changes>>

\* inspect_and_hash opens the file; head_object shows the object.
Inspect ==
    /\ opc = "resolve" /\ kind # "http" /\ hash = None
    /\ IF Unchanged(None)
       THEN /\ hash' = [id |-> Identity(at), etag |-> files[at].text, got |-> <<>>,
                        n |-> IF kind = "local" THEN at ELSE 0]
            /\ UNCHANGED opc
       ELSE Step("exit") /\ UNCHANGED hash
    /\ UNCHANGED <<fixed, world, disk, handle, download, client, cancelled, changes>>

\* S3: the object is asked for again, pinned to what was seen.
HashBegins ==
    /\ opc = "resolve" /\ kind = "s3" /\ hash # None /\ hash.n = 0
    /\ LET n == Got(hash.id.n, hash.etag)
       IN  IF n = 0 \/ Len(files[n].text) > MaxBytes THEN Step("exit") /\ UNCHANGED hash
           ELSE hash' = [hash EXCEPT !.n = n] /\ UNCHANGED opc
    /\ UNCHANGED <<fixed, world, disk, handle, download, client, cancelled, changes>>

Hashing == opc = "resolve" /\ hash # None /\ hash.n # 0

HashFragment ==
    /\ Hashing /\ Len(hash.got) < Len(files[hash.n].text)
    /\ IF Len(hash.got) >= MaxBytes THEN Step("exit") /\ UNCHANGED hash
       ELSE hash' = [hash EXCEPT !.got = Append(@, files[hash.n].text[Len(@) + 1])] /\ UNCHANGED opc
    /\ UNCHANGED <<fixed, world, disk, handle, download, client, cancelled, changes>>

\* The file must not have changed meanwhile, the object must have the size declared.
StillTheSame ==
    IF kind = "local" THEN Identity(hash.n) = hash.id ELSE Len(hash.got) = hash.id.size

HashEnds ==
    /\ Hashing /\ Len(hash.got) >= Len(files[hash.n].text)
    /\ IF StillTheSame
       THEN Return([n |-> hash.id.n, id |-> hash.id, etag |-> hash.etag, text |-> hash.got])
       ELSE Step("exit") /\ UNCHANGED handle
    /\ UNCHANGED <<fixed, world, disk, download, client, hash, cancelled, changes>>

-----------------------------------------------------------------------------
(* Parsing *)

\* A parser that takes the handle does anything with it, in any of its tasks; the
\* others are given a path, or rejected after it was made.
Begins(t) ==
    /\ opc \notin {"idle", "acquire", "resolve"} /\ desc # None
    /\ IF aware THEN Open(t) \/ Materialize(t) ELSE t = Main /\ Materialize(t)

Rejected(t) == ~aware /\ use[t].pc = "path" /\ Break(t)

Continues(t) == Recheck(t) \/ EnterArtifact(t) \/ Parse(t) \/ Rejected(t) \/ Deadline(t)

Reads(t) ==
    Start(t) \/ Fragment(t) \/ EndOfStream(t) \/ GetObject(t) \/ WriteFragment(t) \/ Complete(t)

Works(t) ==
    /\ Begins(t) \/ Continues(t) \/ Reads(t)
    /\ UNCHANGED <<fixed, world, download, own, changes>>

\* A task of the parser closes the handle it was given.
Closes(t) ==
    /\ aware /\ t # Main /\ desc # None
    /\ \/ use[t].pc = "idle" /\ Close(t) /\ Goto(t, IF closer' = t THEN "closing" ELSE "done")
       \/ use[t].pc = "closing" /\ CloseReturns(t) /\ Goto(t, "done")
    /\ UNCHANGED <<fixed, world, download, own, changes>>

\* What a task does without anything from outside.
Proceeds(t) ==
    /\ \/ Continues(t) /\ UNCHANGED <<fixed, world, download, own, changes>>
       \/ kind # "s3" /\ Reads(t) /\ UNCHANGED <<fixed, world, download, own, changes>>
       \/ use[t].pc = "closing" /\ Closes(t)

-----------------------------------------------------------------------------
(* Closing: the adapter closes the handle, the selector closes it once more, and *)
(* the scope of the operation closes the resolver.                               *)

Leave ==
    /\ \/ /\ opc = "work" /\ use[Main].pc \in Ended
          /\ Step("close") /\ UNCHANGED <<handle, disk>>
       \/ /\ opc = "close" /\ Close(Owner) /\ UNCHANGED use
          /\ Step(IF closer' = Owner THEN "cleanup" ELSE "close again")
       \/ opc = "cleanup" /\ CloseReturns(Owner) /\ Step("close again") /\ UNCHANGED use
       \/ opc = "close again" /\ closer = None /\ Step("exit") /\ UNCHANGED <<handle, disk>>
       \/ opc = "exit" /\ Step(IF client = "open" THEN "exiting" ELSE "ended") /\ UNCHANGED <<handle, disk>>
    /\ UNCHANGED <<fixed, world, download, client, hash, cancelled, changes>>

ClientCloses ==
    /\ opc = "exiting" /\ client' = "closed" /\ Step("ended")
    /\ UNCHANGED <<fixed, world, disk, handle, download, hash, cancelled, changes>>

Unlinks == Unlink /\ UNCHANGED <<fixed, world, download, own, changes>>

\* The operation is cancelled where it awaits something.
Cancel ==
    /\ ~cancelled /\ cancelled' = TRUE  \* BOUND
    /\ \/ /\ opc = "acquire" /\ Step("exit") /\ UNCHANGED <<handle, download, disk, client>>
       \/ /\ opc = "resolve" /\ phase # "done" /\ Step("exit")
          /\ IF Waiting THEN Interrupt ELSE UNCHANGED <<download, disk>>
          /\ UNCHANGED <<handle, client>>
       \/ /\ opc = "work" /\ Step("close") /\ Cancelled(Main) /\ UNCHANGED <<download, client>>
       \/ /\ opc = "close" /\ closer # None /\ Step("close again")
          /\ UNCHANGED <<handle, download, disk, client>>
       \/ /\ opc = "cleanup" /\ Step("close again") /\ CloseCancelled(Owner)
          /\ UNCHANGED <<use, download, client>>
       \/ /\ opc = "close again" /\ closer # None /\ Step("exit")
          /\ UNCHANGED <<handle, download, disk, client>>
       \/ /\ opc = "exiting" /\ Step("ended")
          /\ \/ client' = "closed" /\ UNCHANGED lost  \* the job had started
             \/ lost' = TRUE /\ UNCHANGED client
          /\ UNCHANGED <<lifecycle, artifact, writer, use, download, disk>>
    /\ UNCHANGED <<fixed, world, hash, changes>>

SourceChanges ==
    /\ changes < MaxChanges /\ changes' = changes + 1  \* BOUND
    /\ PutNew \/ WriteInPlace \/ Vanish
    /\ UNCHANGED <<aware, disk, handle, download, own>>

Remote ==
    \/ WebReplies
    \/ kind = "s3" /\ (Inspect \/ HashBegins \/ HashFragment \/ HashEnds)

Operates ==
    \/ Select \/ Acquire \/ AcquireFails \/ ResolveFails \/ Downloading \/ Leave \/ ClientCloses
    \/ kind = "local" /\ (Inspect \/ HashFragment \/ HashEnds)

Next ==
    \/ Operates \/ Remote \/ Unlinks \/ Cancel \/ SourceChanges
    \/ \E t \in Tasks : Works(t) \/ Closes(t)

\* Servers owe nothing, deadlines do; threads finish what they started, and so do
\* parsers: the one that is awaited begins.
Spec ==
    /\ Init /\ [][Next]_vars
    /\ WF_vars(Operates) /\ WF_vars(Unlinks) /\ WF_vars(Works(Main) /\ use[Main].pc = "idle")
    /\ \A t \in Tasks : WF_vars(Proceeds(t))

-----------------------------------------------------------------------------
(* Properties *)

\* The types, the locks, and the one-way life of a handle.
SourceInv ==
    /\ phase \in {"idle", "connect", "sent", "body", "done", "failed"}
    /\ opc \in {"idle", "acquire", "resolve", "work", "close", "cleanup", "close again",
                "exit", "exiting", "ended"}
    /\ disk = None \/ Len(disk) <= MaxBytes
    /\ active => ~closed /\ desc # None
    /\ opc = "work" => active \/ closed
    /\ closed /\ unlinking = "none" => ~artifact \/ overtaken
    /\ closer # None => closed /\ unlinking # "none"
    /\ writer # None => use[writer].pc \in {"getting", "writing"} /\ disk # None
    /\ \A t \in Tasks : use[t].pc \in {"getting", "writing"} => writer = t

\* The fingerprint is of a content the source had, and whoever reads the source to
\* its end, or is given a path, gets that content: unless the file was changed with
\* its stamp left alone or while it was read, or the store names no versions.
FingerprintHolds ==
    desc # None =>
        /\ kind = "local" => (\E c \in files[desc.n].past : c.text = desc.text) \/ files[desc.n].quiet
        /\ kind = "s3" /\ pin # "none" => desc.text = files[desc.n].text
        /\ \A t \in Tasks :
             /\ use[t].pc = "streamed" /\ use[t].got # desc.text =>
                  \/ kind = "local" /\ (files[desc.n].quiet \/ Identity(desc.n) # desc.id)
                  \/ kind = "s3" /\ pin = "none" /\ at # desc.n
             /\ use[t].pc \in WithPath /\ kind # "local" /\ active => disk = desc.text

\* The artifact is there while the awaited parser reads it (unless the parser closed
\* the handle itself), and in the end neither it nor the client is left: unless a task
\* that outlived the parser was still writing it when the handle was closed, or a
\* blocking call failed or was cancelled in its queue.
AtRest ==
    /\ opc = "ended" /\ unlinking \notin {"queued", "running"}
    /\ \A t \in Tasks : use[t].pc \notin Materializing
ArtifactsReleased ==
    /\ opc = "work" /\ use[Main].pc \in WithPath /\ kind # "local" => disk # None \/ closed
    /\ AtRest => /\ disk # None => lost \/ (overtaken /\ aware)
                 /\ client = "open" => lost

\* Whatever the servers do, an operation ends, and so does every task of the parser.
OperationsEnd ==
    /\ opc # "idle" ~> opc = "ended"
    /\ \A t \in Tasks : use[t].pc # "idle" ~> use[t].pc \in Ended
=============================================================================
