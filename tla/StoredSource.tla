---------------------------- MODULE StoredSource ----------------------------
(***************************************************************************)
(* What a source names outside the program, and how the local and the S3   *)
(* resolver keep to what they found there: docpipe.sources.local_io and    *)
(* docpipe.sources.s3.transfer.  A file is an inode, an object a version;  *)
(* only a file is ever written in place.                                   *)
(***************************************************************************)
EXTENDS Naturals, Sequences, Artifact

CONSTANTS
    Texts,    \* contents: sequences of fragments
    Original  \* those a source may have at first

VARIABLES
    kind,     \* of the source: local, s3 or http
    pin,      \* how the store lets a version be named: version, etag, none
    files,    \* every inode or version there was: [text, stamp, past, quiet]
    at        \* the one the path or key names now; 0: none

world == <<files, at>>

\* past and quiet are history: the contents so far with their modification times, and
\* whether one came with the size and the time of another.
Content(text, stamp) == [text |-> text, stamp |-> stamp]
File(text) == [text |-> text, stamp |-> 0, past |-> {Content(text, 0)}, quiet |-> FALSE]

WorldInit ==
    /\ kind \in {"local", "s3", "http"}
    /\ pin \in IF kind = "s3" THEN {"version", "etag", "none"} ELSE {"none"}
    /\ IF kind = "http" THEN files = <<>> /\ at = 0
       ELSE \E t \in Original : files = <<File(t)>> /\ at = 1

\* A new file renamed over the old one, or a new object put under the key.
PutNew ==
    \E t \in Texts : files' = Append(files, File(t)) /\ at' = Len(files) + 1 /\ UNCHANGED <<kind, pin>>

WriteInPlace ==
    /\ kind = "local" /\ at # 0
    /\ \E t \in Texts, stamp \in {files[at].stamp, files[at].stamp + 1} :
         files' = [files EXCEPT ![at] =
                     [text |-> t, stamp |-> stamp, past |-> @.past \cup {Content(t, stamp)},
                      quiet |-> \/ @.quiet
                                \/ \E c \in @.past : c.stamp = stamp /\ Len(c.text) = Len(t)]]
    /\ UNCHANGED <<kind, pin, at>>

Vanish == at # 0 /\ at' = 0 /\ UNCHANGED <<kind, pin, files>>

-----------------------------------------------------------------------------
\* What open_checked compares, and what an S3 read asks for; taken when the source
\* was resolved.
Identity(n) == [n |-> n, stamp |-> files[n].stamp, size |-> Len(files[n].text)]

\* open_checked for a source that was resolved to id, or that is being resolved.
Unchanged(id) == at # 0 /\ Len(files[at].text) <= MaxBytes /\ (id # None => Identity(at) = id)

\* get_object: the version named, or the current one if its ETag (its content) is
\* still the one seen; 0 when the store refuses.
Got(n, etag) ==
    IF pin = "version" THEN n
    ELSE IF at # 0 /\ (pin = "etag" => files[at].text = etag) THEN at ELSE 0
=============================================================================
