---------------------------- MODULE HttpDownload ----------------------------
(***************************************************************************)
(* One download: docpipe.sources.http_download over the pinned transport.  *)
(* Every hop opens a connection of its own: the response of a redirect is  *)
(* closed unread.  Name servers and web servers answer what they like.     *)
(***************************************************************************)
EXTENDS NetworkPolicy, Artifact, SequencesExt

CONSTANTS
    Urls,          \* the URLs a client may ask for or a server redirect to
    Answers,       \* what a name server may answer: sequences of Addresses
    Fragments,     \* what a fragment of content may hold
    MaxRedirects   \* beside MaxBytes, for which a fragment counts 1

ASSUME DownloadAssumption ==
    /\ MaxRedirects \in Nat /\ MaxBytes \in Nat \ {0} /\ None \notin Urls
    /\ Answers \subseteq Seq(Addresses)

VARIABLES
    phase,     \* idle, connect, sent, body, done, failed
    url,       \* of this hop
    hop,
    declared,  \* the length the response declares, or None
    contacts   \* the connections made: [url, answers, peer]

visited  == {contacts[i].url : i \in DOMAIN contacts} \cup {url}
download == <<phase, url, hop, declared, contacts>>

DownloadInit(source) ==
    /\ phase = "idle" /\ url = source /\ hop = 0 /\ declared = None /\ contacts = <<>>

\* Mutant: only reading the body is under the deadline.
WaitingForBody == phase = "body"

Waiting == phase \in {"connect", "sent", "body"}  \* the awaits of the coroutine

\* Mutant: the file stays when the download does not complete.
AbortKeepsFile ==
    /\ phase' = "failed"
    /\ UNCHANGED <<url, hop, declared, contacts, disk>>

\* However a download ends early, the finally clause removes its file.
Abort ==
    /\ phase' = "failed" /\ disk' = None
    /\ UNCHANGED <<url, hop, declared, contacts>>

\* The top of the loop.
Visit(u, n, before) ==
    IF Inspected(u) /\ u \notin before
    THEN phase' = "connect" /\ url' = u /\ hop' = n /\ UNCHANGED <<declared, contacts, disk>>
    ELSE Abort

StartDownload == phase = "idle" /\ Visit(url, 0, {})

\* The name is resolved for this connection, and only for it.
Connect ==
    /\ phase = "connect"
    /\ \E answers \in IF url.host \in Addresses THEN {<<url.host>>} ELSE Answers :
         IF Connectable(url, answers)
         THEN /\ contacts' = Append(contacts, [url |-> url, answers |-> answers,
                                               peer |-> Pinned(answers)])
              /\ phase' = "sent" /\ UNCHANGED <<url, hop, declared, disk>>
         ELSE Abort

Redirect ==
    /\ phase = "sent"
    /\ \E u \in Urls \cup {None} :
         IF u = None \/ hop >= MaxRedirects THEN Abort
         ELSE IF url.scheme = "https" /\ u.scheme # "https" THEN Abort
         ELSE Visit(u, hop + 1, visited)

\* A status outside 2xx, an encoded body or a bad length.
Unacceptable == phase = "sent" /\ Abort

Accept ==
    /\ phase = "sent"
    /\ \E n \in {None} \cup 0 .. MaxBytes + 1 :
         IF n = MaxBytes + 1 THEN Abort
         ELSE phase' = "body" /\ declared' = n /\ disk' = <<>> /\ UNCHANGED <<url, hop, contacts>>

Receive ==
    /\ phase = "body"
    /\ \E f \in Fragments :
         IF Len(disk) + 1 > MaxBytes THEN Abort
         ELSE disk' = Append(disk, f) /\ UNCHANGED download

Finish ==
    /\ phase = "body"
    /\ IF declared # None /\ declared # Len(disk) THEN Abort
       ELSE phase' = "done" /\ UNCHANGED <<url, hop, declared, contacts, disk>>

Reply == Connect \/ Redirect \/ Unacceptable \/ Accept \/ Receive \/ Finish

\* The deadline of the whole download, a broken connection, a cancellation.
Interrupt == Waiting /\ Abort

-----------------------------------------------------------------------------
\* Every connection went to an address allowed by the policy, on an allowed port,
\* and no name server had given a forbidden address beside it, however its answers
\* changed; the chain never leaves HTTPS, repeats a URL or outgrows its limit.
SafeContacts ==
    /\ Len(contacts) <= MaxRedirects + 1
    /\ \A i \in DOMAIN contacts :
         LET c == contacts[i]
         IN  /\ \A a \in ToSet(c.answers) \cup {c.peer} : a \in Globals \/ AllowPrivate
             /\ PortOf(c.url) \in AllowedPorts
             /\ \A j \in 1 .. i - 1 : /\ contacts[j].url # c.url
                                      /\ contacts[j].url.scheme = "https" => c.url.scheme = "https"
=============================================================================
