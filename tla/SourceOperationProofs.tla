------------------------ MODULE SourceOperationProofs ------------------------
(***************************************************************************)
(* That a download contacts only what the policy allows, that a source is  *)
(* read as it was fingerprinted, and that nothing of it is left behind:    *)
(* the properties of docpipe.sources and docpipe.parsers.input_adapter,    *)
(* for every store, every web and every parser.                            *)
(***************************************************************************)
EXTENDS SourceOperation, SequenceTheorems, TLAPS

(* The inductive invariant *)

Versions == [text: Contents, stamp: Nat]
Inodes   == [text: Contents, stamp: Nat, past: SUBSET Versions, quiet: BOOLEAN]
Points   == {"idle", "opened", "reading", "streamed", "checking", "locking", "getting",
             "writing", "path", "parsing", "orphan", "closing", "done", "error"}
Uses     == [pc: Points, n: Nat, text: Contents, got: Contents]
Phases   == {"idle", "connect", "sent", "body", "done", "failed"}
Before   == {"idle", "acquire", "resolve"}
Within   == {"work", "close", "cleanup", "close again"}
After    == {"exit", "exiting", "ended"}

\* The types of the variables.
Types ==
    /\ kind \in {"local", "s3", "http"} /\ pin \in {"version", "etag", "none"}
    /\ aware \in BOOLEAN /\ opc \in Before \cup Within \cup After
    /\ client \in {"none", "open", "closed"} /\ phase \in Phases
    /\ desc \in Descriptor \cup {None} /\ hash \in Seen \cup {None}
    /\ disk \in Contents \cup {None}
    /\ files \in Seq(Inodes) /\ at \in 0 .. Len(files)
    /\ active \in BOOLEAN /\ closed \in BOOLEAN /\ artifact \in BOOLEAN
    /\ lost \in BOOLEAN /\ overtaken \in BOOLEAN
    /\ closer \in Tasks \cup {Owner, None} /\ writer \in Tasks \cup {None}
    /\ unlinking \in {"none", "queued", "running", "ended"}
    /\ use \in [Tasks -> Uses]

\* A chain of redirects: one connection for each hop, to a URL not visited before.
Contact == [url: Urls, answers: Seq(Addresses), peer: Addresses]
Chain ==
    /\ contacts \in Seq(Contact) /\ hop \in 0 .. MaxRedirects
    /\ phase \notin {"done", "failed"} => url \in Urls
    /\ phase = "idle" => contacts = <<>>
    /\ phase = "connect" =>
         /\ Len(contacts) = hop /\ Inspected(url)
         /\ \A i \in DOMAIN contacts : /\ contacts[i].url # url
                                       /\ contacts[i].url.scheme = "https" => url.scheme = "https"
    /\ phase \in {"sent", "body"} => Len(contacts) = hop + 1 /\ contacts[hop + 1].url = url

ChainInv == Chain /\ SafeContacts

\* How far the operation is, and what has become of the handle by then.
Life ==
    /\ opc \in Before => desc = None
    /\ opc \in Within => desc # None
    /\ desc = None => ~active /\ ~closed /\ ~artifact /\ \A t \in Tasks : use[t].pc = "idle"
    /\ desc # None => (active <=> ~closed)
    /\ opc \in {"cleanup", "close again"} => closed
    /\ opc \in After /\ desc # None => closed
    /\ opc \notin Before \cup {"work"} /\ desc # None => use[Main].pc \in Ended \cup {"orphan"}
    /\ closer # None => closed /\ unlinking # "none"
    /\ unlinking # "none" => closed /\ MustUnlink
    /\ closed /\ kind = "http" => unlinking # "none"
    /\ closed /\ unlinking = "none" => ~artifact \/ overtaken
    /\ closed => overtaken \/ \A t \in Tasks : use[t].pc \notin Materializing
    /\ ~aware => ~overtaken /\ \A t \in Tasks \ {Main} : use[t].pc = "idle"
    /\ opc \in {"idle", "acquire"} => client = "none"
    /\ opc = "ended" /\ client = "open" => lost

\* What the temporary file holds: a download, or the artifact of one task at a time.
OnDisk ==
    /\ kind # "http" => phase = "idle"
    /\ kind = "http" /\ desc = None =>
         /\ phase \notin {"body", "done"} => disk = None
         /\ phase \in {"body", "done"} => disk # None /\ opc = "resolve"
    /\ kind = "http" /\ desc # None => phase = "done"
    /\ kind = "local" => disk = None
    /\ kind = "s3" /\ disk # None => artifact \/ writer # None
    /\ disk # None => Len(disk) <= MaxBytes
    /\ unlinking = "ended" => disk = None \/ lost
    /\ artifact => kind = "s3"
    /\ writer # None => use[writer].pc \in {"getting", "writing"} /\ disk # None /\ ~artifact
    /\ \A t \in Tasks :
         /\ use[t].pc \in Materializing => kind = "s3"
         /\ use[t].pc = "checking" => kind = "local"
         /\ use[t].pc \in {"getting", "writing"} => writer = t
         /\ use[t].pc = "writing" => use[t].n \in DOMAIN files /\ Len(files[use[t].n].text) <= MaxBytes
         /\ use[t].pc \in WithPath /\ kind = "s3" => artifact

\* What is read of a source is as fingerprinted as long as the source stays what it
\* was: a file keeps its identity, and never took one it had before; an object is
\* still current, or named by its version or its content.
Stable(id) ==
    IF kind = "local" THEN ~files[id.n].quiet /\ Identity(id.n) = id
    ELSE at = id.n \/ pin # "none"

Starts(got, text) == Len(got) <= Len(text) /\ \A i \in 1 .. Len(got) : got[i] = text[i]

\* Every content a file has had is among its past.
Kept == \A n \in DOMAIN files : Content(files[n].text, files[n].stamp) \in files[n].past

\* Some content of the file had this identity.
Was(id) == \E c \in files[id.n].past : c.stamp = id.stamp /\ Len(c.text) = id.size

\* What has been hashed.
Hashed ==
    hash # None =>
        /\ kind # "http" /\ hash.id.n \in DOMAIN files /\ hash.n \in 0 .. Len(files)
        /\ kind = "local" => hash.n = hash.id.n /\ Was(hash.id)
        /\ kind = "s3" => hash.etag = files[hash.id.n].text
        /\ hash.n = 0 => hash.got = <<>>
        /\ hash.n # 0 /\ Stable(hash.id) => /\ files[hash.n].text = files[hash.id.n].text
                                            /\ Starts(hash.got, files[hash.n].text)

\* What the descriptor says.
Described ==
    desc # None /\ kind # "http" =>
        /\ hash # None /\ desc.id = hash.id /\ desc.n = desc.id.n /\ desc.etag = hash.etag
        /\ Stable(desc.id) => desc.text = files[desc.n].text
        /\ kind = "local" => (\E c \in files[desc.n].past : c.text = desc.text) \/ files[desc.n].quiet

\* What a task reads of a file or an object.
Reading(t) ==
    /\ use[t].n \in DOMAIN files
    /\ kind = "local" => use[t].n = desc.n
    /\ Stable(desc.id) =>
         /\ files[use[t].n].text = desc.text
         /\ use[t].pc = "reading" => Starts(use[t].got, desc.text)
         /\ use[t].pc = "streamed" => use[t].got = desc.text

\* What the tasks have read.
AsRead ==
    \A t \in Tasks :
        /\ use[t].pc \in {"idle", "opened"} => use[t].got = <<>>
        /\ use[t].pc \in {"reading", "streamed", "writing"} /\ kind # "http" => Reading(t)
        /\ use[t].pc \in {"reading", "streamed"} /\ kind = "http" =>
             /\ use[t].text = desc.text /\ Starts(use[t].got, desc.text)
             /\ use[t].pc = "streamed" => use[t].got = desc.text

\* What a path that is given out leads to.
AsStored ==
    /\ kind = "http" /\ desc # None => disk \in {None, desc.text}
    /\ kind = "http" /\ desc # None /\ unlinking = "none" => disk = desc.text
    /\ artifact /\ unlinking # "ended" => disk = desc.text

HInv == Types /\ Life /\ OnDisk /\ Kept /\ Hashed /\ Described /\ AsRead /\ AsStored
SInv == ChainInv /\ HInv

-----------------------------------------------------------------------------
(* A download *)

\* A download that is given up has made the contacts it had made.
LEMMA AbortChain == ASSUME ChainInv, Abort PROVE ChainInv'
BY DEF ChainInv, Chain, SafeContacts, Abort

\* A step that leaves the download alone.
LEMMA StillChain == ASSUME ChainInv, UNCHANGED download PROVE ChainInv'
BY DEF ChainInv, Chain, SafeContacts, download

\* The next hop is to a URL that none of the contacts was made for.
LEMMA VisitChain ==
    ASSUME ChainInv, NEW u \in Urls, NEW n \in 0 .. MaxRedirects, n = Len(contacts),
           NEW before, Visit(u, n, before),
           \A i \in DOMAIN contacts : /\ contacts[i].url \in before
                                      /\ contacts[i].url.scheme = "https" => u.scheme = "https"
    PROVE  ChainInv'
<1>1. CASE Abort
    BY <1>1, AbortChain
<1>2. CASE ~Abort
    <2>1. /\ Inspected(u) /\ u \notin before
          /\ phase' = "connect" /\ url' = u /\ hop' = n /\ UNCHANGED contacts
        BY <1>2 DEF Visit
    <2>2. Chain'
        BY <2>1 DEF ChainInv, Chain, Inspected, PortOf, Vetted, AllowedAddress
    <2>3. SafeContacts'
        BY <2>1 DEF ChainInv, SafeContacts
    <2> QED  BY <2>2, <2>3 DEF ChainInv
<1> QED  BY <1>1, <1>2

\* All addresses that the name server gave for a connection are allowed.
LEMMA VettedAnswers ==
    ASSUME NEW answers \in Seq(Addresses), Vetted(answers)
    PROVE  /\ Pinned(answers) \in Addresses
           /\ \A a \in ToSet(answers) \cup {Pinned(answers)} : a \in Globals \/ AllowPrivate
<1>1. Pinned(answers) = answers[1] /\ 1 \in DOMAIN answers /\ answers[1] \in Addresses
    BY DEF Vetted, Pinned
<1> QED  BY <1>1 DEF Vetted, AllowedAddress, ToSet

\* A connection adds a safe contact, and it is to a URL without one.
LEMMA ConnectChain == ASSUME ChainInv, Connect PROVE ChainInv'
<1>1. PICK answers :
        /\ answers \in (IF url.host \in Addresses THEN {<<url.host>>} ELSE Answers)
        /\ IF Connectable(url, answers)
           THEN /\ contacts' = Append(contacts, [url |-> url, answers |-> answers,
                                                 peer |-> Pinned(answers)])
                /\ phase' = "sent" /\ UNCHANGED <<url, hop, declared, disk>>
           ELSE Abort
    BY DEF Connect
<1>2. CASE ~Connectable(url, answers)
    BY <1>1, <1>2, AbortChain
<1>3. CASE Connectable(url, answers)
    <2> DEFINE c == [url |-> url, answers |-> answers, peer |-> Pinned(answers)]
    <2>1. answers \in Seq(Addresses) /\ url \in Urls /\ phase = "connect"
        <3>1. url \in Urls /\ phase = "connect"
            BY DEF Connect, ChainInv, Chain
        <3>2. CASE url.host \in Addresses
            <4>1. answers = <<url.host>>
                BY <1>1, <3>2
            <4> QED  BY <4>1, <3>1, <3>2
        <3>3. CASE url.host \notin Addresses
            BY <1>1, <3>3, <3>1, DownloadAssumption
        <3> QED  BY <3>2, <3>3
    <2>2. c \in Contact
        BY <1>3, <2>1, VettedAnswers DEF Connectable, Contact
    <2>3. /\ contacts \in Seq(Contact) /\ Len(contacts) = hop /\ hop \in 0 .. MaxRedirects
          /\ MaxRedirects \in Nat
        BY <2>1, DownloadAssumption DEF ChainInv, Chain
    <2>4. /\ contacts' = Append(contacts, c) /\ phase' = "sent" /\ url' = url /\ hop' = hop
        BY <1>1, <1>3
    <2>5. /\ contacts' \in Seq(Contact) /\ Len(contacts') = hop + 1
          /\ \A i \in 1 .. hop : contacts'[i] = contacts[i]
          /\ contacts'[hop + 1] = c /\ DOMAIN contacts' = 1 .. hop + 1 /\ DOMAIN contacts = 1 .. hop
        <3> HIDE DEF c
        <3> QED  BY <2>2, <2>3, <2>4
    <2>6. Chain'
        BY <2>1, <2>3, <2>4, <2>5 DEF Chain
    <2>7. /\ \A a \in ToSet(c.answers) \cup {c.peer} : a \in Globals \/ AllowPrivate
          /\ PortOf(c.url) \in AllowedPorts /\ c.url = url
        BY <1>3, <2>1, VettedAnswers DEF Connectable
    <2>8. \A i \in 1 .. hop : contacts[i].url # url /\ (contacts[i].url.scheme = "https" => url.scheme = "https")
        BY <2>1, <2>3, <2>5 DEF ChainInv, Chain
    <2>9. ASSUME NEW i \in 1 .. hop + 1
          PROVE  /\ \A a \in ToSet(contacts'[i].answers) \cup {contacts'[i].peer} :
                      a \in Globals \/ AllowPrivate
                 /\ PortOf(contacts'[i].url) \in AllowedPorts
                 /\ \A j \in 1 .. i - 1 :
                      /\ contacts'[j].url # contacts'[i].url
                      /\ contacts'[j].url.scheme = "https" => contacts'[i].url.scheme = "https"
        <3> HIDE DEF c
        <3>1. CASE i = hop + 1
            <4>1. \A j \in 1 .. i - 1 : j \in 1 .. hop
                BY <3>1, <2>3
            <4> QED  BY <3>1, <4>1, <2>5, <2>7, <2>8
        <3>2. CASE i # hop + 1
            <4>1. i \in DOMAIN contacts /\ \A j \in 1 .. i - 1 : j \in 1 .. hop
                BY <3>2, <2>3, <2>5
            <4> QED  BY <4>1, <2>5 DEF ChainInv, SafeContacts
        <3> QED  BY <3>1, <3>2
    <2>10. SafeContacts'
        BY <2>3, <2>5, <2>9 DEF SafeContacts
    <2> QED  BY <2>6, <2>10 DEF ChainInv
<1> QED  BY <1>2, <1>3

\* A redirect keeps to HTTPS once it is there, and to the limit.
LEMMA RedirectChain == ASSUME ChainInv, Redirect PROVE ChainInv'
<1>1. PICK u \in Urls \cup {None} :
        IF u = None \/ hop >= MaxRedirects THEN Abort
        ELSE IF url.scheme = "https" /\ u.scheme # "https" THEN Abort
        ELSE Visit(u, hop + 1, visited)
    BY DEF Redirect
<1>2. CASE Abort
    BY <1>2, AbortChain
<1>3. CASE ~Abort
    <2>1. /\ u \in Urls /\ hop < MaxRedirects /\ Visit(u, hop + 1, visited)
          /\ url.scheme = "https" => u.scheme = "https"
        BY <1>1, <1>3, DownloadAssumption DEF ChainInv, Chain
    <2>2. /\ contacts \in Seq(Contact) /\ Len(contacts) = hop + 1 /\ contacts[hop + 1].url = url
          /\ hop \in 0 .. MaxRedirects /\ MaxRedirects \in Nat /\ DOMAIN contacts = 1 .. hop + 1
        BY DownloadAssumption DEF ChainInv, Chain, Redirect
    <2>3. \A i \in DOMAIN contacts : contacts[i].url \in visited
        BY DEF visited
    <2>4. \A i \in DOMAIN contacts : contacts[i].url.scheme = "https" => url.scheme = "https"
        BY <2>2 DEF ChainInv, SafeContacts
    <2>5. hop + 1 \in 0 .. MaxRedirects /\ hop + 1 = Len(contacts)
        BY <2>1, <2>2
    <2> QED  BY <2>1, <2>3, <2>4, <2>5, VisitChain
<1> QED  BY <1>2, <1>3

\* The other answers of a web server add no contact.
LEMMA ReplyChain == ASSUME ChainInv, Reply PROVE ChainInv'
<1>1. CASE Connect
    BY <1>1, ConnectChain
<1>2. CASE Redirect
    BY <1>2, RedirectChain
<1>3. CASE Abort
    BY <1>3, AbortChain
<1>4. CASE Accept /\ ~Abort
    <2>1. phase = "sent" /\ phase' = "body" /\ UNCHANGED <<url, hop, contacts>>
        BY <1>4 DEF Accept
    <2> QED  BY <2>1 DEF ChainInv, Chain, SafeContacts
<1>5. CASE Receive /\ ~Abort
    BY <1>5, StillChain DEF Receive
<1>6. CASE Finish /\ ~Abort
    <2>1. phase = "body" /\ phase' = "done" /\ UNCHANGED <<url, hop, contacts>>
        BY <1>6 DEF Finish
    <2> QED  BY <2>1 DEF ChainInv, Chain, SafeContacts
<1> QED  BY <1>1, <1>2, <1>3, <1>4, <1>5, <1>6 DEF Reply, Unacceptable

\* The contacts are forgotten when a download has ended.
LEMMA DownloadingChain == ASSUME ChainInv, Downloading PROVE ChainInv'
<1>1. CASE phase = "idle"
    <2>1. StartDownload
        BY <1>1 DEF Downloading
    <2>2. Visit(url, 0, {}) /\ url \in Urls /\ contacts = <<>> /\ 0 \in 0 .. MaxRedirects
        BY <1>1, <2>1, DownloadAssumption DEF StartDownload, ChainInv, Chain
    <2> QED  BY <2>2, VisitChain
<1>2. CASE phase = "failed"
    BY <1>2, StillChain DEF Downloading
<1>3. CASE phase = "done"
    <2>1. hop' = 0 /\ contacts' = <<>> /\ phase' = "done"
        BY <1>3 DEF Downloading, Forget
    <2> QED  BY <2>1, DownloadAssumption DEF ChainInv, Chain, SafeContacts
<1>4. CASE phase \notin {"idle", "failed", "done"}
    <2>1. Abort
        BY <1>4 DEF Downloading, Interrupt
    <2> QED  BY <2>1, AbortChain
<1> QED  BY <1>1, <1>2, <1>3, <1>4

\* A cancellation breaks off the download it meets.
LEMMA CancelChain == ASSUME ChainInv, Cancel PROVE ChainInv'
<1>1. CASE UNCHANGED download
    BY <1>1, StillChain
<1>2. CASE Interrupt
    BY <1>2, AbortChain DEF Interrupt
<1> QED  BY <1>1, <1>2 DEF Cancel, download

\* Nothing else has to do with the download.
LEMMA NextChain == ChainInv /\ [Next]_vars => ChainInv'
<1> SUFFICES ASSUME ChainInv, [Next]_vars
             PROVE  ChainInv'
    OBVIOUS
<1>1. CASE UNCHANGED download
    BY <1>1, StillChain
<1>2. CASE Downloading
    BY <1>2, DownloadingChain
<1>3. CASE WebReplies
    BY <1>3, ReplyChain DEF WebReplies
<1>4. CASE Cancel
    BY <1>4, CancelChain
<1>5. CASE \E t \in Tasks : Works(t) \/ Closes(t)
    BY <1>5, StillChain DEF Works, Closes
<1>6. Select \/ Acquire \/ AcquireFails \/ ResolveFails \/ Leave \/ ClientCloses => UNCHANGED download
    BY DEF Select, Acquire, AcquireFails, ResolveFails, Leave, ClientCloses
<1>7. Inspect \/ HashBegins \/ HashFragment \/ HashEnds \/ Unlinks \/ SourceChanges => UNCHANGED download
    BY DEF Inspect, HashBegins, HashFragment, HashEnds, Unlinks, SourceChanges
<1>8. CASE UNCHANGED vars
    BY <1>8, <1>1 DEF vars
<1> QED  BY <1>1, <1>2, <1>3, <1>4, <1>5, <1>6, <1>7, <1>8 DEF Next, Operates, Remote

\* A download starts without contacts.
LEMMA InitChain == Init => ChainInv
<1> SUFFICES ASSUME Init
             PROVE  ChainInv
    OBVIOUS
<1>1. PICK u \in Requested : DownloadInit(u)
    BY DEF Init
<1> QED  BY <1>1, DownloadAssumption, OperationAssumption
         DEF DownloadInit, ChainInv, Chain, SafeContacts

\* SafeContacts: every connection of a download went to an allowed address and port, the
\* chain never leaves HTTPS, repeats a URL or outgrows its limit (http_download.py,
\* http_security.py, http_transport.py).
THEOREM ContactsAreSafe == Spec => []SafeContacts
<1>1. ChainInv => SafeContacts
    BY DEF ChainInv
<1> QED  BY <1>1, InitChain, NextChain, PTL DEF Spec

-----------------------------------------------------------------------------
(* Types *)

\* The contents of the files.
LEMMA FileFacts ==
    ASSUME Types
    PROVE  /\ DOMAIN files = 1 .. Len(files) /\ Len(files) \in Nat
           /\ \A n \in DOMAIN files :
                /\ files[n] \in Inodes /\ files[n].text \in Contents /\ files[n].stamp \in Nat
                /\ Len(files[n].text) \in Nat /\ Identity(n) = [n |-> n, stamp |-> files[n].stamp,
                                                                size |-> Len(files[n].text)]
<1>1. files \in Seq(Inodes)
    BY DEF Types
<1>2. \A n \in DOMAIN files : files[n] \in Inodes
    BY <1>1
<1>3. \A i \in Inodes : i.text \in Seq(Fragments) /\ i.stamp \in Nat
    BY DEF Inodes, Contents
<1>4. \A s \in Seq(Fragments) : Len(s) \in Nat
    OBVIOUS
<1> QED  BY <1>1, <1>2, <1>3, <1>4 DEF Identity, Contents

\* A file of the program's own, or of the store, at its beginning.
LEMMA FileTypes ==
    ASSUME NEW t \in Contents
    PROVE  /\ File(t) \in Inodes /\ File(t).text = t /\ File(t).stamp = 0 /\ ~File(t).quiet
           /\ File(t).past = {Content(t, 0)} /\ Content(t, 0) \in Versions
BY DEF File, Content, Inodes, Versions

\* A task goes to another point.
LEMMA GotoFacts ==
    ASSUME use \in [Tasks -> Uses], NEW t \in Tasks, NEW p \in Points, Goto(t, p)
    PROVE  /\ use' \in [Tasks -> Uses] /\ use'[t].pc = p
           /\ use'[t].n = use[t].n /\ use'[t].text = use[t].text /\ use'[t].got = use[t].got
           /\ \A s \in Tasks \ {t} : use'[s] = use[s]
BY DEF Goto, Uses

\* The points a task may go to.
LEMMA PointFacts ==
    /\ Streaming \cup Materializing \cup WithPath \cup Ended \subseteq Points
    /\ {"closing", "orphan", "checking", "idle"} \subseteq Points
BY DEF Streaming, Materializing, WithPath, Ended, Points

\* What a read finds.
LEMMA GotFacts ==
    ASSUME Types, NEW n \in Nat, NEW e
    PROVE  /\ Got(n, e) \in {0, n, at}
           /\ pin # "version" /\ Got(n, e) # 0 => Got(n, e) = at
           /\ Got(n, e) # 0 /\ pin = "etag" => files[at].text = e
           /\ pin = "version" => Got(n, e) = n
BY DEF Got, Types

\* What is read is a content, and so is what has been written.
LEMMA SourceFacts ==
    ASSUME SInv, NEW t \in Tasks, use[t].pc \in {"reading", "writing"}
    PROVE  /\ Source(t) \in Contents
           /\ kind # "http" => use[t].n \in DOMAIN files /\ Source(t) = files[use[t].n].text
           /\ kind = "http" => Source(t) = use[t].text
           /\ use[t].pc = "writing" => disk \in Contents /\ Len(Source(t)) <= MaxBytes /\ kind = "s3"
<1>1. use[t] \in Uses /\ use[t].text \in Contents
    BY DEF SInv, HInv, Types, Uses
<1>2. kind # "http" => use[t].n \in DOMAIN files
    BY DEF SInv, HInv, AsRead, Reading
<1>3. use[t].pc = "writing" =>
        /\ writer = t /\ kind = "s3" /\ use[t].n \in DOMAIN files /\ Len(files[use[t].n].text) <= MaxBytes
    BY DEF SInv, HInv, OnDisk, Materializing
<1>4. writer = t => disk \in Contents
    BY HandleAssumption DEF SInv, HInv, OnDisk, Types
<1> QED  BY <1>1, <1>2, <1>3, <1>4, FileFacts DEF Source, SInv, HInv

\* A fragment more.
LEMMA AppendFacts ==
    ASSUME NEW s \in Contents, NEW r \in Contents, Len(s) < Len(r)
    PROVE  /\ Append(s, r[Len(s) + 1]) \in Contents
           /\ Len(Append(s, r[Len(s) + 1])) = Len(s) + 1
           /\ Starts(s, r) => Starts(Append(s, r[Len(s) + 1]), r)
<1>1. r[Len(s) + 1] \in Fragments /\ Len(s) \in Nat /\ Len(r) \in Nat /\ s \in Seq(Fragments)
    BY DEF Contents
<1> DEFINE a == Append(s, r[Len(s) + 1])
<1>2. /\ a \in Seq(Fragments) /\ Len(a) = Len(s) + 1 /\ a[Len(s) + 1] = r[Len(s) + 1]
      /\ \A i \in 1 .. Len(s) : a[i] = s[i]
    BY <1>1
<1> HIDE DEF a
<1>3. Starts(s, r) => Starts(a, r)
    BY <1>1, <1>2 DEF Starts
<1> QED  BY <1>2, <1>3 DEF Contents, a

\* What starts a content and is as long is that content.
LEMMA StartsWhole ==
    ASSUME NEW s \in Contents, NEW r \in Contents, Starts(s, r), Len(s) >= Len(r)
    PROVE  s = r
<1>1. /\ s \in Seq(Fragments) /\ r \in Seq(Fragments) /\ Len(s) \in Nat /\ Len(r) \in Nat
      /\ Len(s) = Len(r) /\ \A i \in 1 .. Len(s) : s[i] = r[i]
    BY DEF Contents, Starts
<1> QED  BY <1>1, SeqEqual

-----------------------------------------------------------------------------
(* What a step of a task is *)

\* A task moves; the handle does not.
Alone(t) ==
    /\ UNCHANGED <<lifecycle, lost>>
    /\ use' \in [Tasks -> Uses] /\ \A s \in Tasks \ {t} : use'[s] = use[s]

\* Nothing of what it has read or found changes.
Keeps(t) == use'[t].n = use[t].n /\ use'[t].text = use[t].text /\ use'[t].got = use[t].got

\* It goes to a point where it neither reads nor writes.
Moved(t) ==
    /\ Keeps(t) /\ UNCHANGED <<artifact, writer, disk>>
    /\ use[t].pc \notin {"getting", "writing"} \cup Ended
    /\ use'[t].pc \notin {"idle", "reading", "streamed", "getting", "writing"}
    /\ use'[t].pc = "opened" => use[t].pc = "idle"
    /\ use'[t].pc \in Materializing => active /\ kind = "s3"
    /\ use'[t].pc = "checking" => kind = "local"
    /\ use'[t].pc \in WithPath /\ kind = "s3" => artifact
    /\ use[t].pc = "orphan" => use'[t].pc \in Ended
    /\ use[t].pc = "idle" /\ use'[t].pc # "error" => active

ReadStarts(t) ==
    /\ use[t].pc = "opened" /\ use'[t].pc = "reading" /\ UNCHANGED <<artifact, writer, disk>>
    /\ use'[t].got = use[t].got
    /\ kind = "http" => disk # None /\ use'[t].text = disk
    /\ kind = "local" => Unchanged(desc.id) /\ use'[t].n = at
    /\ kind = "s3" => use'[t].n # 0 /\ use'[t].n = Got(desc.n, desc.etag)

ReadGoes(t) ==
    /\ use[t].pc = "reading" /\ use'[t].pc = "reading" /\ UNCHANGED <<artifact, writer, disk>>
    /\ Len(use[t].got) < Len(Source(t)) /\ use'[t].n = use[t].n /\ use'[t].text = use[t].text
    /\ use'[t].got = Append(use[t].got, Source(t)[Len(use[t].got) + 1])

ReadEnds(t) ==
    /\ use[t].pc = "reading" /\ use'[t].pc = "streamed" /\ UNCHANGED <<artifact, writer, disk>>
    /\ Keeps(t) /\ Len(use[t].got) >= Len(Source(t))

Enters(t) ==
    /\ use[t].pc = "locking" /\ use'[t].pc = "getting" /\ writer = None /\ ~artifact
    /\ writer' = t /\ disk' = <<>> /\ Keeps(t) /\ UNCHANGED artifact

Discards(t) ==
    /\ use[t].pc \in {"getting", "writing"} /\ use'[t].pc = "error"
    /\ disk' = None /\ writer' = None /\ UNCHANGED artifact

Gets(t) ==
    /\ use[t].pc = "getting" /\ use'[t].pc = "writing" /\ UNCHANGED <<artifact, writer, disk>>
    /\ use'[t].n # 0 /\ use'[t].n = Got(desc.n, desc.etag)
    /\ ~(Len(files[use'[t].n].text) > MaxBytes)

Writes(t) ==
    /\ use[t].pc = "writing" /\ use' = use /\ UNCHANGED <<artifact, writer>>
    /\ Len(disk) < Len(Source(t)) /\ disk' = Append(disk, Source(t)[Len(disk) + 1])

Completes(t) ==
    /\ use[t].pc = "writing" /\ use'[t].pc \in {"path", "error"}
    /\ disk = desc.text /\ artifact' = TRUE /\ writer' = None /\ Keeps(t) /\ UNCHANGED disk

TaskStep(t) ==
    /\ Alone(t)
    /\ \/ Moved(t) \/ ReadStarts(t) \/ ReadGoes(t) \/ ReadEnds(t)
       \/ Enters(t) \/ Discards(t) \/ Gets(t) \/ Writes(t) \/ Completes(t)

\* A task goes to a point where it neither reads nor writes.
LEMMA MovedStep ==
    ASSUME SInv, NEW t \in Tasks, NEW p \in Points, Goto(t, p),
           UNCHANGED <<lifecycle, lost, artifact, writer, disk>>,
           use[t].pc \notin {"getting", "writing"} \cup Ended,
           p \notin {"idle", "reading", "streamed", "getting", "writing"},
           p = "opened" => use[t].pc = "idle",
           p \in Materializing => active /\ kind = "s3",
           p = "checking" => kind = "local",
           p \in WithPath /\ kind = "s3" => artifact,
           use[t].pc = "orphan" => p \in Ended,
           use[t].pc = "idle" /\ p # "error" => active
    PROVE  TaskStep(t)
<1>1. use \in [Tasks -> Uses]
    BY DEF SInv, HInv, Types
<1>2. /\ use' \in [Tasks -> Uses] /\ use'[t].pc = p /\ Keeps(t)
      /\ \A s \in Tasks \ {t} : use'[s] = use[s]
    BY <1>1, GotoFacts DEF Keeps
<1>3. Alone(t)
    BY <1>2 DEF Alone
<1>4. Moved(t)
    BY <1>2 DEF Moved
<1> QED  BY <1>3, <1>4 DEF TaskStep

\* A transfer is broken off.
LEMMA DiscardStep ==
    ASSUME SInv, NEW t \in Tasks, Discard(t), UNCHANGED <<lifecycle, lost>>,
           use[t].pc \in {"getting", "writing"}
    PROVE  TaskStep(t)
<1>1. use \in [Tasks -> Uses] /\ Goto(t, "error") /\ "error" \in Points
    BY DEF SInv, HInv, Types, Discard, Points
<1>2. /\ use' \in [Tasks -> Uses] /\ use'[t].pc = "error" /\ \A s \in Tasks \ {t} : use'[s] = use[s]
    BY <1>1, GotoFacts
<1> QED  BY <1>2 DEF TaskStep, Alone, Discards, Discard

\* A task is stopped where it is.
LEMMA BreakStep ==
    ASSUME SInv, NEW t \in Tasks, Break(t), use[t].pc \notin Ended
    PROVE  TaskStep(t)
<1>1. CASE use[t].pc \in {"getting", "writing"}
    BY <1>1, DiscardStep DEF Break
<1>2. CASE use[t].pc \notin {"getting", "writing"}
    <2>1. Goto(t, "error") /\ UNCHANGED <<lifecycle, lost, artifact, writer, disk>>
        BY <1>2 DEF Break
    <2> QED  BY <1>2, <2>1, MovedStep DEF Points, Materializing, WithPath, Ended
<1> QED  BY <1>1, <1>2

\* A task that is cancelled is stopped, unless a thread goes on for it.
LEMMA CancelledStep ==
    ASSUME SInv, NEW t \in Tasks, Cancelled(t)
    PROVE  TaskStep(t) /\ use'[t].pc \in Ended \cup {"orphan"}
<1>0. use \in [Tasks -> Uses] /\ use[t].pc \notin Ended
    BY DEF SInv, HInv, Types, Cancelled
<1>1. CASE use[t].pc = "parsing"
    <2>1. PICK p \in {"orphan", "error"} :
            Goto(t, p) /\ UNCHANGED <<lifecycle, artifact, writer, lost, disk>>
        BY <1>1 DEF Cancelled
    <2>2. p \in Points /\ p \notin Materializing \cup WithPath
        BY DEF Points, Materializing, WithPath
    <2>3. TaskStep(t)
        BY <1>0, <1>1, <2>1, <2>2, MovedStep
    <2>4. use'[t].pc = p
        BY <1>0, <2>1, <2>2, GotoFacts
    <2> QED  BY <2>3, <2>4 DEF Ended
<1>2. CASE use[t].pc # "parsing"
    <2>1. Break(t)
        BY <1>2 DEF Cancelled
    <2>2. Goto(t, "error")
        BY <2>1 DEF Break, Discard
    <2>3. use'[t].pc = "error"
        BY <1>0, <2>2, GotoFacts DEF Points
    <2> QED  BY <1>0, <2>1, <2>3, BreakStep DEF Ended
<1> QED  BY <1>1, <1>2

\* A task that has not begun begins while the handle is active.
LEMMA BeginStep ==
    ASSUME SInv, NEW t \in Tasks, Open(t) \/ Materialize(t)
    PROVE  TaskStep(t)
<1> USE DEF Points, Materializing, WithPath, Ended
<1>1. CASE Open(t)
    BY <1>1, MovedStep DEF Open
<1>2. CASE Materialize(t)
    <2> DEFINE p == IF ~active THEN "error"
                    ELSE CASE kind = "http"  -> IF disk # None THEN "path" ELSE "error"
                           [] kind = "local" -> "checking"
                           [] OTHER          -> "locking"
    <2>1. kind \in {"local", "s3", "http"}
        BY DEF SInv, HInv, Types
    <2>2. p \in {"error", "path", "checking", "locking"} /\ (p # "error" => active)
          /\ (p = "locking" => kind = "s3") /\ (p = "path" => kind = "http")
          /\ (p = "checking" => kind = "local")
        BY <2>1
    <2>3. Goto(t, p) /\ use[t].pc = "idle" /\ UNCHANGED <<lifecycle, artifact, writer, lost, disk>>
        BY <1>2 DEF Materialize
    <2> HIDE DEF p
    <2> QED  BY <2>2, <2>3, MovedStep
<1> QED  BY <1>1, <1>2

\* The stream callback opens what it reads.
LEMMA StartStep ==
    ASSUME SInv, NEW t \in Tasks, Start(t)
    PROVE  TaskStep(t)
<1>0. /\ use \in [Tasks -> Uses] /\ use[t].pc = "opened"
      /\ UNCHANGED <<lifecycle, artifact, writer, lost, disk>>
    BY DEF SInv, HInv, Types, Start
<1>1. CASE Goto(t, "error")
    BY <1>0, <1>1, MovedStep DEF Points, Materializing, WithPath, Ended
<1>2. CASE kind = "http" /\ disk # None /\ use' = [use EXCEPT ![t].pc = "reading", ![t].text = disk]
    <2>1. disk \in Contents
        BY <1>2 DEF SInv, HInv, Types
    <2>2. Alone(t)
        BY <1>0, <1>2, <2>1 DEF Alone, Uses, Points
    <2>3. ReadStarts(t)
        BY <1>0, <1>2 DEF ReadStarts, Uses
    <2> QED  BY <2>2, <2>3 DEF TaskStep
<1>3. ASSUME NEW n \in Nat, n # 0, use' = [use EXCEPT ![t].pc = "reading", ![t].n = n],
             kind # "http", kind = "local" => Unchanged(desc.id) /\ n = at,
             kind = "s3" => n = Got(desc.n, desc.etag)
      PROVE  TaskStep(t)
    <2>2. Alone(t)
        BY <1>0, <1>3 DEF Alone, Uses, Points
    <2>3. ReadStarts(t)
        BY <1>0, <1>3 DEF ReadStarts, Uses
    <2> QED  BY <2>2, <2>3 DEF TaskStep
<1>4. at \in Nat /\ (Unchanged(desc.id) => at # 0)
    BY DEF SInv, HInv, Types, Unchanged
<1>5. CASE kind = "local"
    BY <1>1, <1>3, <1>4, <1>5 DEF Start
<1>6. CASE kind = "s3"
    <2>1. desc # None
        BY <1>0 DEF SInv, HInv, Life
    <2>2. desc.n \in Nat
        BY <2>1 DEF SInv, HInv, Types, Descriptor
    <2>3. Got(desc.n, desc.etag) \in Nat
        BY <1>4, <2>2, GotFacts DEF SInv, HInv
    <2> QED  BY <1>1, <1>3, <1>6, <2>3 DEF Start
<1> QED  BY <1>1, <1>2, <1>5, <1>6 DEF Start

\* A stream goes on to its end.
LEMMA StreamStep ==
    ASSUME SInv, NEW t \in Tasks, Fragment(t) \/ EndOfStream(t)
    PROVE  TaskStep(t)
<1>0. /\ use \in [Tasks -> Uses] /\ use[t].pc = "reading" /\ use[t] \in Uses
      /\ UNCHANGED <<lifecycle, artifact, writer, lost, disk>>
    BY DEF SInv, HInv, Types, Fragment, EndOfStream
<1>1. CASE Goto(t, "error")
    BY <1>0, <1>1, MovedStep DEF Points, Materializing, WithPath, Ended
<1>2. CASE Fragment(t) /\ ~Goto(t, "error")
    <2>1. /\ Len(use[t].got) < Len(Source(t))
          /\ use' = [use EXCEPT ![t].got = Append(@, Source(t)[Len(@) + 1])]
        BY <1>2 DEF Fragment
    <2> DEFINE g == Append(use[t].got, Source(t)[Len(use[t].got) + 1])
    <2>2. g \in Contents
        BY <1>0, <2>1, SourceFacts, AppendFacts DEF Uses
    <2>3. use' = [use EXCEPT ![t].got = g]
        BY <2>1
    <2> HIDE DEF g
    <2>4. Alone(t) /\ use'[t].got = g /\ use'[t].pc = use[t].pc /\ use'[t].n = use[t].n
          /\ use'[t].text = use[t].text
        BY <1>0, <2>2, <2>3 DEF Alone, Uses
    <2>5. ReadGoes(t)
        BY <1>0, <2>1, <2>4 DEF ReadGoes, g
    <2> QED  BY <2>4, <2>5 DEF TaskStep
<1>3. CASE EndOfStream(t)
    <2>1. Goto(t, "streamed") /\ Len(use[t].got) >= Len(Source(t)) /\ "streamed" \in Points
        BY <1>3 DEF EndOfStream, Points
    <2>2. /\ use' \in [Tasks -> Uses] /\ use'[t].pc = "streamed" /\ Keeps(t)
          /\ \A s \in Tasks \ {t} : use'[s] = use[s]
        BY <1>0, <2>1, GotoFacts DEF Keeps
    <2> QED  BY <1>0, <2>1, <2>2 DEF TaskStep, Alone, ReadEnds
<1> QED  BY <1>1, <1>2, <1>3

\* A task comes to the artifact lock, and writes the artifact if nobody has.
LEMMA EnterStep ==
    ASSUME SInv, NEW t \in Tasks, EnterArtifact(t)
    PROVE  TaskStep(t)
<1>0. use \in [Tasks -> Uses] /\ use[t].pc = "locking" /\ UNCHANGED <<lifecycle, artifact, lost>>
      /\ writer = None
    BY DEF SInv, HInv, Types, EnterArtifact
<1>1. CASE artifact
    BY <1>0, <1>1, MovedStep DEF EnterArtifact, Points, Materializing, WithPath, Ended
<1>2. CASE ~artifact
    <2>1. Goto(t, "getting") /\ writer' = t /\ disk' = <<>> /\ "getting" \in Points
        BY <1>2 DEF EnterArtifact, Points
    <2>2. /\ use' \in [Tasks -> Uses] /\ use'[t].pc = "getting" /\ Keeps(t)
          /\ \A s \in Tasks \ {t} : use'[s] = use[s]
        BY <1>0, <2>1, GotoFacts DEF Keeps
    <2> QED  BY <1>0, <1>2, <2>1, <2>2 DEF TaskStep, Alone, Enters
<1> QED  BY <1>1, <1>2

\* The object is asked for, written, and compared.
LEMMA TransferStep ==
    ASSUME SInv, NEW t \in Tasks, GetObject(t) \/ WriteFragment(t) \/ Complete(t)
    PROVE  TaskStep(t)
<1>0. /\ use \in [Tasks -> Uses] /\ use[t].pc \in {"getting", "writing"} /\ use[t] \in Uses
      /\ UNCHANGED <<lifecycle, lost>>
    BY DEF SInv, HInv, Types, GetObject, WriteFragment, Complete, handle
<1>1. CASE Discard(t)
    BY <1>0, <1>1, DiscardStep
<1>2. CASE GetObject(t) /\ ~Discard(t)
    <2> DEFINE n == Got(desc.n, desc.etag)
    <2>1. /\ use[t].pc = "getting" /\ n # 0 /\ ~(Len(files[n].text) > MaxBytes)
          /\ use' = [use EXCEPT ![t].pc = "writing", ![t].n = n] /\ UNCHANGED <<disk, writer, artifact>>
        <3>1. IF n = 0 \/ Len(files[n].text) > MaxBytes THEN Discard(t)
              ELSE /\ use' = [use EXCEPT ![t].pc = "writing", ![t].n = n]
                   /\ UNCHANGED <<disk, writer, artifact>>
            BY <1>2 DEF GetObject
        <3>2. n # 0 /\ ~(Len(files[n].text) > MaxBytes)
            BY <1>2, <3>1
        <3> QED  BY <1>2, <3>1, <3>2 DEF GetObject
    <2>2. desc # None /\ at \in Nat
        <3>1. desc # None
            BY <2>1 DEF SInv, HInv, Life
        <3> QED  BY <3>1 DEF SInv, HInv, Types
    <2>3. desc.n \in Nat
        BY <2>2 DEF SInv, HInv, Types, Descriptor
    <2>4. n \in Nat
        BY <2>2, <2>3, GotFacts DEF SInv, HInv
    <2> HIDE DEF n
    <2>5. Alone(t) /\ use'[t].pc = "writing" /\ use'[t].n = n
        BY <1>0, <2>1, <2>4 DEF Alone, Uses, Points
    <2>6. Gets(t)
        BY <1>0, <2>1, <2>5 DEF Gets, n
    <2> QED  BY <2>5, <2>6 DEF TaskStep
<1>3. CASE WriteFragment(t)
    BY <1>0, <1>3 DEF WriteFragment, TaskStep, Alone, Writes, handle
<1>4. CASE Complete(t) /\ ~Discard(t)
    <2> DEFINE p == IF active THEN "path" ELSE "error"
    <2>1. /\ use[t].pc = "writing" /\ disk = desc.text /\ artifact' = TRUE /\ writer' = None
          /\ Goto(t, p) /\ UNCHANGED disk /\ p \in Points /\ p \in {"path", "error"}
        BY <1>4 DEF Complete, Points
    <2> HIDE DEF p
    <2>2. /\ use' \in [Tasks -> Uses] /\ use'[t].pc = p /\ Keeps(t)
          /\ \A s \in Tasks \ {t} : use'[s] = use[s]
        BY <1>0, <2>1, GotoFacts DEF Keeps
    <2> QED  BY <1>0, <2>1, <2>2 DEF TaskStep, Alone, Completes
<1> QED  BY <1>1, <1>2, <1>3, <1>4

\* Every step of the tasks is one of these.
LEMMA WorksStep ==
    ASSUME SInv, NEW t \in Tasks, Works(t)
    PROVE  /\ TaskStep(t) /\ UNCHANGED <<fixed, world, download, own, changes>>
           /\ desc # None /\ (~aware => t = Main)
<1>0. UNCHANGED <<fixed, world, download, own, changes>>
    BY DEF Works
<1> USE DEF Ended, Materializing, WithPath, Points
<1>1. CASE Begins(t)
    BY <1>0, <1>1, BeginStep DEF Begins
<1>2. CASE ~Begins(t)
    <2>1. Continues(t) \/ Reads(t)
        BY <1>2 DEF Works
    <2>2. use[t].pc # "idle"
        BY <2>1 DEF Continues, Reads, Recheck, EnterArtifact, Parse, Rejected, Deadline,
                    Start, Fragment, EndOfStream, GetObject, WriteFragment, Complete
    <2>3. desc # None /\ (~aware => t = Main)
        BY <2>2 DEF SInv, HInv, Life
    <2>4. CASE Recheck(t)
        <3>1. use[t].pc = "checking" /\ kind = "local"
            BY <2>4 DEF SInv, HInv, OnDisk, Recheck
        <3>2. PICK p \in {"path", "error"} : Goto(t, p) /\ UNCHANGED <<lifecycle, artifact, writer, lost, disk>>
            BY <2>4 DEF Recheck
        <3>3. TaskStep(t)
            BY <3>1, <3>2, MovedStep
        <3> QED  BY <1>0, <2>3, <3>3
    <2>5. CASE Parse(t)
        <3>1. use[t].pc = "path" /\ kind = "s3" => artifact
            BY DEF SInv, HInv, OnDisk
        <3>2. UNCHANGED <<lifecycle, artifact, writer, lost, disk>>
            BY <2>5 DEF Parse
        <3>3. CASE use[t].pc = "path" /\ Goto(t, "parsing")
            BY <1>0, <2>3, <3>1, <3>2, <3>3, MovedStep
        <3>4. CASE use[t].pc \in {"parsing", "orphan"} /\ Goto(t, "done")
            BY <1>0, <2>3, <3>2, <3>4, MovedStep
        <3> QED  BY <2>5, <3>3, <3>4 DEF Parse
    <2>6. CASE Rejected(t) \/ Deadline(t)
        <3>1. Break(t) /\ use[t].pc \notin Ended
            BY <2>6 DEF Rejected, Deadline
        <3> QED  BY <1>0, <2>3, <3>1, BreakStep
    <2> QED  BY <1>0, <2>1, <2>3, <2>4, <2>5, <2>6, EnterStep, StartStep, StreamStep, TransferStep
             DEF Continues, Reads
<1> QED  BY <1>1, <1>2

\* What a step of a task does to the rest, in a few words.
LEMMA TaskFacts ==
    ASSUME SInv, NEW t \in Tasks, TaskStep(t)
    PROVE  /\ use[t].pc \notin Ended /\ (use[t].pc = "orphan" => use'[t].pc \in Ended)
           /\ use'[t].pc # "idle" /\ (use'[t].pc \in Materializing => use[t].pc \in Materializing \/ active)
           /\ artifact' \in BOOLEAN /\ (artifact => artifact')
           /\ artifact' /\ ~artifact => use[t].pc = "writing" /\ kind = "s3"
           /\ writer' \in Tasks \cup {None} /\ disk' \in Contents \cup {None}
<1>1. use[t] \in Uses /\ artifact \in BOOLEAN /\ writer \in Tasks \cup {None}
      /\ disk \in Contents \cup {None} /\ <<>> \in Contents
    BY DEF SInv, HInv, Types, Contents
<1>2. use[t].pc = "writing" => kind = "s3"
    BY DEF SInv, HInv, OnDisk, Materializing
<1>3. use[t].pc = "writing" /\ Len(disk) < Len(Source(t)) => Append(disk, Source(t)[Len(disk) + 1]) \in Contents
    BY SourceFacts, AppendFacts
<1> USE DEF Ended, Materializing
<1>4. CASE Moved(t)
    BY <1>1, <1>4 DEF Moved
<1>5. CASE ReadStarts(t) \/ ReadGoes(t) \/ ReadEnds(t) \/ Gets(t)
    BY <1>1, <1>5 DEF ReadStarts, ReadGoes, ReadEnds, Gets
<1>6. CASE Enters(t)
    BY <1>1, <1>6 DEF Enters
<1>8. CASE Discards(t)
    BY <1>1, <1>8 DEF Discards
<1>9. CASE Completes(t)
    BY <1>1, <1>2, <1>9 DEF Completes
<1>7. CASE Writes(t)
    BY <1>1, <1>3, <1>7 DEF Writes
<1> QED  BY <1>4, <1>5, <1>6, <1>7, <1>8, <1>9 DEF TaskStep

\* The types after a step of a task.
LEMMA TaskTypes ==
    ASSUME SInv, NEW t \in Tasks, TaskStep(t), UNCHANGED <<fixed, world, download, client, hash>>,
           opc' \in Before \cup Within \cup After
    PROVE  Types'
<1>1. UNCHANGED <<lifecycle, lost>> /\ use' \in [Tasks -> Uses]
    BY DEF TaskStep, Alone
<1>2. /\ artifact' \in BOOLEAN /\ writer' \in Tasks \cup {None} /\ disk' \in Contents \cup {None}
    BY TaskFacts
<1> QED  BY <1>1, <1>2 DEF SInv, HInv, Types, lifecycle, fixed, world, download

\* The handle stays what it is, whatever its tasks do.
LEMMA TaskLife ==
    ASSUME SInv, NEW t \in Tasks, TaskStep(t), UNCHANGED <<kind, aware, client>>, desc # None,
           ~aware => t = Main,
           \/ opc' = opc
           \/ opc = "work" /\ opc' = "close" /\ t = Main /\ use'[t].pc \in Ended \cup {"orphan"}
    PROVE  Life'
<1>1. /\ UNCHANGED <<desc, active, closed, closer, unlinking, overtaken, lost>>
      /\ \A s \in Tasks \ {t} : use'[s] = use[s]
    BY DEF TaskStep, Alone, lifecycle
<1>2. /\ use[t].pc \notin Ended /\ (use[t].pc = "orphan" => use'[t].pc \in Ended)
      /\ use'[t].pc \in Materializing => use[t].pc \in Materializing \/ active
      /\ artifact => artifact'
      /\ artifact' /\ ~artifact => use[t].pc = "writing"
    BY TaskFacts
<1>3. Life /\ Main \in Tasks
    BY OperationAssumption DEF SInv, HInv
<1>4. opc' \notin Before \cup {"work"} => use'[Main].pc \in Ended \cup {"orphan"}
    BY <1>1, <1>2, <1>3 DEF Life, Before
<1>5. closed => overtaken \/ \A s \in Tasks : use'[s].pc \notin Materializing
    BY <1>1, <1>2, <1>3 DEF Life
<1>6. closed /\ unlinking = "none" => ~artifact' \/ overtaken
    BY <1>2, <1>3 DEF Life, Materializing
<1>7. unlinking # "none" => closed /\ MustUnlink'
    BY <1>2, <1>3 DEF Life, MustUnlink
<1>8. ~aware => ~overtaken /\ \A s \in Tasks \ {Main} : use'[s].pc = "idle"
    BY <1>1, <1>3 DEF Life
<1>9. /\ opc' \notin Before /\ (opc' \in Within => desc # None)
      /\ opc' \in {"cleanup", "close again"} \cup After => opc' = opc
      /\ opc' \notin {"idle", "acquire"} /\ (opc' = "ended" => opc = "ended")
    BY <1>3 DEF Life, Before, After
<1> QED  BY <1>1, <1>3, <1>4, <1>5, <1>6, <1>7, <1>8, <1>9 DEF Life

\* What is read of a source does not change because it is read.
LEMMA WorldFrame ==
    ASSUME SInv, UNCHANGED <<kind, pin, world, desc, hash>>
    PROVE  Kept' /\ Hashed' /\ Described'
BY DEF SInv, HInv, world, Kept, Hashed, Described, Stable, Identity, Was

\* Of what an S3 resolver gets, a task gets a file that there is.
LEMMA GotThere ==
    ASSUME SInv, kind # "http", desc # None
    PROVE  /\ desc.n \in DOMAIN files /\ desc.text \in Contents
           /\ desc.id = hash.id /\ desc.n = desc.id.n /\ desc.etag = hash.etag
           /\ kind = "s3" => /\ desc.etag = files[desc.n].text
                             /\ Got(desc.n, desc.etag) \in {0} \cup DOMAIN files
                             /\ Got(desc.n, desc.etag) # 0 /\ Stable(desc.id) =>
                                  files[Got(desc.n, desc.etag)].text = files[desc.n].text
<1>1. /\ hash # None /\ desc.id = hash.id /\ desc.n = desc.id.n /\ desc.etag = hash.etag
    BY DEF SInv, HInv, Described
<1>2. desc.n \in DOMAIN files /\ (kind = "s3" => desc.etag = files[desc.n].text)
    BY <1>1 DEF SInv, HInv, Hashed
<1>3. desc.text \in Contents /\ desc.n \in Nat
    BY DEF SInv, HInv, Types, Descriptor
<1>4. at \in 0 .. Len(files) /\ DOMAIN files = 1 .. Len(files) /\ Len(files) \in Nat
      /\ pin \in {"version", "etag", "none"}
    BY FileFacts DEF SInv, HInv, Types
<1>5. CASE kind = "s3"
    <2> DEFINE n == Got(desc.n, desc.etag)
    <2>1. /\ n \in {0, desc.n, at} /\ (pin # "version" /\ n # 0 => n = at)
          /\ n # 0 /\ pin = "etag" => files[at].text = desc.etag
          /\ pin = "version" => n = desc.n
        BY <1>3, GotFacts DEF SInv, HInv
    <2> HIDE DEF n
    <2>2. n \in {0} \cup DOMAIN files
        BY <1>2, <1>4, <2>1
    <2>3. n # 0 /\ Stable(desc.id) => files[n].text = files[desc.n].text
        BY <1>1, <1>2, <1>4, <1>5, <2>1 DEF Stable
    <2> QED  BY <1>1, <1>2, <1>3, <2>2, <2>3 DEF n
<1> QED  BY <1>1, <1>2, <1>3, <1>5

\* The artifact lock is held, and the artifact written, by one task at a time.
LEMMA TaskOnDisk ==
    ASSUME SInv, NEW t \in Tasks, TaskStep(t), desc # None,
           UNCHANGED <<kind, files, phase>>
    PROVE  OnDisk'
<1>1. /\ UNCHANGED <<desc, unlinking, lost>>
      /\ \A s \in Tasks \ {t} : use'[s] = use[s]
    BY DEF TaskStep, Alone, lifecycle
<1>2. OnDisk /\ None \notin Tasks /\ MaxBytes \in Nat \ {0} /\ writer \in Tasks \cup {None}
    BY HandleAssumption, DownloadAssumption DEF SInv, HInv, Types
<1> DEFINE Others(k) ==
      \A s \in Tasks \ {t} :
         /\ use'[s].pc \in Materializing => kind' = "s3"
         /\ use'[s].pc = "checking" => kind' = "local"
         /\ use'[s].pc \in {"getting", "writing"} => writer = s
         /\ use'[s].pc = "writing" => use'[s].n \in DOMAIN files' /\ Len(files'[use'[s].n].text) <= MaxBytes
         /\ use'[s].pc \in WithPath /\ kind' = "s3" => artifact'
<1>3. Others(0)
    BY <1>1, <1>2, TaskFacts DEF OnDisk
<1> USE DEF Materializing, WithPath
<1>4. CASE Moved(t)
    BY <1>1, <1>2, <1>3, <1>4 DEF Moved, Keeps, OnDisk
<1>5. CASE ReadStarts(t) \/ ReadGoes(t) \/ ReadEnds(t)
    BY <1>1, <1>2, <1>3, <1>5 DEF ReadStarts, ReadGoes, ReadEnds, OnDisk
<1>6. CASE Enters(t)
    <2>1. kind = "s3" /\ unlinking = "none" /\ <<>> \in Contents /\ Len(<<>>) = 0
        <3>1. kind = "s3" /\ ~artifact
            BY <1>2, <1>6 DEF Enters, OnDisk
        <3>2. unlinking = "none"
            BY <3>1 DEF SInv, HInv, Life, MustUnlink
        <3> QED  BY <3>1, <3>2 DEF Contents
    <2>2. <<>> # None
        BY <2>1, OperationAssumption
    <2> QED  BY <1>1, <1>2, <1>3, <1>6, <2>1, <2>2 DEF Enters, OnDisk
<1>7. CASE Discards(t)
    BY <1>1, <1>2, <1>3, <1>7 DEF Discards, OnDisk
<1>8. CASE Gets(t)
    <2>1. kind = "s3" /\ writer = t
        BY <1>2, <1>8 DEF Gets, OnDisk
    <2>2. use'[t].n \in DOMAIN files
        BY <1>8, <2>1, GotThere DEF Gets
    <2>3. Len(files[use'[t].n].text) <= MaxBytes
        BY <1>2, <1>8, <2>2, FileFacts DEF Gets, SInv, HInv
    <2> QED  BY <1>1, <1>2, <1>3, <1>8, <2>1, <2>2, <2>3 DEF Gets, OnDisk
<1>9. CASE Writes(t)
    <2>1. kind = "s3" /\ writer = t /\ disk # None /\ ~artifact /\ unlinking = "none"
        BY <1>2, <1>9 DEF Writes, OnDisk, SInv, HInv, Life, MustUnlink
    <2>2. disk \in Contents /\ Source(t) \in Contents /\ Len(Source(t)) <= MaxBytes
        BY <1>9, SourceFacts DEF Writes
    <2>3. disk' \in Contents /\ Len(disk') = Len(disk) + 1
        BY <1>9, <2>2, AppendFacts DEF Writes
    <2>4. Len(disk) \in Nat /\ Len(Source(t)) \in Nat
        BY <2>2 DEF Contents
    <2>6. disk' # None
        BY <2>3, OperationAssumption
    <2>7. Len(disk) < Len(Source(t))
        BY <1>9 DEF Writes
    <2>5. disk' # None /\ Len(disk') <= MaxBytes
        BY <1>2, <2>2, <2>3, <2>4, <2>6, <2>7
    <2> QED  BY <1>1, <1>2, <1>3, <1>9, <2>1, <2>5 DEF Writes, OnDisk
<1>10. CASE Completes(t)
    <2>1. kind = "s3" /\ writer = t /\ disk # None
        BY <1>2, <1>10 DEF Completes, OnDisk
    <2> QED  BY <1>1, <1>2, <1>3, <1>10, <2>1 DEF Completes, OnDisk
<1> QED  BY <1>4, <1>5, <1>6, <1>7, <1>8, <1>9, <1>10 DEF TaskStep

\* What a path leads to does not change while somebody is using it.
LEMMA TaskAsStored ==
    ASSUME SInv, NEW t \in Tasks, TaskStep(t), UNCHANGED kind
    PROVE  AsStored'
<1>1. UNCHANGED <<desc, unlinking>>
    BY DEF TaskStep, Alone, lifecycle
<1>2. AsStored
    BY DEF SInv, HInv
<1>3. use[t].pc \in {"locking", "getting", "writing"} => kind = "s3"
    BY DEF SInv, HInv, OnDisk, Materializing
<1>4. use[t].pc \in {"getting", "writing"} => ~artifact
    BY HandleAssumption DEF SInv, HInv, OnDisk
<1>5. CASE Moved(t) \/ ReadStarts(t) \/ ReadGoes(t) \/ ReadEnds(t) \/ Gets(t)
    BY <1>1, <1>2, <1>5 DEF AsStored, Moved, ReadStarts, ReadGoes, ReadEnds, Gets
<1>6. CASE Enters(t)
    BY <1>1, <1>2, <1>3, <1>6 DEF AsStored, Enters
<1>7. CASE Discards(t)
    BY <1>1, <1>2, <1>3, <1>4, <1>7 DEF AsStored, Discards
<1>8. CASE Writes(t)
    BY <1>1, <1>2, <1>3, <1>4, <1>8 DEF AsStored, Writes
<1>9. CASE Completes(t)
    BY <1>1, <1>2, <1>3, <1>9 DEF AsStored, Completes
<1> QED  BY <1>5, <1>6, <1>7, <1>8, <1>9 DEF TaskStep

\* A read that begins finds the source that was resolved, or knows nothing of it.
LEMMA StartReading ==
    ASSUME SInv, NEW t \in Tasks, TaskStep(t), kind # "http", desc # None,
           UNCHANGED <<kind, pin, world>>, ReadStarts(t) \/ Gets(t)
    PROVE  Reading(t)'
<1>1. /\ UNCHANGED desc /\ use'[t].pc \in {"reading", "writing"}
    BY DEF TaskStep, Alone, lifecycle, ReadStarts, Gets
<1>2. /\ desc.n \in DOMAIN files /\ desc.text \in Contents /\ desc.id = hash.id /\ desc.n = desc.id.n
      /\ Stable(desc.id) => desc.text = files[desc.n].text
    BY GotThere DEF SInv, HInv, Described
<1>3. use'[t].pc = "reading" => use'[t].got = <<>>
    BY DEF ReadStarts, Gets, SInv, HInv, AsRead
<1>4. Starts(<<>>, desc.text)
    BY <1>2 DEF Starts, Contents
<1>5. use[t].pc = "getting" => kind = "s3"
    BY DEF SInv, HInv, OnDisk, Materializing
<1>6. /\ use'[t].n \in DOMAIN files /\ (kind = "local" => use'[t].n = desc.n)
      /\ Stable(desc.id) => files[use'[t].n].text = files[desc.n].text
    <2>1. CASE kind = "local"
        <3>1. Unchanged(desc.id) /\ use'[t].n = at
            BY <1>5, <2>1 DEF ReadStarts, Gets
        <3>2. desc.id \in Identities /\ desc.id # None /\ at \in DOMAIN files
            <4>1. hash # None /\ hash \in Seen /\ desc \in Descriptor
                BY DEF SInv, HInv, Described, Types
            <4>2. at # 0 /\ at \in 0 .. Len(files)
                BY <3>1 DEF Unchanged, SInv, HInv, Types
            <4>3. desc.id \in Identities /\ desc.id # None
                BY <4>1, <1>2, OperationAssumption DEF Seen
            <4> QED  BY <4>2, <4>3, FileFacts DEF SInv, HInv
        <3>3. Identity(at) = desc.id
            BY <3>1, <3>2 DEF Unchanged
        <3>4. at = desc.n
            BY <1>2, <3>3 DEF Identity
        <3> QED  BY <1>2, <3>1, <3>4
    <2>2. CASE kind = "s3"
        <3>1. use'[t].n # 0 /\ use'[t].n = Got(desc.n, desc.etag)
            BY <2>2 DEF ReadStarts, Gets
        <3> QED  BY <2>2, <3>1, GotThere
    <2> QED  BY <2>1, <2>2 DEF SInv, HInv, Types
<1>7. Stable(desc.id)' <=> Stable(desc.id)
    BY <1>1 DEF Stable, Identity, world
<1> QED  BY <1>1, <1>2, <1>3, <1>4, <1>6, <1>7 DEF Reading, world

\* Whatever is read goes on as it began.
LEMMA TaskAsRead ==
    ASSUME SInv, NEW t \in Tasks, TaskStep(t), desc # None, UNCHANGED <<kind, pin, world>>
    PROVE  AsRead'
<1>1. /\ UNCHANGED desc /\ \A s \in Tasks \ {t} : use'[s] = use[s]
    BY DEF TaskStep, Alone, lifecycle
<1>2. AsRead /\ use[t] \in Uses
    BY DEF SInv, HInv, Types
<1>3. Stable(desc.id)' <=> Stable(desc.id)
    BY <1>1 DEF Stable, Identity, world
<1> DEFINE Ok(s) ==
      /\ use[s].pc \in {"idle", "opened"} => use[s].got = <<>>
      /\ use[s].pc \in {"reading", "streamed", "writing"} /\ kind # "http" => Reading(s)
      /\ use[s].pc \in {"reading", "streamed"} /\ kind = "http" =>
           /\ use[s].text = desc.text /\ Starts(use[s].got, desc.text)
           /\ use[s].pc = "streamed" => use[s].got = desc.text
<1>4. ASSUME NEW s \in Tasks \ {t}
      PROVE  Ok(s)'
    BY <1>1, <1>2, <1>3 DEF AsRead, Reading, world
<1>5. Ok(t)
    BY <1>2 DEF AsRead
<1>13. SUFFICES Ok(t)'
    <2> HIDE DEF Ok
    <2>1. Ok(t)' => \A s \in Tasks : Ok(s)'
        BY <1>4
    <2> QED  BY <2>1 DEF AsRead, Ok
<1>6. CASE Moved(t)
    BY <1>5, <1>6 DEF Moved, Keeps
<1>7. CASE ReadStarts(t) /\ kind = "http"
    <2>1. disk = desc.text /\ disk \in Contents /\ use[t].got = <<>>
        BY <1>5, <1>7 DEF ReadStarts, SInv, HInv, AsStored, Types
    <2>2. Starts(<<>>, desc.text)
        BY <2>1 DEF Starts, Contents
    <2> QED  BY <1>1, <1>7, <2>1, <2>2 DEF ReadStarts
<1>8. CASE (ReadStarts(t) \/ Gets(t)) /\ kind # "http"
    <2>1. Reading(t)' /\ use'[t].pc \in {"reading", "writing"}
        BY <1>8, StartReading DEF ReadStarts, Gets
    <2> QED  BY <1>8, <2>1
<1>9. CASE ReadGoes(t) \/ ReadEnds(t)
    <2>1. /\ use[t].pc = "reading" /\ use[t].got \in Contents /\ Source(t) \in Contents
          /\ use'[t].n = use[t].n /\ use'[t].text = use[t].text
          /\ use'[t].pc \in {"reading", "streamed"}
        BY <1>2, <1>9, SourceFacts DEF ReadGoes, ReadEnds, Keeps, Uses
    <2>2. ASSUME Source(t) = desc.text, Starts(use[t].got, desc.text)
          PROVE  /\ Starts(use'[t].got, desc.text)
                 /\ use'[t].pc = "streamed" => use'[t].got = desc.text
        <3>1. CASE ReadGoes(t)
            BY <2>1, <2>2, <3>1, AppendFacts DEF ReadGoes
        <3>2. CASE ReadEnds(t)
            BY <2>1, <2>2, <3>2, StartsWhole DEF ReadEnds, Keeps
        <3> QED  BY <1>9, <3>1, <3>2
    <2>3. CASE kind = "http"
        BY <1>1, <1>5, <2>1, <2>2, <2>3 DEF Source
    <2>4. CASE kind # "http"
        <3>1. Reading(t) /\ Source(t) = files[use[t].n].text
            BY <1>5, <2>1, <2>4 DEF Source
        <3>2. Reading(t)'
            BY <1>1, <1>3, <2>1, <2>2, <3>1 DEF Reading, world
        <3> QED  BY <2>1, <2>4, <3>2
    <2> QED  BY <2>3, <2>4
<1>10. CASE Writes(t)
    BY <1>1, <1>3, <1>5, <1>10 DEF Writes, Reading, world
<1>11. CASE Enters(t) \/ Discards(t) \/ Completes(t)
    BY <1>11 DEF Enters, Discards, Completes
<1>12. CASE Gets(t) /\ kind = "http"
    BY <1>12 DEF Gets
<1> QED  BY <1>6, <1>7, <1>8, <1>9, <1>10, <1>11, <1>12 DEF TaskStep

-----------------------------------------------------------------------------
(* Steps of the operation *)

\* The handle and the operation move on; what there is to read stays, and so do the tasks,
\* except that some may close the handle.
LEMMA AsideStep ==
    ASSUME SInv, Types', Life',
           UNCHANGED <<kind, pin, world, phase, hash, desc, artifact, writer, disk>>,
           \A s \in Tasks : \/ use'[s] = use[s]
                            \/ use[s].pc \in {"idle", "closing"} /\ use'[s].pc \in {"closing", "done"},
           unlinking' = "ended" => unlinking = "ended" \/ lost',
           unlinking' = "none" => unlinking = "none",
           unlinking = "ended" => unlinking' = "ended",
           lost => lost',
           kind = "http" /\ desc = None /\ phase \in {"body", "done"} => opc' = "resolve"
    PROVE  HInv'
<1>1. Kept' /\ Hashed' /\ Described'
    BY WorldFrame
<1>2. OnDisk'
    <2>1. OnDisk /\ None \notin Tasks /\ writer \in Tasks \cup {None}
        BY HandleAssumption DEF SInv, HInv, Types
    <2> USE DEF Materializing, WithPath
    <2>2. \A t \in Tasks :
            /\ use'[t].pc \in Materializing => kind = "s3"
            /\ use'[t].pc = "checking" => kind = "local"
            /\ use'[t].pc \in {"getting", "writing"} => writer = t
            /\ use'[t].pc = "writing" => use'[t].n \in DOMAIN files /\ Len(files[use'[t].n].text) <= MaxBytes
            /\ use'[t].pc \in WithPath /\ kind = "s3" => artifact
        BY <2>1 DEF OnDisk
    <2>3. writer # None => use'[writer].pc \in {"getting", "writing"}
        BY <2>1 DEF OnDisk
    <2> QED  BY <2>1, <2>2, <2>3 DEF OnDisk, world
<1>3. AsRead'
    <2>1. AsRead
        BY DEF SInv, HInv
    <2>2. Stable(desc.id)' <=> Stable(desc.id)
        BY DEF Stable, Identity, world
    <2> QED  BY <2>1, <2>2 DEF AsRead, Reading, world
<1>4. AsStored'
    BY DEF SInv, HInv, AsStored
<1> QED  BY <1>1, <1>2, <1>3, <1>4 DEF HInv

\* The types after such a step.
LEMMA AsideTypes ==
    ASSUME Types, UNCHANGED <<kind, pin, aware, files, at, phase, hash, desc, artifact, writer, disk>>,
           opc' \in Before \cup Within \cup After, client' \in {"none", "open", "closed"},
           active' \in BOOLEAN, closed' \in BOOLEAN, lost' \in BOOLEAN, overtaken' \in BOOLEAN,
           closer' \in Tasks \cup {Owner, None},
           unlinking' \in {"none", "queued", "running", "ended"}, use' \in [Tasks -> Uses]
    PROVE  Types'
BY DEF Types

\* The operation goes on to a point where it does nothing with the handle.
LEMMA SelectHInv == ASSUME SInv, Select \/ AcquireFails \/ Acquire \/ ResolveFails PROVE HInv'
<1>1. /\ UNCHANGED <<fixed, world, disk, handle, download, hash, cancelled, changes>>
      /\ opc \in Before /\ desc = None /\ kind = "http" => opc # "resolve" \/ opc' = "resolve"
    BY DEF Select, AcquireFails, Acquire, ResolveFails, Before, SInv, HInv, Life
<1>2. /\ opc \in Before /\ desc = None
      /\ \/ opc' \in {"acquire", "resolve"} /\ opc = "idle" /\ opc' = "acquire" /\ client' = client
         \/ opc' = "resolve" /\ client' \in {"none", "open"}
         \/ opc' = "exit" /\ client' = client
         \/ opc' = "ended" /\ opc = "idle" /\ client' = client
    BY DEF Select, AcquireFails, Acquire, ResolveFails, Before, SInv, HInv, Life, Step
<1>3. Types'
    <2>1. opc' \in Before \cup Within \cup After /\ client' \in {"none", "open", "closed"}
        BY <1>2 DEF SInv, HInv, Types, Before, Within, After
    <2> QED  BY <1>1, <2>1, AsideTypes DEF SInv, HInv, Types, handle, lifecycle, fixed, world, download
<1>4. Life'
    BY <1>1, <1>2 DEF SInv, HInv, Life, handle, lifecycle, fixed, Before, Within, After, MustUnlink
<1>5. kind = "http" /\ phase \in {"body", "done"} => opc' = "resolve"
    BY <1>1, <1>2 DEF SInv, HInv, OnDisk, Select, AcquireFails, Acquire, ResolveFails
<1> QED  BY <1>1, <1>3, <1>4, <1>5, AsideStep DEF handle, lifecycle, fixed, download

\* What aclose does up to its first suspension.
LEMMA CloseFacts ==
    ASSUME SInv, NEW c \in Tasks \cup {Owner}, Close(c), desc # None, UNCHANGED kind
    PROVE  /\ closed' = TRUE /\ active' = FALSE /\ UNCHANGED <<desc, artifact, writer, lost, disk>>
           /\ closer' \in {None, c} /\ unlinking' \in {"none", "queued", "running", "ended"}
           /\ overtaken' \in BOOLEAN /\ (overtaken => overtaken')
           /\ unlinking' \in {unlinking, "queued"} /\ (unlinking' # unlinking => unlinking = "none")
           /\ unlinking' # "none" => MustUnlink
           /\ closer' # None => unlinking' # "none"
           /\ kind = "http" => unlinking' # "none"
           /\ unlinking' = "none" => ~artifact \/ overtaken'
           /\ overtaken' \/ \A t \in Tasks : use[t].pc \notin Materializing
           /\ overtaken' => overtaken \/ \E t \in Tasks : use[t].pc \in Materializing
<1>1. /\ UNCHANGED <<desc, artifact, writer, lost, disk>> /\ closer = None
      /\ active' = FALSE /\ closed' = TRUE
      /\ overtaken' = (overtaken \/ (~closed /\ \E t \in Tasks : use[t].pc \in Materializing))
      /\ IF ~closed /\ MustUnlink THEN closer' = c /\ unlinking' = "queued"
         ELSE UNCHANGED <<closer, unlinking>>
    BY DEF Close
<1>2. Life /\ Types /\ OnDisk
    BY DEF SInv, HInv
<1>3. /\ overtaken \in BOOLEAN /\ closed \in BOOLEAN
      /\ closed => overtaken \/ \A t \in Tasks : use[t].pc \notin Materializing
    BY <1>2 DEF Types, Life
<1>4. CASE ~closed /\ MustUnlink
    BY <1>1, <1>2, <1>3, <1>4, HandleAssumption DEF Life
<1>5. CASE ~closed /\ ~MustUnlink
    <2>1. unlinking = "none" /\ kind # "http" /\ ~artifact
        BY <1>2, <1>5 DEF Life, MustUnlink, OnDisk
    <2> QED  BY <1>1, <1>3, <1>5, <2>1
<1>6. CASE closed
    <2>1. /\ unlinking # "none" => MustUnlink
          /\ kind = "http" => unlinking # "none"
          /\ unlinking = "none" => ~artifact \/ overtaken
          /\ unlinking \in {"none", "queued", "running", "ended"}
        BY <1>2, <1>6 DEF Life, Types
    <2> QED  BY <1>1, <1>3, <1>6, <2>1
<1> QED  BY <1>4, <1>5, <1>6

\* The adapter or the selector closes the handle, and the scope its resolver.
LEMMA LeaveHInv == ASSUME SInv, Leave PROVE HInv'
<1>1. UNCHANGED <<fixed, world, download, client, hash>>
    BY DEF Leave
<1>2. Life /\ Types /\ OnDisk /\ Main \in Tasks
    BY OperationAssumption DEF SInv, HInv
<1>3. CASE opc = "close" /\ Close(Owner) /\ UNCHANGED use
           /\ opc' = (IF closer' = Owner THEN "cleanup" ELSE "close again")
    <2>1. desc # None /\ opc' \in {"cleanup", "close again"}
        BY <1>2, <1>3 DEF Life, Within
    <2>2. /\ closed' = TRUE /\ active' = FALSE /\ UNCHANGED <<desc, artifact, writer, lost, disk, use>>
          /\ closer' \in {None, Owner} /\ unlinking' \in {"none", "queued", "running", "ended"}
          /\ overtaken' \in BOOLEAN /\ (overtaken => overtaken')
          /\ unlinking' \in {unlinking, "queued"} /\ (unlinking' # unlinking => unlinking = "none")
          /\ unlinking' # "none" => MustUnlink
          /\ closer' # None => unlinking' # "none"
          /\ kind = "http" => unlinking' # "none"
          /\ unlinking' = "none" => ~artifact \/ overtaken'
          /\ overtaken' \/ \A t \in Tasks : use[t].pc \notin Materializing
          /\ overtaken' => overtaken \/ \E t \in Tasks : use[t].pc \in Materializing
        BY <1>1, <1>3, <2>1, CloseFacts DEF fixed
    <2>3. ~aware => ~overtaken'
        <3>1. use[Main].pc \notin Materializing
            BY <1>2, <1>3, <2>1 DEF Life, Ended, Materializing, Before
        <3> QED  BY <1>2, <2>2, <3>1 DEF Life, Materializing
    <2>4. Types'
        <3>1. opc' \in Before \cup Within \cup After
            BY <2>1 DEF Within
        <3> QED  BY <1>1, <1>2, <2>2, <3>1, AsideTypes DEF Types, fixed, world, download
    <2>5. Life'
        BY <1>1, <1>2, <1>3, <2>1, <2>2, <2>3 DEF Life, fixed, Before, Within, After, MustUnlink
    <2> QED  BY <1>1, <1>2, <2>1, <2>2, <2>4, <2>5, AsideStep DEF fixed, download
<1>4. CASE opc = "cleanup" /\ CloseReturns(Owner) /\ opc' = "close again" /\ UNCHANGED use
    <2>1. /\ closer' = None
          /\ UNCHANGED <<desc, active, closed, unlinking, overtaken, artifact, writer, lost, disk, use>>
        BY <1>4 DEF CloseReturns
    <2>2. Types'
        <3>1. opc' \in Before \cup Within \cup After
            BY <1>4 DEF Within
        <3> QED  BY <1>1, <1>2, <2>1, <3>1, AsideTypes DEF Types, fixed, world, download
    <2>3. Life'
        BY <1>1, <1>2, <1>4, <2>1 DEF Life, fixed, Before, Within, After, MustUnlink
    <2>4. desc # None
        BY <1>2, <1>4 DEF Life, Within
    <2> QED  BY <1>1, <2>1, <2>2, <2>3, <2>4, AsideStep DEF fixed, download
<1>5. ASSUME UNCHANGED <<handle, disk>>,
             \/ opc = "work" /\ use[Main].pc \in Ended /\ opc' = "close"
             \/ opc = "close again" /\ opc' = "exit"
             \/ opc = "exit" /\ opc' = (IF client = "open" THEN "exiting" ELSE "ended")
      PROVE  HInv'
    <2>1. Types'
        <3>1. opc' \in Before \cup Within \cup After
            BY <1>5 DEF Within, After
        <3> QED  BY <1>1, <1>2, <1>5, <3>1, AsideTypes
                 DEF Types, handle, lifecycle, fixed, world, download
    <2>2. Life'
        BY <1>1, <1>2, <1>5 DEF Life, handle, lifecycle, fixed, Before, Within, After, MustUnlink
    <2>3. kind = "http" /\ desc = None /\ phase \in {"body", "done"} => opc' = "resolve"
        BY <1>2, <1>5 DEF OnDisk
    <2> QED  BY <1>1, <1>5, <2>1, <2>2, <2>3, AsideStep DEF fixed, download, handle, lifecycle
<1> QED  BY <1>3, <1>4, <1>5 DEF Leave, Step

\* The resolver's client is closed.
LEMMA ClientClosesHInv == ASSUME SInv, ClientCloses PROVE HInv'
<1>1. /\ opc = "exiting" /\ client' = "closed" /\ opc' = "ended"
      /\ UNCHANGED <<fixed, world, disk, handle, download, hash, cancelled, changes>>
    BY DEF ClientCloses, Step
<1>2. Life /\ Types /\ OnDisk
    BY DEF SInv, HInv
<1>3. Types'
    BY <1>1, <1>2 DEF Types, handle, lifecycle, fixed, world, download, After
<1>4. Life'
    BY <1>1, <1>2 DEF Life, handle, lifecycle, fixed, Before, Within, After, MustUnlink
<1>5. kind = "http" /\ desc = None /\ phase \in {"body", "done"} => opc' = "resolve"
    BY <1>1, <1>2 DEF OnDisk
<1> QED  BY <1>1, <1>3, <1>4, <1>5, AsideStep DEF fixed, download, handle, lifecycle

\* A task of the parser closes the handle.
LEMMA ClosesHInv == ASSUME SInv, NEW t \in Tasks, Closes(t) PROVE HInv'
<1>1. /\ UNCHANGED <<fixed, world, download, own, changes>> /\ aware /\ t # Main /\ desc # None
    BY DEF Closes
<1>2. Life /\ Types /\ OnDisk /\ use \in [Tasks -> Uses]
    BY DEF SInv, HInv, Types
<1>3. ASSUME use[t].pc \in {"idle", "closing"}, NEW p \in {"closing", "done"}, Goto(t, p),
             closed' = TRUE, active' = FALSE, UNCHANGED <<desc, artifact, writer, lost, disk>>,
             closer' \in Tasks \cup {None}, unlinking' \in {unlinking, "queued"},
             unlinking' # unlinking => unlinking = "none",
             overtaken' \in BOOLEAN, overtaken => overtaken',
             unlinking' # "none" => MustUnlink, closer' # None => unlinking' # "none",
             kind = "http" => unlinking' # "none", unlinking' = "none" => ~artifact \/ overtaken',
             overtaken' \/ \A s \in Tasks : use[s].pc \notin Materializing
      PROVE  HInv'
    <2>1. /\ use' \in [Tasks -> Uses] /\ use'[t].pc = p /\ \A s \in Tasks \ {t} : use'[s] = use[s]
        BY <1>2, <1>3, GotoFacts, PointFacts DEF Ended
    <2>2. unlinking' \in {"none", "queued", "running", "ended"}
        BY <1>2, <1>3 DEF Types
    <2>3. Types'
        BY <1>1, <1>2, <1>3, <2>1, <2>2, AsideTypes DEF Types, fixed, world, download, own
    <2>4. overtaken' \/ \A s \in Tasks : use'[s].pc \notin Materializing
        BY <1>3, <2>1 DEF Materializing
    <2>5. opc \notin Before \cup {"work"} => use'[Main].pc \in Ended \cup {"orphan"}
        BY <1>1, <1>2, <2>1, OperationAssumption DEF Life
    <2>6. Life'
        BY <1>1, <1>2, <1>3, <2>4, <2>5 DEF Life, fixed, own, Before, MustUnlink
    <2> QED  BY <1>1, <1>3, <2>1, <2>3, <2>6, AsideStep DEF fixed, download, own
<1>4. CASE use[t].pc = "idle" /\ Close(t) /\ Goto(t, IF closer' = t THEN "closing" ELSE "done")
    <2> DEFINE p == IF closer' = t THEN "closing" ELSE "done"
    <2>1. p \in {"closing", "done"}
        OBVIOUS
    <2>2. /\ closed' = TRUE /\ active' = FALSE /\ UNCHANGED <<desc, artifact, writer, lost, disk>>
          /\ closer' \in {None, t} /\ unlinking' \in {"none", "queued", "running", "ended"}
          /\ overtaken' \in BOOLEAN /\ (overtaken => overtaken')
          /\ unlinking' \in {unlinking, "queued"} /\ (unlinking' # unlinking => unlinking = "none")
          /\ unlinking' # "none" => MustUnlink
          /\ closer' # None => unlinking' # "none"
          /\ kind = "http" => unlinking' # "none"
          /\ unlinking' = "none" => ~artifact \/ overtaken'
          /\ overtaken' \/ \A s \in Tasks : use[s].pc \notin Materializing
        BY <1>1, <1>4, CloseFacts DEF fixed
    <2>3. Goto(t, p)
        BY <1>4
    <2> HIDE DEF p
    <2> QED  BY <1>3, <1>4, <2>1, <2>2, <2>3
<1>5. CASE use[t].pc = "closing" /\ CloseReturns(t) /\ Goto(t, "done")
    <2>1. /\ closer = t /\ closer' = None
          /\ UNCHANGED <<desc, active, closed, unlinking, overtaken, artifact, writer, lost, disk>>
        BY <1>5 DEF CloseReturns
    <2>2. /\ closed = TRUE /\ active = FALSE /\ overtaken \in BOOLEAN
          /\ unlinking # "none" /\ MustUnlink
          /\ overtaken \/ \A s \in Tasks : use[s].pc \notin Materializing
        BY <1>1, <1>2, <2>1, HandleAssumption DEF Life, Types
    <2> QED  BY <1>3, <1>5, <2>1, <2>2
<1> QED  BY <1>4, <1>5 DEF Closes

\* The thread that unlinks.
LEMMA UnlinksHInv == ASSUME SInv, Unlinks PROVE HInv'
<1>1. /\ UNCHANGED <<fixed, world, download, own, changes>>
      /\ UNCHANGED <<desc, active, closed, closer, overtaken, artifact, writer, use>>
    BY DEF Unlinks, Unlink
<1>2. Life /\ Types /\ OnDisk /\ AsStored /\ AsRead
    BY DEF SInv, HInv
<1>3. /\ unlinking \in {"queued", "running"} /\ unlinking' \in {"running", "ended"}
      /\ lost' \in BOOLEAN /\ (lost => lost')
      /\ \/ disk' = disk /\ (unlinking' = "ended" => lost')
         \/ disk' = None /\ unlinking' = "ended"
    <2>0. lost \in BOOLEAN
        BY <1>2 DEF Types
    <2>1. CASE unlinking = "queued" /\ unlinking' = "running" /\ UNCHANGED <<disk, lost>>
        <3>1. lost' = lost /\ disk' = disk
            BY <2>1
        <3> QED  BY <2>0, <2>1, <3>1
    <2>2. CASE unlinking = "running" /\ unlinking' = "ended" /\ disk' = None /\ UNCHANGED lost
        BY <2>0, <2>2
    <2>3. CASE unlinking = "running" /\ unlinking' = "ended" /\ lost' = TRUE /\ UNCHANGED disk
        BY <2>0, <2>3
    <2> QED  BY <2>1, <2>2, <2>3 DEF Unlinks, Unlink
<1>4. closed /\ MustUnlink /\ desc # None
    BY <1>2, <1>3 DEF Life
<1>5. Types'
    BY <1>1, <1>2, <1>3 DEF Types, fixed, world, download, own
<1>6. Life'
    BY <1>1, <1>2, <1>3, <1>4 DEF Life, fixed, own, MustUnlink
<1>7. CASE disk' = disk /\ (unlinking' = "ended" => lost')
    BY <1>1, <1>3, <1>4, <1>5, <1>6, <1>7, AsideStep DEF fixed, download, own
<1>8. CASE disk' = None /\ unlinking' = "ended"
    <2>1. writer = None
        <3>1. CASE kind = "http"
            BY <1>2, <3>1 DEF OnDisk, Materializing, Types
        <3>2. CASE artifact
            BY <1>2, <3>2 DEF OnDisk
        <3> QED  BY <1>4, <3>1, <3>2 DEF MustUnlink
    <2>2. OnDisk'
        BY <1>1, <1>2, <1>3, <1>4, <1>8, <2>1 DEF OnDisk, fixed, world, download, own
    <2>3. AsStored'
        BY <1>1, <1>2, <1>8 DEF AsStored, fixed
    <2>4. AsRead'
        BY <1>1, <1>2 DEF AsRead, Reading, Stable, Identity, fixed, world
    <2>5. Kept' /\ Hashed' /\ Described'
        BY <1>1, WorldFrame DEF fixed, own
    <2> QED  BY <1>5, <1>6, <2>2, <2>3, <2>4, <2>5 DEF HInv
<1> QED  BY <1>3, <1>7, <1>8

\* A step of a download.
LEMMA DownloadStep ==
    ASSUME SInv, opc = "resolve", kind = "http", desc = None,
           UNCHANGED <<fixed, world, handle, hash, client>>,
           opc' \in {"resolve", "exit"}, phase' \in Phases, disk' \in Contents \cup {None},
           disk' # None => Len(disk') <= MaxBytes,
           phase' \notin {"body", "done"} => disk' = None,
           phase' \in {"body", "done"} => disk' # None /\ opc' = "resolve"
    PROVE  HInv'
<1>1. Life /\ Types /\ OnDisk /\ AsStored /\ AsRead
    BY DEF SInv, HInv
<1>2. UNCHANGED <<desc, active, closed, closer, unlinking, overtaken, artifact, writer, use, lost>>
    BY DEF handle, lifecycle
<1>3. opc' \in Before \cup Within \cup After
    BY DEF Before, After
<1>4. Types'
    BY <1>1, <1>2, <1>3 DEF Types, fixed, world
<1>5. Life'
    BY <1>1, <1>2 DEF Life, fixed, Before, Within, After, MustUnlink
<1>6. unlinking = "none" /\ writer = None /\ ~artifact
    <2>1. unlinking = "none" /\ ~artifact /\ \A t \in Tasks : use[t].pc = "idle"
        BY <1>1 DEF Life
    <2> QED  BY <1>1, <2>1 DEF OnDisk, Types
<1>7. OnDisk'
    BY <1>1, <1>2, <1>6 DEF OnDisk, fixed, world
<1>8. AsStored'
    BY <1>2, <1>6 DEF AsStored, fixed
<1>9. AsRead'
    BY <1>1, <1>2 DEF AsRead, Reading, Stable, Identity, fixed, world
<1>10. Kept' /\ Hashed' /\ Described'
    BY <1>2, WorldFrame DEF fixed
<1> QED  BY <1>4, <1>5, <1>7, <1>8, <1>9, <1>10 DEF HInv

\* A download that is broken off, or visits another URL.
LEMMA VisitHInv ==
    ASSUME SInv, opc = "resolve", kind = "http", UNCHANGED <<fixed, world, handle, hash, client>>,
           opc' \in {"resolve", "exit"},
           \/ Abort
           \/ phase \notin {"body", "done"} /\ phase' \in {"connect", "sent"} /\ UNCHANGED disk
    PROVE  HInv'
<1>1. desc = None /\ (phase \notin {"body", "done"} => disk = None)
    BY DEF SInv, HInv, Life, OnDisk, Before
<1>2. /\ phase' \in {"failed", "connect", "sent"} /\ disk' = None
    BY <1>1 DEF Abort
<1> QED  BY <1>1, <1>2, DownloadStep DEF Phases

\* What the servers answer.
LEMMA WebRepliesHInv == ASSUME SInv, WebReplies PROVE HInv'
<1>1. opc = "resolve" /\ opc' = opc /\ UNCHANGED <<fixed, world, handle, hash, client>> /\ Reply
    BY DEF WebReplies, own
<1>2. phase # "idle" /\ phase \in {"connect", "sent", "body"}
    BY <1>1 DEF Reply, Connect, Redirect, Unacceptable, Accept, Receive, Finish
<1>3. kind = "http" /\ desc = None /\ disk \in Contents \cup {None}
    BY <1>1, <1>2 DEF SInv, HInv, OnDisk, Life, Before, Types
<1>4. CASE Abort
    BY <1>1, <1>3, <1>4, VisitHInv
<1>5. CASE Connect
    BY <1>1, <1>3, <1>5, VisitHInv DEF Connect
<1>6. CASE Redirect /\ ~Abort
    <2>1. phase = "sent" /\ phase' = "connect" /\ UNCHANGED disk
        BY <1>6 DEF Redirect, Visit
    <2> QED  BY <1>1, <1>3, <2>1, VisitHInv
<1>7. CASE Accept /\ ~Abort
    <2>1. phase' = "body" /\ disk' = <<>> /\ <<>> \in Contents /\ Len(<<>>) = 0
        BY <1>7 DEF Accept, Contents
    <2>2. 0 <= MaxBytes
        BY DownloadAssumption
    <2> QED  BY <1>1, <1>3, <2>1, <2>2, OperationAssumption, DownloadStep DEF Phases
<1>8. CASE Receive /\ ~Abort
    <2>1. PICK f \in Fragments : ~(Len(disk) + 1 > MaxBytes) /\ disk' = Append(disk, f) /\ UNCHANGED download
        BY <1>8 DEF Receive
    <2>2. disk \in Contents /\ phase = "body" /\ phase' = "body"
        BY <1>3, <1>8, <2>1 DEF SInv, HInv, OnDisk, Receive, download
    <2>3. disk' \in Contents /\ Len(disk') = Len(disk) + 1 /\ Len(disk) \in Nat
        BY <2>1, <2>2 DEF Contents
    <2>4. Len(disk') <= MaxBytes
        BY <2>1, <2>3, DownloadAssumption
    <2> QED  BY <1>1, <1>3, <2>2, <2>3, <2>4, OperationAssumption, DownloadStep DEF Phases
<1>9. CASE Finish /\ ~Abort
    <2>1. phase = "body" /\ phase' = "done" /\ disk' = disk
        BY <1>9 DEF Finish
    <2>2. disk # None /\ Len(disk) <= MaxBytes
        BY <1>3, <2>1 DEF SInv, HInv, OnDisk
    <2> QED  BY <1>1, <1>3, <2>1, <2>2, DownloadStep DEF Phases
<1> QED  BY <1>1, <1>4, <1>5, <1>6, <1>7, <1>8, <1>9 DEF Reply, Unacceptable

\* A resolved source is returned, and its handle entered.
LEMMA ReturnStep ==
    ASSUME SInv, opc = "resolve", NEW d \in Descriptor, Return(d),
           UNCHANGED <<fixed, world, phase, disk, hash, client>>, Described',
           kind = "http" => phase = "done" /\ disk = d.text
    PROVE  HInv'
<1>1. Life /\ Types /\ OnDisk /\ AsStored /\ AsRead /\ d # None
    BY OperationAssumption DEF SInv, HInv
<1>2. /\ desc' = d /\ active' = TRUE /\ opc' = "work"
      /\ UNCHANGED <<closed, closer, unlinking, overtaken, artifact, writer, use, lost>>
    BY DEF Return, Enter, Step
<1>3. /\ desc = None /\ ~closed /\ ~artifact /\ unlinking = "none"
      /\ \A t \in Tasks : use[t].pc = "idle" /\ use[t].got = <<>>
    BY <1>1 DEF Life, Before, AsRead
<1>4. opc' \in Before \cup Within \cup After
    BY <1>2 DEF Within
<1>5. Types'
    BY <1>1, <1>2, <1>4 DEF Types, fixed, world
<1>6. Life'
    BY <1>1, <1>2, <1>3 DEF Life, fixed, Before, Within, After, MustUnlink
<1>7. OnDisk'
    BY <1>1, <1>2, <1>3 DEF OnDisk, fixed, world
<1>8. AsStored'
    BY <1>1, <1>2, <1>3 DEF AsStored, fixed
<1>9. AsRead'
    BY <1>2, <1>3 DEF AsRead
<1>10. Kept' /\ Hashed'
    BY DEF SInv, HInv, world, fixed, Kept, Hashed, Stable, Identity, Was
<1> QED  BY <1>5, <1>6, <1>7, <1>8, <1>9, <1>10 DEF HInv

\* A download is started, watched and returned.
LEMMA DownloadingHInv == ASSUME SInv, Downloading PROVE HInv'
<1>1. opc = "resolve" /\ kind = "http" /\ UNCHANGED <<fixed, world, client, hash, cancelled, changes>>
    BY DEF Downloading
<1>2. desc = None /\ phase \in Phases /\ disk \in Contents \cup {None}
    BY <1>1 DEF SInv, HInv, Life, Before, Types
<1>3. CASE phase = "idle"
    <2>1. StartDownload /\ UNCHANGED <<handle, opc>>
        BY <1>3 DEF Downloading
    <2>2. CASE Abort
        BY <1>1, <2>1, <2>2, VisitHInv
    <2>3. CASE ~Abort
        <3>1. phase' = "connect" /\ UNCHANGED disk
            BY <2>1, <2>3 DEF StartDownload, Visit
        <3> QED  BY <1>1, <1>3, <2>1, <3>1, VisitHInv
    <2> QED  BY <2>2, <2>3
<1>4. CASE phase = "failed"
    <2>1. opc' = "exit" /\ UNCHANGED <<handle, download, disk>>
        BY <1>4 DEF Downloading, Step
    <2>2. phase' = "failed" /\ disk' = None
        BY <1>1, <1>2, <1>4, <2>1 DEF SInv, HInv, OnDisk, download
    <2> QED  BY <1>1, <1>2, <2>1, <2>2, DownloadStep DEF Phases
<1>5. CASE phase = "done"
    <2> DEFINE d == [n |-> 0, id |-> None, etag |-> None, text |-> disk]
    <2>1. Return(d) /\ UNCHANGED disk /\ phase' = phase
        BY <1>5 DEF Downloading, Forget
    <2>2. disk # None
        BY <1>1, <1>2, <1>5 DEF SInv, HInv, OnDisk
    <2>3. d \in Descriptor /\ d.text = disk
        BY <1>2, <2>2 DEF Descriptor
    <2> HIDE DEF d
    <2>4. Described'
        BY <1>1 DEF Described, fixed
    <2> QED  BY <1>1, <1>5, <2>1, <2>3, <2>4, ReturnStep
<1>6. CASE phase \notin {"idle", "failed", "done"}
    <2>1. Abort /\ UNCHANGED <<handle, opc>>
        BY <1>6 DEF Downloading, Interrupt
    <2> QED  BY <1>1, <2>1, VisitHInv
<1> QED  BY <1>3, <1>4, <1>5, <1>6

-----------------------------------------------------------------------------
(* Steps of a local or an S3 resolver *)

\* A step that reads, or shows, what is to be resolved.
LEMMA HashStep ==
    ASSUME SInv, opc = "resolve", UNCHANGED <<fixed, world, disk, handle, download, client>>,
           kind # "http", opc' \in {"resolve", "exit"}, hash' \in Seen \cup {None}, Hashed'
    PROVE  HInv'
<1>1. Life /\ Types /\ OnDisk /\ AsStored /\ AsRead /\ Kept
    BY DEF SInv, HInv
<1>2. /\ UNCHANGED <<kind, pin, aware, files, at, phase, desc, active, closed, closer, unlinking,
                     overtaken, artifact, writer, use, lost>>
      /\ desc = None
    BY <1>1 DEF handle, lifecycle, fixed, world, download, Life, Before
<1>3. opc' \in Before \cup Within \cup After
    BY DEF Before, After
<1>4. Types'
    BY <1>1, <1>2, <1>3 DEF Types
<1>5. Life'
    BY <1>1, <1>2 DEF Life, Before, Within, After, MustUnlink
<1>6. OnDisk' /\ AsStored' /\ Kept' /\ Described'
    BY <1>1, <1>2 DEF OnDisk, AsStored, Kept, Described
<1>7. AsRead'
    BY <1>1, <1>2 DEF AsRead, Reading, Stable, Identity
<1> QED  BY <1>4, <1>5, <1>6, <1>7 DEF HInv

\* Nothing that has been hashed changes unless hash does.
LEMMA SameHash ==
    ASSUME SInv, UNCHANGED <<kind, pin, world, hash>>
    PROVE  Hashed' /\ hash' \in Seen \cup {None}
BY DEF SInv, HInv, Types, Hashed, Stable, Identity, Was, world

\* What hash is, once there is something in it.
LEMMA HashFacts ==
    ASSUME SInv, hash # None
    PROVE  /\ hash \in Seen /\ hash.id \in Identities /\ hash.etag \in Contents /\ hash.n \in 0 .. Len(files)
           /\ hash.got \in Contents /\ hash.id.n \in DOMAIN files /\ kind \in {"local", "s3"}
           /\ kind = "local" => hash.n = hash.id.n /\ Was(hash.id)
           /\ kind = "s3" => hash.etag = files[hash.id.n].text
           /\ hash.n # 0 => hash.n \in DOMAIN files
           /\ hash.n # 0 /\ Stable(hash.id) => /\ files[hash.n].text = files[hash.id.n].text
                                               /\ Starts(hash.got, files[hash.n].text)
BY FileFacts DEF SInv, HInv, Types, Hashed, Seen

\* The file is opened, or the object shown.
LEMMA InspectHInv == ASSUME SInv, Inspect PROVE HInv'
<1>1. /\ opc = "resolve" /\ kind # "http" /\ hash = None
      /\ UNCHANGED <<fixed, world, disk, handle, download, client, cancelled, changes>>
    BY DEF Inspect
<1>2. CASE opc' = "exit" /\ UNCHANGED hash
    BY <1>1, <1>2, SameHash, HashStep DEF fixed
<1>3. CASE Unchanged(None) /\ opc' = opc
    <2> DEFINE h == [id |-> Identity(at), etag |-> files[at].text, got |-> <<>>,
                     n |-> IF kind = "local" THEN at ELSE 0]
    <2>1. hash' = h
        BY <1>3 DEF Inspect
    <2>2. at \in DOMAIN files /\ kind \in {"local", "s3"} /\ at \in 0 .. Len(files)
        BY <1>1, <1>3, FileFacts DEF Unchanged, SInv, HInv, Types
    <2>3. /\ Identity(at) \in Identities /\ Identity(at).n = at
          /\ Identity(at).stamp = files[at].stamp /\ Identity(at).size = Len(files[at].text)
          /\ files[at].text \in Contents /\ <<>> \in Contents
        BY <2>2, FileFacts DEF SInv, HInv, Identities, Contents
    <2>4. Was(Identity(at))
        <3>1. Content(files[at].text, files[at].stamp) \in files[at].past
            BY <2>2 DEF SInv, HInv, Kept
        <3> QED  BY <2>3, <3>1 DEF Was, Content
    <2>5. h \in Seen /\ h.id = Identity(at) /\ h.etag = files[at].text /\ h.got = <<>>
          /\ h.n = (IF kind = "local" THEN at ELSE 0)
        BY <2>2, <2>3 DEF Seen
    <2> HIDE DEF h
    <2>6. Starts(<<>>, files[at].text)
        BY <2>3 DEF Starts, Contents
    <2>7. Was(hash.id)'
        BY <1>1, <2>1, <2>4, <2>5 DEF Was, world
    <2>8. Hashed'
        BY <1>1, <2>1, <2>2, <2>3, <2>5, <2>6, <2>7 DEF Hashed, fixed, world
    <2> QED  BY <1>1, <1>3, <2>1, <2>5, <2>8, HashStep
<1> QED  BY <1>2, <1>3 DEF Inspect, Step

\* The object is asked for again.
LEMMA HashBeginsHInv == ASSUME SInv, HashBegins PROVE HInv'
<1>1. /\ opc = "resolve" /\ kind = "s3" /\ hash # None /\ hash.n = 0
      /\ UNCHANGED <<fixed, world, disk, handle, download, client, cancelled, changes>>
    BY DEF HashBegins
<1>2. CASE opc' = "exit" /\ UNCHANGED hash
    BY <1>1, <1>2, SameHash, HashStep DEF fixed
<1>3. CASE opc' = opc /\ ~(opc' = "exit" /\ UNCHANGED hash)
    <2> DEFINE n == Got(hash.id.n, hash.etag)
    <2>1. n # 0 /\ hash' = [hash EXCEPT !.n = n]
        BY <1>3 DEF HashBegins, Step
    <2>2. /\ hash \in Seen /\ hash.id \in Identities /\ hash.etag \in Contents /\ hash.got = <<>>
          /\ hash.id.n \in DOMAIN files /\ hash.etag = files[hash.id.n].text
        BY <1>1, HashFacts DEF SInv, HInv, Hashed
    <2>3. /\ n \in {0, hash.id.n, at} /\ (pin # "version" => n = at)
          /\ pin = "etag" => files[at].text = hash.etag
          /\ pin = "version" => n = hash.id.n
        BY <2>1, <2>2, GotFacts DEF SInv, HInv, Identities
    <2> HIDE DEF n
    <2>4. at \in 0 .. Len(files) /\ Len(files) \in Nat /\ DOMAIN files = 1 .. Len(files)
          /\ pin \in {"version", "etag", "none"}
        BY FileFacts DEF SInv, HInv, Types
    <2>5. n \in DOMAIN files
        BY <2>1, <2>2, <2>3, <2>4
    <2>6. Stable(hash.id) => files[n].text = files[hash.id.n].text
        BY <1>1, <2>2, <2>3, <2>4 DEF Stable
    <2>7. Starts(<<>>, files[n].text)
        BY <2>5, FileFacts DEF Starts, Contents, SInv, HInv
    <2>8. hash' \in Seen /\ hash'.n = n /\ hash'.id = hash.id /\ hash'.etag = hash.etag /\ hash'.got = <<>>
        BY <2>1, <2>2, <2>4, <2>5 DEF Seen
    <2>9. hash # None /\ (Stable(hash.id)' <=> Stable(hash.id))
        BY <1>1, <2>8 DEF Stable, Identity, fixed, world
    <2>10. Hashed'
        BY <1>1, <2>1, <2>2, <2>4, <2>5, <2>6, <2>7, <2>8, <2>9 DEF Hashed, fixed, world
    <2> QED  BY <1>1, <1>3, <2>8, <2>10, HashStep
<1> QED  BY <1>2, <1>3 DEF HashBegins, Step

\* A fragment is hashed.
LEMMA HashFragmentHInv == ASSUME SInv, HashFragment PROVE HInv'
<1>1. /\ opc = "resolve" /\ hash # None /\ hash.n # 0 /\ Len(hash.got) < Len(files[hash.n].text)
      /\ UNCHANGED <<fixed, world, disk, handle, download, client, cancelled, changes>>
    BY DEF HashFragment, Hashing
<1>2. kind # "http"
    BY <1>1, HashFacts
<1>3. CASE opc' = "exit" /\ UNCHANGED hash
    BY <1>1, <1>2, <1>3, SameHash, HashStep DEF fixed
<1>4. CASE opc' = opc /\ ~(opc' = "exit" /\ UNCHANGED hash)
    <2> DEFINE g == Append(hash.got, files[hash.n].text[Len(hash.got) + 1])
    <2>1. hash' = [hash EXCEPT !.got = g]
        BY <1>4 DEF HashFragment, Step
    <2>2. /\ hash \in Seen /\ hash.got \in Contents /\ files[hash.n].text \in Contents
        BY <1>1, HashFacts, FileFacts DEF SInv, HInv
    <2>3. g \in Contents /\ (Starts(hash.got, files[hash.n].text) => Starts(g, files[hash.n].text))
        BY <1>1, <2>2, AppendFacts
    <2> HIDE DEF g
    <2>4. hash' \in Seen /\ hash'.n = hash.n /\ hash'.id = hash.id /\ hash'.etag = hash.etag /\ hash'.got = g
        BY <2>1, <2>2, <2>3 DEF Seen
    <2>5. (Stable(hash.id)' <=> Stable(hash.id)) /\ (Was(hash.id)' <=> Was(hash.id))
        BY <1>1, <2>4 DEF Stable, Was, Identity, fixed, world
    <2>6. Hashed
        BY DEF SInv, HInv
    <2>7. Hashed'
        BY <1>1, <2>3, <2>4, <2>5, <2>6 DEF Hashed, fixed, world
    <2> QED  BY <1>1, <1>2, <1>4, <2>4, <2>7, HashStep
<1> QED  BY <1>3, <1>4 DEF HashFragment, Step

\* What was hashed to its end becomes the descriptor.
LEMMA HashEndsHInv == ASSUME SInv, HashEnds PROVE HInv'
<1>1. /\ opc = "resolve" /\ hash # None /\ hash.n # 0 /\ Len(hash.got) >= Len(files[hash.n].text)
      /\ UNCHANGED <<fixed, world, disk, download, client, hash, cancelled, changes>>
    BY DEF HashEnds, Hashing
<1>2. /\ hash \in Seen /\ hash.id \in Identities /\ hash.etag \in Contents /\ hash.got \in Contents
      /\ hash.n \in DOMAIN files /\ hash.id.n \in DOMAIN files /\ kind \in {"local", "s3"}
      /\ kind = "local" => hash.n = hash.id.n
      /\ Stable(hash.id) => /\ files[hash.n].text = files[hash.id.n].text
                            /\ Starts(hash.got, files[hash.n].text)
    BY <1>1, HashFacts
<1>3. CASE ~StillTheSame
    <2>1. opc' = "exit" /\ UNCHANGED handle
        BY <1>3 DEF HashEnds, Step
    <2>2. hash' \in Seen \cup {None} /\ Hashed'
        BY <1>1, SameHash DEF fixed
    <2> QED  BY <1>1, <1>2, <2>1, <2>2, HashStep
<1>4. CASE StillTheSame
    <2> DEFINE d == [n |-> hash.id.n, id |-> hash.id, etag |-> hash.etag, text |-> hash.got]
    <2>1. Return(d)
        BY <1>4 DEF HashEnds
    <2>2. hash.id.n \in Nat
        BY <1>2 DEF Identities
    <2>3. d \in Descriptor /\ d.n = hash.id.n /\ d.id = hash.id /\ d.etag = hash.etag /\ d.text = hash.got
        BY <1>2, <2>2 DEF Descriptor
    <2> HIDE DEF d
    <2>4. desc' = d
        BY <2>1 DEF Return, Enter
    <2>5. files[hash.n].text \in Contents
        BY <1>2, FileFacts DEF SInv, HInv
    <2>6. Stable(hash.id) => hash.got = files[hash.n].text
        BY <1>1, <1>2, <2>5, StartsWhole
    <2>7. kind = "local" => (\E c \in files[hash.id.n].past : c.text = hash.got) \/ files[hash.id.n].quiet
        <3>1. CASE kind = "local" /\ ~files[hash.id.n].quiet
            <4>1. Stable(hash.id)
                BY <1>2, <1>4, <3>1 DEF Stable, StillTheSame
            <4>2. Content(files[hash.n].text, files[hash.n].stamp) \in files[hash.n].past
                BY <1>2 DEF SInv, HInv, Kept
            <4> QED  BY <1>2, <2>6, <3>1, <4>1, <4>2 DEF Content
        <3> QED  BY <3>1
    <2>8. Stable(desc.id)' <=> Stable(hash.id)
        BY <1>1, <2>3, <2>4 DEF Stable, Identity, fixed, world
    <2>9. Described'
        BY <1>1, <1>2, <2>3, <2>4, <2>6, <2>7, <2>8 DEF Described, fixed, world
    <2>10. phase' = phase /\ kind # "http"
        BY <1>1, <1>2 DEF download
    <2> QED  BY <1>1, <2>1, <2>3, <2>9, <2>10, ReturnStep
<1> QED  BY <1>3, <1>4

-----------------------------------------------------------------------------
(* The source changes *)

\* A file has kept its place in what the world is made of.
LEMMA ChangedFiles ==
    ASSUME SInv, PutNew \/ WriteInPlace \/ Vanish
    PROVE  /\ UNCHANGED <<kind, pin>> /\ files' \in Seq(Inodes) /\ at' \in 0 .. Len(files')
           /\ DOMAIN files \subseteq DOMAIN files' /\ Kept'
           /\ kind # "local" => /\ \A n \in DOMAIN files : files'[n] = files[n]
                                /\ at' \in DOMAIN files => at' = at
           /\ \A n \in DOMAIN files :
                /\ files[n].past \subseteq files'[n].past /\ (files[n].quiet => files'[n].quiet)
                /\ \/ files'[n] = files[n]
                   \/ \A c \in files[n].past : c.stamp = files'[n].stamp /\ Len(c.text) = Len(files'[n].text)
                                                 => files'[n].quiet
<1>1. /\ files \in Seq(Inodes) /\ at \in 0 .. Len(files) /\ Kept
      /\ DOMAIN files = 1 .. Len(files) /\ Len(files) \in Nat
    BY FileFacts DEF SInv, HInv, Types
<1>2. CASE PutNew
    <2>1. PICK t \in Texts : /\ files' = Append(files, File(t)) /\ at' = Len(files) + 1
                             /\ UNCHANGED <<kind, pin>>
        BY <1>2 DEF PutNew
    <2>2. /\ File(t) \in Inodes /\ File(t).text = t /\ File(t).stamp = 0 /\ File(t).past = {Content(t, 0)}
        BY OperationAssumption, FileTypes
    <2> DEFINE f == File(t)
    <2> HIDE DEF f
    <2>3. /\ files' \in Seq(Inodes) /\ Len(files') = Len(files) + 1 /\ DOMAIN files' = 1 .. Len(files) + 1
          /\ files'[Len(files) + 1] = f /\ \A n \in 1 .. Len(files) : files'[n] = files[n]
        <3>1. files' = Append(files, f) /\ f \in Inodes
            BY <2>1, <2>2 DEF f
        <3> QED  BY <1>1, <3>1
    <2>4. Kept'
        <3>1. ASSUME NEW n \in DOMAIN files'
              PROVE  Content(files'[n].text, files'[n].stamp) \in files'[n].past
            <4>1. CASE n = Len(files) + 1
                BY <2>2, <2>3, <4>1 DEF f
            <4>2. CASE n # Len(files) + 1
                <5>1. n \in DOMAIN files
                    BY <1>1, <2>3, <4>2
                <5> QED  BY <1>1, <2>3, <5>1 DEF Kept
            <4> QED  BY <4>1, <4>2
        <3> QED  BY <3>1 DEF Kept
    <2> QED  BY <1>1, <2>1, <2>3, <2>4
<1>3. CASE WriteInPlace
    <2>1. PICK t \in Texts, stamp \in {files[at].stamp, files[at].stamp + 1} :
            files' = [files EXCEPT ![at] =
                        [text |-> t, stamp |-> stamp, past |-> @.past \cup {Content(t, stamp)},
                         quiet |-> \/ @.quiet
                                   \/ \E c \in @.past : c.stamp = stamp /\ Len(c.text) = Len(t)]]
        BY <1>3 DEF WriteInPlace
    <2>2. kind = "local" /\ at # 0 /\ UNCHANGED <<kind, pin, at>>
        BY <1>3 DEF WriteInPlace
    <2> DEFINE q == files[at].quiet \/ \E c \in files[at].past : c.stamp = stamp /\ Len(c.text) = Len(t)
               f == [text |-> t, stamp |-> stamp, past |-> files[at].past \cup {Content(t, stamp)}, quiet |-> q]
    <2>3. at \in DOMAIN files /\ files[at] \in Inodes /\ files[at].stamp \in Nat
        BY <1>1, <2>2, FileFacts DEF SInv, HInv
    <2>4. stamp \in Nat /\ t \in Contents
        BY <2>1, <2>3, OperationAssumption
    <2>5. q \in BOOLEAN
        BY <2>3 DEF Inodes
    <2>6. f \in Inodes
        <3>1. Content(t, stamp) \in Versions /\ files[at].past \subseteq Versions
            BY <2>3, <2>4 DEF Content, Versions, Inodes
        <3> HIDE DEF q
        <3> QED  BY <2>4, <2>5, <3>1 DEF Inodes
    <2>7. files' = [files EXCEPT ![at] = f]
        BY <2>1
    <2>8. f.text = t /\ f.stamp = stamp /\ f.past = files[at].past \cup {Content(t, stamp)} /\ f.quiet = q
        OBVIOUS
    <2>9. /\ files[at].quiet => q
          /\ \A c \in files[at].past : c.stamp = stamp /\ Len(c.text) = Len(t) => q
        OBVIOUS
    <2> HIDE DEF f, q
    <2>10. /\ files' \in Seq(Inodes) /\ Len(files') = Len(files) /\ DOMAIN files' = DOMAIN files
           /\ files'[at] = f /\ \A n \in DOMAIN files : n # at => files'[n] = files[n]
        BY <1>1, <2>3, <2>6, <2>7
    <2>11. Kept'
        <3>1. ASSUME NEW n \in DOMAIN files'
              PROVE  Content(files'[n].text, files'[n].stamp) \in files'[n].past
            <4>1. CASE n = at
                BY <2>8, <2>10, <4>1
            <4>2. CASE n # at
                BY <1>1, <2>10, <4>2 DEF Kept
            <4> QED  BY <4>1, <4>2
        <3> QED  BY <3>1 DEF Kept
    <2>12. ASSUME NEW n \in DOMAIN files
           PROVE  /\ files[n].past \subseteq files'[n].past /\ (files[n].quiet => files'[n].quiet)
                  /\ \/ files'[n] = files[n]
                     \/ \A c \in files[n].past :
                          c.stamp = files'[n].stamp /\ Len(c.text) = Len(files'[n].text) => files'[n].quiet
        <3>1. CASE n = at
            BY <2>8, <2>9, <2>10, <3>1
        <3>2. CASE n # at
            BY <2>10, <3>2
        <3> QED  BY <3>1, <3>2
    <2> QED  BY <1>1, <2>2, <2>10, <2>11, <2>12
<1>4. CASE Vanish
    <2>1. at' = 0 /\ UNCHANGED <<kind, pin, files>>
        BY <1>4 DEF Vanish
    <2>2. at' \in 0 .. Len(files') /\ at' \notin DOMAIN files
        BY <1>1, <2>1
    <2>3. Kept'
        BY <1>1, <2>1 DEF Kept
    <2> QED  BY <1>1, <2>1, <2>2, <2>3
<1> QED  BY <1>2, <1>3, <1>4

\* A source that is still as it was found was that before, too, and holds the same.
LEMMA StillStable ==
    ASSUME SInv, PutNew \/ WriteInPlace \/ Vanish, NEW id \in Identities, id.n \in DOMAIN files,
           kind = "local" => Was(id), Stable(id)', kind # "http"
    PROVE  Stable(id) /\ files'[id.n] = files[id.n]
<1>1. /\ UNCHANGED <<kind, pin>>
      /\ kind # "local" => files'[id.n] = files[id.n] /\ (at' \in DOMAIN files => at' = at)
      /\ \/ files'[id.n] = files[id.n]
         \/ \A c \in files[id.n].past : c.stamp = files'[id.n].stamp /\ Len(c.text) = Len(files'[id.n].text)
                                          => files'[id.n].quiet
    BY ChangedFiles
<1>2. CASE kind = "local"
    <2>1. ~files'[id.n].quiet /\ Identity(id.n)' = id
        BY <1>1, <1>2 DEF Stable
    <2>2. PICK c \in files[id.n].past : c.stamp = id.stamp /\ Len(c.text) = id.size
        BY <1>2 DEF Was
    <2>3. files'[id.n].stamp = id.stamp /\ Len(files'[id.n].text) = id.size
        BY <2>1 DEF Identity
    <2>4. files'[id.n] = files[id.n]
        BY <1>1, <2>1, <2>2, <2>3
    <2>5. Identity(id.n) = id
        BY <2>1, <2>4 DEF Identity
    <2> QED  BY <1>2, <2>1, <2>4, <2>5 DEF Stable
<1>3. CASE kind # "local"
    BY <1>1, <1>3 DEF Stable
<1> QED  BY <1>2, <1>3

\* What has been read stays as true as it was.
LEMMA SourceChangesHInv == ASSUME SInv, SourceChanges PROVE HInv'
<1>1. PutNew \/ WriteInPlace \/ Vanish
    BY DEF SourceChanges
<1>2. /\ UNCHANGED <<aware, disk, handle, download, own>>
      /\ UNCHANGED <<desc, active, closed, closer, unlinking, overtaken, artifact, writer, use, lost,
                     opc, client, hash, phase>>
    BY DEF SourceChanges, handle, lifecycle, own, download
<1>3. /\ UNCHANGED <<kind, pin>> /\ files' \in Seq(Inodes) /\ at' \in 0 .. Len(files')
      /\ DOMAIN files \subseteq DOMAIN files' /\ Kept'
      /\ kind # "local" => \A n \in DOMAIN files : files'[n] = files[n]
      /\ \A n \in DOMAIN files : files[n].past \subseteq files'[n].past /\ (files[n].quiet => files'[n].quiet)
    BY <1>1, ChangedFiles
<1>4. Types'
    BY <1>2, <1>3 DEF SInv, HInv, Types
<1>5. Life' /\ AsStored'
    BY <1>2, <1>3 DEF SInv, HInv, Life, AsStored, MustUnlink
<1>6. OnDisk'
    <2>1. OnDisk
        BY DEF SInv, HInv
    <2>2. \A t \in Tasks : use[t].pc = "writing" =>
            use[t].n \in DOMAIN files' /\ Len(files'[use[t].n].text) <= MaxBytes
        BY <1>3, <2>1 DEF OnDisk, Materializing
    <2> QED  BY <1>2, <1>3, <2>1, <2>2 DEF OnDisk
<1>7. Hashed'
    <2>1. CASE hash = None
        BY <1>2, <2>1 DEF Hashed
    <2>2. CASE hash # None
        <3>1. /\ hash.id \in Identities /\ hash.id.n \in DOMAIN files /\ kind \in {"local", "s3"}
              /\ kind = "local" => hash.n = hash.id.n /\ Was(hash.id)
              /\ kind = "s3" => hash.etag = files[hash.id.n].text
              /\ hash.n # 0 => hash.n \in DOMAIN files
              /\ hash.n # 0 /\ Stable(hash.id) => /\ files[hash.n].text = files[hash.id.n].text
                                                  /\ Starts(hash.got, files[hash.n].text)
            BY <2>2, HashFacts
        <3>2. hash.n = 0 => hash.got = <<>>
            BY <2>2 DEF SInv, HInv, Hashed
        <3>3. Stable(hash.id)' => Stable(hash.id) /\ files'[hash.id.n] = files[hash.id.n]
            BY <1>1, <1>2, <3>1, StillStable
        <3>4. hash.n # 0 /\ Stable(hash.id)' => files'[hash.n] = files[hash.n]
            BY <1>3, <3>1, <3>3
        <3>5. kind = "local" => Was(hash.id)'
            BY <1>2, <1>3, <3>1 DEF Was
        <3>6. kind = "s3" => hash.etag = files'[hash.id.n].text
            BY <1>3, <3>1
        <3>7. hash.n \in 0 .. Len(files')
            <4>1. DOMAIN files' = 1 .. Len(files') /\ Len(files') \in Nat
                BY <1>3
            <4> QED  BY <1>3, <3>1, <4>1
        <3> QED  BY <1>2, <1>3, <2>2, <3>1, <3>2, <3>3, <3>4, <3>5, <3>6, <3>7 DEF Hashed
    <2> QED  BY <2>1, <2>2
<1>8. ASSUME desc # None, kind # "http"
      PROVE  /\ hash # None /\ desc.id = hash.id /\ desc.n = desc.id.n /\ desc.n \in DOMAIN files
             /\ desc.id \in Identities
             /\ Stable(desc.id)' => Stable(desc.id) /\ files'[desc.n] = files[desc.n]
    <2>1. /\ hash # None /\ desc.id = hash.id /\ desc.n = desc.id.n /\ desc.n \in DOMAIN files
        BY <1>8, GotThere DEF SInv, HInv, Described
    <2>2. desc.id \in Identities /\ (kind = "local" => Was(desc.id))
        BY <2>1, HashFacts
    <2> QED  BY <1>1, <1>2, <1>8, <2>1, <2>2, StillStable
<1>9. Described'
    <2>1. Described
        BY DEF SInv, HInv
    <2> QED  BY <1>2, <1>3, <1>8, <2>1 DEF Described
<1>10. AsRead'
    <2>1. AsRead
        BY DEF SInv, HInv
    <2>2. ASSUME NEW t \in Tasks, use[t].pc \in {"reading", "streamed", "writing"}, kind # "http"
          PROVE  Reading(t)'
        <3>1. desc # None /\ Reading(t)
            BY <2>1, <2>2 DEF SInv, HInv, Life, AsRead
        <3>2. Stable(desc.id)' => Stable(desc.id) /\ files'[desc.n] = files[desc.n]
            BY <1>8, <2>2, <3>1
        <3>3. Stable(desc.id)' => files'[use[t].n] = files[use[t].n]
            BY <1>3, <3>1, <3>2 DEF Reading
        <3> QED  BY <1>2, <1>3, <3>1, <3>2, <3>3 DEF Reading
    <2> QED  BY <1>2, <1>3, <2>1, <2>2 DEF AsRead
<1> QED  BY <1>3, <1>4, <1>5, <1>6, <1>7, <1>9, <1>10 DEF HInv

-----------------------------------------------------------------------------
(* All steps *)

\* A step of a task.
LEMMA WorksHInv == ASSUME SInv, NEW t \in Tasks, Works(t) PROVE HInv'
<1>1. /\ TaskStep(t) /\ UNCHANGED <<fixed, world, download, own, changes>>
      /\ desc # None /\ (~aware => t = Main)
    BY WorksStep
<1>2. /\ UNCHANGED <<kind, pin, aware, files, at, phase, opc, client, hash>>
      /\ opc \in Before \cup Within \cup After /\ UNCHANGED desc
    BY <1>1 DEF fixed, world, download, own, SInv, HInv, Types, TaskStep, Alone, lifecycle
<1>3. Types'
    BY <1>1, <1>2, TaskTypes
<1>4. Life'
    BY <1>1, <1>2, TaskLife
<1>5. OnDisk'
    BY <1>1, <1>2, TaskOnDisk
<1>6. AsRead' /\ AsStored'
    BY <1>1, <1>2, TaskAsRead, TaskAsStored
<1>7. Kept' /\ Hashed' /\ Described'
    BY <1>1, <1>2, WorldFrame
<1> QED  BY <1>3, <1>4, <1>5, <1>6, <1>7 DEF HInv

\* A cancellation, wherever it meets the operation.
LEMMA CancelHInv == ASSUME SInv, Cancel PROVE HInv'
<1>1. UNCHANGED <<fixed, world, hash, changes>>
    BY DEF Cancel
<1>2. Life /\ Types /\ OnDisk /\ Main \in Tasks
    BY OperationAssumption DEF SInv, HInv
<1>3. CASE opc = "work" /\ opc' = "close" /\ Cancelled(Main) /\ UNCHANGED <<download, client>>
    <2>1. TaskStep(Main) /\ use'[Main].pc \in Ended \cup {"orphan"}
        BY <1>2, <1>3, CancelledStep
    <2>2. /\ UNCHANGED <<kind, pin, aware, files, at, phase, client, hash, desc>>
          /\ desc # None /\ opc' \in Before \cup Within \cup After
        BY <1>1, <1>2, <1>3, <2>1 DEF fixed, world, download, Life, Within, TaskStep, Alone, lifecycle
    <2>3. Types'
        BY <1>1, <1>2, <1>3, <2>1, <2>2, TaskTypes
    <2>4. Life'
        BY <1>2, <1>3, <2>1, <2>2, TaskLife
    <2>5. OnDisk' /\ AsRead' /\ AsStored'
        BY <1>1, <1>2, <2>1, <2>2, TaskOnDisk, TaskAsRead, TaskAsStored
    <2>6. Kept' /\ Hashed' /\ Described'
        BY <1>1, <2>2, WorldFrame
    <2> QED  BY <2>3, <2>4, <2>5, <2>6 DEF HInv
<1>4. CASE opc = "resolve" /\ phase # "done" /\ opc' = "exit" /\ Interrupt /\ UNCHANGED <<handle, client>>
    <2>1. kind = "http"
        BY <1>2, <1>4 DEF OnDisk, Interrupt, Waiting
    <2> QED  BY <1>1, <1>4, <2>1, VisitHInv DEF Interrupt
<1>5. CASE opc = "cleanup" /\ opc' = "close again" /\ CloseCancelled(Owner)
           /\ UNCHANGED <<use, download, client>>
    <2>1. /\ closer = Owner /\ closer' = None /\ closed /\ unlinking # "none" /\ desc # None
          /\ UNCHANGED <<desc, active, closed, overtaken, artifact, writer, disk, use>>
        BY <1>2, <1>5, HandleAssumption DEF CloseCancelled, Life, Within
    <2>2. /\ unlinking' \in {"none", "queued", "running", "ended"} /\ lost' \in BOOLEAN /\ (lost => lost')
          /\ unlinking' # "none" /\ (unlinking' = "ended" => unlinking = "ended" \/ lost')
          /\ (unlinking = "ended" => unlinking' = "ended")
        <3>1. CASE unlinking = "queued"
            BY <1>2, <1>5, <3>1 DEF CloseCancelled, Types
        <3>2. CASE unlinking # "queued"
            BY <1>2, <1>5, <2>1, <3>2 DEF CloseCancelled, Types
        <3> QED  BY <3>1, <3>2
    <2>3. Types'
        <3>1. opc' \in Before \cup Within \cup After
            BY <1>5 DEF Within
        <3> QED  BY <1>1, <1>2, <1>5, <2>1, <2>2, <3>1, AsideTypes DEF Types, fixed, world, download
    <2>4. Life'
        BY <1>1, <1>2, <1>5, <2>1, <2>2 DEF Life, fixed, Before, Within, After, MustUnlink
    <2> QED  BY <1>1, <1>5, <2>1, <2>2, <2>3, <2>4, AsideStep DEF fixed, download
<1>6. CASE /\ opc = "exiting" /\ opc' = "ended"
           /\ \/ client' = "closed" /\ UNCHANGED lost
              \/ lost' = TRUE /\ UNCHANGED client
           /\ UNCHANGED <<lifecycle, artifact, writer, use, download, disk>>
    <2>1. lost' \in BOOLEAN /\ client' \in {"none", "open", "closed"}
          /\ (lost => lost') /\ (client' = "open" => lost')
        <3>1. CASE client' = "closed" /\ UNCHANGED lost
            BY <1>2, <3>1 DEF Types
        <3>2. CASE lost' = TRUE /\ UNCHANGED client
            BY <1>2, <3>2 DEF Types
        <3> QED  BY <1>6, <3>1, <3>2
    <2>2. UNCHANGED <<desc, active, closed, closer, unlinking, overtaken, phase>>
        BY <1>6 DEF lifecycle, download
    <2>3. Types'
        <3>1. opc' \in Before \cup Within \cup After
            BY <1>6 DEF After
        <3> QED  BY <1>1, <1>2, <1>6, <2>1, <2>2, <3>1, AsideTypes DEF Types, fixed, world
    <2>4. Life'
        BY <1>1, <1>2, <1>6, <2>1, <2>2 DEF Life, fixed, Before, Within, After, MustUnlink
    <2>5. kind = "http" /\ desc = None /\ phase \in {"body", "done"} => opc' = "resolve"
        BY <1>2, <1>6 DEF OnDisk
    <2> QED  BY <1>1, <1>6, <2>1, <2>2, <2>3, <2>4, <2>5, AsideStep DEF fixed
<1>7. ASSUME UNCHANGED <<handle, download, disk, client>>,
             \/ opc = "acquire" /\ opc' = "exit"
             \/ opc = "resolve" /\ phase # "done" /\ ~Waiting /\ opc' = "exit"
             \/ opc = "close" /\ closer # None /\ opc' = "close again"
             \/ opc = "close again" /\ opc' = "exit"
      PROVE  HInv'
    <2>1. UNCHANGED <<desc, active, closed, closer, unlinking, overtaken, artifact, writer, use, lost, phase>>
        BY <1>7 DEF handle, lifecycle, download
    <2>2. Types'
        <3>1. opc' \in Before \cup Within \cup After
            BY <1>7 DEF Within, After
        <3> QED  BY <1>1, <1>2, <1>7, <2>1, <3>1, AsideTypes DEF Types, fixed, world
    <2>3. Life'
        BY <1>1, <1>2, <1>7, <2>1 DEF Life, fixed, Before, Within, After, MustUnlink
    <2>4. kind = "http" /\ desc = None /\ phase \in {"body", "done"} => opc' = "resolve"
        BY <1>2, <1>7 DEF OnDisk, Waiting
    <2> QED  BY <1>1, <1>7, <2>1, <2>2, <2>3, <2>4, AsideStep DEF fixed
<1>8. CASE /\ opc = "resolve" /\ phase # "done" /\ opc' = "exit"
           /\ IF Waiting THEN Interrupt ELSE UNCHANGED <<download, disk>>
           /\ UNCHANGED <<handle, client>>
    BY <1>4, <1>7, <1>8
<1> QED  BY <1>3, <1>5, <1>6, <1>7, <1>8 DEF Cancel, Step

\* Initially nothing has been found, read or written.
LEMMA InitSInv == Init => SInv
<1> SUFFICES ASSUME Init
             PROVE  SInv
    OBVIOUS
<1>1. ChainInv
    BY InitChain
<1>2. /\ kind \in {"local", "s3", "http"} /\ pin \in {"version", "etag", "none"}
      /\ desc = None /\ active = FALSE /\ closed = FALSE /\ closer = None /\ unlinking = "none"
      /\ artifact = FALSE /\ writer = None /\ lost = FALSE /\ overtaken = FALSE /\ disk = None
      /\ use = [t \in Tasks |-> [pc |-> "idle", n |-> 0, text |-> <<>>, got |-> <<>>]]
      /\ phase = "idle" /\ opc = "idle" /\ aware \in BOOLEAN /\ client = "none" /\ hash = None
    BY DEF Init, WorldInit, HandleInit, DownloadInit
<1>3. /\ files \in Seq(Inodes) /\ at \in 0 .. Len(files) /\ Kept
    <2>1. CASE files = <<>> /\ at = 0
        BY <2>1 DEF Kept
    <2>2. ASSUME NEW t \in Original, files = <<File(t)>>, at = 1
          PROVE  files \in Seq(Inodes) /\ at \in 0 .. Len(files) /\ Kept
        <3>1. /\ File(t) \in Inodes /\ File(t).text = t /\ File(t).stamp = 0
              /\ File(t).past = {Content(t, 0)}
            BY OperationAssumption, FileTypes
        <3> DEFINE f == File(t)
        <3> HIDE DEF f
        <3>2. files = <<f>> /\ f \in Inodes
            BY <2>2, <3>1 DEF f
        <3>3. Len(files) = 1 /\ DOMAIN files = {1} /\ files[1] = f /\ files \in Seq(Inodes)
            BY <3>2
        <3>4. Kept
            BY <3>1, <3>3 DEF Kept, f
        <3> QED  BY <2>2, <3>3, <3>4
    <2> QED  BY <2>1, <2>2 DEF Init, WorldInit
<1>4. use \in [Tasks -> Uses] /\ \A t \in Tasks : use[t].pc = "idle" /\ use[t].got = <<>>
    BY <1>2 DEF Uses, Points, Contents
<1>5. Types
    BY <1>2, <1>3, <1>4 DEF Types, Before, Phases
<1>6. Life
    BY <1>2, <1>4 DEF Life, Before, Within, After
<1>7. OnDisk
    BY <1>2, <1>4 DEF OnDisk, Materializing, WithPath
<1>8. Hashed /\ Described /\ AsStored
    BY <1>2 DEF Hashed, Described, AsStored
<1>9. AsRead
    BY <1>4 DEF AsRead
<1> QED  BY <1>1, <1>3, <1>5, <1>6, <1>7, <1>8, <1>9 DEF SInv, HInv

\* No step ends it.
LEMMA NextSInv == SInv /\ [Next]_vars => SInv'
<1> SUFFICES ASSUME SInv, [Next]_vars
             PROVE  SInv'
    OBVIOUS
<1>1. ChainInv'
    BY NextChain DEF SInv
<1>2. SUFFICES HInv'
    BY <1>1 DEF SInv
<1>3. CASE UNCHANGED vars
    <2>1. UNCHANGED <<kind, pin, aware, files, at, phase, hash, desc, artifact, writer, disk, use,
                      opc, client, active, closed, closer, unlinking, overtaken, lost>>
        BY <1>3 DEF vars, fixed, world, handle, lifecycle, download, own
    <2>2. Types'
        BY <2>1 DEF SInv, HInv, Types
    <2>4. Life'
        BY <2>1 DEF SInv, HInv, Life, MustUnlink
    <2>3. kind = "http" /\ desc = None /\ phase \in {"body", "done"} => opc' = "resolve"
        BY <2>1 DEF SInv, HInv, OnDisk
    <2> QED  BY <2>1, <2>2, <2>3, <2>4, AsideStep DEF world
<1>4. CASE Operates
    BY <1>4, SelectHInv, DownloadingHInv, LeaveHInv, ClientClosesHInv, InspectHInv, HashFragmentHInv,
       HashEndsHInv DEF Operates
<1>5. CASE Remote
    BY <1>5, WebRepliesHInv, InspectHInv, HashBeginsHInv, HashFragmentHInv, HashEndsHInv DEF Remote
<1>6. CASE Unlinks \/ Cancel \/ SourceChanges
    BY <1>6, UnlinksHInv, CancelHInv, SourceChangesHInv
<1>7. CASE \E t \in Tasks : Works(t) \/ Closes(t)
    BY <1>7, WorksHInv, ClosesHInv
<1> QED  BY <1>3, <1>4, <1>5, <1>6, <1>7 DEF Next

\* The invariant holds of every operation.
LEMMA SourcesInductive == Spec => []SInv
BY InitSInv, NextSInv, PTL DEF Spec

-----------------------------------------------------------------------------
(* Theorems *)

\* SourceInv: the locks hold, and a handle is entered once and closed for good
\* (source/handle.py, s3/resolver.py).
THEOREM SourceInvariant == Spec => []SourceInv
<1>1. SInv => SourceInv
    BY DEF SInv, HInv, Types, Life, OnDisk, SourceInv, Phases, Before, Within, After,
           Materializing, MustUnlink
<1> QED  BY <1>1, SourcesInductive, PTL

\* FingerprintHolds: a fingerprint is of a content that the source had, and whoever reads
\* the source to its end, or is given a path, gets that content, for any number of
\* changes: unless the file changed with its stamp left alone or while it was read, or
\* the store names no versions (local_io.py, s3/transfer.py, s3/resolver.py).
THEOREM FingerprintsHold == Spec => []FingerprintHolds
<1>1. ASSUME SInv
      PROVE  FingerprintHolds
    <2>1. SUFFICES ASSUME desc # None
                   PROVE  FingerprintHolds
        BY DEF FingerprintHolds
    <2>2. AsRead /\ AsStored /\ OnDisk /\ Life /\ Described /\ Types
        BY <1>1 DEF SInv, HInv
    <2>3. kind = "local" => (\E c \in files[desc.n].past : c.text = desc.text) \/ files[desc.n].quiet
        BY <2>1, <2>2 DEF Described
    <2>4. kind # "http" => desc.n = desc.id.n /\ (Stable(desc.id) => desc.text = files[desc.n].text)
        BY <2>1, <2>2 DEF Described
    <2>5. kind = "s3" /\ pin # "none" => desc.text = files[desc.n].text
        BY <2>4 DEF Stable
    <2>6. ASSUME NEW t \in Tasks, use[t].pc = "streamed", use[t].got # desc.text
          PROVE  \/ kind = "local" /\ (files[desc.n].quiet \/ Identity(desc.n) # desc.id)
                 \/ kind = "s3" /\ pin = "none" /\ at # desc.n
        <3>1. kind # "http" /\ ~Stable(desc.id)
            BY <2>2, <2>6 DEF AsRead, Reading
        <3> QED  BY <2>2, <2>4, <3>1 DEF Stable, Types
    <2>7. ASSUME NEW t \in Tasks, use[t].pc \in WithPath, kind # "local", active
          PROVE  disk = desc.text
        <3>1. ~closed /\ unlinking = "none"
            BY <2>1, <2>2, <2>7 DEF Life
        <3>2. kind = "s3" => artifact
            BY <2>2, <2>7 DEF OnDisk
        <3> QED  BY <2>1, <2>2, <2>7, <3>1, <3>2 DEF AsStored, Types
    <2> QED  BY <2>3, <2>5, <2>6, <2>7 DEF FingerprintHolds
<1> QED  BY <1>1, SourcesInductive, PTL

\* ArtifactsReleased: the artifact is there while the awaited parser reads it, and in the
\* end neither it nor the client is left, with the exceptions that it names
\* (source/handle.py, http.py, s3/resolver.py, selection.py, input_adapter.py).
THEOREM NothingIsLeft == Spec => []ArtifactsReleased
<1>1. ASSUME SInv
      PROVE  ArtifactsReleased
    <2>1. AsStored /\ OnDisk /\ Life /\ Types /\ Main \in Tasks
        BY <1>1, OperationAssumption DEF SInv, HInv
    <2>2. ASSUME opc = "work", use[Main].pc \in WithPath, kind # "local", ~closed
          PROVE  disk # None
        <3>1. desc # None /\ unlinking = "none" /\ desc.text \in Contents
            BY <2>1, <2>2 DEF Life, Within, Types, Descriptor
        <3>2. kind = "s3" => artifact
            BY <2>1, <2>2 DEF OnDisk
        <3>3. disk = desc.text
            BY <2>1, <2>2, <3>1, <3>2 DEF AsStored, Types
        <3> QED  BY <3>1, <3>3, OperationAssumption
    <2>3. ASSUME AtRest, disk # None
          PROVE  lost \/ (overtaken /\ aware)
        <3>1. /\ opc = "ended" /\ unlinking \in {"none", "ended"}
              /\ \A t \in Tasks : use[t].pc \notin Materializing
            BY <2>1, <2>3 DEF AtRest, Types
        <3>2. unlinking = "ended" => lost
            BY <2>1, <2>3 DEF OnDisk
        <3>3. writer = None
            BY <2>1, <3>1 DEF OnDisk, Materializing, Types
        <3>4. kind = "http" \/ artifact
            BY <2>1, <2>3, <3>3 DEF OnDisk, Types
        <3>5. desc # None
            BY <2>1, <2>3, <3>1, <3>4 DEF OnDisk, Life
        <3>6. closed
            BY <2>1, <3>1, <3>5 DEF Life, After
        <3>7. unlinking = "none" => overtaken /\ aware
            BY <2>1, <3>4, <3>6 DEF Life
        <3> QED  BY <3>1, <3>2, <3>7
    <2>4. AtRest /\ client = "open" => lost
        BY <2>1 DEF AtRest, Life
    <2> QED  BY <2>2, <2>3, <2>4 DEF ArtifactsReleased
<1> QED  BY <1>1, SourcesInductive, PTL
=============================================================================
