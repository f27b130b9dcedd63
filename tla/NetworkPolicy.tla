---------------------------- MODULE NetworkPolicy ----------------------------
(* Which URLs and addresses an HTTP source may use: docpipe.sources.http_security. *)
EXTENDS Naturals, Sequences

CONSTANTS
    Addresses,       \* IP addresses
    Globals,         \* those that are globally routable
    Loopback,        \* 127.0.0.1
    AllowedPorts,
    AllowPrivate     \* whether the operator lets sources be elsewhere

ASSUME PolicyAssumption ==
    /\ Globals \subseteq Addresses /\ Loopback \in Addresses \ Globals
    /\ AllowedPorts # {} /\ AllowedPorts \subseteq 1 .. 65535
    /\ AllowPrivate \in BOOLEAN

AllowedAddress(a) == AllowPrivate \/ a \in Globals

\* A URL is [scheme, host, port, clean]: a host is an address or a name, port 0 is
\* the scheme's own, and clean says that it has no credentials, fragment or control
\* characters.
PortOf(url) == IF url.port # 0 THEN url.port ELSE IF url.scheme = "https" THEN 443 ELSE 80

\* Mutant: only the answer that will be used is looked at.
VettedFirst(answers) == answers # <<>> /\ AllowedAddress(answers[1])

\* Every answer counts, not only the one that will be used.
Vetted(answers) == answers # <<>> /\ \A i \in DOMAIN answers : AllowedAddress(answers[i])

Inspected(url) ==
    /\ url.scheme \in {"http", "https"} /\ url.clean
    /\ PortOf(url) \in AllowedPorts
    /\ url.host \in Addresses => Vetted(<<url.host>>)
    /\ url.host = "localhost" => Vetted(<<Loopback>>)

\* The address the pinned backend connects to, for the answers of this connection.
Connectable(url, answers) == PortOf(url) \in AllowedPorts /\ Vetted(answers)
Pinned(answers) == Head(answers)
=============================================================================
