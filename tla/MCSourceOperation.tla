-------------------------- MODULE MCSourceOperation --------------------------
EXTENDS SourceOperation

CONSTANTS x, y, web, lan, lo, t1, t2

Url(scheme, host, port) == [scheme |-> scheme, host |-> host, port |-> port, clean |-> TRUE]

MCRequested == {Url("https", "a.org", 0), Url("http", web, 0)}
MCUrls == MCRequested \cup
    {Url("http", "b.org", 0), Url("https", "b.org", 443), Url("http", "localhost", 0),
     Url("http", lan, 80), Url("https", "a.org", 8443), [Url("https", "a.org", 0) EXCEPT !.clean = FALSE]}
MCAnswers == {<<web>>, <<web, lan>>, <<>>}
MCTexts == {<<x, x>>, <<y, y>>, <<y>>, <<x, y, x>>}
MCOriginal == {<<x, x>>}

=============================================================================
