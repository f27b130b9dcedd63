------------------------------ MODULE Retrieval ------------------------------
(***************************************************************************)
(* The retrieval side of docpipe.rag: what a vector search returns, what   *)
(* the strategies ask for and how they merge it, and which chunks the      *)
(* coordinator puts into the context.  A chunk is a record of its source,  *)
(* its text and its score; a search ranks every text for a query.          *)
(***************************************************************************)
EXTENDS Naturals, Sequences, SequencesExt, FiniteSets

CONSTANTS
    Score,         \* [query texts -> [texts -> Nat]]
    Capabilities,  \* what the vector plugin advertises
    Filtered,      \* the request has a default filter
    Prompts,       \* the rewriting prompts that are configured
    GraphDir,      \* lightrag_working_dir is configured
    VariantCount, TopK, MaxPerSource, ParentWindow

ASSUME RetrievalAssumption ==
    /\ TopK \in Nat \ {0} /\ MaxPerSource \in Nat /\ ParentWindow \in Nat \ {0}
    /\ Capabilities \subseteq {"dense", "hybrid", "filter"}
    /\ Prompts \subseteq {"hyde", "multi_query", "auto"} /\ VariantCount \in Nat

Anywhere == "anywhere"

Registered == {"naive", "parent_document", "hybrid", "lightrag"} \cup Prompts

\* What a strategy asks of the plugin before it searches.
Requires(strategy) ==
    (IF Filtered THEN {"filter"} ELSE {})
        \cup CASE strategy = "hybrid" -> {"hybrid"}
               [] strategy = "parent_document" -> {"dense", "filter"}
               [] OTHER -> {"dense"}

\* build_rag_coordinator: the selected options, and a reader with dense search.
Buildable(strategy) ==
    /\ strategy \in {"hyde", "multi_query", "auto"} => strategy \in Prompts
    /\ strategy = "lightrag" => GraphDir
    /\ "dense" \in Capabilities

\* The automatic strategy never selects itself or a name nobody registered.
Routed(choice) == IF choice \in Registered \ {"auto"} THEN choice ELSE "naive"

-----------------------------------------------------------------------------
Search(text, source) == [text |-> text, source |-> source]

Breadth(search) == IF search.source = Anywhere THEN TopK ELSE ParentWindow

FirstOf(s, n) == SubSeq(s, 1, IF Len(s) <= n THEN Len(s) ELSE n)

Matches(rows, search) ==
    {[source |-> p[1], text |-> p[2], score |-> Score[search.text][p[2]]] :
        p \in {p \in UNION {{s} \X rows[s] : s \in DOMAIN rows} :
                   search.source \in {Anywhere, p[1]}}}

\* The chunks that go before one: those of a better score, and the earlier of the same.
Above(chunks, i) ==
    {j \in DOMAIN chunks : \/ chunks[j].score > chunks[i].score
                           \/ chunks[j].score = chunks[i].score /\ j < i}

\* A stable sort, the best score first.
Ranked(chunks) ==
    [n \in DOMAIN chunks |->
        chunks[CHOOSE i \in DOMAIN chunks : Cardinality(Above(chunks, i)) = n - 1]]

Found(rows, search) == FirstOf(Ranked(SetToSeq(Matches(rows, search))), Breadth(search))

\* The rewritten lines that differ from the question.
Variants(question, lines) ==
    FoldLeft(LAMBDA out, l : IF l = question THEN out ELSE Append(out, l), <<>>, lines)

Queries(question, lines) == <<question>> \o FirstOf(Variants(question, lines), VariantCount)

SourcesOf(chunks) ==
    FoldLeft(LAMBDA seen, c : IF Contains(seen, c.source) THEN seen ELSE Append(seen, c.source),
             <<>>, chunks)

-----------------------------------------------------------------------------
SameChunk(a, b) == a.source = b.source /\ a.text = b.text

\* Mutant of MergeOne: the last search that found a chunk scores it.
MergeOneLast(kept, c) ==
    LET at == {i \in DOMAIN kept : SameChunk(kept[i], c)}
    IN  IF at = {} THEN Append(kept, c) ELSE [i \in DOMAIN kept |-> IF i \in at THEN c ELSE kept[i]]

\* A chunk keeps the place it was first found at and its best score.
MergeOne(kept, c) ==
    LET at == {i \in DOMAIN kept : SameChunk(kept[i], c)}
    IN  IF at = {} THEN Append(kept, c)
        ELSE [i \in DOMAIN kept |-> IF i \in at /\ c.score > kept[i].score THEN c ELSE kept[i]]

Merge(kept, found) == FoldLeft(MergeOne, kept, found)

CapBySource(chunks) ==
    IF MaxPerSource = 0 THEN chunks
    ELSE FoldLeft(LAMBDA chosen, c :
                      IF Cardinality({i \in DOMAIN chosen : chosen[i].source = c.source}) >= MaxPerSource
                      THEN chosen ELSE Append(chosen, c),
                  <<>>, chunks)

Context(chunks) == FirstOf(CapBySource(chunks), TopK)
=============================================================================
