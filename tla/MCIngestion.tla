---------------------------- MODULE MCIngestion ----------------------------
(* Two jobs on a source with two versions: one of three batches, one of one  *)
(* batch that the other version has too.                                     *)
EXTENDS Ingestion

CONSTANTS j1, j2, long, short, c1, c2, c3

MCJobs     == {j1, j2}
MCVersions == {long, short}
MCChunks   == {c1, c2, c3}
MCPlan     == [v \in Versions |->
    IF v = long THEN <<c1, c2, c3>> ELSE <<c1>>]
MCRequests == [j \in MCJobs |-> IF j = j1 THEN {"closed"} ELSE {"full", "lenient"}]
=============================================================================
