--------------------------- MODULE MCAgentSessions ---------------------------
EXTENDS AgentSessions

CONSTANTS t1, t2, ask1, ask2, decide, search, write

MCThreadOf == [r \in Requests |-> IF r = ask2 THEN t2 ELSE t1]
MCKind == [r \in Requests |-> IF r = decide THEN "decide" ELSE "ask"]
MCResponses == {<<>>, <<search, search>>, <<search, write>>}
=============================================================================
