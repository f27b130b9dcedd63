SPECIFICATION FairSpec
CONSTANTS
    t1 = t1
    t2 = t2
    ask1 = ask1
    ask2 = ask2
    decide = decide
    search = search
    write = write
    Threads = {t1, t2}
    Sessions = {t1, t2}
    Requests = {ask1, ask2, decide}
    ThreadOf <- MCThreadOf
    Kind <- MCKind
    Calls = {search, write}
    WriteCalls = {write}
    ApprovalCalls = {write}
    Results = {1}
    RepeatCap = 1
    Window = 4
    Repeats = 3
    Verifies = TRUE
    MaxSteps = 2
    MaxRetries = 1
    RecursionLimit = 5
    Responses <- MCResponses
    MaxSessions = 1
INVARIANTS AgentInv ApprovalGuardsTools RepeatsBounded AnsweredUnlessRejected WedgeExplained PausedUntilDecided
PROPERTY QueriesEnd
CHECK_DEADLOCK FALSE
