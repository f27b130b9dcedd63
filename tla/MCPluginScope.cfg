CONSTANTS
    process = process
    request = request
    operation = operation
    t1 = t1
    t2 = t2
    t3 = t3
    k1 = k1
    k2 = k2
    None = None
    Process <- process
    Scopes <- MCScopes
    Parent <- MCParent
    Tasks <- MCTasks
    Home <- MCHome
    Keys <- MCKeys
SPECIFICATION FairSpec
INVARIANTS ScopeInv OneInstancePerKey NestedScopesRelease
PROPERTIES AcquiredIsUsable AcquiresReturn
\* a run ends when every scope is closed and every acquire has returned
CHECK_DEADLOCK FALSE
