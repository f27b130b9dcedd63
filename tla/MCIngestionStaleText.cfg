CONSTANTS
    j1 = j1
    j2 = j2
    long = long
    short = short
    c1 = c1
    c2 = c2
    c3 = c3
    None = None
    Jobs <- MCJobs
    Versions <- MCVersions
    Chunks <- MCChunks
    Plan <- MCPlan
    Requests <- MCRequests
    MaxBatches = 3
    MaxInFlight = 1
    IsFile = TRUE
    MaxEdits = 1
SPECIFICATION Spec
INVARIANT FingerprintIsOfText
\* a run ends when every job has
CHECK_DEADLOCK FALSE
