CONSTANTS
    c1 = c1
    c2 = c2
    c3 = c3
    c4 = c4
    Calls <- MCCalls
    Bounded <- MCBounded
    Hanging <- MCHanging
    MaxConcurrency = 2
SPECIFICATION FairSpec
INVARIANTS RunnerInv
PROPERTIES StartsOnlyWanted QueueDrains CallsReturn CloseReleasesCallers
\* a run ends when every call has returned
CHECK_DEADLOCK FALSE
