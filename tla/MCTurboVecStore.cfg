CONSTANTS
    o1 = o1
    o2 = o2
    o3 = o3
    r1 = r1
    r2 = r2
    s1 = s1
    s2 = s2
    shared = shared
    Absent = Absent
    NoCollection = NoCollection
    Damaged = Damaged
    Unseen = Unseen
    Records <- MCRecords
    Sources <- MCSources
    SourceOf <- MCSourceOf
    Ops <- MCOps
    Batches <- MCBatches
    InstanceOf <- OneInstance
    MaxCrashes = 1
    MaxFaults = 1
SYMMETRY Symmetry
SPECIFICATION Spec
INVARIANT StoreInv
PROPERTIES PreviousKept AtomicOperations
\* a run ends when every operation has
CHECK_DEADLOCK FALSE
