CONSTANTS
    o1 = o1
    o2 = o2
    o3 = o3
    r1 = r1
    r2 = r2
    s1 = s1
    s2 = s2
    shared = shared
    Absent = Absent
    NoCollection = NoCollection
    Damaged = Damaged
    Unseen = Unseen
    Records <- MCRecords
    Sources <- MCSources
    SourceOf <- MCSourceOf
    Ops <- TwoOps
    Batches <- Disjoint
    InstanceOf <- OwnInstance
    MaxCrashes = 0
    MaxFaults = 0
SPECIFICATION Spec
INVARIANT NoLostUpdate
CHECK_DEADLOCK FALSE
