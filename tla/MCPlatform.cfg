SPECIFICATION Spec
CONSTANTS
    None = None
    Broken = Broken
    r1 = r1
    r2 = r2
    r3 = r3
    Requests = {r1, r2, r3}
    DefaultRoot = "root"
    Collections = {"c"}
    PageSize = 1
    MaxScan = 3
    Deepest = 2
    Widest = 2
    Sources = {"s", "z"}
    Texts = {"a", "b", "blank", "mixed"}
    Pages <- MCPages
    Attributes <- MCAttributes
    Plays <- MCPlays
    MaxFaults = 1
    MaxEdits = 1
INVARIANTS PlatformInv RepliesHold
PROPERTY RequestsEnd
CHECK_DEADLOCK FALSE
