SPECIFICATION Spec
CONSTANTS
    r1 = r1
    r2 = r2
    r3 = r3
    r4 = r4
    hello = hello
    world = world
    Done = Done
    Usage = Usage
    Failure = Failure
    Answer <- MCAnswer
    HighWater = 0
    c1 = c1
    c2 = c2
    proxy = proxy
    ada = ada
    bob = bob
    eve = eve
    red = red
    blue = blue
    q = q
    v = v
    h = h
    s1 = s1
    s2 = s2
    t1 = t1
    t2 = t2
    None = None
    Requests = {r1, r2, r3, r4}
    Scenarios <- MCScenarios
    Replacement = {t2}
    Sources = {s1, s2}
    Texts = {t1, t2}
    Lines <- MCLines
    Passage = h
    Selections = {"multi_query", "parent_document", "hybrid", "lightrag", "auto"}
    MaxTokens = 2
    Score <- MCScore
    Capabilities = {"dense", "filter"}
    Filtered = TRUE
    Prompts = {"hyde", "multi_query", "auto"}
    GraphDir = TRUE
    VariantCount = 1
    TopK = 2
    MaxPerSource = 1
    ParentWindow = 1
    TTL = 1
    MaxEntries = 1
    Similar <- MCSimilar
    MaxSimilar = 1
    Peer <- MCPeer
    Forwarded <- MCForwarded
    Path <- MCPath
    Trusted = {proxy}
    Limit = 1
    Window = 1
    MaxBuckets = 2
    Users = {ada, bob, eve}
    PolicyTenants = {red, blue}
    MayUse = {red, blue}
    Origin <- MCOrigin
INVARIANTS RagInv LimiterHolds CachedAnswersAreOwn EndedMeansReleased ContextBest OutcomeTrue
PROPERTY CallsEnd
CHECK_DEADLOCK FALSE
