CONSTANTS
    c1 = c1
    c2 = c2
    c3 = c3
    p1 = p1
    p2 = p2
    t1 = t1
    t2 = t2
    CIK <- MCCik
    Pipeline <- MCPipeline
    NoPipeline = NoPipeline
    MaxVersion = 2
    SicCode <- MCSicCode
    Tradeable <- MCTradeable
    Batch = 2
    MaxCrashes = 1
    Thread <- MCThread
    TTL = 2
    Slow = 1
SPECIFICATION Spec
SYMMETRY Symmetry
INVARIANTS LastDropWins SoloRepairs MissingIsNoticed
