CONSTANTS
    c1 = c1
    c2 = c2
    p1 = p1
    p2 = p2
    x = x
    y = y
    CIK <- MCCik
    Name <- MCName
    Line <- MCLine
    Pipeline <- MCPipeline
    Versions <- MCVersions
    Listed <- MCListed
    DeleteBatch = 2
    InsertBatch = 2
    MaxId = 4
SPECIFICATION Spec
SYMMETRY Symmetry
INVARIANTS AloneHeals DoublesNeedOverlap ResolvesToHolder
