CONSTANTS
    c1 = c1
    c2 = c2
    p1 = p1
    p2 = p2
    NoProc = NoProc
    CIK <- MCCik
    Proc <- MCProc
    Complete <- MCComplete
    MaxVersion = 2
    MaxChanged = 1
    SkipModes = {TRUE}
    LargeModes = {FALSE}
    Overlap = TRUE
    Interrupts = FALSE
    MaxFaults = 1
SPECIFICATION FairSpec
INVARIANTS RowsMatchHash
PROPERTIES RunsEnd FactsConverge MirrorsFacts
