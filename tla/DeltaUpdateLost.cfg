CONSTANTS
    c1 = c1
    c2 = c2
    p1 = p1
    p2 = p2
    NoProc = NoProc
    CIK <- MCCik
    Proc <- MCOneProc
    Complete <- MCComplete
    MaxVersion = 2
    MaxChanged = 2
    SkipModes = {FALSE}
    LargeModes = {FALSE}
    Overlap = TRUE
    Interrupts = FALSE
    MaxFaults = 1
SPECIFICATION FairSpec
PROPERTIES EventuallyReingested
