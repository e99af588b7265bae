CONSTANTS
    c1 = c1
    c2 = c2
    c3 = c3
    NoFile = NoFile
    CIK <- MCCik
    Empty <- MCEmpty
    HasStatement <- MCHasStatement
    Complete <- MCComplete
    MaxVersion = 2
    BatchSize = 2
    MaxFailures = 1
SPECIFICATION FairSpec
INVARIANTS CrashesCostOne LosesOneBatch DerivedIsFresh
PROPERTIES RunsSucceedAgain
