CONSTANTS
    Attempts = 3
    QueryAttempts = 2
    MaxRows = 3
    PipeSize = 2
    MaxChanges = 2
    MaxFaults = 4
SPECIFICATION FairExportSpec
INVARIANTS ExportsGoodTable AttemptCleansUp GivesUpForCause
PROPERTIES SmallExportEnds
\* The export of a table ends.
CHECK_DEADLOCK FALSE
