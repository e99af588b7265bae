CONSTANTS
    Attempts = 3
    QueryAttempts = 2
    MaxRows = 3
    PipeSize = 2
    MaxChanges = 0
    MaxFaults = 1
SPECIFICATION FairExportSpec
PROPERTIES ExportEnds
\* The export of a table ends.
CHECK_DEADLOCK FALSE
