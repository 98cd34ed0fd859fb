SPECIFICATION MCSpec
CONSTANTS
    MaxId = 3
    HistoryLimit = 2
    MaxEdits = 6
    MaxDocs = 2
    MaxCalls = 2
    MaxReloads = 1
    Plans <- MCPlans
CHECK_DEADLOCK FALSE
PROPERTIES RowKeepsItsDocument
