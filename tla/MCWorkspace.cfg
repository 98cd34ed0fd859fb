SPECIFICATION MCSpec
CONSTANTS
    MaxId = 3
    HistoryLimit = 2
    MaxEdits = 6
    MaxDocs = 2
    MaxCalls = 3
    MaxReloads = 1
    Plans <- MCPlans
CHECK_DEADLOCK FALSE
INVARIANTS SoundUnlessStrayed WorkIsOnItsWay LinkIsItsOwn
PROPERTIES ImplementsTimeline
