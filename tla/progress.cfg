SPECIFICATION ProgressSpec
CONSTANTS
    Requests = {h1, h2}
    MaxAttempts = 1
    MaxIntents = 0
    Sections = 2
    PassMark = 2
    Duration = 1
    Grace = 1
    MaxTime = 2
    Acts = {a1}
    MaxFilings = 2
INVARIANT TypesOK
INVARIANT ClosedAsAnswered
INVARIANT FiledOnce
PROPERTY ExpiredIsClosed
PROPERTY OverrideOutlastsRefresh
PROPERTY StatusFollows
CHECK_DEADLOCK FALSE
