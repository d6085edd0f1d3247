SPECIFICATION Spec
CONSTANTS
    Requests = {h1, h2}
    MaxAttempts = 2
    MaxIntents = 1
    Sections = 1
    PassMark = 1
    Duration = 1
    Grace = 1
    MaxTime = 2
SYMMETRY Symmetry
INVARIANT GraceOnce
INVARIANT ConsumedFunds
INVARIANT ResultsAreBooked
PROPERTY ResultStands
CHECK_DEADLOCK FALSE
