SPECIFICATION FairSpec
CONSTANTS
    Requests = {r1}
    Editors = {e1}
    MaxIntents = 1
    MaxFee = 2
PROPERTY CancelledIsNotPaid
CHECK_DEADLOCK FALSE
