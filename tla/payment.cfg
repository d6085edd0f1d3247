SPECIFICATION FairSpec
CONSTANTS
    Requests = {r1, r2}
    Editors = {e1}
    MaxIntents = 2
    MaxFee = 1
INVARIANT TypeOK
INVARIANT ActiveIsLatest
INVARIANT PayableIsTracked
PROPERTY CapturedStaysSucceeded
PROPERTY EndedStaysPaid
PROPERTY PaymentsSettle
CHECK_DEADLOCK FALSE
