SPECIFICATION Spec
CONSTANTS
    Requests = {h1, h2}
    MaxTxns = 2
    Results = {"success", "fail"}
    Validity = 3
    MaxTime = 2
INVARIANT RenewalCounts
CHECK_DEADLOCK FALSE
