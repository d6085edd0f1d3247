SPECIFICATION ServicesSpec
CONSTANTS
    Requests = {h1, h2}
    Docs = {d1, d2}
    Principals = {p1}
    MaxActs = 2
    Exports = {x1}
    MaxRows = 3
    MaxTime = 2
    MaxCodes = 2
    MaxCopies = 1
    MaxIntents = 2
    Files = 2
    MaxProjects = 3
    MaxSessions = 2
    MaxTxns = 2
    Results = {"success", "fail"}
    Validity = 1
SYMMETRY Symmetry
INVARIANT TypesOK
INVARIANT CompletedIsSigned
INVARIANT OneActPerDocument
INVARIANT LastSignatureCompletes
INVARIANT LogIsRight
INVARIANT CodesWork
INVARIANT LastIntentIsShown
INVARIANT OneOutcome
INVARIANT QueueInOrder
INVARIANT StatusIsLatest
PROPERTY SignaturesStay
CHECK_DEADLOCK FALSE
