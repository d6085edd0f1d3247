SPECIFICATION Spec
CONSTANTS
    Signers = {notary, client}
    Notary = notary
    Requests = {h1}
    MaxAssignments = 2
PROPERTY BookedIsSigned
CHECK_DEADLOCK FALSE
