SPECIFICATION Spec
CONSTANTS
    Signers = {notary, client}
    Notary = notary
    Requests = {h1, h2}
    MaxAssignments = 2
SYMMETRY Symmetry
INVARIANT InOrder
PROPERTY CompletedOnSignatures
PROPERTY StoredPdfIsWhole
PROPERTY SignatureStaysWithItsRow
CHECK_DEADLOCK FALSE
