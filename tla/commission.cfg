SPECIFICATION Spec
CONSTANTS
    Requests = {h1, h2}
    Staff = {s1}
    MaxAppts = 1
    MaxEgress = 1
    MaxOppositions = 1
SYMMETRY Symmetry
INVARIANT CommissionedAfterHearing
 
PROPERTY KeepsDecision
CHECK_DEADLOCK FALSE
