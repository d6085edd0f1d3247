SPECIFICATION Spec
CONSTANTS
    Requests = {h1}
    Docs = {d1}
    Principals = {p1}
    MaxActs = 1
PROPERTY EndedIsSigned
CHECK_DEADLOCK FALSE
