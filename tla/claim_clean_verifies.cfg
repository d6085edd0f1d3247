SPECIFICATION Spec
CONSTANTS
    Replicas = {r1}
    Exports = {e1}
    MaxRows = 2
    MaxTime = 1
INVARIANT CleanVerifies
CHECK_DEADLOCK FALSE
