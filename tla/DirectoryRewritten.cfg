SPECIFICATION Spec
CONSTANTS
    Events = {e1}
    Versions = {v1, v2}
    Skew = 1
    MaxTime = 3
    None = None
INVARIANT NeverRewritten
CHECK_DEADLOCK FALSE
