SPECIFICATION BrowserSpec
CONSTANTS
    e1 = e1
    v1 = v1
    v2 = v2
    v3 = v3
    Events = {e1}
    Versions = {v1, v2, v3}
    Skew = 1
    MaxTime = 3
    None = None
    r1 = r1
    r2 = r2
    u1 = u1
    Hooking <- ThrowingHooks
    Forming <- FormsAndBusiness
    Flowing <- TwoWorkflows
    Syncing <- TwoRequests
    Arriving <- FiveRows
SYMMETRY Symmetry
INVARIANTS
    AttributionStands
    PartsTypeOK
    UsageIsTrue
    InContext
    WorkflowEvidence
PROPERTIES
    PastStands
    PolicyAdvances
CHECK_DEADLOCK FALSE
