SPECIFICATION Spec
CONSTANTS
    Routes = {r1}
    Users = {}
    Timeout = 2
    Hooks = {"accepts"}
    Collectors = {"forms"}
    MaxTime = 2
    MaxPages = 1
    MaxSent = 4
    MaxSegments = 2
    None = None
PROPERTY SettlementKeepsSession
CHECK_DEADLOCK FALSE
