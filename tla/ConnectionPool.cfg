SPECIFICATION Spec
CONSTANTS
    Requests = {c, u1, u2}
    Rereaders = {u1, u2}
    Limit = 2
    QueueLimit = 3
INVARIANT SomebodyRuns
