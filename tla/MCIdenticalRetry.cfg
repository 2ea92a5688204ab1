SPECIFICATION Spec
CONSTANTS
    e1 = e1
    e2 = e2
    e3 = e3
    page = page
    Events <- TwoEvents
    Pages = {page}
    PageOf <- OnePage
    Client <- Captured
    Requests = {r1, r2}
    Workers = {w1}
    Policies <- CollectOrOff
    DefaultPolicy <- Collect
    PageLimit = 1
    WindowKeep = 0
    MaxBatch = 2
    MaxMinute = 0
    Deletable <- TwoEvents
    ClockAhead = {e1}
    MaxDirectory = 1
INVARIANT
    IdenticalRetryAccepted
SYMMETRY Symmetry
CHECK_DEADLOCK FALSE
