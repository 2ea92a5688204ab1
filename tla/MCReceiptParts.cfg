SPECIFICATION PartsSpec
CONSTANTS
    e1 = e1
    e2 = e2
    e3 = e3
    e4 = e4
    q1 = q1
    x1 = x1
    x2 = x2
    w1 = w1
    None = None
    page = page
    Events <- TwoEvents
    Pages = {page}
    PageOf <- OnePage
    Client <- Captured
    Requests = {x1, x2}
    Workers = {w1}
    Policies <- CollectOrOff
    DefaultPolicy <- Collect
    PageLimit = 1
    WindowKeep = 0
    MaxBatch = 2
    MaxMinute = 0
    Deletable <- TwoEvents
    ClockAhead = {}
    MaxDirectory = 0
INVARIANTS
    EvidenceTypeOK
    NeverMismatch
    TombstoneFinal
    ReadyHasDetail
    BudgetExact
    ReadersSeeTheTruth
PROPERTIES
    FirstAdmissionKept
    EvidenceSpec
SYMMETRY ProcessSymmetry
CHECK_DEADLOCK FALSE
