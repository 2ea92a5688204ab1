SPECIFICATION SettledSpec
CONSTANTS
    e1 = e1
    e2 = e2
    e3 = e3
    page = page
    Events <- TwoEvents
    Pages = {page}
    PageOf <- OnePage
    Client <- FirstUnavailable
    Requests = {r1}
    Workers = {w1}
    Policies <- OnlyCollect
    DefaultPolicy <- Collect
    PageLimit = 2
    WindowKeep = 0
    MaxBatch = 1
    MaxMinute = 0
    Deletable <- TwoEvents
    ClockAhead = {}
    MaxDirectory = 0
PROPERTIES
    PublishedIsStored
    DeletedIsReclaimed
CHECK_DEADLOCK FALSE
