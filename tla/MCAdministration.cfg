SPECIFICATION AdministrationSpec
CONSTANTS
    Count = 2
    x = x
    y = y
    Contents = {x, y}
    Builds <- BothOfFirst
    Uploads = {u1, u2}
    Quota = 1
    Page = 1
    MaxFaults = 1
    Expiring = {1}
    NoOne = NoOne
    None = None
    b1 = b1
    b2 = b2
    s1 = s1
    s2 = s2
    Admins = {a1, a2}
    Business = {b1, b2}
    System = {s1, s2}
    Initially <- OneImplemented
    Families <- TwoFamilies
    Formulas = {{s2}, {b1}, {b2}}
    Surfaces = {{}, {s1}, {b1}}
    Template = {s1}
    MaxSaves = 3
    MaxVersions = 2
    Modules = {m1, m2}
    Pages = {p1}
    Workflows = {w1}
    Requests = {a1, a2}
    Skew = 1
    MaxTime = 3
    MaxChanges = 3
    MaxRevisions = 3
    Users = {q1, q2, q3}
    Creator = q1
    Inputs = {i1, i2}
    MemberRequests = {q1, q2, q3}
    MaxProjects = 2
SYMMETRY Symmetry
INVARIANTS
    QuotaKept
    ReadyHasFile
    PartsTypeOK
    MetricVersions
    OpenIsHeld
    OneInForce
    ProjectsKept
PROPERTIES
    TombstonesStay
    MetricHistory
CHECK_DEADLOCK FALSE
