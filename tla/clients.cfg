SPECIFICATION Spec
CHECK_DEADLOCK FALSE
CONSTANTS
    Clients = {c1, c2, c3}
    Nobody = Nobody
    Readonly = FALSE
    MaxBusy = 2
    Callers = {f1, f2}
    NoCaller = NoCaller
    Phones = {p1, p2}
    NoPhone = NoPhone
    ReissueMax = 3
    Tags = {t1, t2, t3}
    Factory = t1
    BadTags = {t3}
    NoTag = NoTag
    MaxRestarts = 2
    Versions = {v1, v2, v3}
    First = v1
    FailEarly = {v2}
    FailLate = {}
    NoVersion = NoVersion
    Bundles = {v2, v3}
    Requests = {s1, s2}
    MaxOutages = 2
INVARIANTS
    ClientsTypeOK
    HelmHeld
    RolesSettle
    OneRequest
    OneFeeder
    JobTellsTruth
PROPERTIES
    RoleReaches
    SupervisorReturns
