SPECIFICATION FairSpec
CONSTANTS
    Procs = {p1, p2}
    N = 2
    Manifests = {m1, m2}
    Permissions = {TRUE, FALSE}
    Quotas = {2}
    MaxFaults = 3
    Nobody = Nobody
    Absent = Absent
INVARIANTS
    DuplicatesBounded
PROPERTIES
    SendIsAnnounced
    AnswersStay
    EventuallyComplete
