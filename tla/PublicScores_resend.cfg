SPECIFICATION FairSpec
CONSTANTS
    Procs = {p1}
    N = 2
    Manifests = {m1}
    Permissions = {TRUE, FALSE}
    Quotas = {1, 2}
    MaxFaults = 2
    Nobody = Nobody
    Absent = Absent
PROPERTIES
    NoUnauthorisedResend
