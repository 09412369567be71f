SPECIFICATION FairSpec
CONSTANTS
    Conns = {k1, k2, k3}
    Capacity = 1
    MaxChunks = 2
    MaxFaults = 2
    NoConn = NoConn
INVARIANTS
    CapacityConserved
    ReusedClean
    WellFramed
PROPERTIES
    NobodyWaitsForever
    RequestsEnd
