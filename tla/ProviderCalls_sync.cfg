SPECIFICATION FairSpec
CONSTANTS
    Models = {m1}
    Calls = {c1, c2}
    FailureThreshold = 2
    RecoverySeconds = 1
    MaxTime = 4
    MayDrop = TRUE
    NoAdmission = NoAdmission
    Flavour = "sync"
    MaxAttempts = 2
    InitialBackoff = 1
    MaxBackoff = 1
    Timeout = 2
    ExchangeFailures = {"timeout", "rejected"}
    MaxChunks = 1
INVARIANTS
    TypeOK
    HeldWhileInside
PROPERTIES
    ReportedProbesSettle
    CallsFinish
