SPECIFICATION Spec
CONSTANTS
    Models = {m1}
    Calls = {c1, c2}
    FailureThreshold = 2
    RecoverySeconds = 1
    MaxTime = 5
    MayDrop = FALSE
    NoAdmission = NoAdmission
    Flavour = "async"
    MaxAttempts = 3
    InitialBackoff = 1
    MaxBackoff = 2
    Timeout = 4
    ExchangeFailures = {"timeout", "rejected"}
    MaxChunks = 1
INVARIANTS
    OneProbe
    ProbeHasOwner
    NoDuplicateGeneration
    SleepsWithinDeadline
PROPERTIES
    AbstractSpec
