SPECIFICATION Spec
CONSTANTS
    RawBindings <- MCBindings
    Wires <- MCWires
    Statuses = {200, 429, 504, 503, 404}
    Requests = {"good", "oversize", "invalid"}
    MaxBindings = 1
    MaxResponse = 4
    MaxStream = 13
    MaxEvent = 5
    Timeout = 2
    None = None
INVARIANTS
    DeliveredIsTheStream
    RetrySafeIsUnsent
PROPERTIES
    NothingAfterDeadline
    WaitsEnd
\* A call ends.
CHECK_DEADLOCK FALSE
