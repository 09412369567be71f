SPECIFICATION Spec
CONSTANTS
    Writers = {w1}
    N = 3
    MaxFaults = 2
    Old = Old
    Empty = Empty
    Missing = Missing
INVARIANTS
    AllOrNothing
    NothingLost
\* A writer makes one call.
CHECK_DEADLOCK FALSE
