SPECIFICATION Spec
CONSTANTS
    Procs = {p1, p2}
    Events = {e1, e2}
    Profiles = {u1}
    MaxFaults = 0
    MaxRuns = 1
    Absent = Absent
    Empty = Empty
    Torn = Torn
    Nothing = Nothing
INVARIANTS
    NeverLeftEmpty
SYMMETRY Symmetry
