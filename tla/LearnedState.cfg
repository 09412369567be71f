SPECIFICATION Spec
CONSTANTS
    Procs = {p1, p2}
    Events = {e1, e2}
    Profiles = {u1}
    MaxFaults = 1
    MaxRuns = 2
    Absent = Absent
    Empty = Empty
    Torn = Torn
    Nothing = Nothing
INVARIANTS
    LearnedIsLogged
    ToldIsLogged
PROPERTIES
    OnlyOverlapForgets
SYMMETRY Symmetry
