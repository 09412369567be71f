SPECIFICATION Spec
CONSTANTS
    Procs = {p1, p2, p3}
    Inodes = {i1, i2, i3}
    Free = Free
    None = None
INVARIANTS
    OneLockFile
PROPERTIES
    MutexSpec
