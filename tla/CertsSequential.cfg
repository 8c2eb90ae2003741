\* One process, every operation but generating over an entry, at most one rotation a second.
SPECIFICATION Spec
CONSTANTS
    p1 = p1
    Procs = {p1}
    Ops = {"get", "provision", "startup", "rotate", "delete", "local sign"}
    Hurry = FALSE
    MaxOps = 5
    MaxNow = 2
    MaxCrashes = 0
INVARIANT TypeOK
PROPERTY ImplementsCertStore
CHECK_DEADLOCK FALSE
