\* Two processes, a limit of two requests in two seconds, one restart.
SPECIFICATION Spec
CONSTANTS
    p1 = p1
    p2 = p2
    none = none
    jwt = jwt
    h1 = h1
    h2 = h2
    Procs = {p1, p2}
    Clients <- MCClients
    NoHeader = none
    Limit = 2
    Window = 2
    MaxNow = 4
    MaxRestarts = 1
SYMMETRY ProcSymmetry
INVARIANTS
    TypeOK
    WindowBound
    ClusterBound
PROPERTIES
    RefusedOnlyWhenFull
CHECK_DEADLOCK FALSE
