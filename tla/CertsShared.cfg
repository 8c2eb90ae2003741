\* Two processes on one directory, both of which may die; every operation but
\* deletion, rotations in one second and with certificates of other keys included.
SPECIFICATION Spec
CONSTANTS
    p1 = p1
    p2 = p2
    Procs = {p1, p2}
    Ops = {"get", "provision", "startup", "local sign", "generate", "rotate", "recertify"}
    Hurry = TRUE
    MaxOps = 3
    MaxNow = 1
    MaxCrashes = 2
SYMMETRY ProcSymmetry
INVARIANTS
    CompleteWhenQuiet
    DamageCounted
CHECK_DEADLOCK FALSE
