\* Two processes provision the same name.
SPECIFICATION Spec
CONSTANTS
    p1 = p1
    p2 = p2
    Procs = {p1, p2}
    Ops = {"provision"}
    Hurry = FALSE
    MaxOps = 2
    MaxNow = 0
    MaxCrashes = 0
INVARIANT ProvisioningIsIdempotent
CHECK_DEADLOCK FALSE
