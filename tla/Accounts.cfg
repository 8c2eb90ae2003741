\* Three requests of two processes; one token or key expires.
SPECIFICATION Spec
CONSTANTS
    p1 = p1
    p2 = p2
    Procs = {p1, p2}
    Ids <- MCIds
    Requests <- MCRequests
    Seed <- MCSeed
    SeedTokens <- MCTokens
    MaxOps = 3
    MaxExpiries = 1
SYMMETRY ProcSymmetry
INVARIANTS
    TypeOK
    CyclesOnlyByRevocation
PROPERTIES
    EffectsAuthorized
    UpdatesAreExact
    UnhandledExplained
CHECK_DEADLOCK FALSE
