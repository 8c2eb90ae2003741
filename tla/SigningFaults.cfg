\* One submission of any form, one certificate, two workers, time limits, two
\* broker faults, crashes or late soft limits.
SPECIFICATION Spec
CONSTANTS
    j1 = j1
    w1 = w1
    w2 = w2
    default = default
    codesign = default
    p1 = p1
    p2 = p2
    p3 = p3
    NoProfile = NoProfile
    Jobs = {j1}
    Workers = {w1, w2}
    Certs = {default}
    Default = default
    Profiles = {p1, p2, p3}
    ProfileRows <- MCProfileRows
    Requests <- AllRequests
    MaxRetries = 1
    MaxGen = 1
    PublishFaults <- AllFaults
    MaxFaults = 2
SYMMETRY WorkerSymmetry
INVARIANTS
    TypeOK
    NoLostTask
    EffectBound
    EffectsHaveRow
    ResultsWereNotified
    OutboxShape
CHECK_DEADLOCK FALSE
