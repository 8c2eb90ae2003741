\* A queued row is never completed: no faults at all.
SPECIFICATION FairSpec
CONSTANTS
    j1 = j1
    w1 = w1
    default = default
    codesign = codesign
    p1 = p1
    NoProfile = NoProfile
    Jobs = {j1}
    Workers = {w1}
    Certs = {default, codesign}
    Default = default
    Profiles = {p1}
    ProfileRows <- MCProfileRows
    Requests <- ProfileRequest
    MaxRetries = 1
    MaxGen = 1
    PublishFaults <- Outages
    MaxFaults = 0
PROPERTY PolledToCompletion
CHECK_DEADLOCK FALSE
