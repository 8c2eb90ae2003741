\* One submission under fairness; publishes may fail cleanly, processes crash.
SPECIFICATION FairSpec
CONSTANTS
    j1 = j1
    w1 = w1
    w2 = w2
    default = default
    codesign = default
    p1 = p1
    p2 = p2
    p3 = p3
    NoProfile = NoProfile
    Jobs = {j1}
    Workers = {w1, w2}
    Certs = {default}
    Default = default
    Profiles = {p1, p2, p3}
    ProfileRows <- MCProfileRows
    Requests <- WebhookRequests
    MaxRetries = 1
    MaxGen = 1
    PublishFaults <- Outages
    MaxFaults = 1
INVARIANT OnePath
PROPERTIES
    TaskSettles
    ImplementsServiceLive
CHECK_DEADLOCK FALSE
