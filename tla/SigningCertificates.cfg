\* One submission, rotated, deleted and expired certificates, one fault: the
\* fallback signs as well as the workers.
SPECIFICATION Spec
CONSTANTS
    j1 = j1
    w1 = w1
    w2 = w2
    default = default
    codesign = codesign
    p1 = p1
    p2 = p2
    p3 = p3
    NoProfile = NoProfile
    Jobs = {j1}
    Workers = {w1}
    Certs = {default, codesign}
    Default = default
    Profiles = {p1, p2, p3}
    ProfileRows <- MCProfileRows
    Requests <- CertificateRequests
    MaxRetries = 1
    MaxGen = 2
    PublishFaults <- AllFaults
    MaxFaults = 1
INVARIANT Provenance
CHECK_DEADLOCK FALSE
