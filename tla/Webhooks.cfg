\* Two events, two workers, one fault; no symmetry for the liveness property.
SPECIFICATION FairSpec
CONSTANTS
    e1 = e1
    e2 = e2
    w1 = w1
    w2 = w2
    Events = {e1, e2}
    Workers = {w1, w2}
    MaxRetries = 2
    MaxFaults = 1
INVARIANTS
    TypeOK
    NoSilentLoss
    PostBound
    DuplicatesWereUnheard
PROPERTY EventsSettle
CHECK_DEADLOCK FALSE
