\* Three rows and two submissions, leaves of one row, three requests of a page.
SPECIFICATION Spec
CONSTANTS
    Jobs <- MCJobs
    Mine <- MCMine
    OldStatus <- MCOldStatus
    Kinds = {"jobs", "audit", "stats", "sign", "status"}
    Filters = {"all", "completed", "oops"}
    NoFilter = "all"
    PER_PAGE = 1
    RECENT = 2
    Timeouts = {0, 1, 2}
    MaxFetches = 3
    MaxFaults = 1
INVARIANTS
    TypeOK
    PagesCover
    ShownIsSelected
    StatsBounded
    ExitIsTruth
CHECK_DEADLOCK FALSE
