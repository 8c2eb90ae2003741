\* Three requests of two processes, any back end, one failing call.
SPECIFICATION Spec
CONSTANTS
    p1 = p1
    p2 = p2
    dotted = dotted
    dashed = dashed
    Names = {dotted, dashed}
    Dashed <- MCDashed
    Backends = {"vault", "aws", "azure"}
    MaxFaults = 1
    MaxFileSize = 2
    Procs = {p1, p2}
    Requests <- MCRequests
    Checks <- MCChecks
    Default = dashed
    Days = 1
    MaxOps = 3
    MaxNow = 1
SYMMETRY ProcSymmetry
INVARIANTS
    TypeOK
    SignatureCertified
    RoundTrip
    ValidMeansSigned
    ErrorsExplained
PROPERTY ReplacedBlindly
CHECK_DEADLOCK FALSE
