SPECIFICATION RunSpec
CONSTANTS
    a = a
    b = b
    f1 = f1
    f2 = f2
    Flows = {f1, f2}
    MrcFlows = {f1}
    Src <- MCSrc
    Dst <- MCDst
    MaxRuns = 2
    MaxMishaps = 1
INVARIANTS
    AllAccounted
    OwnReportIfEnded
PROPERTIES
    Finishes
CHECK_DEADLOCK FALSE
