SPECIFICATION LabSpec
CONSTANTS
    None = None
    n1 = n1
    n2 = n2
    p1 = p1
    p2 = p2
    q1 = q1
    NICs = {n1, n2}
    Ports = {p1, p2, q1}
    Peer <- MCPeer
    Targets <- MCTargets
    Shutdowns <- MCShutdowns
    Clearings <- MCClearings
    Scenarios = {s1, s2}
    Operators = {o1}
    MaxFaultId = 2
    MaxGlitches = 1
INVARIANTS
    NoStray
    FaultsHold
    DownRecorded
PROPERTIES
    OnlyOwner
