SPECIFICATION FairSpec
CONSTANTS
    None = None
    Flows <- MCFlows
    Workloads <- MCWorkloads
    Stopped <- MCStopped
    NumEVs = 2
    Probes = {1, 2}
    Pkts = {1}
    TrimPkts = {2}
    MaxWaiting = 2
    MaxDown = 1
INVARIANTS
    EchoesAccounted
    CountedInOnePlace
PROPERTIES
    EveryEchoHeard
    FeedbackRecovers
CHECK_DEADLOCK FALSE
