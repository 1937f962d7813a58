SPECIFICATION LiveSpec
CONSTANTS
    None = None
    NumEVs = 2
    MinActiveEVs = 1
    ProbeWindowTicks = 1
    ProbeMinSamples = 1
    ProbeFailPct = 50
    ProbeRecoverPct = 90
    ProbeRecoverTicks = 1
    LossPct = 25
    LossDemoteConsecutive = 2
    LossBackoffMaxLevel = 1
    LossBackoffResetTicks = 1
    LoggerRaises = TRUE
    LossReports <- TwoReports
    MaxPerBucket = 1
    HealthyCap = 2
INVARIANTS
    FloorInv
    WeightsOneBehind
PROPERTIES
    ProbesRecover
    SuppressedDemoteRetried
