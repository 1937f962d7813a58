SPECIFICATION OneEVSpec
CONSTANTS
    None = None
    NumEVs = 4
    MinActiveEVs = None
    ProbeWindowTicks = 2
    ProbeMinSamples = 2
    ProbeFailPct = 50
    ProbeRecoverPct = 90
    ProbeRecoverTicks = 2
    LossPct = 25
    LossDemoteConsecutive = 2
    LossBackoffMaxLevel = 2
    LossBackoffResetTicks = 3
    LoggerRaises = TRUE
    LossReports <- SomeReports
    MaxPerBucket = 1
    HealthyCap = 8
PROPERTIES
    NoEarlyRecovery
    BackoffDoubles
    DarkEVTakenOut
    ImplementsPool
    SprayFollowsHealth
