SPECIFICATION BSpec
CONSTANTS
    None = None
    NumEVs = 2
    MinActiveEVs = None
    ProbeWindowTicks = 1
    ProbeMinSamples = 1
    ProbeFailPct = 50
    ProbeRecoverPct = 90
    ProbeRecoverTicks = 1
    LossPct = 50
    LossDemoteConsecutive = 2
    LossBackoffMaxLevel = 0
    LossBackoffResetTicks = 0
    LoggerRaises = FALSE
    MaxPerBucket = 1
    HealthyCap = 1
    Window = 2
    Phase = 1
    MaxSkew = 6
    RingCapacity = 2
    MinSentForAbsent = 2
    CoveragePct = 50
    Blackhole = FALSE
    ReportsLost = TRUE
    MaxLate = 1
    MaxTrims = 1
    CalmLow <- AllSlow
    CalmHigh <- AllFast
    Burst = 20
    Slow = 5
    Fast = 6
    LossReports <- NoReports
    Loads <- WithBursts
    Faulty <- Nobody
PROPERTIES
    BurstsInARow
