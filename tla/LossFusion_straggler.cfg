SPECIFICATION DataSpec
CONSTANTS
    None = None
    NumEVs = 2
    MinActiveEVs = None
    ProbeWindowTicks = 1
    ProbeMinSamples = 1
    ProbeFailPct = 50
    ProbeRecoverPct = 90
    ProbeRecoverTicks = 1
    LossPct = 25
    LossDemoteConsecutive = 3
    LossBackoffMaxLevel = 0
    LossBackoffResetTicks = 0
    LoggerRaises = FALSE
    MaxPerBucket = 1
    HealthyCap = 1
    Window = 2
    Phase = 1
    MaxSkew = 6
    RingCapacity = 2
    MinSentForAbsent = 2
    CoveragePct = 50
    Blackhole = FALSE
    ReportsLost = FALSE
    MaxLate = 0
    MaxTrims = 0
    Rate = 1
    LossReports <- NoReports
    Loads <- SameRate
    Faulty <- FirstEV
INVARIANTS
    GateStaysOpen
