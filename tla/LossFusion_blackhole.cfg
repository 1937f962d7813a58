SPECIFICATION RaceSpec
CONSTANTS
    None = None
    NumEVs = 2
    MinActiveEVs = None
    ProbeWindowTicks = 1
    ProbeMinSamples = 1
    ProbeFailPct = 50
    ProbeRecoverPct = 90
    ProbeRecoverTicks = 1
    LossPct = 25
    LossDemoteConsecutive = 2
    LossBackoffMaxLevel = 0
    LossBackoffResetTicks = 0
    LoggerRaises = FALSE
    MaxPerBucket = 1
    HealthyCap = 1
    Window = 2
    Phase = 1
    MaxSkew = 6
    RingCapacity = 2
    MinSentForAbsent = 4
    CoveragePct = 50
    Blackhole = TRUE
    ReportsLost = FALSE
    MaxLate = 1
    MaxTrims = 0
    Rate = 2
    LossReports <- NoReports
    Loads <- SameRate
    Faulty <- FirstEV
INVARIANTS
    OneReportLate
PROPERTIES
    SilentEVDemoted
