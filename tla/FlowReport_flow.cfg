SPECIFICATION RSpec
CONSTANTS
    None = None
    ev1 = ev1
    ev2 = ev2
    NumPkts = 2
    EVs <- TwoEVs
    Picks <- TwoEVs
    TrimEVs <- OneEV
    MaxRetransmits = 1
    RecentSends = 1
    MaxTrims = 3
    MaxDups = 1
INVARIANTS
    TypeOK
    BudgetPerEntry
    CopiesAreTheFabrics
    Pursued
    CountedOnce
PROPERTIES
    RaceEnds
CHECK_DEADLOCK FALSE
