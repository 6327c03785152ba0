SPECIFICATION FairSpec
CONSTANTS
    Tables <- MCTables
    Interval = 2
    MaxSave = 1
    MaxMem = 2
    MaxFailures = 1
    AgeCap = 5
INVARIANTS NoLostUpdate FinalFlush StalenessBounded
PROPERTIES ImplementsDurableWorld StopReturns
