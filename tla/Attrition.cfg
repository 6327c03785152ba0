SPECIFICATION FairSpec
CONSTANTS
    Block = 3
    Threshold = 4
    MaxForce = 12
INVARIANTS
    KeepsPromise
PROPERTY BattleEnds
CHECK_DEADLOCK FALSE
