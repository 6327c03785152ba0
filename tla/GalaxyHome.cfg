SPECIFICATION Spec
CONSTANTS
    p1 = p1
    p2 = p2
    g1 = g1
    g2 = g2
    i1 = i1
    i2 = i2
    Players = {p1, p2}
    Gids = {}
    Pids = {i1, i2}
    NumSec = 3
    FedMax = 1
    Warps <- Line
    GivenNames = {"colony"}
    Kits <- HomeKits
    StarterKit <- Starter
    TurnsPerDay = 1
    DormantDays = 1
    ExpireDays = 1
    Blasts = {1, 2}
    FleetTrigger = 2
    CollapseLoss = 1
    StrongholdCap = 1
    Raids = 0
    RaidFloor = 1
    MaxGrowth = 0
    MaxMines = 1
    MaxDay = 2
SYMMETRY Symmetry
INVARIANTS
    TypeOK
    DeadHoldNothing
    OnePerSector
    MinesHitWhoIsThere
PROPERTIES
    NoFightersFromNothing
CHECK_DEADLOCK FALSE
