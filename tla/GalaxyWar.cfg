SPECIFICATION Spec
CONSTANTS
    p1 = p1
    p2 = p2
    g1 = g1
    g2 = g2
    i1 = i1
    i2 = i2
    Players = {p1, p2}
    Gids = {g1, g2}
    Pids = {}
    NumSec = 3
    FedMax = 1
    Warps <- Line
    GivenNames = {"colony"}
    Kits <- WarKits
    StarterKit <- Starter
    TurnsPerDay = 2
    DormantDays = 1
    ExpireDays = 2
    Blasts = {1}
    FleetTrigger = 2
    CollapseLoss = 1
    StrongholdCap = 0
    Raids = 0
    RaidFloor = 1
    MaxGrowth = 0
    MaxMines = 1
    MaxDay = 1
SYMMETRY Symmetry
INVARIANTS
    MinesHitWhoIsThere
    DeadHoldNothing
    OnePerSector
PROPERTIES
    FedSanctuary
CHECK_DEADLOCK FALSE
