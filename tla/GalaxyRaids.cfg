SPECIFICATION FairSpec
CONSTANTS
    p1 = p1
    p2 = p2
    g1 = g1
    g2 = g2
    i1 = i1
    i2 = i2
    Players = {p1, p2}
    Gids = {g1}
    Pids = {i1}
    NumSec = 3
    FedMax = 1
    Warps <- Line
    GivenNames = {}
    Kits <- PreyKits
    StarterKit <- Starter
    TurnsPerDay = 1
    DormantDays = 1
    ExpireDays = 2
    Blasts = {1, 2}
    FleetTrigger = 2
    CollapseLoss = 1
    StrongholdCap = 1
    Raids = 1
    RaidFloor = 1
    MaxGrowth = 1
    MaxMines = 0
    MaxDay = 2
PROPERTIES
    CommandsEnd
    NoFightersFromNothing
    HiddenAreSafe
CHECK_DEADLOCK FALSE
