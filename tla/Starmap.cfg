CONSTANTS
    NumSec = 5
    Hub = 2
    Block = 3
    Links = 1
    Relinks = 1
    DeadEnds = 2
    DeadFloor = 2
    PlasmaMax = 1
    MaxWarps = 2
    MaxPlasma = 1
SPECIFICATION FairSpec
INVARIANTS EverySectorReachable RouteIsShortest
PROPERTY LoopsEnd
