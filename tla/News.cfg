SPECIFICATION WebFairSpec
CONSTANTS
    p1 = p1
    p2 = p2
    Players = {p1, p2}
    MaxPerPlayer = 2
    MaxItems = 3
    KeepDays = 0
    MaxNews = 4
    MaxDay = 2
    Browsers = {p1}
    LinesSize = 1
    MaxLive = 2
INVARIANTS
    ToldOnceInOrder
PROPERTIES
    UnreadGoesLast
    LastNewsArrives
    ClosedSessionsEnd
    NewsGetsThrough
CHECK_DEADLOCK FALSE
