CONSTANTS
    h1 = h1
    c1 = c1
    Keys = {h1}
    Conns = {c1}
    Per = 2
    Burst = 2
    Idle = 4
    SweepEvery = 1
    MaxTime = 7
    MaxAttempts = 5
    Bytes <- Encoding
    Scripts <- Long
    Chars = {"a"}
    CmdPer = 2
    CmdBurst = 2
SPECIFICATION TelnetSpec
INVARIANTS LinesAsMeant HeldToTheRate
PROPERTY ImplementsAllowance
CHECK_DEADLOCK FALSE
