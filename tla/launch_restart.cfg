SPECIFICATION Spec
CONSTANTS
    NumIps = 2
    BaseIp = 3
    IpSpace = 8
    s1 = s1
    s2 = s2
    a = a
    b = b
    tapA = tapA
    tapB = tapB
    Sessions = {s1, s2}
    NoOne = NoOne
    Ids = {a, b}
    IdOf <- TwoVms
    TapOf <- OwnTaps
    LongIds = {}
    Faults = {"timeout", "crash", "dm_delete"}
    DeathSignal = FALSE
    FirstDev = 100
    MaxRestarts = 1
INVARIANT NoDoubleMapping
INVARIANT RunningOwnsItsResources
INVARIANT SlotsMatchLaunches
INVARIANT LeftoversAreReported
SYMMETRY Swap
CHECK_DEADLOCK FALSE
