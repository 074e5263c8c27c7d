SPECIFICATION FairSpec
CONSTANTS
    NumIps = 2
    BaseIp = 3
    IpSpace = 8
    s1 = s1
    s2 = s2
    a = a
    b = b
    tapA = tapA
    tapB = tapB
    Sessions = {s1, s2}
    NoOne = NoOne
    Ids = {a}
    IdOf <- OneVm
    TapOf <- OneTap
    LongIds = {}
    Faults = {"crash"}
    DeathSignal = FALSE
    FirstDev = 100
    MaxRestarts = 0
PROPERTY NoOrphanVmm
CHECK_DEADLOCK FALSE
