SPECIFICATION FairSpec
CONSTANTS
    NumIps = 2
    BaseIp = 3
    IpSpace = 8
    s1 = s1
    s2 = s2
    a = a
    b = b
    tapA = tapA
    tapB = tapB
    Sessions = {s1, s2}
    NoOne = NoOne
    Ids = {a}
    IdOf <- OneVm
    TapOf <- OneTap
    LongIds = {}
    Faults = {"create_snap", "dm_create", "dm_load", "dm_resume", "tap", "tap_up",
              "ebpf", "cgroup", "cgroup_conf", "jail", "spawn", "vmm_exit",
              "metadata", "crash", "rm_jail"}
    DeathSignal = FALSE
    FirstDev = 100
    MaxRestarts = 1
INVARIANT TypeOK
INVARIANT RunningOwnsItsResources
INVARIANT SocketIsOwn
INVARIANT LeftoversAreReported
PROPERTY OthersKeepTheirs
PROPERTY LaunchEnds
CHECK_DEADLOCK FALSE
