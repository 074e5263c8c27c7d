SPECIFICATION FairSpec
CONSTANTS
    u1 = u1
    u2 = u2
    Uploads = {u1, u2}
    Chunks <- Lengths
    WireCap = 1
    ChanCap = 1
    Absent = Absent
    Faults = {"read", "cut", "stat", "write"}
    MaxFaults = 1
INVARIANT TypeOK
INVARIANT WholeUnlessUnread
INVARIANT OkMeansPublished
PROPERTY EndsUnlessStarved
PROPERTY TasksEnd
PROPERTY ImplementsStore
CHECK_DEADLOCK FALSE
