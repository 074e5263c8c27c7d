SPECIFICATION Spec
CONSTANTS
    u1 = u1
    u2 = u2
    Uploads = {u1, u2}
    Chunks <- Lengths
    WireCap = 1
    ChanCap = 1
    Absent = Absent
    Faults = {}
    MaxFaults = 0
INVARIANT ChecksumOfArtifact
CHECK_DEADLOCK FALSE
