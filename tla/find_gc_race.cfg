SPECIFICATION Spec
CONSTANTS
    b1 = b1
    b2 = b2
    b3 = b3
    i1 = i1
    i2 = i2
    c1 = c1
    c2 = c2
    None = None
    Builds = {b1, b2}
    Plan <- Shared
    Contents = {c1, c2}
    Inputs = {i1, i2}
    Direct = {}
    Tags = {"prod"}
    Faults = {}
    GcMode = "anytime"
INVARIANT TaggedDeployable
CHECK_DEADLOCK FALSE
