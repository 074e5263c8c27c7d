SPECIFICATION Spec
CONSTANTS
    b1 = b1
    b2 = b2
    b3 = b3
    i1 = i1
    i2 = i2
    c1 = c1
    c2 = c2
    None = None
    Builds = {b1, b2, b3}
    Plan <- SharedThenAgain
    Contents = {c1, c2}
    Inputs = {i1, i2}
    Direct = {b2, b3}
    Tags = {"prod"}
    Faults = {"put_blob", "put_meta", "crash"}
    GcMode = "alone"
INVARIANT TypeOK
INVARIANT ReferencesResolve
INVARIANT ManifestDeployable
INVARIANT IndexedIsComplete
CHECK_DEADLOCK FALSE
