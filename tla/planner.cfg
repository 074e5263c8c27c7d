SPECIFICATION Spec
CONSTANTS
    Dockerfiles <- All
    Worlds = {w1, w2}
    PullWorks = TRUE
    MaxBuilds = 2
    None = None
SYMMETRY Swap
INVARIANT AcceptedHasAll
INVARIANT CacheIsRight
INVARIANT ManifestIsChain
CHECK_DEADLOCK FALSE
