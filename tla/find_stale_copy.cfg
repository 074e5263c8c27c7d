SPECIFICATION Spec
CONSTANTS
    Dockerfiles <- Copies
    Worlds = {w1}
    PullWorks = TRUE
    MaxBuilds = 2
    None = None
INVARIANT CopiesAreRight
CHECK_DEADLOCK FALSE
