SPECIFICATION FairSpec
CONSTANTS
    Requests = {q1, q2, q3, q4}
    Hosts = {h1}
    None = None
    MaxSteps = 1
    MaxSources = 1
    PerCall = 1
    InternalAllowed = TRUE
    WebAllowed = TRUE
    MaxCrashes = 1
PROPERTIES
    RunEnds
CHECK_DEADLOCK FALSE
