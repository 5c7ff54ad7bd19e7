SPECIFICATION Spec
CONSTANTS
    Requests = {q1, q2, q3, q4}
    Hosts = {h1, h2}
    None = None
    MaxSteps = 1
    MaxSources = 0
    PerCall = 1
    InternalAllowed = FALSE
    WebAllowed = TRUE
    MaxCrashes = 0
SYMMETRY Symmetry
PROPERTIES
    RunStartsApproved
CHECK_DEADLOCK FALSE
