SPECIFICATION FairSpec
CONSTANTS
    Ingests = {i1, i2}
    Documents = {d1}
    Workers = {w1}
    Admins = {a1}
    None = None
    MaxRequeues = 1
    MaxCrashes = 1

    
PROPERTIES
    Settles
CHECK_DEADLOCK FALSE
