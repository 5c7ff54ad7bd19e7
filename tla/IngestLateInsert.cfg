SPECIFICATION Spec
CONSTANTS
    Ingests = {i1}
    Documents = {d1}
    Workers = {w1}
    Admins = {a1}
    None = None
    MaxRequeues = 0
    MaxCrashes = 0
SYMMETRY Symmetry
INVARIANTS
    DeletionPurges
CHECK_DEADLOCK FALSE
