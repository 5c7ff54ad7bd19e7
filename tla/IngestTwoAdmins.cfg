SPECIFICATION Spec
CONSTANTS
    Ingests = {i1, i2}
    Documents = {d1}
    Workers = {w1}
    Admins = {a1, a2}
    None = None
    MaxRequeues = 1
    MaxCrashes = 1
SYMMETRY Symmetry
INVARIANTS
    TypeOK
    NothingStrands
    RecordHasBlob
    ChunksGoWithLastRecord
CHECK_DEADLOCK FALSE
