SPECIFICATION Spec
CONSTANTS
    Processes = {p1, p2}
    Modules = {m1, m2}
    Events = {e1, e2, e3, e4}
    None = None
    Unread = Unread
    MaxRestarts = 1
SYMMETRY Symmetry
INVARIANTS
    TypeOK
    SoleWriterVerifies
    LinksPointBack
    NoLoggerForks
CHECK_DEADLOCK FALSE
