SPECIFICATION Spec
CONSTANTS
    Processes = {p1}
    Modules = {m1, m2}
    Events = {e1, e2, e3}
    None = None
    Unread = Unread
    MaxRestarts = 0
SYMMETRY Symmetry
INVARIANTS
    ChainUnbroken
CHECK_DEADLOCK FALSE
