SPECIFICATION Spec
CONSTANTS
    Tabs = {c1}
    Requests = {r1, r2}
    Pairs = {t1, t2, t3}
    None = None
SYMMETRY Symmetry
INVARIANTS
    TypeOK
    OneHolder
    DeactivatedNeverMints
    SpentOnlyByFault
PROPERTIES
    EndedStaysEnded
    
CHECK_DEADLOCK FALSE
