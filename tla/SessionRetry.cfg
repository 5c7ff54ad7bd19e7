SPECIFICATION FairSpec
CONSTANTS
    Tabs = {c1}
    Requests = {r1}
    Pairs = {t1, t2}
    None = None
PROPERTIES
    TransientIsRetried
CHECK_DEADLOCK FALSE
