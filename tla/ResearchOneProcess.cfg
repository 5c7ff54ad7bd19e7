SPECIFICATION Spec
CONSTANTS
    Requests = {q1, q2, q3, q4, q5}
    Hosts = {h1}
    None = None
    MaxSteps = 2
    MaxSources = 2
    PerCall = 2
    InternalAllowed = TRUE
    WebAllowed = TRUE
    MaxCrashes = 1
SYMMETRY Symmetry
INVARIANTS
    TypeOK
    ExecutesSanctionedPlan
    SourceBudget
    ReportIsEarned
    AtMostOneRun
    CompletedIsConsistent
PROPERTIES
    DeletedStaysDeleted
    EventsOnlyGrow
    NoStepAfterStop
    ImplementsLifecycle
CHECK_DEADLOCK FALSE
