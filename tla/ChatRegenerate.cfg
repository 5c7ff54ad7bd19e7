\* One user, one conversation, one question whose answer is generated anew.
SPECIFICATION Spec
CONSTANTS
    None = None
    Users = {u1}
    MaxConvs = 1
    MaxTurns = 2
    MaxChunks = 1
    MaxProjects = 1
    Typed = {t1}
    Spoken = {s1}
    Prompts = {p1}
    Files = {f1, f2}
    MaxFiles = 1
    MaxMessages = 2
    MaxRuns = 2
    MaxHandlers = 2
    Rated = {r1}
    Terms = {w1}
    MaxMemories = 3
    MaxSaves = 1
    MaxInvites = 2
    MaxSecrets = 2
    MaxTasks = 1
    MaxChanges = 2
    MaxRounds = 1
    MaxDocs = 1
    MaxCards = 1
    MaxSources = 2
    MaxInventories = 1
    Crew = {c1}
    Demo = demo
    Chips = {x1}
    MaxPermits = 1
    MaxEdits = 2
    MaxSigns = 2
    MaxQueued = 1
    MaxPerTenant = 1
    MaxResults = 3

PROPERTIES
    OldAnswerDropped
CHECK_DEADLOCK FALSE
