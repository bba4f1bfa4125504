SPECIFICATION OnRing
CONSTANTS
    Deferred <- TwoMods
    Workers = {w1}
    QueueLimit = 2
    MAX_ONFRAME = 2
    HookMayFail = TRUE
    MaxJobs = 3
    MaxCbs = 3
    MaxRefs = 5
    MaxFrames = 2
    Job <- JobId
    Unwritten = Unwritten
    MAX_JOBS = 3
CHECK_DEADLOCK FALSE
INVARIANTS
    RefsOwned
    JobOrder
    OneThread
    InitsFirst
PROPERTIES
    ImplementsQueue
    OncePerFrame
    JobsServed
