SPECIFICATION FairSpec
CONSTANTS
    Dlls <- DllNames
    Exports <- ExportsOf
    Probe <- ProbeOf
    LuaMods <- LuaNames
    Wants <- WantsOf
    API_MAJOR = 1
    API_MINOR = 0
    OSS_EARLY_MAX_WAIT = 2
    MAX_NDEFER = 1
    MAX_DEFER = 1
    Worlds <- WorldsOfHosts
    MaxUnfocus = 1
CHECK_DEADLOCK FALSE
INVARIANTS
    InitsInOrder
    MonstersHeard
PROPERTIES
    EarlyServed
    BootsByItself
