SPECIFICATION Hooks
CONSTANTS
    VA = {va1, va2}
    NoVA = NoVA
    Mods = {A, B}
    Workers = {w1}
    MAX_HOOKS = 2
    MAX_CB = 2
    MAX_THUNKS = 3
    Tidy = TRUE
    MaxRegs = 3
    MaxDepth = 2
    TypedVA = {f, g}
    MaxTyped = 3
    MaxCalls = 3
SYMMETRY Interchangeable
CHECK_DEADLOCK FALSE
INVARIANTS
    LiveInPlace
    BusyHeld
    OwnHookOnly
    ChainServed
    OneDispatch
PROPERTIES
    CalledOnce
