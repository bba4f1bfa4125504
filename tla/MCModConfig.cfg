SPECIFICATION ConfigFairSpec
CONSTANTS
    Keys <- KeyNames
    Mods <- ModNames
    ModOf <- ModOfKey
    Schema <- SchemaOfKey
    Inputs <- InputValues
    Junk <- JunkText
    Files <- FirstFiles
    MAX_MOD_KV = 2
    MOD_SAVE_DEBOUNCE_MS = 2
    DWORD = 3
CHECK_DEADLOCK FALSE
INVARIANTS
    LastEditStands
PROPERTIES
    EventuallySaved
