SPECIFICATION Spec
CONSTANTS
    Ships <- Releases
    Optional <- UserFiles
    Nothing = Nothing
    Damaged = Damaged
    MaxCalls = 4
CHECK_DEADLOCK FALSE
INVARIANTS
    ManifestExact
PROPERTIES
    InstalledIsWhole
