SPECIFICATION Spec
CONSTANTS
    Ships <- Releases
    Optional <- UserFiles
    Nothing = Nothing
    Damaged = Damaged
    MaxCalls = 2
CHECK_DEADLOCK FALSE
PROPERTIES
    OldInstallUntouched
