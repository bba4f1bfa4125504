SPECIFICATION DriveSpec
CONSTANTS
    MaxPresses = 2
CHECK_DEADLOCK FALSE
INVARIANTS
    NoNewGame
PROPERTIES
    DriveEnds
