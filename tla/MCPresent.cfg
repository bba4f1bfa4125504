SPECIFICATION FairSpec
CONSTANTS
    Worlds <- WorldsOfSettings
    MaxFrames = 2
    MaxSnapshots = 1
    Torn = Torn
INVARIANTS
    FrameWhole
    EveryFrameShown
PROPERTIES
    FramesInOrder
    CompanionCurrent
