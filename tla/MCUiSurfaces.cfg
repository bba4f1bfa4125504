SPECIFICATION FairSpec
CONSTANTS
    Mods = {A, B}
    MaxSurfaces = 2
    MaxWidgets = 2
    Buttons <- ButtonNames
    Worlds <- WorldsOfMods
INVARIANTS
    PendingIsStored
    ReachesItsCallback
PROPERTIES
    SnapshotFaithful
    EventuallyDelivered
