SPECIFICATION FairSpec
CONSTANTS
    MaxVersion = 5
    Torn = Torn
INVARIANTS
    NoTornReplay
PROPERTIES
    RefinesRegister
    Delivered
