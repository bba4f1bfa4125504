SPECIFICATION LiveFairSpec
CONSTANTS
    Vals = {0, 1, 2}
    MaxEdits = 3
    MaxSets = 1
    Places = {"own", "shared", "excess"}
    Manners = {"adopts", "decides"}
PROPERTIES
    NoJumpBack
    AdoptedConverges
