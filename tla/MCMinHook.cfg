SPECIFICATION Spec
CONSTANTS
    f = f
    g = g
    Targets = {f, g}
    Threads = {t1}
    Blocks = {p1, p2}
    SLOTS = 1
    Programs <- MCPrograms
SYMMETRY Interchangeable
CHECK_DEADLOCK FALSE
INVARIANTS
    TablesAgree
    RunsOwnCode
PROPERTIES
    FaithfulCopy
    LeavesNobody
