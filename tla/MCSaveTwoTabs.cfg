CONSTANTS
    Tabs = {t1, t2}
    MaxEdits = 2
    MaxSeals = 2
    MaxGen = 1
    FaultKinds = {}
    MaxFaults = 0
    Moves = FALSE
SPECIFICATION Spec
SYMMETRY TabSymmetry
INVARIANTS AckedCacheIsVersion ConflictedIsRecorded
PROPERTIES AckedIsHeld
CHECK_DEADLOCK FALSE
