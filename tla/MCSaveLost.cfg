CONSTANTS
    Tabs = {t1}
    MaxEdits = 3
    MaxSeals = 3
    MaxGen = 1
    Moves = FALSE
    FaultKinds = {"lose"}
    MaxFaults = 1
SPECIFICATION Spec
INVARIANTS NoEditLost
CHECK_DEADLOCK FALSE
