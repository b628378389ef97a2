CONSTANTS
    Tabs = {t1}
    MaxEdits = 2
    MaxSeals = 2
    MaxGen = 2
    FaultKinds = {"crash", "storage", "lose", "delete", "demote", "rotate", "forget", "refuse"}
    MaxFaults = 1
    Moves = TRUE
SPECIFICATION Spec
INVARIANTS NoOtherEditLost RetryIsQuiet
PROPERTIES EditedFromKnownHead QueueDrains
CHECK_DEADLOCK FALSE
