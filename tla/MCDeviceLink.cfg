CONSTANTS
    Tabs = {t1}
    MaxRequests = 2
    MaxKeys = 3
    MaxResets = 1
    Faults = {"lose", "revoke", "forget", "setup", "alter"}
    MaxFaults = 1
SPECIFICATION Spec
INVARIANTS SealedForTyped KeptIsSent
PROPERTIES OwnKeyStays AttemptEnds
CHECK_DEADLOCK FALSE
