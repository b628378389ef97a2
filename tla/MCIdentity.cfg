CONSTANTS
    Tabs = {t1, t2}
    Browsers = {b1, b2}
    Layouts <- AnyLayout
    Accounts = {"password", "linked", "sso"}
    MaxKeys = 2
    MaxEpochs = 2
    MaxCodes = 2
    MaxVisits = 2
    Faults = {"drop", "lose", "refuse", "storage", "close"}
    MaxFaults = 2
SPECIFICATION Spec
SYMMETRY Symmetry
INVARIANTS SomeoneHolds CopyOpens
PROPERTIES ListedOnce CopyReplacedKnowingly
CHECK_DEADLOCK FALSE
