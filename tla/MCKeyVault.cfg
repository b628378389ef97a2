CONSTANTS
    Tabs = {t1, t2}
    Colleague = {2, 3}
    MaxGen = 3
    MaxKeys = 2
    MaxPasses = 2
    Faults = {"restore", "forge", "swap", "retire", "lose", "storage", "reload"}
    MaxFaults = 1
SPECIFICATION Spec
SYMMETRY Symmetry
INVARIANTS RingIsVouched GivenToPinned NoRetiredWrite
PROPERTIES PinReplacedByYes AgreesWithMemory
CHECK_DEADLOCK FALSE
