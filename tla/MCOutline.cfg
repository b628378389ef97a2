CONSTANTS
    Tabs = {t1, t2}
    Browsers = {b1, b2}
    Pages = {1, 2, 3}
    Sections = {4, 5}
    Groups = {6, 7, 8}
    Base = 4
    MaxKey = 3
    MaxDepth = 2
    MaxOps = 2
    MaxFaults = 1
    MaxDrains = 1
    OpenPages = {2}
    Starts <- Books
SPECIFICATION Spec
SYMMETRY Symmetry
INVARIANTS VersionNamesPlacement GroupTreeSound
PROPERTIES MovedInOrder BlockKeepsShape GroupMoveShows EmptiedBeforeDelete
CHECK_DEADLOCK FALSE
