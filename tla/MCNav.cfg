CONSTANTS
    Books = {"a", "b", "n"}
    Pages = {1, 2, 3}
    Home <- Owner
    Slots = {1, 2}
    MaxCalls = 3
    MaxRounds = 2
    NoBook = NoBook
    NoPage = NoPage
    FirstBooks = {"a", "b"}
    FirstPages = {1, 2}
    FirstMarked = {"b"}
SPECIFICATION Spec
INVARIANTS OnlyItsOwn SealedUnderOwn LastChoiceShown MarkedIsPinned
