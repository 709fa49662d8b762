SPECIFICATION Spec
CONSTANTS
    Key <- Keys
    Cursor = {c1}
    Nowhere <- Nothing
    NoRow <- None
    Usable = 42
    FileHeader = 10
    Divider = 7
    TrunkLeaves = 2
    Tree <- RootSplits
    SplitsOverFreePages = TRUE
    ReadsLater = FALSE
    StepsBackFromNothing = FALSE
INVARIANT PointerMapTrue
CHECK_DEADLOCK FALSE
