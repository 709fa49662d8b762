SPECIFICATION Spec
CONSTANTS
    Key <- Keys
    Cursor = {c1}
    Nowhere <- Nothing
    NoRow <- None
    Usable = 42
    FileHeader = 10
    Divider = 7
    TrunkLeaves = 2
    Tree <- Trees
    SplitsOverFreePages = FALSE
    ReadsLater = FALSE
    StepsBackFromNothing = TRUE
PROPERTY ImplementsOrderedTable
CHECK_DEADLOCK FALSE
