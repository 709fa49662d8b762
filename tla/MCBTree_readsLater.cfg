SPECIFICATION Spec
CONSTANTS
    Key <- Keys
    Cursor = {c1}
    Nowhere <- Nothing
    NoRow <- None
    Usable = 42
    FileHeader = 10
    Divider = 7
    TrunkLeaves = 2
    Tree <- Trees
    SplitsOverFreePages = FALSE
    ReadsLater = TRUE
    StepsBackFromNothing = FALSE
PROPERTY ImplementsOrderedTable
CHECK_DEADLOCK FALSE
