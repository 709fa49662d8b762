SPECIFICATION Spec
CONSTANTS
    MaxPage = 3
    MaxCalls = 3
    Modes = {"normal"}
    MovesUnflagged = TRUE
PROPERTY ImplementsNestedStore
CHECK_DEADLOCK FALSE
