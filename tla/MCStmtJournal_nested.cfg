SPECIFICATION Spec
CONSTANTS
    MaxPage = 3
    MaxCalls = 3
    Modes = {"normal", "off", "temp"}
    MovesUnflagged = FALSE
INVARIANTS
    TypeOK
    AssertsHold
    SizeWritten
PROPERTY ImplementsNestedStore
CHECK_DEADLOCK FALSE
