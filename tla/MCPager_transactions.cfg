SPECIFICATION Spec
CONSTANTS
    p1 = p1  p2 = p2  p3 = p3
    NoProc = NoProc
    Proc = {p1, p2, p3}
    NPage = 4
    MaxTxn = 3
    Setups <- Transactions
SYMMETRY Symmetric
VIEW Visible
INVARIANTS
    TypeOK
    CacheIsCurrent
    WriteAhead
    HeaderIsFinal
PROPERTY ImplementsAtomicStore
