SPECIFICATION Spec
CONSTANTS
    p1 = p1  p2 = p2  p3 = p3
    NoProc = NoProc
    Proc = {p1}
    NPage = 2
    MaxTxn = 2
    Setups <- SharedCache
VIEW Visible
INVARIANTS
    CacheIsCurrent
