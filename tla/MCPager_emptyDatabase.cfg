SPECIFICATION Spec
CONSTANTS
    p1 = p1  p2 = p2  p3 = p3
    NoProc = NoProc
    Proc = {p1, p2}
    NPage = 2
    MaxTxn = 3
    Setups <- Empty
SYMMETRY Symmetric
VIEW Visible
INVARIANTS
    JournalIsMine
