SPECIFICATION Spec
CONSTANTS
    p1 = p1  p2 = p2  p3 = p3
    NoProc = NoProc
    Proc = {p1, p2}
    NPage = 3
    MaxTxn = 3
    Setups <- Unlocked
SYMMETRY Symmetric
VIEW Visible
INVARIANTS
    JournalIsMine
