SPECIFICATION Spec
CONSTANTS
    p1 = p1  p2 = p2  p3 = p3
    NoProc = NoProc
    Proc = {p1, p2}
    NPage = 3
    MaxTxn = 2
    Setups <- Refused
SYMMETRY Symmetric
VIEW Visible
INVARIANTS
    HeaderIsFinal
PROPERTIES
    PowerFailureKeepsCommits
