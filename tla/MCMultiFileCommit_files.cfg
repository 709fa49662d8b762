SPECIFICATION Spec
CONSTANTS
    p1 = p1  p2 = p2  f1 = f1  f2 = f2  f3 = f3  m1 = m1  m2 = m2  m3 = m3
    NoMaster = NoMaster  Absent = Absent  NoFile = NoFile
    Proc = {p1, p2}
    File = {f1, f2}
    Master = {m1, m2}
    MaxTxn = 2
    MaxEvents = 3
    RetriesBusy = FALSE
    AfterRollback = FALSE
SYMMETRY Symmetric
VIEW Visible
INVARIANTS
    TypeOK
    KnownToMaster
PROPERTY ImplementsAtomicFiles
