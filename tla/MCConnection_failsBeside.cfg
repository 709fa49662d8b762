SPECIFICATION Spec
CONSTANTS
    c1 = c1  c2 = c2  s1 = s1  s2 = s2  s3 = s3  t1 = t1  t2 = t2  master = master
    NoConn = NoConn
    NoStmt = NoStmt
    Conn = {c1, c2}
    Stmt = {s1, s2, s3}
    Owner <- ThreeStatements
    Table = {master, t1}
    Master = master
    ReadUncommitted = {c2}
    MaxWrite = 2
    CountChanges = FALSE
    BusyOnReset = FALSE
    FailsBesideOthers = TRUE
SYMMETRY Symmetric
PROPERTIES
    FailedLeavesNothing
